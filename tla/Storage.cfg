\* The log: three tasks behind the server's mutex, records that fill, straddle or
\* exceed a segment.  The heap: one relation of two pages of two short rows, or one
\* long one; two sessions.  Recovery: segments of four units, read with a segment
\* size of sixteen; a writer of each kind, three records, two crashes.
SPECIFICATION StorageSpec
CONSTANTS
  Tasks = {t1, t2, t3}
  SegmentSize = 4
  Sizes = {2, 3, 5}
  Serialized = TRUE
  MaxRecords = 3
  Nobody = Nobody
  PageSize = 12
  PageHeaderSize = 2
  LinePointerSize = 1
  Sessions = {s1, s2}
  Relations = {r1}
  Keys = {"k1", "k2"}
  NoSession = NoSession
  NoPage = NoPage
  TupleLen <- RowLengths
  MaxPage = 2
  MaxXid = 5
  MaxScans = 2
  Snapshots <- EarlySnapshots
  TupleLens = {2, 3}
  MaxTuples = 4
  PageCutoffs = {1, 2}
  WriterSize = 4
  ReaderSize = 16
  ReaderSegments = 2
  ZeroLength = 2
  Lengths = {2, 3}
  Executors = {e1}
  PoolUsers = {p1}
  MaxChanges = 3
  MaxCrashes = 2
SYMMETRY StorageSymmetry
INVARIANTS
  RangesDisjoint
  NoStraddling
  AckedIsFlushed
  FlushedIsWritten
  
  
  PageSound
  
  
PROPERTIES
  
  VacuumInvisible
