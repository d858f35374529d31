\* The B-tree: five keys, one of them empty and one long, two rows per key, five
\* inserts; pages of two and three entries.  Indexes: two tuple ids, keys that
\* collide, terms in both cases, blocks in two ranges; four calls.  Queries: tables
\* of up to three rows with ties, nulls and numbers whose texts sort differently.
\* Catalog: two clients, a new name and that of a system table.  Parallel: two calls of three workers.
SPECIFICATION ExecutionSpec
CONSTANTS
  Keys = {0, 1, 2, 3, 4}
  KeyLen <- Lengths60
  Pointers = {101, 102}
  PageSizes = {128, 192}
  MaxEntries = 5
  TupleIds = {1, 2}
  HashKeys <- ShortKeys
  HashSpace = 4096
  Terms <- McTerms
  PagesPerRange = 2
  NullTexts = {0, 2}
  Blocks = {0, 1, 3}
  Values = {0, 1, 2, 3}
  Coords = {2, 4}
  MaxPartitions = 2
  MaxCalls = 4
  KeyColumn = 1
  HashJoinLimit = 1
  NumberOf <- McNumberOf
  FalseText = 11
  TrueText = 12
  NullText = 10
  OtherNumber = 13
  LikeMatches = {}
  TextFunction <- McTextFunction
  Cases <- McCases
  Clients = {c1, c2}
  RelNames = {"t", "pg_class"}
  NoOid = 0
  MaxOid = 10003
  NWorkers = 3
  MaxExecutions = 2
  ByteValues <- McByteValues
  ColumnLists <- McColumnLists
  Entries <- McEntries
  NullBytes <- McNullBytes
INVARIANTS
  
  
  CatalogSound
  ParallelExact
PROPERTY ImplementsIndex
CHECK_DEADLOCK FALSE
