------------------------------ MODULE Recovery ------------------------------
(***************************************************************************)
(* The log, the checkpointer and what happens around a crash: WAL::append  *)
(* and flush (wal/mod.rs), Checkpointer::do_checkpoint (buffer_cache) and  *)
(* WalRecovery (wal/recovery.rs).                                          *)
(*                                                                         *)
(* Writers come in two kinds.  The executor writes a page to storage and   *)
(* then appends its record.  A user of the buffer pool changes the page in *)
(* the pool, marks it dirty and appends; the page reaches storage when it  *)
(* is flushed.  After a crash the pages of the log are handed to recover() *)
(* together with a control file that holds the last redo point.            *)
(***************************************************************************)
EXTENDS Codec, FiniteSets

CONSTANTS
    WriterSize,         \* segment size of the WAL (8192 in the server)
    ReaderSize,         \* segment size recover() computes with (16 MiB)
    ReaderSegments,     \* segments recover() looks at (10)
    ZeroLength,         \* length of the record that zero bytes decode to
    Lengths,            \* lengths of the records appended
    Executors, PoolUsers,
    MaxChanges, MaxCrashes

ASSUME SizesAssumption ==
    /\ WriterSize \in Nat \ {0} /\ ReaderSize \in Nat /\ ReaderSize >= WriterSize
    /\ \A len \in Lengths : len \in 1..WriterSize
    /\ ZeroLength \in Nat \ {0} /\ ReaderSegments \in Nat

Writers == Executors \cup PoolUsers

VARIABLES
    end_lsn,        \* WAL::current_lsn
    durable_lsn,    \* WAL::flushed_lsn
    records,        \* the records in the log's pages: place, length, writer
    redo_lsn,       \* CheckpointState
    phase,          \* of do_checkpoint: "none", "pages", "wal"
    pending,        \* writers between their page and their record
    dirty,          \* page changes that are in the pool only
    stored,         \* page changes that are in storage
    late,           \* history: pool changes made while a checkpoint was under way
    control,        \* the control file's bytes
    up,             \* "running", "crashed" or "recovered"
    result,         \* what recover() replayed and returned
    crashes,
    resaved         \* history: the control file was saved after a recovery

recVars == <<end_lsn, durable_lsn, records, redo_lsn, phase, pending, dirty,
             stored, late, control, up, result, crashes, resaved>>

\* ControlFile::create, with the fields the rest does not look at by name.
CreateControl == [f \in DOMAIN ControlFileReads |->
    CASE f \in {"redo_lsn", "check_point_lsn", "time_checkpoint"} -> 0
      [] f = "timeline" -> 1
      [] OTHER -> f]

RecoveryInit ==
    /\ end_lsn = 0 /\ durable_lsn = 0
    /\ records = {}
    /\ redo_lsn = 0 /\ phase = "none"
    /\ pending = {} /\ dirty = {} /\ stored = {} /\ late = {}
    /\ control = SerializeFields(ControlFileFields, CreateControl)
    /\ up = "running"
    /\ result = [replayed_lsn |-> 0, replayed |-> {}]
    /\ crashes = 0 /\ resaved = FALSE

\* Where append puts a record: not across the end of a segment.
Place(len) ==
    LET offset == end_lsn % WriterSize
    IN  IF offset + len > WriterSize THEN end_lsn + WriterSize - offset ELSE end_lsn

\* A change is named by its writer and a number.
NextChange(w) == <<w, Cardinality({r \in records : r.change[1] = w})>>

\* The page half of a write.
ChangePage(w) ==
    /\ up = "running"
    /\ w \notin pending
    /\ Cardinality(records) + Cardinality(pending) < MaxChanges
    /\ pending' = pending \cup {w}
    /\ IF w \in PoolUsers
       THEN dirty' = dirty \cup {NextChange(w)} /\ UNCHANGED stored
       ELSE stored' = stored \cup {NextChange(w)} /\ UNCHANGED dirty
    /\ late' = IF w \in PoolUsers /\ phase # "none" THEN late \cup {NextChange(w)} ELSE late
    /\ UNCHANGED <<end_lsn, durable_lsn, records, redo_lsn, phase, control,
                   up, result, crashes, resaved>>

\* WAL::append.
AppendToLog(w, len) ==
    /\ up = "running"
    /\ w \in pending
    /\ records' = records \cup {[lsn |-> Place(len), len |-> len, change |-> NextChange(w)]}
    /\ end_lsn' = Place(len) + len
    /\ pending' = pending \ {w}
    /\ UNCHANGED <<durable_lsn, redo_lsn, phase, dirty, stored, late, control, up, result, crashes, resaved>>

\* WAL::flush by a session that commits.
Flush ==
    /\ up = "running"
    /\ durable_lsn < end_lsn
    /\ durable_lsn' = end_lsn
    /\ UNCHANGED <<end_lsn, records, redo_lsn, phase, pending, dirty, stored, late,
                   control, up, result, crashes, resaved>>

-----------------------------------------------------------------------------
\* Mutant of CheckpointPages: the dirty flags are cleared, nothing is written.
CheckpointPages_NotWritten ==
    /\ up = "running"
    /\ phase = "none"
    /\ phase' = "pages"
    /\ dirty' = {}
    /\ UNCHANGED <<end_lsn, durable_lsn, records, redo_lsn, pending, stored, late,
                   control, up, result, crashes, resaved>>

\* do_checkpoint, phase 1: flush_dirty_pages.
CheckpointPages ==
    /\ up = "running"
    /\ phase = "none"
    /\ phase' = "pages"
    /\ stored' = stored \cup dirty
    /\ dirty' = {}
    /\ UNCHANGED <<end_lsn, durable_lsn, records, redo_lsn, pending, late, control,
                   up, result, crashes, resaved>>

\* Phase 2: wal.flush().
CheckpointWal ==
    /\ up = "running"
    /\ phase = "pages"
    /\ phase' = "wal"
    /\ durable_lsn' = end_lsn
    /\ UNCHANGED <<end_lsn, records, redo_lsn, pending, dirty, stored, late, control,
                   up, result, crashes, resaved>>

\* Phase 3 reads flushed_lsn again: a session may have flushed in between.
CheckpointRedo ==
    /\ up = "running"
    /\ phase = "wal"
    /\ phase' = "none"
    /\ redo_lsn' = durable_lsn
    /\ UNCHANGED <<end_lsn, durable_lsn, records, pending, dirty, stored, late, control,
                   up, result, crashes, resaved>>

\* The owner of the control file records the redo point: save_control_file.
SaveControl ==
    LET c == DeserializeFields(ControlFileReads, control) IN
    /\ up = "running"
    /\ c.redo_lsn # redo_lsn
    /\ control' = SerializeFields(ControlFileFields,
                     [c EXCEPT !.redo_lsn = redo_lsn, !.check_point_lsn = durable_lsn])
    /\ UNCHANGED <<end_lsn, durable_lsn, records, redo_lsn, phase, pending, dirty,
                   stored, late, up, result, crashes, resaved>>

\* A crash: the pool, the writers and the checkpointer are gone.
Crash ==
    /\ up # "crashed"
    /\ crashes < MaxCrashes
    /\ crashes' = crashes + 1
    /\ up' = "crashed"
    /\ pending' = {} /\ dirty' = {} /\ phase' = "none"
    /\ UNCHANGED <<end_lsn, durable_lsn, records, redo_lsn, stored, late, control,
                   result, resaved>>

-----------------------------------------------------------------------------
\* The segments the loop of recover() reads.  A page that was never written
\* reads as zeros (both storages), so the loop never ends early.
ReadSegments(redo) == (redo \div ReaderSize)..(redo \div ReaderSize + ReaderSegments - 1)

SegmentOf(r) == r.lsn \div WriterSize
OffsetOf(r) == r.lsn % WriterSize

\* The place recover() computes for a record: its own segment size, the offset
\* in the page.
ReaderLsn(r) == SegmentOf(r) * ReaderSize + OffsetOf(r)

\* Mutant of Replayed: the record at the redo point itself is skipped.
Replayed_AfterRedo(redo) ==
    {r \in records : SegmentOf(r) \in ReadSegments(redo) /\ ReaderLsn(r) > redo}

Replayed(redo) ==
    {r \in records : SegmentOf(r) \in ReadSegments(redo) /\ ReaderLsn(r) >= redo}

\* Where the reader stands at the end of a segment.  Zero bytes decode as Begin
\* records of transaction 0: it walks on to the end of the page in steps of
\* ZeroLength.
EndOfSegment(s) ==
    LET ends == {0} \cup {OffsetOf(r) + r.len : r \in {x \in records : SegmentOf(x) = s}}
        used == CHOOSE n \in ends : \A m \in ends : m <= n
    IN  s * ReaderSize + used + ((WriterSize - used) \div ZeroLength) * ZeroLength

\* from_control_file and recover(): replay, and move the redo point of the
\* control data in memory to where the reader stopped.
Recover ==
    LET c == DeserializeFields(ControlFileReads, control)
        last == c.redo_lsn \div ReaderSize + ReaderSegments - 1
    IN  /\ up = "crashed"
        /\ up' = "recovered"
        /\ result' = [replayed_lsn |-> EndOfSegment(last), replayed |-> Replayed(c.redo_lsn)]
        /\ UNCHANGED <<end_lsn, durable_lsn, records, redo_lsn, phase, pending,
                       dirty, stored, late, control, crashes, resaved>>

\* save_control_file after recover().
SaveRecovered ==
    LET c == DeserializeFields(ControlFileReads, control) IN
    /\ up = "recovered"
    /\ ~resaved
    /\ resaved' = TRUE
    /\ control' = SerializeFields(ControlFileFields,
                     [c EXCEPT !.redo_lsn = result.replayed_lsn,
                               !.check_point_lsn = result.replayed_lsn])
    /\ UNCHANGED <<end_lsn, durable_lsn, records, redo_lsn, phase, pending, dirty,
                   stored, late, up, result, crashes>>

RecoveryNext ==
    \/ \E w \in Writers : ChangePage(w) \/ \E len \in Lengths : AppendToLog(w, len)
    \/ Flush
    \/ CheckpointPages \/ CheckpointWal \/ CheckpointRedo
    \/ SaveControl
    \/ Crash
    \/ Recover
    \/ SaveRecovered

RecoverySpec == RecoveryInit /\ [][RecoveryNext]_recVars

-----------------------------------------------------------------------------
(* Every page change logged before the redo point is in storage, so that    *)
(* replay may start there, for every order of writers, checkpoints and      *)
(* crashes; the exceptions are changes made in the pool while a checkpoint  *)
(* was under way, after it had flushed the pages.                           *)
RedoCoversPages == \A r \in records : r.lsn < redo_lsn => r.change \in stored \cup late

(* Recovery misses no record from the redo point on, as long as the log has *)
(* no more segments than it looks at, although it computes places with a    *)
(* segment size of its own, and the redo point goes through the bytes of    *)
(* the control file.  A second crash changes nothing, unless the control    *)
(* file was saved after the first recovery: its redo point is then beyond   *)
(* the end of the log.  Likewise every other structure that recovery or a   *)
(* page reader takes from bytes is the one that was written.                *)
NothingMissed ==
    up = "recovered" /\ ~resaved =>
      /\ LayoutsAgree
      /\ \A r \in records :
           \/ r.lsn < redo_lsn
           \/ r \in result.replayed
           \/ SegmentOf(r) >= ReaderSegments

=============================================================================
