---------------------------------- MODULE Wal ----------------------------------
(***************************************************************************)
(* The write-ahead log of src/src/wal/mod.rs: append, flush and            *)
(* ensure_flushed, called by several tasks.                                *)
(*                                                                         *)
(* append reserves its place under the current_lsn mutex and then, without *)
(* it, reads the segment's page, copies the record in and writes the page  *)
(* back.  The server keeps the WAL in one more mutex (Serialized), which an*)
(* append holds to its end; the checkpointer and the tests share the WAL   *)
(* without it.                                                             *)
(*                                                                         *)
(* A segment's page is the set of the records whose bytes it holds: ranges *)
(* of different records do not overlap (RangesDisjoint), so that copying   *)
(* one in leaves the others of the same page image alone.                  *)
(***************************************************************************)
EXTENDS Naturals, FiniteSets

CONSTANTS
  Tasks,         \* tasks that use the log
  SegmentSize,   \* bytes in a segment, one page of storage each
  Sizes,         \* sizes of serialized records
  Serialized,    \* whether the WAL is behind the server's mutex
  MaxRecords,    \* bound: records appended in all
  Nobody         \* the server's mutex is free

ASSUME WalConstants ==
  /\ SegmentSize \in Nat \ {0}
  /\ Sizes \subseteq Nat \ {0}
  /\ Serialized \in BOOLEAN
  /\ MaxRecords \in Nat
  /\ Nobody \notin Tasks

VARIABLES
  current_lsn,   \* next free position
  flushed_lsn,   \* everything below it is taken for durable
  count,         \* records reserved so far; they are numbered from 1
  at,            \* record -> its lsn
  size,          \* record -> its size
  written,       \* records whose bytes are in storage
  broken,        \* records whose append panicked
  pc,            \* task -> where it is
  op,            \* task -> what it does once its record is appended
  mine,          \* task -> its record
  image,         \* task -> the segment page it read, as a set of records
  seen,          \* task -> the current_lsn that ensure_flushed read
  server_lock,   \* holder of the server's mutex
  acked          \* history: records whose commit or ensure_flushed returned

vars == <<current_lsn, flushed_lsn, count, at, size, written, broken, pc, op, mine,
          image, seen, server_lock, acked>>

Records == 1 .. count

Segment(r) == at[r] \div SegmentSize

End(r) == at[r] + size[r]

(* The server's mutex is there for the task to take. *)
Free == Serialized => server_lock = Nobody

Take(t) == server_lock' = IF Serialized THEN t ELSE server_lock

Release(t) == server_lock' = IF Serialized THEN Nobody ELSE server_lock

Goto(t, where) == pc' = [pc EXCEPT ![t] = where]

Init ==
  /\ current_lsn = 0
  /\ flushed_lsn = 0
  /\ count = 0
  /\ at = [r \in 1 .. MaxRecords |-> 0]
  /\ size = [r \in 1 .. MaxRecords |-> 0]
  /\ written = {}
  /\ broken = {}
  /\ pc = [t \in Tasks |-> "idle"]
  /\ op = [t \in Tasks |-> "log"]
  /\ mine = [t \in Tasks |-> 0]
  /\ image = [t \in Tasks |-> {}]
  /\ seen = [t \in Tasks |-> 0]
  /\ server_lock = Nobody
  /\ acked = {}

------------------------------------------------------------------------------
(* append *)

(* Mutant of place: no padding to the next segment.                        *)
place_unpadded(n) == current_lsn

(* A record that does not fit in what is left of the segment goes to the   *)
(* next one.                                                               *)
place(n) ==
  LET offset == current_lsn % SegmentSize
  IN  IF offset + n > SegmentSize THEN current_lsn + (SegmentSize - offset)
                                  ELSE current_lsn

(* Mutant of Reserve: the padding is not counted in current_lsn.           *)
ReserveUncounted(t, n, what) ==
  /\ pc[t] = "idle" /\ Free
  /\ count < MaxRecords
  /\ count' = count + 1
  /\ at' = [at EXCEPT ![count + 1] = place(n)]
  /\ size' = [size EXCEPT ![count + 1] = n]
  /\ current_lsn' = current_lsn + n
  /\ mine' = [mine EXCEPT ![t] = count + 1]
  /\ op' = [op EXCEPT ![t] = what]
  /\ Take(t)
  /\ Goto(t, "read")
  /\ UNCHANGED <<flushed_lsn, written, broken, image, seen, acked>>

Reserve(t, n, what) ==
  /\ pc[t] = "idle" /\ Free
  /\ count < MaxRecords
  /\ count' = count + 1
  /\ at' = [at EXCEPT ![count + 1] = place(n)]
  /\ size' = [size EXCEPT ![count + 1] = n]
  /\ current_lsn' = place(n) + n
  /\ mine' = [mine EXCEPT ![t] = count + 1]
  /\ op' = [op EXCEPT ![t] = what]
  /\ Take(t)
  /\ Goto(t, "read")
  /\ UNCHANGED <<flushed_lsn, written, broken, image, seen, acked>>

ReadPage(t) ==
  /\ pc[t] = "read"
  /\ image' = [image EXCEPT ![t] = {r \in written : Segment(r) = Segment(mine[t])}]
  /\ Goto(t, "write")
  /\ UNCHANGED <<current_lsn, flushed_lsn, count, at, size, written, broken, op, mine,
                 seen, server_lock, acked>>

(* Mutant of WritePage: the page is written without what it held.          *)
WritePageFresh(t) ==
  /\ pc[t] = "write"
  /\ size[mine[t]] <= SegmentSize
  /\ written' = {r \in written : Segment(r) # Segment(mine[t])} \cup {mine[t]}
  /\ Release(t)
  /\ Goto(t, CASE op[t] = "log" -> "idle" [] op[t] = "commit" -> "flush"
               [] op[t] = "ensure" -> "ensure")
  /\ UNCHANGED <<current_lsn, flushed_lsn, count, at, size, broken, op, mine, image,
                 seen, acked>>

(* The whole page is written back; append returns and the server's mutex   *)
(* is dropped.                                                             *)
WritePage(t) ==
  /\ pc[t] = "write"
  /\ size[mine[t]] <= SegmentSize
  /\ written' = {r \in written : Segment(r) # Segment(mine[t])}
                  \cup image[t] \cup {mine[t]}
  /\ Release(t)
  /\ Goto(t, CASE op[t] = "log" -> "idle" [] op[t] = "commit" -> "flush"
               [] op[t] = "ensure" -> "ensure")
  /\ UNCHANGED <<current_lsn, flushed_lsn, count, at, size, broken, op, mine, image,
                 seen, acked>>

(* copy_from_slice panics when the record is larger than the page; the     *)
(* unwinding task drops the mutex and its place in the log stays a hole.   *)
AppendPanics(t) ==
  /\ pc[t] = "write"
  /\ size[mine[t]] > SegmentSize
  /\ broken' = broken \cup {mine[t]}
  /\ Release(t)
  /\ Goto(t, "idle")
  /\ UNCHANGED <<current_lsn, flushed_lsn, count, at, size, written, op, mine, image,
                 seen, acked>>

------------------------------------------------------------------------------
(* flush: both lsn mutexes are held for the one assignment.                *)
flush(t) ==
  /\ pc[t] = "flush" /\ Free
  /\ flushed_lsn' = current_lsn
  /\ acked' = acked \cup {mine[t]}
  /\ Goto(t, "idle")
  /\ UNCHANGED <<current_lsn, count, at, size, written, broken, op, mine, image, seen,
                 server_lock>>

(* A flush by a task with nothing to wait for.                             *)
FlushAlone(t) ==
  /\ pc[t] = "idle" /\ Free
  /\ flushed_lsn # current_lsn
  /\ flushed_lsn' = current_lsn
  /\ UNCHANGED <<current_lsn, count, at, size, written, broken, pc, op, mine, image,
                 seen, server_lock, acked>>

(* ensure_flushed reads the two lsns one after the other.                  *)
EnsureReadCurrent(t) ==
  /\ pc[t] = "ensure" /\ Free
  /\ seen' = [seen EXCEPT ![t] = current_lsn]
  /\ Take(t)
  /\ Goto(t, "compare")
  /\ UNCHANGED <<current_lsn, flushed_lsn, count, at, size, written, broken, op, mine,
                 image, acked>>

(* Mutant of EnsureCompare: a record that starts at flushed_lsn is taken   *)
(* for flushed.                                                            *)
EnsureCompareStrict(t) ==
  /\ pc[t] = "compare"
  /\ IF seen[t] > flushed_lsn /\ at[mine[t]] > flushed_lsn
     THEN Goto(t, "ensure_flush") /\ UNCHANGED <<acked, server_lock>>
     ELSE acked' = acked \cup {mine[t]} /\ Release(t) /\ Goto(t, "idle")
  /\ UNCHANGED <<current_lsn, flushed_lsn, count, at, size, written, broken, op, mine,
                 image, seen>>

EnsureCompare(t) ==
  /\ pc[t] = "compare"
  /\ IF seen[t] > flushed_lsn /\ at[mine[t]] >= flushed_lsn
     THEN Goto(t, "ensure_flush") /\ UNCHANGED <<acked, server_lock>>
     ELSE acked' = acked \cup {mine[t]} /\ Release(t) /\ Goto(t, "idle")
  /\ UNCHANGED <<current_lsn, flushed_lsn, count, at, size, written, broken, op, mine,
                 image, seen>>

EnsureFlush(t) ==
  /\ pc[t] = "ensure_flush"
  /\ flushed_lsn' = current_lsn
  /\ acked' = acked \cup {mine[t]}
  /\ Release(t)
  /\ Goto(t, "idle")
  /\ UNCHANGED <<current_lsn, count, at, size, written, broken, op, mine, image, seen>>

------------------------------------------------------------------------------
Act(t) ==
  \/ \E n \in Sizes, what \in {"log", "commit", "ensure"} : Reserve(t, n, what)
  \/ ReadPage(t)
  \/ WritePage(t)
  \/ AppendPanics(t)
  \/ flush(t)
  \/ FlushAlone(t)
  \/ EnsureReadCurrent(t)
  \/ EnsureCompare(t)
  \/ EnsureFlush(t)

(* The bound on records is used up and every call has returned.            *)
Rest ==
  /\ count = MaxRecords /\ flushed_lsn = current_lsn
  /\ \A t \in Tasks : pc[t] = "idle"
  /\ UNCHANGED vars

Next == (\E t \in Tasks : Act(t)) \/ Rest

Spec == Init /\ [][Next]_vars

------------------------------------------------------------------------------
(* The lsns are in order, a task in a call has a record of its own, and the*)
(* server's mutex is held exactly inside append and ensure_flushed.        *)
TypeOK ==
  /\ current_lsn \in Nat /\ flushed_lsn \in Nat /\ flushed_lsn <= current_lsn
  /\ count \in 0 .. MaxRecords
  /\ at \in [1 .. MaxRecords -> Nat]
  /\ size \in [1 .. MaxRecords -> Sizes \cup {0}]
  /\ written \subseteq Records /\ broken \subseteq Records /\ acked \subseteq Records
  /\ pc \in [Tasks -> {"idle", "read", "write", "flush", "ensure", "compare", "ensure_flush"}]
  /\ op \in [Tasks -> {"log", "commit", "ensure"}]
  /\ mine \in [Tasks -> 0 .. count]
  /\ image \in [Tasks -> SUBSET Records]
  /\ seen \in [Tasks -> Nat]
  /\ \A t \in Tasks :
       /\ pc[t] # "idle" => mine[t] \in Records
       /\ server_lock = t <=>
            Serialized /\ pc[t] \in {"read", "write", "compare", "ensure_flush"}

(* Places are handed out in order and never overlap, whoever appends.      *)
RangesDisjoint ==
  /\ \A q, r \in Records : q < r => End(q) <= at[r]
  /\ \A r \in Records : End(r) <= current_lsn

(* A record that fits into a segment lies in one: append's copy into one   *)
(* page is enough.                                                         *)
NoStraddling ==
  \A r \in Records :
    size[r] <= SegmentSize => (at[r] % SegmentSize) + size[r] <= SegmentSize

(* When commit's flush or ensure_flushed has returned, the log is taken for*)
(* durable up to the end of the caller's record, whoever did the flush.    *)
AckedIsFlushed == \A r \in acked : End(r) <= flushed_lsn

(* What flush declares durable is in storage, complete: no record below    *)
(* flushed_lsn was still to be written or has been overwritten by the      *)
(* write-back of an older image of its page.                               *)
FlushedIsWritten ==
  \A r \in Records \ broken : End(r) <= flushed_lsn => r \in written
==============================================================================
