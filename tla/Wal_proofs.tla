------------------------------ MODULE Wal_proofs ------------------------------
(***************************************************************************)
(* Proofs about Wal for any number of tasks, records and segment sizes.    *)
(*                                                                         *)
(* AckedInv holds however the log is shared.  What flush declares         *)
(* durable is in storage only behind the server's mutex: WrittenInv says   *)
(* that the one task inside append is the only one with an unwritten       *)
(* record, and that the page it read is still current.                     *)
(***************************************************************************)
EXTENDS Wal, TLAPS

(* A task inside append. *)
Appending(t) == pc[t] \in {"read", "write"}

(* The positions of the records never change, and flushed_lsn is never     *)
(* inside a record.                                                        *)
Boundary == \A r \in Records : at[r] < flushed_lsn => End(r) <= flushed_lsn

(* The lsn ensure_flushed read is past its caller's record.                *)
SeenInv == \A t \in Tasks : pc[t] = "compare" => End(mine[t]) <= seen[t]

AckedInv == RangesDisjoint /\ Boundary /\ SeenInv /\ AckedIsFlushed

(* Behind the mutex, an unwritten record belongs to the task in append,    *)
(* whose page image is the current one.                                    *)
WrittenInv ==
  Serialized =>
    /\ \A r \in Records \ (written \cup broken) :
         \E t \in Tasks : mine[t] = r /\ Appending(t)
    /\ \A t \in Tasks : pc[t] = "write" =>
         image[t] = {r \in written : Segment(r) = Segment(mine[t])}

------------------------------------------------------------------------------
(* A record's place is a position at or after current_lsn.                 *)
LEMMA PlaceIsFree ==
  ASSUME TypeOK, NEW n \in Sizes
  PROVE  n \in Nat \ {0} /\ place(n) \in Nat /\ place(n) >= current_lsn
<1>1. n \in Nat \ {0} /\ current_lsn \in Nat /\ SegmentSize \in Nat \ {0}
  BY WalConstants DEF TypeOK
<1>2. current_lsn % SegmentSize \in 0 .. SegmentSize - 1
  BY <1>1
<1> QED
  BY <1>1, <1>2 DEF place

(* Inside append or ensure_flushed a task has the server's mutex, so no    *)
(* other task is there.                                                    *)
LEMMA MutexExcludes ==
  ASSUME TypeOK, Serialized, NEW t \in Tasks, NEW u \in Tasks, t # u,
         pc[t] \in {"read", "write", "compare", "ensure_flush"}
  PROVE  pc[u] \notin {"read", "write", "compare", "ensure_flush"}
BY DEF TypeOK

(* Reserving a place leaves the earlier records where they are.            *)
LEMMA ReserveFacts ==
  ASSUME TypeOK, NEW t \in Tasks, NEW n \in Sizes, NEW what, Reserve(t, n, what)
  PROVE  /\ count \in Nat /\ count' = count + 1 /\ count' \in 1 .. MaxRecords
         /\ at'[count + 1] = place(n) /\ size'[count + 1] = n
         /\ \A r \in Records : at'[r] = at[r] /\ size'[r] = size[r]
         /\ Records' = Records \cup {count + 1}
         /\ current_lsn' = place(n) + n /\ current_lsn' \in Nat
<1>1. count \in 0 .. MaxRecords /\ count < MaxRecords /\ count' = count + 1 /\ MaxRecords \in Nat
  BY WalConstants DEF TypeOK, Reserve
<1>2. count + 1 \in 1 .. MaxRecords /\ Records' = Records \cup {count + 1}
  BY <1>1 DEF Records
<1>3. at'[count + 1] = place(n) /\ size'[count + 1] = n
  BY <1>2 DEF TypeOK, Reserve
<1>4. \A r \in Records : at'[r] = at[r] /\ size'[r] = size[r]
  BY <1>1 DEF TypeOK, Reserve, Records
<1> QED
  BY <1>1, <1>2, <1>3, <1>4, PlaceIsFree DEF Reserve

(* Every step keeps the types and the place of the server's mutex. *)
LEMMA TypeOKStep == TypeOK /\ [Next]_vars => TypeOK'
<1> SUFFICES ASSUME TypeOK, [Next]_vars PROVE TypeOK'
  OBVIOUS
<1> USE WalConstants
<1>1. ASSUME NEW t \in Tasks, NEW n \in Sizes, NEW what \in {"log", "commit", "ensure"},
             Reserve(t, n, what)
      PROVE  TypeOK'
  <2>1. /\ count \in Nat /\ count' = count + 1 /\ count' \in 1 .. MaxRecords
        /\ Records' = Records \cup {count + 1}
        /\ current_lsn' = place(n) + n /\ current_lsn' \in Nat
    BY <1>1, ReserveFacts
  <2>2. place(n) \in Nat /\ place(n) >= current_lsn /\ n \in Nat
    BY PlaceIsFree
  <2>3. at' \in [1 .. MaxRecords -> Nat] /\ size' \in [1 .. MaxRecords -> Sizes \cup {0}]
    BY <1>1, <2>1, <2>2 DEF TypeOK, Reserve
  <2>4. flushed_lsn' \in Nat /\ flushed_lsn' <= current_lsn'
    BY <1>1, <2>1, <2>2 DEF TypeOK, Reserve
  <2>5. /\ written' \subseteq Records' /\ broken' \subseteq Records' /\ acked' \subseteq Records'
        /\ image' \in [Tasks -> SUBSET Records']
    BY <1>1, <2>1 DEF TypeOK, Reserve
  <2>6. /\ mine' \in [Tasks -> 0 .. count']
        /\ mine'[t] = count + 1 /\ \A u \in Tasks \ {t} : mine'[u] = mine[u]
    BY <1>1, <2>1 DEF TypeOK, Reserve
  <2>7. /\ pc' \in [Tasks -> {"idle", "read", "write", "flush", "ensure", "compare", "ensure_flush"}]
        /\ pc'[t] = "read" /\ pc[t] = "idle" /\ \A u \in Tasks \ {t} : pc'[u] = pc[u]
    BY <1>1 DEF TypeOK, Reserve, Goto
  <2>8. op' \in [Tasks -> {"log", "commit", "ensure"}] /\ seen' \in [Tasks -> Nat]
    BY <1>1 DEF TypeOK, Reserve
  <2>9. \A u \in Tasks : pc'[u] # "idle" => mine'[u] \in Records'
    BY <2>1, <2>6, <2>7 DEF TypeOK, Records
  <2>10. \A u \in Tasks : server_lock' = u <=>
            Serialized /\ pc'[u] \in {"read", "write", "compare", "ensure_flush"}
    BY <1>1, <2>7 DEF TypeOK, Reserve, Free, Take
  <2> QED
    BY <2>1, <2>3, <2>4, <2>5, <2>6, <2>7, <2>8, <2>9, <2>10 DEF TypeOK
<1>2. ASSUME NEW t \in Tasks, ReadPage(t) PROVE TypeOK'
  <2>1. image' \in [Tasks -> SUBSET Records']
    BY <1>2 DEF TypeOK, ReadPage, Records
  <2> QED
    BY <1>2, <2>1 DEF TypeOK, ReadPage, Goto, Records
<1>3. ASSUME NEW t \in Tasks, WritePage(t) PROVE TypeOK'
  <2>1. Records' = Records
    BY <1>3 DEF WritePage, Records
  <2>2. written' \subseteq Records'
    BY <1>3, <2>1 DEF TypeOK, WritePage
  <2>3. /\ pc' \in [Tasks -> {"idle", "read", "write", "flush", "ensure", "compare", "ensure_flush"}]
        /\ pc'[t] \in {"idle", "flush", "ensure"} /\ pc[t] = "write"
        /\ \A u \in Tasks \ {t} : pc'[u] = pc[u]
    BY <1>3 DEF TypeOK, WritePage, Goto
  <2>4. \A u \in Tasks : server_lock' = u <=>
            Serialized /\ pc'[u] \in {"read", "write", "compare", "ensure_flush"}
    BY <1>3, <2>3 DEF TypeOK, WritePage, Release
  <2> QED
    BY <1>3, <2>1, <2>2, <2>3, <2>4 DEF TypeOK, WritePage
<1>4. ASSUME NEW t \in Tasks, AppendPanics(t) PROVE TypeOK'
  <2>1. /\ pc' \in [Tasks -> {"idle", "read", "write", "flush", "ensure", "compare", "ensure_flush"}]
        /\ pc'[t] = "idle" /\ pc[t] = "write" /\ \A u \in Tasks \ {t} : pc'[u] = pc[u]
    BY <1>4 DEF TypeOK, AppendPanics, Goto
  <2>2. \A u \in Tasks : server_lock' = u <=>
            Serialized /\ pc'[u] \in {"read", "write", "compare", "ensure_flush"}
    BY <1>4, <2>1 DEF TypeOK, AppendPanics, Release
  <2>3. Records' = Records /\ mine[t] \in Records
    BY <1>4, <2>1 DEF TypeOK, AppendPanics, Records
  <2> QED
    BY <1>4, <2>1, <2>2, <2>3 DEF TypeOK, AppendPanics
<1>5. ASSUME NEW t \in Tasks, flush(t) PROVE TypeOK'
  <2>1. /\ pc' \in [Tasks -> {"idle", "read", "write", "flush", "ensure", "compare", "ensure_flush"}]
        /\ pc'[t] = "idle" /\ pc[t] = "flush" /\ \A u \in Tasks \ {t} : pc'[u] = pc[u]
    BY <1>5 DEF TypeOK, flush, Goto
  <2>2. \A u \in Tasks : server_lock' = u <=>
            Serialized /\ pc'[u] \in {"read", "write", "compare", "ensure_flush"}
    BY <1>5, <2>1 DEF TypeOK, flush
  <2>3. Records' = Records /\ mine[t] \in Records
    BY <1>5, <2>1 DEF TypeOK, flush, Records
  <2> QED
    BY <1>5, <2>1, <2>2, <2>3 DEF TypeOK, flush
<1>6. ASSUME NEW t \in Tasks, FlushAlone(t) PROVE TypeOK'
  BY <1>6 DEF TypeOK, FlushAlone, Records
<1>7. ASSUME NEW t \in Tasks, EnsureReadCurrent(t) PROVE TypeOK'
  BY <1>7 DEF TypeOK, EnsureReadCurrent, Goto, Take, Free, Records
<1>8. ASSUME NEW t \in Tasks, EnsureCompare(t) PROVE TypeOK'
  <2>1. CASE pc' = [pc EXCEPT ![t] = "ensure_flush"] /\ UNCHANGED <<acked, server_lock>>
    BY <1>8, <2>1 DEF TypeOK, EnsureCompare, Records
  <2>2. CASE acked' = acked \cup {mine[t]} /\ Release(t) /\ pc' = [pc EXCEPT ![t] = "idle"]
    BY <1>8, <2>2 DEF TypeOK, EnsureCompare, Release, Records
  <2> QED
    BY <1>8, <2>1, <2>2 DEF EnsureCompare, Goto
<1>9. ASSUME NEW t \in Tasks, EnsureFlush(t) PROVE TypeOK'
  <2>1. /\ pc' \in [Tasks -> {"idle", "read", "write", "flush", "ensure", "compare", "ensure_flush"}]
        /\ pc'[t] = "idle" /\ pc[t] = "ensure_flush" /\ \A u \in Tasks \ {t} : pc'[u] = pc[u]
    BY <1>9 DEF TypeOK, EnsureFlush, Goto
  <2>2. \A u \in Tasks : server_lock' = u <=>
            Serialized /\ pc'[u] \in {"read", "write", "compare", "ensure_flush"}
    BY <1>9, <2>1 DEF TypeOK, EnsureFlush, Release
  <2>3. Records' = Records /\ mine[t] \in Records
    BY <1>9, <2>1 DEF TypeOK, EnsureFlush, Records
  <2> QED
    BY <1>9, <2>1, <2>2, <2>3 DEF TypeOK, EnsureFlush
<1>10. CASE UNCHANGED vars
  BY <1>10 DEF TypeOK, vars, Records
<1> QED
  BY <1>1, <1>2, <1>3, <1>4, <1>5, <1>6, <1>7, <1>8, <1>9, <1>10 DEF Next, Act, Rest

(* The log's counters, sets and mutex stay well typed; in particular       *)
(* flushed_lsn never passes current_lsn and the server's mutex is held     *)
(* exactly inside append and ensure_flushed.                               *)
THEOREM WalTypeCorrect == Spec => []TypeOK
<1>1. Init => TypeOK
  BY WalConstants DEF Init, TypeOK, Records
<1> QED
  BY <1>1, TypeOKStep, PTL DEF Spec

------------------------------------------------------------------------------
(* The positions of the records, and what is flushed: AckedInv is kept.    *)

(* A record that was reserved has its place and size in Nat.               *)
LEMMA PlacesAreNat ==
  ASSUME TypeOK
  PROVE  \A r \in Records : at[r] \in Nat /\ size[r] \in Nat /\ End(r) \in Nat
<1>1. Sizes \cup {0} \subseteq Nat /\ Records \subseteq 1 .. MaxRecords
  BY WalConstants DEF TypeOK, Records
<1>2. at \in [1 .. MaxRecords -> Nat] /\ size \in [1 .. MaxRecords -> Nat]
  BY <1>1 DEF TypeOK
<1> QED
  BY <1>1, <1>2 DEF End

(* Reserving keeps AckedInv: the new place is past everything flushed.     *)
LEMMA ReserveKeepsAcked ==
  ASSUME TypeOK, TypeOK', AckedInv,
         NEW t \in Tasks, NEW n \in Sizes, NEW what, Reserve(t, n, what)
  PROVE  AckedInv'
<1>0. PICK new : new = count + 1
  OBVIOUS
<1>1. /\ count \in Nat
      /\ at'[new] = place(n) /\ size'[new] = n
      /\ \A r \in Records : at'[r] = at[r] /\ size'[r] = size[r]
      /\ Records' = Records \cup {new}
      /\ current_lsn' = place(n) + n
  BY <1>0, ReserveFacts
<1>2. n \in Nat \ {0} /\ place(n) \in Nat /\ place(n) >= current_lsn
  BY PlaceIsFree
<1>3. flushed_lsn' = flushed_lsn /\ seen' = seen /\ acked' = acked
  BY DEF Reserve
<1>4. \A r \in Records : End(r)' = End(r)
  BY <1>1 DEF End
<1>5. End(new)' = current_lsn'
  BY <1>1 DEF End
<1>6. \A r \in Records : at[r] \in Nat /\ End(r) \in Nat
  BY PlacesAreNat
<1>7. \A r \in Records : r < new
  BY <1>0, <1>1 DEF Records
<1>8. current_lsn \in Nat /\ flushed_lsn \in Nat /\ flushed_lsn <= current_lsn
  BY DEF TypeOK
<1>9. RangesDisjoint'
  <2>1. \A r \in Records' : End(r)' <= current_lsn'
    BY <1>1, <1>2, <1>4, <1>5, <1>6, <1>8 DEF AckedInv, RangesDisjoint
  <2>2. ASSUME NEW q \in Records', NEW r \in Records', q < r PROVE End(q)' <= at'[r]
    <3>1. q \in Records
      BY <1>0, <1>1, <1>7, <2>2 DEF Records
    <3>2. CASE r \in Records
      BY <1>1, <1>4, <2>2, <3>1, <3>2 DEF AckedInv, RangesDisjoint
    <3>3. CASE r = new
      BY <1>1, <1>2, <1>4, <1>6, <1>8, <3>1, <3>3 DEF AckedInv, RangesDisjoint
    <3> QED
      BY <1>1, <3>2, <3>3
  <2> QED
    BY <2>1, <2>2 DEF RangesDisjoint
<1>10. Boundary'
  <2>1. \A r \in Records : at'[r] < flushed_lsn' => End(r)' <= flushed_lsn'
    BY <1>1, <1>3, <1>4 DEF AckedInv, Boundary
  <2>2. ~ (at'[new] < flushed_lsn')
    BY <1>1, <1>2, <1>3, <1>8
  <2> QED
    BY <1>1, <2>1, <2>2 DEF Boundary
<1>11. SeenInv'
  <2>1. \A u \in Tasks : pc'[u] = "compare" => u # t /\ pc[u] = "compare" /\ mine'[u] = mine[u]
    BY DEF TypeOK, Reserve, Goto
  <2>2. \A u \in Tasks : pc[u] = "compare" => mine[u] \in Records
    BY DEF TypeOK
  <2> QED
    BY <1>1, <1>3, <2>1, <2>2 DEF AckedInv, SeenInv, End
<1>12. AckedIsFlushed'
  <2>1. acked \subseteq Records
    BY DEF TypeOK
  <2> QED
    BY <1>3, <1>4, <2>1 DEF AckedInv, AckedIsFlushed
<1> QED
  BY <1>9, <1>10, <1>11, <1>12 DEF AckedInv

(* A step that leaves the records alone, flushes to current_lsn or not at  *)
(* all, and acknowledges only what is flushed, keeps AckedInv.             *)
LEMMA OtherKeepsAcked ==
  ASSUME TypeOK, TypeOK', AckedInv,
         UNCHANGED <<count, at, size, current_lsn, mine>>,
         flushed_lsn' \in {flushed_lsn, current_lsn},
         \A r \in acked' \ acked : r \in Records /\ End(r) <= flushed_lsn',
         \A t \in Tasks : pc'[t] = "compare" =>
           \/ pc[t] = "compare" /\ seen'[t] = seen[t]
           \/ pc[t] # "idle" /\ seen'[t] = current_lsn
  PROVE  AckedInv'
<1>1. Records' = Records /\ \A r \in Records : End(r)' = End(r) /\ End(r) \in Nat /\ at[r] \in Nat
  BY PlacesAreNat DEF Records, End
<1>2. current_lsn \in Nat /\ flushed_lsn \in Nat /\ flushed_lsn <= current_lsn
  BY DEF TypeOK
<1>3. RangesDisjoint'
  BY <1>1 DEF AckedInv, RangesDisjoint
<1>4. Boundary'
  BY <1>1 DEF AckedInv, Boundary, RangesDisjoint
<1>5. SeenInv'
  <2> SUFFICES ASSUME NEW t \in Tasks, pc'[t] = "compare" PROVE End(mine[t])' <= seen'[t]
    BY DEF SeenInv
  <2>1. End(mine[t])' = End(mine[t])
    BY DEF End
  <2>2. CASE pc[t] = "compare" /\ seen'[t] = seen[t]
    BY <2>1, <2>2 DEF AckedInv, SeenInv
  <2>3. CASE pc[t] # "idle" /\ seen'[t] = current_lsn
    <3>1. mine[t] \in Records
      BY <2>3 DEF TypeOK
    <3> QED
      BY <2>1, <2>3, <3>1 DEF AckedInv, RangesDisjoint
  <2> QED
    BY <2>2, <2>3
<1>6. AckedIsFlushed'
  <2>1. acked \subseteq Records
    BY DEF TypeOK
  <2> QED
    BY <1>1, <1>2, <2>1 DEF AckedInv, AckedIsFlushed
<1> QED
  BY <1>3, <1>4, <1>5, <1>6 DEF AckedInv

(* Every step keeps AckedInv.                                              *)
LEMMA AckedStep == TypeOK /\ AckedInv /\ [Next]_vars => AckedInv'
<1> SUFFICES ASSUME TypeOK, AckedInv, [Next]_vars PROVE AckedInv'
  OBVIOUS
<1>0. TypeOK'
  BY TypeOKStep
<1>a. \A t \in Tasks : pc[t] # "idle" => mine[t] \in Records /\ End(mine[t]) <= current_lsn
  BY DEF TypeOK, AckedInv, RangesDisjoint
<1>1. ASSUME NEW t \in Tasks, NEW n \in Sizes, NEW what \in {"log", "commit", "ensure"},
             Reserve(t, n, what)
      PROVE  AckedInv'
  BY <1>0, <1>1, ReserveKeepsAcked
<1>2. ASSUME NEW t \in Tasks, ReadPage(t) PROVE AckedInv'
  <2>1. \A u \in Tasks : pc'[u] = "compare" => pc[u] = "compare" /\ seen'[u] = seen[u]
    BY <1>2 DEF TypeOK, ReadPage, Goto
  <2> QED
    BY <1>0, <1>2, <2>1, OtherKeepsAcked DEF ReadPage
<1>3. ASSUME NEW t \in Tasks, WritePage(t) PROVE AckedInv'
  <2>1. \A u \in Tasks : pc'[u] = "compare" => pc[u] = "compare" /\ seen'[u] = seen[u]
    BY <1>3 DEF TypeOK, WritePage, Goto
  <2> QED
    BY <1>0, <1>3, <2>1, OtherKeepsAcked DEF WritePage
<1>4. ASSUME NEW t \in Tasks, AppendPanics(t) PROVE AckedInv'
  <2>1. \A u \in Tasks : pc'[u] = "compare" => pc[u] = "compare" /\ seen'[u] = seen[u]
    BY <1>4 DEF TypeOK, AppendPanics, Goto
  <2> QED
    BY <1>0, <1>4, <2>1, OtherKeepsAcked DEF AppendPanics
<1>5. ASSUME NEW t \in Tasks, flush(t) PROVE AckedInv'
  <2>1. \A u \in Tasks : pc'[u] = "compare" => pc[u] = "compare" /\ seen'[u] = seen[u]
    BY <1>5 DEF TypeOK, flush, Goto
  <2>2. \A r \in acked' \ acked : r \in Records /\ End(r) <= flushed_lsn'
    BY <1>5, <1>a DEF flush
  <2> QED
    BY <1>0, <1>5, <2>1, <2>2, OtherKeepsAcked DEF flush
<1>6. ASSUME NEW t \in Tasks, FlushAlone(t) PROVE AckedInv'
  <2>1. \A u \in Tasks : pc'[u] = "compare" => pc[u] = "compare" /\ seen'[u] = seen[u]
    BY <1>6 DEF FlushAlone
  <2> QED
    BY <1>0, <1>6, <2>1, OtherKeepsAcked DEF FlushAlone
<1>7. ASSUME NEW t \in Tasks, EnsureReadCurrent(t) PROVE AckedInv'
  <2>1. \A u \in Tasks : pc'[u] = "compare" =>
          \/ pc[u] = "compare" /\ seen'[u] = seen[u]
          \/ pc[u] # "idle" /\ seen'[u] = current_lsn
    BY <1>7 DEF TypeOK, EnsureReadCurrent, Goto
  <2> QED
    BY <1>0, <1>7, <2>1, OtherKeepsAcked DEF EnsureReadCurrent
<1>8. ASSUME NEW t \in Tasks, EnsureCompare(t) PROVE AckedInv'
  <2>1. \A u \in Tasks : pc'[u] = "compare" => pc[u] = "compare" /\ seen'[u] = seen[u]
    BY <1>8 DEF TypeOK, EnsureCompare, Goto
  <2>2. ASSUME acked' = acked \cup {mine[t]},
               ~ (seen[t] > flushed_lsn /\ at[mine[t]] >= flushed_lsn)
        PROVE  End(mine[t]) <= flushed_lsn
    <3>1. /\ pc[t] = "compare" /\ mine[t] \in Records /\ End(mine[t]) <= seen[t]
          /\ at[mine[t]] \in Nat /\ End(mine[t]) \in Nat /\ seen[t] \in Nat /\ flushed_lsn \in Nat
      BY <1>8, <1>a, PlacesAreNat DEF TypeOK, AckedInv, SeenInv, EnsureCompare
    <3>2. CASE ~ (seen[t] > flushed_lsn)
      BY <3>1, <3>2
    <3>3. CASE ~ (at[mine[t]] >= flushed_lsn)
      BY <3>1, <3>3 DEF AckedInv, Boundary
    <3> QED
      BY <2>2, <3>2, <3>3
  <2>3. \A r \in acked' \ acked : r \in Records /\ End(r) <= flushed_lsn'
    BY <1>8, <1>a, <2>2 DEF EnsureCompare
  <2> QED
    BY <1>0, <1>8, <2>1, <2>3, OtherKeepsAcked DEF EnsureCompare
<1>9. ASSUME NEW t \in Tasks, EnsureFlush(t) PROVE AckedInv'
  <2>1. \A u \in Tasks : pc'[u] = "compare" => pc[u] = "compare" /\ seen'[u] = seen[u]
    BY <1>9 DEF TypeOK, EnsureFlush, Goto
  <2>2. \A r \in acked' \ acked : r \in Records /\ End(r) <= flushed_lsn'
    BY <1>9, <1>a DEF EnsureFlush
  <2> QED
    BY <1>0, <1>9, <2>1, <2>2, OtherKeepsAcked DEF EnsureFlush
<1>10. CASE UNCHANGED vars
  <2>1. \A u \in Tasks : pc'[u] = "compare" => pc[u] = "compare" /\ seen'[u] = seen[u]
    BY <1>10 DEF vars
  <2> QED
    BY <1>0, <1>10, <2>1, OtherKeepsAcked DEF vars
<1> QED
  BY <1>1, <1>2, <1>3, <1>4, <1>5, <1>6, <1>7, <1>8, <1>9, <1>10 DEF Next, Act, Rest

(* The empty log satisfies both parts of the induction. *)
LEMMA AckedInit == Init => TypeOK /\ AckedInv
BY WalConstants
DEF Init, TypeOK, Records, AckedInv, RangesDisjoint, Boundary, SeenInv, AckedIsFlushed

(* However the log is shared, records are placed in order and without      *)
(* overlap below current_lsn.                                              *)
THEOREM PlacesDisjoint == Spec => []RangesDisjoint
<1>1. AckedInv => RangesDisjoint
  BY DEF AckedInv
<1> QED
  BY AckedInit, TypeOKStep, AckedStep, <1>1, PTL DEF Spec

(* However the log is shared, flushed_lsn is past a record once its commit *)
(* or ensure_flushed has returned, although ensure_flushed reads the two   *)
(* lsns at different times.                                                *)
THEOREM AckedFlushed == Spec => []AckedIsFlushed
<1>1. AckedInv => AckedIsFlushed
  BY DEF AckedInv
<1> QED
  BY AckedInit, TypeOKStep, AckedStep, <1>1, PTL DEF Spec

------------------------------------------------------------------------------
(* Behind the server's mutex *)

(* Nobody is in append when a flush runs, so everything is written.        *)
LEMMA AllWritten ==
  ASSUME WrittenInv, Serialized, \A t \in Tasks : ~ Appending(t)
  PROVE  Records \ broken \subseteq written
BY DEF WrittenInv

(* Every step keeps WrittenInv and with it FlushedIsWritten.               *)
LEMMA WrittenStep ==
  ASSUME Serialized
  PROVE  TypeOK /\ AckedInv /\ WrittenInv /\ FlushedIsWritten /\ [Next]_vars
           => WrittenInv' /\ FlushedIsWritten'
<1> SUFFICES ASSUME TypeOK, AckedInv, WrittenInv, FlushedIsWritten, [Next]_vars
             PROVE  WrittenInv' /\ FlushedIsWritten'
  OBVIOUS
<1>0. TypeOK'
  BY TypeOKStep
<1>1. ASSUME NEW t \in Tasks, NEW n \in Sizes, NEW what \in {"log", "commit", "ensure"},
             Reserve(t, n, what)
      PROVE  WrittenInv' /\ FlushedIsWritten'
  <2>0. PICK new : new = count + 1
    OBVIOUS
  <2>1. /\ at'[new] = place(n) /\ size'[new] = n /\ Records' = Records \cup {new}
        /\ \A r \in Records : at'[r] = at[r] /\ size'[r] = size[r]
    BY <1>1, <2>0, ReserveFacts
  <2>2. \A u \in Tasks : ~ Appending(u)
    <3>1. server_lock = Nobody
      BY <1>1 DEF Reserve, Free
    <3>2. \A u \in Tasks : server_lock # u
      BY <3>1, WalConstants
    <3> QED
      BY <3>2 DEF TypeOK, Appending
  <2>3. /\ mine'[t] = new /\ pc'[t] = "read" /\ \A u \in Tasks \ {t} : pc'[u] = pc[u]
        /\ UNCHANGED <<written, broken, flushed_lsn>>
    BY <1>1, <2>0 DEF Reserve, Goto, TypeOK
  <2>4. WrittenInv'
    <3>1. \A r \in Records' \ (written' \cup broken') : r = new
      BY <2>1, <2>2, <2>3, AllWritten
    <3>2. \A u \in Tasks : pc'[u] # "write"
      BY <2>2, <2>3 DEF Appending
    <3> QED
      BY <2>3, <3>1, <3>2 DEF WrittenInv, Appending
  <2>5. FlushedIsWritten'
    <3>1. n \in Nat \ {0} /\ place(n) \in Nat /\ place(n) >= current_lsn
      BY PlaceIsFree
    <3>2. ~ (End(new)' <= flushed_lsn')
      BY <2>1, <2>3, <3>1 DEF End, TypeOK
    <3>3. \A r \in Records : End(r)' = End(r)
      BY <2>1 DEF End
    <3> QED
      BY <2>1, <2>3, <3>2, <3>3 DEF FlushedIsWritten
  <2> QED
    BY <2>4, <2>5
<1>2. ASSUME NEW t \in Tasks, ReadPage(t) PROVE WrittenInv' /\ FlushedIsWritten'
  <2>1. /\ UNCHANGED <<count, at, size, written, broken, mine, flushed_lsn>>
        /\ pc[t] = "read" /\ pc'[t] = "write" /\ \A u \in Tasks \ {t} : pc'[u] = pc[u]
    BY <1>2 DEF ReadPage, Goto, TypeOK
  <2>2. \A r \in Records' \ (written' \cup broken') :
          \E u \in Tasks : mine'[u] = r /\ Appending(u)'
    BY <2>1 DEF WrittenInv, Appending, Records
  <2>3. \A u \in Tasks : pc'[u] = "write" => u = t
    BY <2>1, MutexExcludes
  <2>4. image'[t] = {r \in written' : Segment(r)' = Segment(mine[t])'}
    BY <1>2, <2>1 DEF ReadPage, Segment, TypeOK
  <2>5. WrittenInv'
    BY <2>1, <2>2, <2>3, <2>4 DEF WrittenInv, Segment
  <2> QED
    BY <2>1, <2>5 DEF FlushedIsWritten, Records, End
<1>3. ASSUME NEW t \in Tasks, WritePage(t) PROVE WrittenInv' /\ FlushedIsWritten'
  <2>1. /\ UNCHANGED <<count, at, size, broken, mine, flushed_lsn>>
        /\ pc[t] = "write" /\ pc'[t] \in {"idle", "flush", "ensure"}
        /\ \A u \in Tasks \ {t} : pc'[u] = pc[u]
    BY <1>3 DEF WritePage, Goto, TypeOK
  <2>2. written' = written \cup {mine[t]}
    BY <1>3, <2>1 DEF WritePage, WrittenInv
  <2>3. \A r \in Records' \ (written' \cup broken') :
          \E u \in Tasks : mine'[u] = r /\ Appending(u)'
    <3> SUFFICES ASSUME NEW r \in Records, r \notin written, r \notin broken, r # mine[t]
                 PROVE  \E u \in Tasks : mine[u] = r /\ Appending(u)'
      BY <2>1, <2>2 DEF Records
    <3>1. PICK u \in Tasks : mine[u] = r /\ Appending(u)
      BY DEF WrittenInv
    <3> QED
      BY <2>1, <3>1 DEF Appending
  <2>4. \A u \in Tasks : pc'[u] # "write"
    BY <2>1, MutexExcludes
  <2>5. WrittenInv'
    BY <2>3, <2>4 DEF WrittenInv
  <2> QED
    BY <2>1, <2>2, <2>5 DEF FlushedIsWritten, Records, End
<1>4. ASSUME NEW t \in Tasks, AppendPanics(t) PROVE WrittenInv' /\ FlushedIsWritten'
  <2>1. /\ UNCHANGED <<count, at, size, written, mine, flushed_lsn>>
        /\ broken' = broken \cup {mine[t]}
        /\ pc[t] = "write" /\ pc'[t] = "idle"
        /\ \A u \in Tasks \ {t} : pc'[u] = pc[u]
    BY <1>4 DEF AppendPanics, Goto, TypeOK
  <2>2. \A r \in Records' \ (written' \cup broken') :
          \E u \in Tasks : mine'[u] = r /\ Appending(u)'
    <3> SUFFICES ASSUME NEW r \in Records, r \notin written, r \notin broken, r # mine[t]
                 PROVE  \E u \in Tasks : mine[u] = r /\ Appending(u)'
      BY <2>1 DEF Records
    <3>1. PICK u \in Tasks : mine[u] = r /\ Appending(u)
      BY DEF WrittenInv
    <3> QED
      BY <2>1, <3>1 DEF Appending
  <2>3. \A u \in Tasks : pc'[u] # "write"
    BY <2>1, MutexExcludes
  <2>4. WrittenInv'
    BY <2>2, <2>3 DEF WrittenInv
  <2> QED
    BY <2>1, <2>4 DEF FlushedIsWritten, Records, End
<1>5. ASSUME NEW t \in Tasks,
             flush(t) \/ FlushAlone(t) \/ EnsureReadCurrent(t) \/ EnsureCompare(t)
               \/ EnsureFlush(t)
      PROVE  WrittenInv' /\ FlushedIsWritten'
  <2>1. UNCHANGED <<count, at, size, written, broken, mine, image>>
    BY <1>5 DEF flush, FlushAlone, EnsureReadCurrent, EnsureCompare, EnsureFlush
  <2>2. \A u \in Tasks : Appending(u)' <=> Appending(u)
    BY <1>5 DEF Appending, flush, FlushAlone, EnsureReadCurrent, EnsureCompare, EnsureFlush,
       Goto, TypeOK
  <2>3. \A u \in Tasks : pc'[u] = "write" => pc[u] = "write"
    BY <1>5 DEF flush, FlushAlone, EnsureReadCurrent, EnsureCompare, EnsureFlush, Goto, TypeOK
  <2>4. WrittenInv'
    BY <2>1, <2>2, <2>3 DEF WrittenInv, Records, Segment
  <2>5. CASE flushed_lsn' = flushed_lsn
    BY <2>1, <2>4, <2>5 DEF FlushedIsWritten, Records, End
  <2>6. CASE \A u \in Tasks : ~ Appending(u)
    BY <2>1, <2>4, <2>6, AllWritten DEF FlushedIsWritten, Records, End
  <2>7. CASE flush(t) \/ FlushAlone(t)
    <3>1. \A u \in Tasks : ~ Appending(u)
      <4>1. server_lock = Nobody
        BY <2>7 DEF flush, FlushAlone, Free
      <4>2. \A u \in Tasks : server_lock # u
        BY <4>1, WalConstants
      <4> QED
        BY <4>2 DEF TypeOK, Appending
    <3> QED
      BY <2>6, <3>1
  <2>8. CASE EnsureFlush(t)
    <3>1. \A u \in Tasks : ~ Appending(u)
      BY <2>8, MutexExcludes DEF EnsureFlush, Appending
    <3> QED
      BY <2>6, <3>1
  <2> QED
    BY <1>5, <2>5, <2>7, <2>8 DEF EnsureReadCurrent, EnsureCompare
<1>6. CASE UNCHANGED vars
  BY <1>6 DEF vars, WrittenInv, FlushedIsWritten, Records, Segment, End, Appending
<1> QED
  BY <1>1, <1>2, <1>3, <1>4, <1>5, <1>6 DEF Next, Act, Rest

(* Behind the server's mutex, every record below flushed_lsn is in storage *)
(* (or its append panicked): COMMIT's answer can be trusted.               *)
THEOREM FlushedWritten == ASSUME Serialized PROVE Spec => []FlushedIsWritten
<1>1. Init => WrittenInv /\ FlushedIsWritten
  BY DEF Init, WrittenInv, FlushedIsWritten, Records
<1> QED
  BY <1>1, AckedInit, TypeOKStep, AckedStep, WrittenStep, PTL DEF Spec

------------------------------------------------------------------------------
(* Segments                                                                *)

(* Padding to the next multiple of a segment's size leaves no offset.      *)
LEMMA PaddingAligns ==
  ASSUME NEW s \in Nat \ {0}, NEW c \in Nat
  PROVE  (c + (s - (c % s))) % s = 0
<1>1. c = s * (c \div s) + (c % s) /\ c \div s \in Nat /\ c % s \in Nat
  OBVIOUS
<1>2. PICK k \in Nat : k = (c \div s) + 1
  BY <1>1
<1>3. c + (s - (c % s)) = k * s
  BY <1>1, <1>2
<1>4. (k * s) % s = 0
  OBVIOUS
<1> QED
  BY <1>3, <1>4

(* place leaves room in the segment for a record that fits one at all.     *)
LEMMA PlaceFits ==
  ASSUME TypeOK, NEW n \in Sizes, n <= SegmentSize
  PROVE  (place(n) % SegmentSize) + n <= SegmentSize
<1>1. n \in Nat \ {0} /\ current_lsn \in Nat /\ SegmentSize \in Nat \ {0}
  BY WalConstants DEF TypeOK
<1>2. CASE (current_lsn % SegmentSize) + n > SegmentSize
  <2>1. place(n) = current_lsn + (SegmentSize - (current_lsn % SegmentSize))
    BY <1>2 DEF place
  <2>2. place(n) % SegmentSize = 0
    BY <1>1, <2>1, PaddingAligns
  <2> QED
    BY <1>1, <2>2
<1>3. CASE ~ ((current_lsn % SegmentSize) + n > SegmentSize)
  <2>1. place(n) = current_lsn
    BY <1>3 DEF place
  <2>2. current_lsn % SegmentSize \in Nat
    BY <1>1
  <2> QED
    BY <1>1, <1>3, <2>1, <2>2
<1> QED
  BY <1>2, <1>3

(* A record that fits into a segment never crosses the end of one, for any *)
(* segment size and however the log is shared.                             *)
THEOREM RecordsInOneSegment == Spec => []NoStraddling
<1>1. Init => NoStraddling
  BY DEF Init, NoStraddling, Records
<1>2. TypeOK /\ NoStraddling /\ [Next]_vars => NoStraddling'
  <2> SUFFICES ASSUME TypeOK, NoStraddling, [Next]_vars PROVE NoStraddling'
    OBVIOUS
  <2>1. ASSUME NEW t \in Tasks, NEW n \in Sizes, NEW what, Reserve(t, n, what) PROVE NoStraddling'
    <3>1. /\ at'[count + 1] = place(n) /\ size'[count + 1] = n
          /\ \A r \in Records : at'[r] = at[r] /\ size'[r] = size[r]
          /\ Records' = Records \cup {count + 1}
      BY <2>1, ReserveFacts
    <3>2. ASSUME NEW r \in Records, size'[r] <= SegmentSize
          PROVE  (at'[r] % SegmentSize) + size'[r] <= SegmentSize
      BY <3>1, <3>2 DEF NoStraddling
    <3>3. size'[count + 1] <= SegmentSize =>
            (at'[count + 1] % SegmentSize) + size'[count + 1] <= SegmentSize
      BY <3>1, PlaceFits
    <3> QED
      BY <3>1, <3>2, <3>3 DEF NoStraddling
  <2>2. CASE UNCHANGED <<count, at, size>>
    BY <2>2 DEF NoStraddling, Records
  <2> QED
    BY <2>1, <2>2 DEF Next, Act, Rest, vars, ReadPage, WritePage, AppendPanics, flush, FlushAlone,
       EnsureReadCurrent, EnsureCompare, EnsureFlush
<1> QED
  BY <1>1, <1>2, AckedInit, TypeOKStep, PTL DEF Spec
==============================================================================
