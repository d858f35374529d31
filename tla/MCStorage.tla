------------------------------ MODULE MCStorage -----------------------------
(* The way of a row to storage and to the log, in four models that share no *)
(* state: focus says which of them a behaviour is about, and the variables  *)
(* of the others keep their initial values.                                 *)
EXTENDS Wal, Heap, HeapPageOps, Recovery, TLC

VARIABLE focus

\* A session sees its own and one other transaction as running.
EarlySnapshots == {[xid |-> 3, active_xids |-> {1}]}

RowLengths == [k1 |-> 4, k2 |-> 7]

StorageSymmetry == Permutations(Tasks) \cup Permutations(Sessions)

StorageInit ==
  Init /\ HeapInit /\ PageInit /\ RecoveryInit /\ focus \in {"wal", "heap", "page", "recovery"}

\* The other three end at their bounds; the log's tasks must never all wait.
AtBound ==
  focus # "wal" /\ UNCHANGED <<vars, heapVars, pageVars, recVars, focus>>

StorageNext ==
  \/ focus = "wal" /\ Next /\ UNCHANGED <<heapVars, pageVars, recVars, focus>>
  \/ focus = "heap" /\ HeapNext /\ UNCHANGED <<vars, pageVars, recVars, focus>>
  \/ focus = "page" /\ PageNext /\ UNCHANGED <<vars, heapVars, recVars, focus>>
  \/ focus = "recovery" /\ RecoveryNext /\ UNCHANGED <<vars, heapVars, pageVars, focus>>
  \/ AtBound

StorageSpec == StorageInit /\ [][StorageNext]_<<vars, heapVars, pageVars, recVars, focus>>
=============================================================================
