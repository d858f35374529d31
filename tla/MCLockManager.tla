---------------------------- MODULE MCLockManager ----------------------------
(* A small instance of LockManager for TLC. *)
EXTENDS LockManager, TLC

Symmetry == Permutations(Xids)

(* The advisory map shares nothing with the other maps, so states in which *)
(* both are in use are not explored further.                               *)
AdvisoryApart ==
  \/ \A k \in Keys, x \in Xids : advisory_locks[k][x] = <<>>
  \/ /\ \A r \in Relations : table_locks[r] = {}
     /\ \A k \in Rows : row_locks[k] = {}
==============================================================================
