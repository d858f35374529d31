------------------------ MODULE MCTransactionManager ------------------------
(* Small instances of TransactionManager for TLC. *)
EXTENDS TransactionManager, TLC

Symmetry == Permutations(Sessions)
==============================================================================
