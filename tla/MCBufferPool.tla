----------------------------- MODULE MCBufferPool -----------------------------
(* Small instances of BufferPool for TLC. *)
EXTENDS BufferPool, TLC

Symmetry == Permutations(Threads) \cup Permutations(Pages \ Unreadable)

(* One thread makes up to MaxCalls calls, or two threads make up to two    *)
(* each.                                                                   *)
LongAloneOrShort == Alone \/ \A t \in Threads : budget[t] + 2 >= MaxCalls
==============================================================================
