------------------------------ MODULE IndexSet ------------------------------
(***************************************************************************)
(* What an index promises its readers, whatever it is made of: while it    *)
(* is exact, a lookup finds everything that was inserted; once exactness   *)
(* is lost it never comes back, a lookup may then miss entries, but it     *)
(* never shows one that was not inserted.                                  *)
(***************************************************************************)
CONSTANT Entries

VARIABLES inserted, found, exact

vars == <<inserted, found, exact>>

Init == inserted = {} /\ found = {} /\ exact = TRUE

Insert(e) ==
  /\ inserted' = inserted \cup {e}
  /\ exact' \in {x \in BOOLEAN : x => exact}
  /\ found' \in SUBSET inserted'
  /\ exact' => found' = inserted'

Next == \E e \in Entries : Insert(e)

Spec == Init /\ [][Next]_vars
=============================================================================
