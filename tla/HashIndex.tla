----------------------------- MODULE HashIndex ------------------------------
(***************************************************************************)
(* src/btree/hash_index.rs: tuple ids under the hash of their key.  The    *)
(* key itself is not kept, so keys that collide share their tuple ids.     *)
(***************************************************************************)
EXTENDS Naturals, Sequences, SequencesExt, Functions

CONSTANT HashSpace  \* 2^32 in the code: the range of the wrapping hash

NewHashIndex == [h \in {} |-> <<>>]

HashValue(key) == FoldLeft(LAMBDA h, b : (h * 31 + b) % HashSpace, 0, key)

\* The entry of a hash map, the empty list for a key that is not there.
ListOf(map, k) == IF k \in DOMAIN map THEN map[k] ELSE <<>>

Put(map, k, list) == [x \in DOMAIN map \cup {k} |-> IF x = k THEN list ELSE map[x]]

\* A list that became empty leaves the map.
TakeOut(map, k, tid) ==
  LET list == RemoveFirst(ListOf(map, k), tid)
  IN  IF ~Contains(ListOf(map, k), tid) THEN map
      ELSE IF list = <<>> THEN Restrict(map, DOMAIN map \ {k})
      ELSE Put(map, k, list)

HashInsert(map, key, tid) == Put(map, HashValue(key), Append(ListOf(map, HashValue(key)), tid))

HashLookup(map, key) == ListOf(map, HashValue(key))

HashDelete(map, key, tid) == TakeOut(map, HashValue(key), tid)
=============================================================================
