------------------------------ MODULE GinIndex ------------------------------
(***************************************************************************)
(* src/btree/gin_index.rs: the tuple ids of the rows a term occurs in.     *)
(* A term is written as a record of its letters without their case and     *)
(* whether it is in lower case.                                            *)
(***************************************************************************)
EXTENDS Naturals, Sequences, SequencesExt, HashIndex

NewGinIndex == [t \in {} |-> <<>>]

ToLower(term) == [term EXCEPT !.lower = TRUE]

\* insert_array_values, insert_full_text and insert_jsonb_keys
TermsOf(type, terms) ==
  IF type = "FullText" THEN [i \in DOMAIN terms |-> ToLower(terms[i])] ELSE terms

GinInsert(map, type, terms, tid) ==
  FoldLeft(LAMBDA m, t : Put(m, t, Append(ListOf(m, t), tid)), map, TermsOf(type, terms))

GinLookup(map, type, term) == ListOf(map, IF type = "FullText" THEN ToLower(term) ELSE term)

\* The rows of the first term that every other term has too.
GinContains(map, terms) ==
  IF terms = <<>> THEN <<>>
  ELSE SelectSeq(ListOf(map, terms[1]),
                 LAMBDA tid : \A i \in 2 .. Len(terms) : Contains(ListOf(map, terms[i]), tid))

GinAnyContains(map, terms) ==
  FoldLeft(LAMBDA res, t :
             FoldLeft(LAMBDA r, tid : IF Contains(r, tid) THEN r ELSE Append(r, tid),
                      res, ListOf(map, t)),
           <<>>, terms)

\* delete takes its key as it is, also in a full-text index.
GinDelete(map, term, tid) == TakeOut(map, term, tid)
=============================================================================
