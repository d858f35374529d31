----------------------------- MODULE BrinIndex ------------------------------
(***************************************************************************)
(* src/btree/brin_index.rs: per range of blocks a summary of its values    *)
(* that decides whether a lookup looks at the range at all.                *)
(*                                                                         *)
(* Values are numbers in the order of their strings; the ones in NullTexts  *)
(* are the empty string and "NULL", which count as nulls and are neither   *)
(* in the minimum nor in the maximum.                                      *)
(***************************************************************************)
EXTENDS Naturals, Sequences, SequencesExt

CONSTANTS PagesPerRange, NullTexts

\* An Option is a set of at most one value.
EmptySummary == [min |-> {}, max |-> {}, nulls |-> 0, distinct |-> 0]

NewBrinIndex == [ranges |-> <<>>, values |-> <<>>]

\* A value that becomes the minimum is not compared with the maximum.
Summarise_MinOnly(s, v) ==
  IF v \in NullTexts THEN [s EXCEPT !.nulls = @ + 1]
  ELSE [s EXCEPT !.min = IF \A m \in @ : v < m THEN {v} ELSE @,
                 !.max = IF @ = {} THEN {v} ELSE @,
                 !.distinct = @ + 1]

\* Adding a value only ever widens a summary; the number of distinct values
\* counts every value.
Summarise(s, v) ==
  IF v \in NullTexts THEN [s EXCEPT !.nulls = @ + 1]
  ELSE [s EXCEPT !.min = IF \A m \in @ : v < m THEN {v} ELSE @,
                 !.max = IF \A m \in @ : v > m THEN {v} ELSE @,
                 !.distinct = @ + 1]

\* Ranges up to the block's own are created on the way; range i covers the
\* blocks (i - 1) * PagesPerRange .. i * PagesPerRange - 1.
BrinInsert(index, block, v, tid) ==
  LET at == block \div PagesPerRange + 1
      n == IF at > Len(index.ranges) THEN at ELSE Len(index.ranges)
      ranges == [i \in 1 .. n |-> IF i <= Len(index.ranges) THEN index.ranges[i] ELSE EmptySummary]
      values == [i \in 1 .. n |-> IF i <= Len(index.values) THEN index.values[i] ELSE <<>>]
  IN  [ranges |-> [ranges EXCEPT ![at] = Summarise(@, v)],
       values |-> [values EXCEPT ![at] = Append(@, <<v, tid>>)]]

MightContain(s, v) ==
  IF s.min = {} THEN s.nulls > 0 /\ v \in NullTexts
  ELSE (\A m \in s.min : m <= v) /\ (\A m \in s.max : v <= m)

MightOverlap(s, lo, hi) == (\A m \in s.min : m <= hi) /\ (\A m \in s.max : m >= lo)

TidsWhere(index, Look(_), Match(_)) ==
  FlattenSeq([i \in 1 .. Len(index.ranges) |->
    IF Look(index.ranges[i])
    THEN LET hits == SelectSeq(index.values[i], LAMBDA p : Match(p[1]))
         IN  [j \in 1 .. Len(hits) |-> hits[j][2]]
    ELSE <<>>])

BrinLookup(index, v) ==
  TidsWhere(index, LAMBDA s : MightContain(s, v), LAMBDA x : x = v)

BrinLookupRange(index, lo, hi) ==
  TidsWhere(index, LAMBDA s : MightOverlap(s, lo, hi), LAMBDA x : x >= lo /\ x <= hi)

\* The entry goes, the summary stays as wide as it was.
BrinDelete(index, v, tid) ==
  LET has == {i \in 1 .. Len(index.values) : Contains(index.values[i], <<v, tid>>)}
  IN  {IF i = 0 THEN index ELSE [index EXCEPT !.values[i] = RemoveFirst(@, <<v, tid>>)] :
         i \in IF has = {} THEN {0} ELSE has}
=============================================================================
