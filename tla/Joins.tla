------------------------------- MODULE Joins --------------------------------
(***************************************************************************)
(* src/executor/select/joins.rs and algorithms.rs: three join algorithms   *)
(* and the choice between them.                                            *)
(*                                                                         *)
(* A row is a sequence of values; 0 is the empty string, which also stands *)
(* for NULL and pads the missing side of an outer join.  The tuple id that *)
(* travels with a row is dropped at the end of a SELECT and left out.      *)
(* Both sides of an ON condition are looked up in the descriptor of the    *)
(* table that was resolved last: Key is the value of that column, and a    *)
(* row too short for it has no key.                                        *)
(***************************************************************************)
EXTENDS Eval, Bags, BagsExt

CONSTANTS KeyColumn,      \* where the join column is
          HashJoinLimit   \* 1000 in the code

Empty == 0

\* evaluate_expr of the join column, as a set of at most one value.
Key(row) == IF Len(row) >= KeyColumn THEN {row[KeyColumn]} ELSE {}

Pad(n) == [i \in 1 .. n |-> Empty]

Width(rows) == IF rows = <<>> THEN 0 ELSE Len(rows[1])

\* Without right rows, the padding is as wide as the left table.
PadRight(left, right) == Pad(IF right = <<>> THEN Width(left) ELSE Width(right))

MapRows(F(_), rows) == [i \in 1 .. Len(rows) |-> F(rows[i])]

\* All rows of the second table that match, for each row of the first, in order.
ForEach(rows, F(_)) == FlattenSeq(MapRows(F, rows))

MatchedBy(row, others) == \E i \in 1 .. Len(others) : Key(row) # {} /\ Key(row) = Key(others[i])

\* hash_join: rows without a key disappear from the probe side, except in a FULL
\* join, which looks for unmatched left rows once more.
HashJoin(left, right, type) ==
  LET Bucket(k) == SelectSeq(right, LAMBDA r : Key(r) = k)
      Probe(l) == IF Key(l) = {} THEN <<>>
                  ELSE IF Bucket(Key(l)) # <<>> THEN MapRows(LAMBDA r : l \o r, Bucket(Key(l)))
                  ELSE IF type = "Left" THEN << l \o PadRight(left, right) >>
                  ELSE <<>>
      lonelyRight == SelectSeq(right, LAMBDA r : ~MatchedBy(r, left))
      lonelyLeft == SelectSeq(left, LAMBDA l : ~MatchedBy(l, right))
  IN  ForEach(left, Probe)
        \o (IF type \in {"Right", "Full"}
            THEN MapRows(LAMBDA r : Pad(Width(left)) \o r, lonelyRight) ELSE <<>>)
        \o (IF type = "Full"
            THEN MapRows(LAMBDA l : l \o PadRight(left, right), lonelyLeft) ELSE <<>>)

\* merge_join takes a row without a key for one with the empty string.
MergeKey(row) == IF Key(row) = {} THEN Empty ELSE row[KeyColumn]

SortByKey(rows) ==
  FoldLeft(LAMBDA s, r : LET n == Len(SelectSeq(s, LAMBDA x : MergeKey(x) <= MergeKey(r)))
                         IN  InsertAt(s, n + 1, r),
           <<>>, rows)

RunLength(rows, i, key) ==
  Len(SelectSeq(SubSeq(rows, i, Len(rows)), LAMBDA r : MergeKey(r) = key))

\* The two sorted lists are walked together.  A run of equal keys is combined
\* pairwise; the smaller key of two different ones is passed over alone.
RECURSIVE Merge(_, _, _, _, _, _)
Merge(L, R, i, j, type, pads) ==
  LET l == L[i]
      r == R[j]
      lonelyLeft == IF type \in {"Left", "Full"} THEN << l \o pads.right >> ELSE <<>>
      lonelyRight == IF type \in {"Right", "Full"} THEN << pads.left \o r >> ELSE <<>>
  IN  CASE i <= Len(L) /\ j <= Len(R) /\ MergeKey(l) = MergeKey(r) ->
             LET m == RunLength(L, i, MergeKey(l))
                 n == RunLength(R, j, MergeKey(l))
             IN  ForEach(SubSeq(L, i, i + m - 1),
                         LAMBDA x : MapRows(LAMBDA y : x \o y, SubSeq(R, j, j + n - 1)))
                   \o Merge(L, R, i + m, j + n, type, pads)
        [] i <= Len(L) /\ (j > Len(R) \/ MergeKey(l) < MergeKey(r)) ->
             lonelyLeft \o Merge(L, R, i + 1, j, type, pads)
        [] j <= Len(R) /\ (i > Len(L) \/ MergeKey(r) < MergeKey(l)) ->
             lonelyRight \o Merge(L, R, i, j + 1, type, pads)
        [] OTHER -> <<>>

\* Passes over a whole run on the left but only one row on the right.
RECURSIVE Merge_OneRight(_, _, _, _, _, _)
Merge_OneRight(L, R, i, j, type, pads) ==
  LET l == L[i]
      r == R[j]
  IN  CASE i <= Len(L) /\ j <= Len(R) /\ MergeKey(l) = MergeKey(r) ->
             << l \o r >> \o Merge_OneRight(L, R, i + 1, j + 1, type, pads)
        [] i <= Len(L) /\ (j > Len(R) \/ MergeKey(l) < MergeKey(r)) ->
             (IF type \in {"Left", "Full"} THEN << l \o pads.right >> ELSE <<>>)
               \o Merge_OneRight(L, R, i + 1, j, type, pads)
        [] j <= Len(R) /\ (i > Len(L) \/ MergeKey(r) < MergeKey(l)) ->
             (IF type \in {"Right", "Full"} THEN << pads.left \o r >> ELSE <<>>)
               \o Merge_OneRight(L, R, i, j + 1, type, pads)
        [] OTHER -> <<>>

MergeJoin_OneRight(left, right, type) ==
  Merge_OneRight(SortByKey(left), SortByKey(right), 1, 1, type,
                 [left |-> Pad(Width(left)), right |-> PadRight(left, right)])

MergeJoin(left, right, type) ==
  Merge(SortByKey(left), SortByKey(right), 1, 1, type,
        [left |-> Pad(Width(left)), right |-> PadRight(left, right)])

\* nested_loop_join, for a condition that is no equality.  Without right rows it
\* pads with nothing.
NestedLoopJoin(left, right, type, cond) ==
  LET On(row) == EvaluateWhere(cond, row)
      Pairs(l) == SelectSeq(MapRows(LAMBDA r : l \o r, right), On)
      PairsOf(r) == SelectSeq(MapRows(LAMBDA l : l \o r, left), On)
      WithLeft(l) == IF Pairs(l) = <<>> THEN << l \o Pad(Width(right)) >> ELSE Pairs(l)
      WithRight(r) == IF PairsOf(r) = <<>> THEN << Pad(Width(left)) \o r >> ELSE PairsOf(r)
      LonelyRight(r) == IF PairsOf(r) = <<>> THEN << Pad(Width(left)) \o r >> ELSE <<>>
  IN  CASE type = "Inner" -> ForEach(left, Pairs)
        [] type = "Left" -> ForEach(left, WithLeft)
        [] type = "Right" -> ForEach(right, WithRight)
        [] type = "Full" -> ForEach(left, WithLeft) \o ForEach(right, LonelyRight)
        [] type \in {"Cross", "Lateral"} ->
             ForEach(left, LAMBDA l : MapRows(LAMBDA r : l \o r, right))

CrossJoin(left, right) == ForEach(left, LAMBDA l : MapRows(LAMBDA r : l \o r, right))

\* using_join takes one and the same index on both sides, that of the column in
\* the table resolved last, and only ever joins like INNER.
UsingJoin(left, right, column) ==
  SelectSeq(CrossJoin(left, right),
            LAMBDA row : \/ column > Width(left) \/ column > Width(right)
                         \/ row[column] = row[Width(left) + column])

ChooseJoinAlgorithm(nLeft, nRight) ==
  IF nLeft <= HashJoinLimit \/ nRight <= HashJoinLimit THEN "Hash" ELSE "Merge"

\* execute_join with an ON condition; cond is about a combined row.
ExecuteJoin(left, right, type, isEqui, cond) ==
  IF ~isEqui THEN NestedLoopJoin(left, right, type, cond)
  ELSE IF ChooseJoinAlgorithm(Len(left), Len(right)) = "Hash" THEN HashJoin(left, right, type)
  ELSE MergeJoin(left, right, type)

-----------------------------------------------------------------------------
(* Reference: what SQL asks of a join, as a bag.                            *)

JoinReference(left, right, type, Match(_, _)) ==
  LET both == {p \in (1 .. Len(left)) \X (1 .. Len(right)) : Match(left[p[1]], right[p[2]])}
      lonelyL == {i \in 1 .. Len(left) : type \in {"Left", "Full"} /\ ~\E p \in both : p[1] = i}
      lonelyR == {j \in 1 .. Len(right) : type \in {"Right", "Full"} /\ ~\E p \in both : p[2] = j}
      slots == both \cup (lonelyL \X {0}) \cup ({0} \X lonelyR)
      RowOf(p) == (IF p[1] = 0 THEN Pad(Width(left)) ELSE left[p[1]])
                    \o (IF p[2] = 0 THEN PadRight(left, right) ELSE right[p[2]])
  IN  [row \in {RowOf(p) : p \in slots} |-> Cardinality({p \in slots : RowOf(p) = row})]

BagOf(rows) ==
  [row \in Range(rows) |-> Cardinality({i \in 1 .. Len(rows) : rows[i] = row})]
=============================================================================
