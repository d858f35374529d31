----------------------------- MODULE Partition ------------------------------
(***************************************************************************)
(* src/executor/partition: which partition a value belongs to              *)
(* (PartitionManager) and which partitions a WHERE clause leaves           *)
(* (PartitionPruner).                                                      *)
(*                                                                         *)
(* Values are numbers in the order of their strings.  A partition is its   *)
(* position in the manager's list, a bound one of                          *)
(*   [range |-> set of [incl, at]], [list |-> set of values],              *)
(*   [modulus, remainder].                                                 *)
(***************************************************************************)
EXTENDS Naturals, Sequences, SequencesExt, FiniteSets

NoPartition == 0

\* The partition's bound takes the value.  Only upper ends are kept: a range
\* partition takes what the ones before it did not.
Takes(strategy, bound, v) ==
  CASE strategy = "Range" -> \E b \in bound : IF b.incl THEN v <= b.at ELSE v < b.at
    [] strategy = "List" -> v \in bound
    [] strategy = "Hash" -> v % bound.modulus = bound.remainder

FindPartitionForValue(strategy, parts, v) ==
  SelectInSeq(parts, LAMBDA b : Takes(strategy, b, v))

\* extract_equality_predicate: the first "column = literal" of a conjunction,
\* as a sequence of at most one <<column, value>>.  Clauses are
\* [op |-> "=", col, val], [op |-> "and" | "or", l, r] or [op |-> "other"].
RECURSIVE ExtractEqualityPredicate(_)
ExtractEqualityPredicate(e) ==
  CASE e.op = "=" -> << <<e.col, e.val>> >>
    [] e.op = "and" -> LET l == ExtractEqualityPredicate(e.l)
                       IN  IF l # <<>> THEN l ELSE ExtractEqualityPredicate(e.r)
    [] OTHER -> <<>>

\* All partitions, unless the first equality is on a partition column and some
\* partition takes its value.
PrunePartitions(strategy, columns, parts, where) ==
  LET eq == ExtractEqualityPredicate(where)
      hit == IF eq # <<>> /\ eq[1][1] \in columns
             THEN FindPartitionForValue(strategy, parts, eq[1][2]) ELSE NoPartition
  IN  IF hit # NoPartition THEN {hit} ELSE 1 .. Len(parts)

\* estimate_partition_selectivity as the fraction <<numerator, denominator>>.
EstimateSelectivity(strategy, columns, parts, where) ==
  IF Cardinality(PrunePartitions(strategy, columns, parts, where)) = 1 /\ parts # <<>>
  THEN <<1, Len(parts)>> ELSE <<1, 1>>

-----------------------------------------------------------------------------
(* Reference *)

\* Does a row, a function from columns to values, satisfy the clause?
RECURSIVE Satisfies(_, _)
Satisfies(row, e) ==
  CASE e.op = "=" -> row[e.col] = e.val
    [] e.op = "and" -> Satisfies(row, e.l) /\ Satisfies(row, e.r)
    [] e.op = "or" -> Satisfies(row, e.l) \/ Satisfies(row, e.r)
    [] OTHER -> TRUE
=============================================================================
