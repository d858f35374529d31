------------------------------- MODULE Select -------------------------------
(***************************************************************************)
(* src/executor/select: a SELECT as the sequence of steps that             *)
(* execute_select_with_snapshot takes over a list of rows.  Each step is   *)
(* an action; the query and the tables are chosen once, at the start.      *)
(*                                                                         *)
(* A query is a record                                                     *)
(*   from      "none" | "table" | "index" | "join", of left and right      *)
(*   type, on  the join's type, and its constraint: "equi" (equal keys),   *)
(*             "expr" (cond, on the combined row), "using" or "none"       *)
(*   where     <<>> or <<expression>>, having likewise                     *)
(*   group     the GROUP BY columns, <<>> for none                         *)
(*   items     the select list, <<>> for *                                 *)
(*   distinct  "all" | "distinct" | "on" (the first column)                *)
(*   order     a list of [at, desc, nullsFirst]; ORDER BY without a        *)
(*             direction is desc                                           *)
(*   offset, limit   <<>> or <<expression>>                                *)
(*   setop     "none" or an operator, whose right side gives rightRows     *)
(***************************************************************************)
EXTENDS Joins, FiniteSetsExt

CONSTANTS Cases   \* records [query, left, right]: a query and the tables it finds

VARIABLES query, left, right,
          stage,        \* the step that comes next
          rows          \* the rows so far

svars == <<query, left, right, stage, rows>>

Step(from, to, result) ==
  /\ stage = from
  /\ stage' = to
  /\ rows' = result
  /\ UNCHANGED <<query, left, right>>

\* A group's rows in any order: groups live in a hash map.
Orders(S) == SetToSeqs(S)

Filter(rs, e) == SelectSeq(rs, LAMBDA r : EvaluateWhere(e, r))

ValueAt(e, row) == OrElse(EvaluateExpr(e, row), Empty)

-----------------------------------------------------------------------------
(* FROM and WHERE *)

\* execute_select_without_from: one row of the evaluated select list.
WithoutFrom(items) ==
  IF items = <<>> THEN <<>> ELSE << [i \in 1 .. Len(items) |-> ValueAt(items[i], <<>>)] >>

\* resolve_table_ref takes the index when the WHERE clause has an equality on an
\* indexed column; an exact index returns the rows with that value.
IndexRows(rs, e) ==
  LET eq == ExtractEquality(e)
  IN  IF eq = <<>> THEN rs
      ELSE SelectSeq(rs, LAMBDA r : eq[1][1] \in 1 .. Len(r) => r[eq[1][1]] = eq[1][2])

JoinRows ==
  CASE query.on = "none" -> CrossJoin(left, right)
    [] query.on = "using" -> UsingJoin(left, right, KeyColumn)
    [] OTHER -> ExecuteJoin(left, right, query.type, query.on = "equi", query.cond)

FromRows ==
  CASE query.from = "none" -> WithoutFrom(query.items)
    [] query.from = "table" -> left
    [] query.from = "index" -> IF query.where = <<>> THEN left ELSE IndexRows(left, query.where[1])
    [] query.from = "join" -> JoinRows

ExecuteFrom == Step("from", "where", FromRows)

ApplyWhere == Step("where", "group", IF query.where = <<>> THEN rows ELSE Filter(rows, query.where[1]))

-----------------------------------------------------------------------------
(* GROUP BY *)

Aggregates == {"COUNT", "SUM", "AVG", "MIN", "MAX"}

RECURSIVE HasAggregate(_)
HasAggregate(e) ==
  CASE e.op = "fn" -> e.name \in Aggregates
    [] e.op = "bin" -> HasAggregate(e.l) \/ HasAggregate(e.r)
    [] e.op = "un" -> HasAggregate(e.e)
    [] e.op = "between" -> HasAggregate(e.e) \/ HasAggregate(e.lo) \/ HasAggregate(e.hi)
    [] e.op = "in" -> HasAggregate(e.e) \/ \E i \in DOMAIN e.list : HasAggregate(e.list[i])
    [] OTHER -> FALSE

ListHasAggregate(items) == \E i \in DOMAIN items : HasAggregate(items[i])

SumOf(numbers) == FoldLeft(LAMBDA s, n : s + n, 0, numbers)

\* The values of an argument over the group that can be evaluated, and the
\* numbers among them.
ArgValues(e, group) ==
  ForEach(group, LAMBDA r : LET v == EvaluateExpr(e, r) IN IF v = None THEN <<>> ELSE <<OrElse(v, 0)>>)

ArgNumbers(e, group) ==
  ForEach(ArgValues(e, group),
          LAMBDA v : IF NumberOf[v] = {} THEN <<>> ELSE <<OrElse(NumberOf[v], 0)>>)

\* COUNT(x) counts the rows x has a value in, the empty text included; MIN and
\* MAX go by the order of texts.
Aggregate(name, args, group) ==
  LET vals == ArgValues(args[1], group)
      nums == ArgNumbers(args[1], group)
  IN  CASE name = "COUNT" -> TextOf(IF args = <<>> THEN Len(group) ELSE Len(vals))
        [] args = <<>> -> IF name \in {"SUM", "AVG"} THEN TextOf(0) ELSE Empty
        [] name = "SUM" -> TextOf(SumOf(nums))
        [] name = "AVG" -> IF nums = <<>> THEN TextOf(0) ELSE Quotient(SumOf(nums), Len(nums))
        [] name = "MIN" -> IF vals = <<>> THEN Empty ELSE Min(Range(vals))
        [] name = "MAX" -> IF vals = <<>> THEN Empty ELSE Max(Range(vals))

\* evaluate_expr_with_group: aggregates over the group, everything else from its
\* first row.
RECURSIVE EvaluateWithGroup(_, _)
EvaluateWithGroup(e, group) ==
  CASE e.op = "fn" /\ e.name \in Aggregates -> Aggregate(e.name, e.args, group)
    [] e.op = "bin" -> GroupBinaryOp(e.f, EvaluateWithGroup(e.l, group), EvaluateWithGroup(e.r, group))
    [] OTHER -> ValueAt(e, group[1])

GroupKey(row) == [i \in 1 .. Len(query.group) |-> ValueAt([op |-> "col", at |-> query.group[i]], row)]

\* hash_aggregate and sort_aggregate are the same code.  Without GROUP BY all rows
\* are one group; without rows there is no group at all.
GroupOf(rs, key) == SelectSeq(rs, LAMBDA r : GroupKey(r) = key)

Grouped(rs, keys) ==
  [k \in 1 .. Len(keys) |->
     [i \in 1 .. Len(query.items) |-> EvaluateWithGroup(query.items[i], GroupOf(rs, keys[k]))]]

GroupKeys(rs) == {GroupKey(rs[i]) : i \in 1 .. Len(rs)}

ApplyGroupBy ==
  \/ /\ query.group # <<>> \/ ListHasAggregate(query.items)
     /\ \E keys \in Orders(GroupKeys(rows)) : Step("group", "having", Grouped(rows, keys))
  \/ /\ query.group = <<>> /\ ~ListHasAggregate(query.items)
     /\ Step("group", "having", rows)

ApplyHaving ==
  Step("having", "distinct", IF query.having = <<>> THEN rows ELSE Filter(rows, query.having[1]))

-----------------------------------------------------------------------------
(* DISTINCT, ORDER BY, OFFSET, LIMIT *)

\* The first row of each kind, by the whole row or by its first column.
FirstOf(rs, byColumn) ==
  LET Of(r) == IF ~byColumn THEN r ELSE IF r = <<>> THEN <<Empty>> ELSE <<r[1]>>
  IN  FoldLeft(LAMBDA s, r : IF \E i \in 1 .. Len(s) : Of(s[i]) = Of(r) THEN s ELSE Append(s, r), <<>>, rs)

ApplyDistinct ==
  Step("distinct", "order",
       CASE query.distinct = "all" -> rows
         [] query.distinct = "distinct" -> FirstOf(rows, FALSE)
         [] query.distinct = "on" -> FirstOf(rows, TRUE))

\* The comparison of sort_by: nulls first or last, whatever the direction.
RECURSIVE RowLess(_, _, _)
RowLess(order, a, b) ==
  order # <<>> /\
  LET item == order[1]
      x == ValueAt([op |-> "col", at |-> item.at], a)
      y == ValueAt([op |-> "col", at |-> item.at], b)
      rest == RowLess(Tail(order), a, b)
  IN  CASE IsNullText(x) /\ IsNullText(y) -> rest
        [] IsNullText(x) /\ ~IsNullText(y) -> item.nullsFirst
        [] ~IsNullText(x) /\ IsNullText(y) -> ~item.nullsFirst
        [] OTHER -> IF x = y THEN rest ELSE IF item.desc THEN y < x ELSE x < y

\* sort_by is stable: each element goes behind the ones that are not greater.
StableSort(s, Less(_, _)) ==
  FoldLeft(LAMBDA t, x : InsertAt(t, 1 + Len(SelectSeq(t, LAMBDA y : ~Less(x, y))), x), <<>>, s)

SortRows(order, rs) == StableSort(rs, LAMBDA a, b : RowLess(order, a, b))

ApplyOrderBy == Step("order", "offset", IF query.order = <<>> THEN rows ELSE SortRows(query.order, rows))

\* A bound that is no number counts as 0: no offset, but no rows either.
BoundOf(e) ==
  LET v == EvaluateExpr(e, <<>>)
      n == IF v = None THEN {} ELSE {m \in NumberOf[OrElse(v, 0)] : m >= 0}
  IN  OrElse(n, 0)

ApplyOffset ==
  Step("offset", "limit",
       IF query.offset = <<>> THEN rows ELSE SubSeq(rows, BoundOf(query.offset[1]) + 1, Len(rows)))

ApplyLimit ==
  Step("limit", "window",
       IF query.limit = <<>> THEN rows
       ELSE SubSeq(rows, 1, Min({BoundOf(query.limit[1]), Len(rows)})))

-----------------------------------------------------------------------------
(* Window functions.  query.window is <<>> or <<[fn, at, order,             *)
(* partitioned, n, default]>>: the function, the column its value goes to,  *)
(* OVER (PARTITION BY ... ORDER BY ...), and its numeric argument.          *)

\* PARTITION BY only keeps the function off the path without an order.
WindowOrder(w, rs) ==
  StableSort([i \in 1 .. Len(rs) |-> i], LAMBDA i, j : RowLess(w.order, rs[i], rs[j]))

Ntile(i, n, len) == TextOf(((i - 1) * n) \div len + 1)

\* The value of the i-th row in the window's order; perm maps places to rows.
\* rows_equal_on_order_by evaluates columns without a descriptor, where every
\* column is empty: all rows are peers, and RANK and DENSE_RANK are 1.
WindowValue(w, rs, perm, i) ==
  LET len == Len(rs)
      At(j) == IF j \in 1 .. len /\ w.at <= Len(rs[perm[j]]) THEN rs[perm[j]][w.at] ELSE Empty
  IN  CASE w.fn = "ROW_NUMBER" -> TextOf(i)
        [] w.fn \in {"RANK", "DENSE_RANK"} -> TextOf(IF w.order = <<>> /\ ~w.partitioned THEN i ELSE 1)
        [] w.fn = "NTILE" -> Ntile(i, w.n, len)
        [] w.fn = "LAG" -> IF i > w.n THEN At(i - w.n) ELSE w.default
        [] w.fn = "LEAD" -> IF i + w.n <= len THEN At(i + w.n) ELSE w.default
        [] w.fn = "FIRST_VALUE" -> At(1)
        [] w.fn = "LAST_VALUE" -> At(len)
        [] w.fn = "NTH_VALUE" -> At(w.n)

\* Without any OVER clause contents only the numbering functions do anything.
WindowApplies(w) ==
  w.order # <<>> \/ w.partitioned \/ w.fn \in {"ROW_NUMBER", "RANK", "DENSE_RANK", "NTILE"}

ComputeWindow(w, rs) ==
  LET perm == WindowOrder(w, rs)
      PlaceOf(i) == CHOOSE j \in 1 .. Len(rs) : perm[j] = i
      Written(row, v) == IF w.at <= Len(row) THEN [row EXCEPT ![w.at] = v] ELSE Append(row, v)
  IN  IF ~WindowApplies(w) THEN rs
      ELSE [i \in 1 .. Len(rs) |-> Written(rs[i], WindowValue(w, rs, perm, PlaceOf(i)))]

ApplyWindow ==
  Step("window", "setop", IF query.window = <<>> THEN rows ELSE ComputeWindow(query.window[1], rows))

-----------------------------------------------------------------------------
(* Set operations *)

CountIn(rs, row) == Cardinality({i \in 1 .. Len(rs) : rs[i] = row})

\* The rows of l that can be paired off with an equal row of r, one to one, in
\* the order of l, and the ones that cannot.
Paired(l, r) ==
  LET ok == {i \in 1 .. Len(l) : CountIn(SubSeq(l, 1, i), l[i]) <= CountIn(r, l[i])}
      Keep(S) == FoldLeft(LAMBDA s, i : IF i \in S THEN Append(s, l[i]) ELSE s,
                          <<>>, [i \in 1 .. Len(l) |-> i])
  IN  [yes |-> Keep(ok), no |-> Keep((1 .. Len(l)) \ ok)]

\* INTERSECT and EXCEPT keep the duplicates of the left side.
SetOperation(op, l, r) ==
  CASE op = "none" -> l
    [] op = "Union" -> FirstOf(l \o r, FALSE)
    [] op = "UnionAll" -> l \o r
    [] op = "Intersect" -> SelectSeq(l, LAMBDA x : Contains(r, x))
    [] op = "IntersectAll" -> Paired(l, r).yes
    [] op = "Except" -> SelectSeq(l, LAMBDA x : ~Contains(r, x))
    [] op = "ExceptAll" -> Paired(l, r).no

ApplySetOperation == Step("setop", "done", SetOperation(query.setop, rows, right))

-----------------------------------------------------------------------------

SelectInit ==
  /\ \E c \in Cases : query = c.query /\ left = c.left /\ right = c.right
  /\ stage = "from"
  /\ rows = <<>>

SelectNext ==
  \/ ExecuteFrom \/ ApplyWhere \/ ApplyGroupBy \/ ApplyHaving \/ ApplyDistinct
  \/ ApplyOrderBy \/ ApplyOffset \/ ApplyLimit \/ ApplyWindow \/ ApplySetOperation

-----------------------------------------------------------------------------
(* Properties *)

Keyed(rs) == \A i \in 1 .. Len(rs) : Key(rs[i]) # {}

\* Whichever algorithm the condition and the sizes of the inputs choose, a join
\* returns the rows SQL asks for: each matching pair once, and in outer joins each
\* unmatched row once with the other side empty.
JoinsExact ==
  stage = "where" /\ query.from = "join" /\ Keyed(left) /\ Keyed(right) =>
    /\ query.on = "equi" =>
         BagOf(rows) = JoinReference(left, right, query.type, LAMBDA l, r : Key(l) = Key(r))
    /\ query.on = "expr" /\ right # <<>> =>
         BagOf(rows) = JoinReference(left, right, query.type,
                                     LAMBDA l, r : EvaluateWhere(query.cond, l \o r))

\* Does the i-th row of the table survive WHERE and DISTINCT?
Survives(i) ==
  LET Sat(j) == query.where = <<>> \/ EvaluateWhere(query.where[1], left[j])
      Same(j) == IF query.distinct = "on" THEN left[j][1] = left[i][1] ELSE left[j] = left[i]
  IN  Sat(i) /\ (query.distinct = "all" \/ ~\E j \in 1 .. i - 1 : Sat(j) /\ Same(j))

Plain == /\ query.from \in {"table", "index"} /\ query.group = <<>> /\ ~ListHasAggregate(query.items)
         /\ query.having = <<>> /\ query.window = <<>> /\ query.setop = "none"

\* A query without groups returns OFFSET and LIMIT's part of the surviving rows
\* in order, ties as they stand in the table, whether it reads the table or goes
\* through an exact index for an equality of its WHERE clause: k is in the result
\* at its place iff that many surviving rows come before it.
ResultExact ==
  stage = "done" /\ Plain =>
    LET kept == {i \in 1 .. Len(left) : Survives(i)}
        Before(j, i) == \/ RowLess(query.order, left[j], left[i])
                        \/ j < i /\ ~RowLess(query.order, left[i], left[j])
        Place(i) == Cardinality({j \in kept : Before(j, i)})
        off == IF query.offset = <<>> THEN 0 ELSE BoundOf(query.offset[1])
        lim == IF query.limit = <<>> THEN Len(left) ELSE BoundOf(query.limit[1])
        shown == {i \in kept : off <= Place(i) /\ Place(i) < off + lim}
    IN  /\ Len(rows) = Cardinality(shown)
        /\ \A i \in shown : rows[Place(i) - off + 1] = left[i]

\* GROUP BY returns one row per distinct key, and the groups share out the rows
\* that passed WHERE: COUNT(*) adds up to their number, SUM to their sum, and every
\* value lies between MIN and MAX of its group.  Queries of the form
\* SELECT key, COUNT(star), SUM(x), MIN(x), MAX(x).
GroupsShareOut ==
  stage = "having" /\ query.group # <<>> =>
    LET base == SelectSeq(left, LAMBDA r : query.where = <<>> \/ EvaluateWhere(query.where[1], r))
        Num(v) == OrElse(NumberOf[v], 0)
        groups == 1 .. Len(rows)
    IN  /\ {rows[g][1] : g \in groups} = {base[i][query.group[1]] : i \in 1 .. Len(base)}
        /\ Cardinality({rows[g][1] : g \in groups}) = Len(rows)
        /\ SumOf(MapRows(LAMBDA r : Num(r[2]), rows)) = Len(base)
        /\ SumOf(MapRows(LAMBDA r : Num(r[3]), rows)) = SumOf(MapRows(LAMBDA r : Num(r[2]), base))
        /\ \A i \in 1 .. Len(base), g \in groups :
             rows[g][1] = base[i][query.group[1]] => rows[g][4] <= base[i][2] /\ base[i][2] <= rows[g][5]

\* ROW_NUMBER numbers the rows in the window's order, NTILE cuts that order into
\* buckets whose sizes differ by one at most, and LEAD and LAG reach the row so
\* many places on and back, unless the OVER clause is empty.
WindowSound ==
  stage = "setop" /\ query.window # <<>> /\ WindowApplies(query.window[1]) =>
    LET w == query.window[1]
        n == Len(rows)
        Got(i) == rows[i][Min({w.at, Len(rows[i])})]
        Size(b) == Cardinality({i \in 1 .. n : Got(i) = TextOf(b)})
        perm == WindowOrder(w, left)
    IN  /\ w.fn = "ROW_NUMBER" => \A i \in 1 .. n :
             Got(i) = TextOf(1 + Cardinality({j \in 1 .. n :
                        \/ RowLess(w.order, left[j], left[i])
                        \/ j < i /\ ~RowLess(w.order, left[i], left[j])}))
        /\ w.fn = "NTILE" /\ w.n > 0 =>
             /\ \A i \in 1 .. n : Got(i) \in {TextOf(b) : b \in 1 .. w.n}
             /\ n >= w.n => \A b, c \in 1 .. w.n : Size(b) <= Size(c) + 1
        /\ w.fn = "LEAD" => \A i \in 1 .. n : i + w.n <= n => Got(perm[i]) = left[perm[i + w.n]][w.at]
        /\ w.fn = "LAG" => \A i \in 1 .. n : i > w.n => Got(perm[i]) = left[perm[i - w.n]][w.at]

\* The set operations count rows as SQL's bags do; INTERSECT and EXCEPT agree
\* with it on which rows are there.
SetOpsExact ==
  stage = "done" /\ query.setop # "none" /\ query.from = "table" /\ query.where = <<>> =>
    \A row \in Range(left) \cup Range(right) :
      LET l == CountIn(left, row)
          r == CountIn(right, row)
          n == CountIn(rows, row)
      IN  CASE query.setop = "Union" -> n = 1
            [] query.setop = "UnionAll" -> n = l + r
            [] query.setop = "IntersectAll" -> n = Min({l, r})
            [] query.setop = "ExceptAll" -> n = IF l > r THEN l - r ELSE 0
            [] query.setop = "Intersect" -> (n > 0) = (l > 0 /\ r > 0)
            [] query.setop = "Except" -> (n > 0) = (l > 0 /\ r = 0)
=============================================================================
