------------------------------ MODULE MCSelect ------------------------------
(* Queries and tables for Select: every clause, in the combinations that    *)
(* can disturb each other.                                                  *)
EXTENDS Select

\* The texts, in their order: "", -1, 0, 1, 10, 2, 3, 4, 5, 6, NULL, false, true
\* and one for every other number.
McNumberOf ==
  [v \in 0 .. 13 |->
     CASE v \in {0, 10, 11, 12, 13} -> {} [] v = 4 -> {10}
       [] v < 4 -> {v - 2} [] OTHER -> {v - 3}]

Null == 10

\* A function on texts that maps two of them to one.
McTextFunction == [f \in {"LOWER"} |-> [v \in 0 .. 13 |-> IF v = 5 THEN 4 ELSE v]]

Rows == {<<4, 3>>, <<5, 3>>, <<5, 5>>, <<0, Null>>}

Lit(v) == [op |-> "lit", val |-> v]
Col(i) == [op |-> "col", at |-> i]
Bin(f, l, r) == [op |-> "bin", f |-> f, l |-> l, r |-> r]
Func(name, args) == [op |-> "fn", name |-> name, args |-> args]

Base == [from |-> "table", type |-> "Inner", on |-> "none", cond |-> Lit(12), where |-> <<>>,
         group |-> <<>>, items |-> <<>>, having |-> <<>>, distinct |-> "all", order |-> <<>>,
         offset |-> <<>>, limit |-> <<>>, window |-> <<>>, setop |-> "none"]

Over(queries, lefts, rights) == [query : queries, left : lefts, right : rights]

One(at, desc, first) == [at |-> at, desc |-> desc, nullsFirst |-> first]

Wheres ==
  {<<>>,
   <<Bin("=", Col(1), Lit(5))>>,
   <<Bin("and", Bin("<", Lit(3), Col(2)), Bin("=", Lit(3), Col(2)))>>,
   <<Bin("or", Bin("=", Col(1), Lit(4)), Bin("=", Col(2), Lit(3)))>>,
   <<Bin("and", [op |-> "un", f |-> "not", e |-> Bin("<", Col(1), Lit(5))], Bin("=", Col(1), Lit(5)))>>,
   <<[op |-> "isnotnull", e |-> Col(2)]>>,
   <<[op |-> "between", e |-> Col(1), lo |-> Lit(5), hi |-> Lit(4), negated |-> FALSE]>>,
   <<[op |-> "case", operand |-> <<Col(1)>>, whens |-> << <<Lit(4), Lit(12)>>, <<Lit(5), Lit(11)>> >>,
       else |-> <<Lit(12)>>]>>,
   <<Bin("=", Func("LOWER", <<Col(1)>>), Lit(4))>>,
   <<[op |-> "in", e |-> Col(1), list |-> <<Lit(4), Lit(0)>>, negated |-> TRUE]>>}

Bounds3 == {[offset |-> <<>>, limit |-> <<>>], [offset |-> <<Lit(3)>>, limit |-> <<Lit(3)>>],
            [offset |-> <<Lit(Null)>>, limit |-> <<Bin("+", Lit(3), Lit(3))>>]}

PlainCases ==
  Over({[Base EXCEPT !.from = f, !.where = w, !.distinct = d, !.order = o,
                     !.offset = b.offset, !.limit = b.limit] :
          f \in {"table", "index"}, w \in Wheres, d \in {"all", "distinct", "on"},
          o \in {<<>>, <<One(2, TRUE, FALSE)>>, <<One(1, FALSE, TRUE), One(2, TRUE, TRUE)>>},
          b \in Bounds3},
       BoundedSeq(Rows, 3), {<<>>})

JoinCases ==
  Over({[Base EXCEPT !.from = "join", !.type = t, !.on = o, !.cond = Bin("<", Col(1), Col(3))] :
          t \in {"Inner", "Left", "Right", "Full"}, o \in {"equi", "expr"}}
         \cup {[Base EXCEPT !.from = "join", !.on = o] : o \in {"using", "none"}},
       BoundedSeq(Rows, 2), BoundedSeq({<<0>>, <<4>>, <<5>>}, 3))

GroupCases ==
  Over({[Base EXCEPT !.where = w, !.group = <<1>>, !.having = h,
                     !.items = <<Col(1), Func("COUNT", <<>>), Func("SUM", <<Col(2)>>),
                                 Func("MIN", <<Col(2)>>), Func("MAX", <<Col(2)>>)>>] :
          w \in Wheres, h \in {<<>>, <<Bin(">", Col(2), Lit(3))>>}}
         \cup {[Base EXCEPT !.items = <<Func("COUNT", <<Col(1)>>),
                                        Bin("/", Func("AVG", <<Col(2)>>), Lit(3))>>]},
       BoundedSeq(Rows, 3), {<<>>})

WindowCases ==
  Over({[Base EXCEPT !.window = <<[fn |-> f, at |-> 3 - n, order |-> o, partitioned |-> p,
                                   n |-> n, default |-> 0]>>] :
          f \in {"ROW_NUMBER", "RANK", "NTILE", "LAG", "LEAD", "FIRST_VALUE", "LAST_VALUE", "NTH_VALUE"},
          n \in {1, 2}, p \in BOOLEAN, o \in {<<>>, <<One(2, TRUE, FALSE)>>}},
       BoundedSeq(Rows, 3), {<<>>})

SetOpCases ==
  Over({[Base EXCEPT !.setop = s] :
          s \in {"Union", "UnionAll", "Intersect", "IntersectAll", "Except", "ExceptAll"}},
       BoundedSeq(Rows, 3), BoundedSeq(Rows, 2))

NoFromCases == Over({[Base EXCEPT !.from = "none", !.items = <<Bin("*", Lit(5), Lit(5))>>],
                     [Base EXCEPT !.from = "none"]}, {<<>>}, {<<>>})

McCases == PlainCases \cup JoinCases \cup GroupCases \cup WindowCases \cup SetOpCases \cup NoFromCases
=============================================================================
