-------------------------------- MODULE Eval --------------------------------
(***************************************************************************)
(* src/server/eval.rs: expressions over a row of texts, and the second     *)
(* evaluator of src/executor/select/group_by.rs for groups.  The index     *)
(* path of src/executor/select/context.rs and the pruner rely on what a    *)
(* WHERE clause that holds says of one column.                             *)
(*                                                                         *)
(* A value is a text, written as its position in the order of all texts of *)
(* the model; 0 is the empty one.  An Option is a set of at most one value.*)
(* Expressions are records with a field op; col is a column's position,    *)
(* 0 for a name that the descriptor does not have.                         *)
(***************************************************************************)
EXTENDS Integers, Sequences, FiniteSets, SequencesExt

CONSTANTS NumberOf,     \* a text's value as a number: a set of at most one
          FalseText, TrueText, NullText,
          OtherNumber,  \* any number whose text is not in the model
          LikeMatches,  \* the pairs <<text, pattern>> that match LIKE
          TextFunction  \* LENGTH, UPPER, LOWER and TRIM, as functions on texts

Texts == DOMAIN NumberOf

None == {}
Some(v) == {v}

TextOf(n) ==
  IF \E v \in Texts : NumberOf[v] = {n} THEN CHOOSE v \in Texts : NumberOf[v] = {n}
  ELSE OtherNumber

BoolText(b) == IF b THEN TrueText ELSE FalseText

\* str::parse::<bool>
BoolOf(v) == IF v = TrueText THEN {TRUE} ELSE IF v = FalseText THEN {FALSE} ELSE {}

IsNullText(v) == v = 0 \/ v = NullText

Abs(n) == IF n < 0 THEN 0 - n ELSE n
Remainder(l, r) == IF l < 0 THEN 0 - (Abs(l) % Abs(r)) ELSE l % Abs(r)
Quotient(l, r) == IF Abs(l) % Abs(r) # 0 THEN OtherNumber
                  ELSE TextOf((IF (l < 0) = (r < 0) THEN 1 ELSE 0 - 1) * (Abs(l) \div Abs(r)))

\* The comparisons are comparisons of texts.
Compare(op, l, r) ==
  CASE op = "=" -> l = r [] op = "<>" -> l # r [] op = "<" -> l < r
    [] op = "<=" -> l <= r [] op = ">" -> l > r [] op = ">=" -> l >= r
    [] op = "like" -> <<l, r>> \in LikeMatches

Comparisons == {"=", "<>", "<", "<=", ">", ">=", "like"}

Arithmetic(op, l, r) ==
  CASE op = "+" -> {TextOf(l + r)} [] op = "-" -> {TextOf(l - r)} [] op = "*" -> {TextOf(l * r)}
    [] op = "/" -> IF r = 0 THEN None ELSE {Quotient(l, r)}
    [] op = "%" -> IF r = 0 THEN None ELSE {TextOf(Remainder(l, r))}

\* A binary operator on two texts: None as soon as one is not of its kind.
BinaryOp(op, l, r) ==
  CASE op \in Comparisons -> Some(BoolText(Compare(op, l, r)))
    [] op = "and" -> {BoolText(a /\ b) : a \in BoolOf(l), b \in BoolOf(r)}
    [] op = "or" -> {BoolText(a \/ b) : a \in BoolOf(l), b \in BoolOf(r)}
    [] OTHER -> UNION {Arithmetic(op, m, n) : m \in NumberOf[l], n \in NumberOf[r]}

UnaryOp(op, v) ==
  CASE op = "not" -> {BoolText(~b) : b \in BoolOf(v)}
    [] op = "neg" -> {TextOf(0 - n) : n \in NumberOf[v]}
    [] op = "plus" -> {TextOf(n) : n \in NumberOf[v]}
    [] op = "bitnot" -> {TextOf(0 - n - 1) : n \in NumberOf[v]}

\* BETWEEN compares numbers when all three are, and texts otherwise.
InRange(v, l, h) ==
  IF NumberOf[v] # {} /\ NumberOf[l] # {} /\ NumberOf[h] # {}
  THEN \A n \in NumberOf[v], a \in NumberOf[l], b \in NumberOf[h] : a <= n /\ n <= b
  ELSE l <= v /\ v <= h

\* The arm of a CASE at which the search stops, 0 for none: the first one that
\* matches, or whose WHEN cannot be evaluated, which makes the whole CASE None.
\* "t" is no text of the model.
CaseArm(subject, conds) ==
  LET Hits(c) == IF subject = None THEN c = {TrueText} ELSE c = subject
  IN  SelectInSeq(conds, LAMBDA c : c = None \/ Hits(c))

\* A function outside a group: COUNT is 1, and what is not a function on texts
\* gives its first argument.  SUBSTRING and CONCAT are left out.
FunctionValue(name, arg0) ==
  CASE name = "COUNT" -> Some(TextOf(1))
    [] name \in DOMAIN TextFunction -> {TextFunction[name][v] : v \in arg0}
    [] OTHER -> arg0

RECURSIVE EvaluateExpr(_, _)
EvaluateExpr(e, row) ==
  LET Ev(x) == EvaluateExpr(x, row)
      Arg0 == IF e.args = <<>> THEN None ELSE Ev(e.args[1])
  IN  CASE e.op = "lit" -> Some(e.val)
        [] e.op = "col" -> IF e.at \in 1 .. Len(row) THEN Some(row[e.at]) ELSE None
        [] e.op = "bin" -> UNION {BinaryOp(e.f, l, r) : l \in Ev(e.l), r \in Ev(e.r)}
        [] e.op = "un" -> UNION {UnaryOp(e.f, v) : v \in Ev(e.e)}
        [] e.op = "isnull" -> {BoolText(IsNullText(v)) : v \in Ev(e.e)}
        [] e.op = "isnotnull" -> {BoolText(~IsNullText(v)) : v \in Ev(e.e)}
        [] e.op = "cast" -> Ev(e.e)
        [] e.op = "between" -> {BoolText(InRange(v, l, h) # e.negated) :
                                  v \in Ev(e.e), l \in Ev(e.lo), h \in Ev(e.hi)}
        [] e.op = "in" -> {BoolText((\E i \in DOMAIN e.list : Ev(e.list[i]) = {v}) # e.negated) :
                             v \in Ev(e.e)}
        [] e.op = "case" ->
             LET subject == IF e.operand = <<>> THEN None ELSE Ev(e.operand[1])
                 conds == [i \in DOMAIN e.whens |-> Ev(e.whens[i][1])]
                 at == CaseArm(subject, conds)
             IN  IF at = 0 THEN IF e.else = <<>> THEN Some(NullText) ELSE Ev(e.else[1])
                 ELSE IF conds[at] = None THEN None ELSE Ev(e.whens[at][2])
        [] e.op = "fn" -> FunctionValue(e.name, Arg0)
        [] OTHER -> None

EvaluateWhere(e, row) == EvaluateExpr(e, row) = Some(TrueText)

-----------------------------------------------------------------------------
(* The evaluator for groups: what is not a number counts as 0 (as 1 in a    *)
(* divisor), and what is not a Boolean as false.                            *)

OrElse(option, default) == IF option = {} THEN default ELSE CHOOSE v \in option : TRUE

GroupBinaryOp(op, l, r) ==
  LET m == OrElse(NumberOf[l], 0)
      n == OrElse(NumberOf[r], IF op \in {"/", "%"} THEN 1 ELSE 0)
      a == OrElse(BoolOf(l), FALSE)
      b == OrElse(BoolOf(r), FALSE)
  IN  CASE op \in Comparisons -> BoolText(Compare(op, l, r))
        [] op = "and" -> BoolText(a /\ b)
        [] op = "or" -> BoolText(a \/ b)
        [] OTHER -> OrElse(Arithmetic(op, m, n), NullText)

-----------------------------------------------------------------------------
(* extract_equality: the first "column = literal" of a conjunction, on      *)
(* either side of the sign, as a sequence of at most one <<column, value>>. *)

RECURSIVE ExtractEquality(_)
ExtractEquality(e) ==
  IF e.op # "bin" THEN <<>>
  ELSE CASE e.f = "=" /\ e.l.op = "col" /\ e.r.op = "lit" -> << <<e.l.at, e.r.val>> >>
         [] e.f = "=" /\ e.l.op = "lit" /\ e.r.op = "col" -> << <<e.r.at, e.l.val>> >>
         [] e.f = "and" -> LET l == ExtractEquality(e.l)
                           IN  IF l # <<>> THEN l ELSE ExtractEquality(e.r)
         [] OTHER -> <<>>
=============================================================================
