-------------------------------- MODULE Expr --------------------------------
(***************************************************************************)
(* The expressions of logic nodes (logic/compile.rs): what eval computes,  *)
(* what the optimizer makes of an expression, and which time field a node  *)
(* watches for it.  Logic nodes run optimize(e) of each of their e.        *)
(*                                                                         *)
(* An expression is a record with its operator.  A value is a record with  *)
(* its type: numbers are quotients n/d, an integer has d = 1, and a float  *)
(* is computed exactly; Strings are numbered in their order.               *)
(***************************************************************************)
EXTENDS Calendar, Sequences, Color

CONSTANT IntMax   \* i32::MAX

NoValue == [type |-> "none"]
Boolean(b) == [type |-> "bool", n |-> IF b THEN 1 ELSE 0, d |-> 1]
I32(k) == [type |-> "int", n |-> k, d |-> 1]
F64(k, q) == [type |-> "flt", n |-> k, d |-> q]
Text(k) == [type |-> "str", n |-> k, d |-> 1]

IsTrue(v) == v.type = "bool" /\ v.n = 1
IsFalse(v) == v.type = "bool" /\ v.n = 0
IsNumber(v) == v.type \in {"int", "flt"}

\* Integers are 32 bits wide and wrap in a release build.  The one quotient
\* that overflows, which panics, is left out.
Wrapped(k) == ((k + IntMax + 1) % (2 * (IntMax + 1))) - (IntMax + 1)

Abs(k) == IF k < 0 THEN -k ELSE k
Sign(k) == IF k < 0 THEN -1 ELSE 1
\* Division truncates.
Quot(a, b) == Sign(a) * Sign(b) * (Abs(a) \div Abs(b))

-----------------------------------------------------------------------------
(* The operators on values.  An operand of the wrong type gives no value. *)

NotOf(v) == IF v.type = "bool" THEN Boolean(v.n = 0) ELSE NoValue

\* A missing operand decides nothing; the other one may.
OrOf(a, b) ==
  IF IsTrue(a) THEN a
  ELSE IF IsFalse(a) THEN (IF b.type = "bool" THEN b ELSE NoValue)
  ELSE IF a = NoValue /\ IsTrue(b) THEN b ELSE NoValue

AndOf(a, b) ==
  IF IsFalse(a) THEN a
  ELSE IF IsTrue(a) THEN (IF b.type = "bool" THEN b ELSE NoValue)
  ELSE IF a = NoValue /\ IsFalse(b) THEN b ELSE NoValue

Comparable(a, b) == (IsNumber(a) /\ IsNumber(b)) \/ (a.type = "str" /\ b.type = "str")

EqOf(a, b) ==
  IF Comparable(a, b) \/ (a.type = "bool" /\ b.type = "bool")
  THEN Boolean(a.n * b.d = b.n * a.d) ELSE NoValue
LtOf(a, b) == IF Comparable(a, b) THEN Boolean(a.n * b.d < b.n * a.d) ELSE NoValue
LtEqOf(a, b) == IF Comparable(a, b) THEN Boolean(a.n * b.d <= b.n * a.d) ELSE NoValue

\* One operand of a sum, a difference or a product may be a boolean.
Addable(a, b) ==
  /\ IsNumber(a) \/ IsNumber(b)
  /\ {a.type, b.type} \subseteq {"int", "flt", "bool"}
Number(a, b, k, q) == IF "flt" \in {a.type, b.type} THEN F64(k, q) ELSE I32(Wrapped(k))

AddOf(a, b) == IF Addable(a, b) THEN Number(a, b, a.n * b.d + b.n * a.d, a.d * b.d) ELSE NoValue
SubOf(a, b) == IF Addable(a, b) THEN Number(a, b, a.n * b.d - b.n * a.d, a.d * b.d) ELSE NoValue
MulOf(a, b) == IF Addable(a, b) THEN Number(a, b, a.n * b.n, a.d * b.d) ELSE NoValue

DivOf(a, b) ==
  IF ~(IsNumber(a) /\ IsNumber(b)) \/ b.n = 0 THEN NoValue
  ELSE IF a.type = "int" /\ b.type = "int" THEN I32(Wrapped(Quot(a.n, b.n)))
  ELSE F64(Sign(b.n) * a.n * b.d, a.d * Abs(b.n))

RemOf(a, b) ==
  IF ~(IsNumber(a) /\ IsNumber(b)) \/ b.n <= 0 THEN NoValue
  ELSE IF a.type = "int" /\ b.type = "int" THEN I32(a.n - b.n * Quot(a.n, b.n))
  ELSE F64(a.n * b.d - b.n * a.d * Quot(a.n * b.d, b.n * a.d), a.d * b.d)

\* The alpha is clamped to 0..1 and truncated.
WithAlphaOf(c, v) ==
  LET a == IF v.n <= 0 THEN 0 ELSE IF v.n >= v.d THEN Full ELSE (v.n * Full) \div v.d
  IN  IF v.type = "flt" /\ c.type = "color" THEN [c EXCEPT !.a = a] ELSE NoValue

BrightnessOf(c) == IF c.type = "color" THEN F64(Luma(c), 10 * Full) ELSE NoValue

-----------------------------------------------------------------------------
(* eval(e, inputs, time, solar); time has a UTC and a local part. *)

Binary == {"or", "and", "eq", "lt", "lteq", "add", "sub", "mul", "div", "rem", "alpha"}

Apply(op, a, b) ==
  CASE op = "or" -> OrOf(a, b)
    [] op = "and" -> AndOf(a, b)
    [] op = "eq" -> EqOf(a, b)
    [] op = "lt" -> LtOf(a, b)
    [] op = "lteq" -> LtEqOf(a, b)
    [] op = "add" -> AddOf(a, b)
    [] op = "sub" -> SubOf(a, b)
    [] op = "mul" -> MulOf(a, b)
    [] op = "div" -> DivOf(a, b)
    [] op = "rem" -> RemOf(a, b)
    [] op = "alpha" -> WithAlphaOf(a, b)

FirstValue(vs) ==
  LET some == {k \in 1..Len(vs) : vs[k] # NoValue}
  IN  IF some = {} THEN NoValue ELSE vs[CHOOSE k \in some : \A j \in some : k <= j]

\* The layers from the last to the first; missing ones are transparent.  One
\* that is no color fails.
Failed == [type |-> "failed"]
BlendOf(vs) ==
  LET n == Len(vs)
      under[k \in 1..(n + 1)] ==
        CASE k = n + 1 -> NoValue
          [] k <= n /\ (vs[k] = NoValue \/ under[k + 1] = Failed) -> under[k + 1]
          [] k <= n /\ vs[k] # NoValue /\ under[k + 1] # Failed ->
               IF vs[k].type # "color" THEN Failed
               ELSE IF under[k + 1] = NoValue THEN vs[k] ELSE Over(vs[k], under[k + 1])
  IN  CASE under[1] = Failed -> NoValue [] under[1] = NoValue -> Transparent [] OTHER -> under[1]

RECURSIVE EvalExpr(_, _, _, _)
EvalExpr(e, in, time, solar) ==
  CASE e.op = "nothing" -> NoValue
    [] e.op = "lit" -> e.v
    [] e.op = "var" -> in[e.name]
    [] e.op = "time" -> IF e.field = "LY" THEN Boolean(Project("LY", time[e.zone]) = 1)
                                           ELSE I32(Project(e.field, time[e.zone]))
    [] e.op = "solar" -> solar
    [] e.op = "not" -> NotOf(EvalExpr(e.a, in, time, solar))
    [] e.op = "brightness" -> BrightnessOf(EvalExpr(e.a, in, time, solar))
    [] e.op \in Binary -> Apply(e.op, EvalExpr(e.a, in, time, solar), EvalExpr(e.b, in, time, solar))
    [] e.op = "if" -> LET c == EvalExpr(e.a, in, time, solar) IN
                      IF IsTrue(c) THEN EvalExpr(e.b, in, time, solar)
                      ELSE IF IsFalse(c) THEN EvalExpr(e.c, in, time, solar) ELSE NoValue
    [] e.op = "coalesce" -> FirstValue([k \in 1..Len(e.es) |-> EvalExpr(e.es[k], in, time, solar)])
    [] e.op = "blend" -> BlendOf([k \in 1..Len(e.es) |-> EvalExpr(e.es[k], in, time, solar)])

-----------------------------------------------------------------------------
(* optimize(e). *)

Nothing == [op |-> "nothing"]
Lit(v) == [op |-> "lit", v |-> v]
IsLit(e) == e.op = "lit"
LitTrue(e) == IsLit(e) /\ IsTrue(e.v)
LitFalse(e) == IsLit(e) /\ IsFalse(e.v)
IsZero(e) == IsLit(e) /\ IsNumber(e.v) /\ e.v.n = 0
IsOne(e) == IsLit(e) /\ IsNumber(e.v) /\ e.v.n = e.v.d

\* Two literals are evaluated, if that gives a value.
Fold(op, a, b) ==
  LET v == Apply(op, a.v, b.v)
  IN  IF IsLit(a) /\ IsLit(b) /\ v # NoValue THEN Lit(v) ELSE [op |-> op, a |-> a, b |-> b]

OptimizeAnd(a, b) ==
  IF LitFalse(a) THEN a ELSE IF LitFalse(b) THEN b
  ELSE IF LitTrue(a) THEN b ELSE IF LitTrue(b) THEN a
  ELSE [op |-> "and", a |-> a, b |-> b]

OptimizeOr(a, b) ==
  IF LitTrue(a) THEN a ELSE IF LitTrue(b) THEN b
  ELSE IF LitFalse(a) THEN b ELSE IF LitFalse(b) THEN a
  ELSE [op |-> "or", a |-> a, b |-> b]

\* Defect: zero minus an expression is taken for the expression.
OptimizeSumSwapped(op, a, b) ==
  IF IsZero(a) THEN b ELSE IF IsZero(b) THEN a ELSE Fold(op, a, b)

\* A sum with zero is its other operand; a difference may have zero second.
OptimizeSum(op, a, b) ==
  IF op = "add" /\ IsZero(a) THEN b ELSE IF IsZero(b) THEN a ELSE Fold(op, a, b)

\* A product with zero is zero, and with one its other operand.
OptimizeProduct(a, b) ==
  IF IsZero(a) THEN a ELSE IF IsZero(b) THEN b
  ELSE IF IsOne(a) THEN b ELSE IF IsOne(b) THEN a ELSE Fold("mul", a, b)

OptimizeQuotient(op, a, b) ==
  IF IsZero(a) THEN a ELSE IF IsZero(b) THEN Nothing
  ELSE IF op = "div" /\ IsOne(b) THEN a ELSE Fold(op, a, b)

\* Arguments without a value are dropped, and those after a literal.
OptimizeCoalesce(es) ==
  LET lits == {k \in 1..Len(es) : IsLit(es[k])}
      upTo == IF lits = {} THEN es
              ELSE SubSeq(es, 1, CHOOSE k \in lits : \A j \in lits : k <= j)
      left == SelectSeq(upTo, LAMBDA x : x # Nothing)
  IN  CASE left = <<>> -> Nothing
        [] Len(left) = 1 -> left[1]
        [] OTHER -> [op |-> "coalesce", es |-> left]

OptimizeBlend(es) ==
  LET left == SelectSeq(es, LAMBDA x : x # Nothing)
  IN  IF left = <<>> THEN Lit(Transparent) ELSE [op |-> "blend", es |-> left]

RECURSIVE Optimize(_)

\* Only a double negation and a negated literal are reduced.
OptimizeNot(e) ==
  IF e.op = "not" THEN Optimize(e.a)
  ELSE IF IsLit(e) /\ e.v.type = "bool" THEN Lit(NotOf(e.v))
  ELSE [op |-> "not", a |-> e]

OptimizeIf(c, e) ==
  CASE c = Nothing -> Nothing
    [] LitTrue(c) -> Optimize(e.b)
    [] LitFalse(c) -> Optimize(e.c)
    [] OTHER -> [op |-> "if", a |-> c, b |-> Optimize(e.b), c |-> Optimize(e.c)]

Optimize(e) ==
  CASE e.op = "not" -> OptimizeNot(e.a)
    [] e.op = "and" -> OptimizeAnd(Optimize(e.a), Optimize(e.b))
    [] e.op = "or" -> OptimizeOr(Optimize(e.a), Optimize(e.b))
    [] e.op \in {"add", "sub"} -> OptimizeSum(e.op, Optimize(e.a), Optimize(e.b))
    [] e.op = "mul" -> OptimizeProduct(Optimize(e.a), Optimize(e.b))
    [] e.op \in {"div", "rem"} -> OptimizeQuotient(e.op, Optimize(e.a), Optimize(e.b))
    [] e.op \in {"eq", "lt", "lteq"} -> Fold(e.op, Optimize(e.a), Optimize(e.b))
    [] e.op = "coalesce" -> OptimizeCoalesce([k \in 1..Len(e.es) |-> Optimize(e.es[k])])
    [] e.op = "blend" -> OptimizeBlend([k \in 1..Len(e.es) |-> Optimize(e.es[k])])
    [] e.op = "if" -> OptimizeIf(Optimize(e.a), e)
    [] OTHER -> e

-----------------------------------------------------------------------------
(* What a node watches for an expression. *)

\* The arguments of an expression.
Parts(e) ==
  CASE e.op \in {"not", "brightness"} -> {e.a}
    [] e.op \in Binary -> {e.a, e.b}
    [] e.op = "if" -> {e.a, e.b, e.c}
    [] e.op \in {"coalesce", "blend"} -> {e.es[k] : k \in 1..Len(e.es)}
    [] OTHER -> {}

\* tod::TimeField, in order, and the one that a field of the language needs.
Watched == <<"second", "minute", "hour", "day", "month", "year">>
Never == Len(Watched) + 1

\* Defect: the week of the month is taken to change with the month.
WatchForMonthly(field) ==
  CASE field = "second" -> 1 [] field = "minute" -> 2 [] field = "hour" -> 3
    [] field \in {"day", "DOW", "DOY"} -> 4
    [] field \in {"month", "SOM", "EOM"} -> 5 [] OTHER -> 6

WatchFor(field) ==
  CASE field = "second" -> 1 [] field = "minute" -> 2 [] field = "hour" -> 3
    [] field \in {"day", "SOM", "EOM", "DOW", "DOY"} -> 4
    [] field = "month" -> 5 [] OTHER -> 6

\* uses_time: the field that changes most often.
RECURSIVE ExprUsesTime(_)
ExprUsesTime(e) ==
  LET fields == {ExprUsesTime(p) : p \in Parts(e)} \union {Never}
  IN  IF e.op = "time" THEN WatchFor(e.field)
      ELSE CHOOSE f \in fields : \A g \in fields : f <= g

RECURSIVE ExprUsesSolar(_)
ExprUsesSolar(e) == e.op = "solar" \/ \E p \in Parts(e) : ExprUsesSolar(p)
=============================================================================
