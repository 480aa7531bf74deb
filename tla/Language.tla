------------------------------ MODULE Language ------------------------------
(***************************************************************************)
(* The logic language as a program of calls: an expression that grows by   *)
(* one operator per step, and the calls of DatesAndColors.                 *)
(***************************************************************************)
EXTENDS Expr, DatesAndColors

CONSTANT MaxDepth   \* how often an expression grows

VARIABLE depth

-----------------------------------------------------------------------------
(* Expressions of one type each, as a configuration's author writes them.  *)

Var(n) == [op |-> "var", name |-> n]
Time(z, f) == [op |-> "time", zone |-> z, field |-> f]
Solar == [op |-> "solar"]
Red == Rgba(Full, 0, 1, 2)

Leaves ==
  {Lit(Boolean(b)) : b \in BOOLEAN} \union {Lit(I32(k)) : k \in {0, 1, 2, IntMax}}
  \union {Lit(F64(k, 1)) : k \in 0..1} \union {Lit(Red), Var("b"), Var("i"), Var("f"), Var("c")}
  \union {Time("utc", "hour"), Time("local", "day"), Time("utc", "EOM"), Time("local", "LY"), Solar}

VarType == [b |-> "bool", i |-> "int", f |-> "flt", c |-> "color"]

RECURSIVE TypeOf(_)
TypeOf(e) ==
  CASE e.op = "lit" -> e.v.type
    [] e.op = "var" -> VarType[e.name]
    [] e.op = "time" -> IF e.field = "LY" THEN "bool" ELSE "int"
    [] e.op = "solar" -> "flt"
    [] e.op = "not" -> IF TypeOf(e.a) = "bool" THEN "bool" ELSE "bad"
    [] e.op = "brightness" -> IF TypeOf(e.a) = "color" THEN "flt" ELSE "bad"
    [] e.op = "alpha" -> IF TypeOf(e.a) = "color" /\ TypeOf(e.b) = "flt" THEN "color" ELSE "bad"
    [] e.op \in {"and", "or"} -> IF {TypeOf(e.a), TypeOf(e.b)} = {"bool"} THEN "bool" ELSE "bad"
    [] e.op \in {"eq", "lt", "lteq"} ->
         IF TypeOf(e.a) = TypeOf(e.b) /\ TypeOf(e.a) \in {"int", "flt"} THEN "bool" ELSE "bad"
    [] e.op \in {"add", "sub", "mul", "div", "rem"} ->
         IF TypeOf(e.a) = TypeOf(e.b) /\ TypeOf(e.a) \in {"int", "flt"} THEN TypeOf(e.a) ELSE "bad"
    [] e.op = "if" -> IF TypeOf(e.a) = "bool" /\ TypeOf(e.b) = TypeOf(e.c) THEN TypeOf(e.b) ELSE "bad"
    [] e.op \in {"coalesce", "blend"} ->
         LET t == TypeOf(e.es[1])
         IN  IF TypeOf(e.es[2]) = t /\ (e.op = "blend" => t = "color") THEN t ELSE "bad"

Grown(e) ==
  {[op |-> o, a |-> e] : o \in {"not", "brightness"}}
  \union {[op |-> o, a |-> e, b |-> l] : o \in Binary, l \in Leaves}
  \union {[op |-> o, a |-> l, b |-> e] : o \in Binary, l \in Leaves}
  \union {[op |-> "if", a |-> x, b |-> y, c |-> z] : x \in {e, Var("b")}, y, z \in {e, Var("i"), Lit(I32(1))}}
  \union {[op |-> o, es |-> <<x, y>>] : o \in {"coalesce", "blend"}, x \in {e}, y \in Leaves}
  \union {[op |-> o, es |-> <<y, x>>] : o \in {"coalesce", "blend"}, x \in {e}, y \in Leaves}

Given(n) ==
  CASE n = "b" -> {NoValue, Boolean(TRUE), Boolean(FALSE)}
    [] n = "i" -> {NoValue, I32(3), I32(2)}
    [] n = "f" -> {NoValue, F64(1, 2), F64(3, 1)}
    [] n = "c" -> {NoValue, Ccta(60, 3), Rgba(1, 2, 3, Full)}

RECURSIVE VarsOf(_)
VarsOf(e) == IF e.op = "var" THEN {e.name} ELSE UNION {VarsOf(p) : p \in Parts(e)}

\* Readings of the variables that an expression uses.
Readings(e) ==
  {in \in [VarsOf(e) -> UNION {Given(n) : n \in VarsOf(e)}] : \A n \in VarsOf(e) : in[n] \in Given(n)}

\* Two times a second apart, where a second, a minute, an hour or more begins
\* in one of two zones that are half an hour apart.
Ticks ==
  {[before |-> [utc |-> At(2024, 2, 28, 22, 29, 58), local |-> At(2024, 2, 28, 22, 59, 58)],
    after |-> [utc |-> At(2024, 2, 28, 22, 29, 59), local |-> At(2024, 2, 28, 22, 59, 59)]],
   [before |-> [utc |-> At(2024, 2, 28, 23, 29, 59), local |-> At(2024, 2, 28, 23, 59, 59)],
    after |-> [utc |-> At(2024, 2, 28, 23, 30, 0), local |-> At(2024, 2, 29, 0, 0, 0)]],
   [before |-> [utc |-> At(2024, 2, 28, 23, 59, 59), local |-> At(2024, 2, 29, 0, 29, 59)],
    after |-> [utc |-> At(2024, 2, 29, 0, 0, 0), local |-> At(2024, 2, 29, 0, 30, 0)]],
   [before |-> [utc |-> At(2023, 12, 31, 23, 29, 59), local |-> At(2023, 12, 31, 23, 59, 59)],
    after |-> [utc |-> At(2023, 12, 31, 23, 30, 0), local |-> At(2024, 1, 1, 0, 0, 0)]],
   [before |-> [utc |-> At(2024, 6, 16, 23, 59, 59), local |-> At(2024, 6, 17, 0, 29, 59)],
    after |-> [utc |-> At(2024, 6, 17, 0, 0, 0), local |-> At(2024, 6, 17, 0, 30, 0)]]}

Noon == [utc |-> At(2024, 2, 29, 12, 0, 0), local |-> At(2024, 2, 29, 12, 30, 0)]
SunReadings == {NoValue, F64(1, 2)}

-----------------------------------------------------------------------------
(* The calls. *)

Init == NoCall /\ depth = 0

Grow ==
  /\ fn = "eval" /\ depth < MaxDepth
  /\ arg' \in {e \in Grown(arg) : TypeOf(e) # "bad"}
  /\ depth' = depth + 1
  /\ UNCHANGED fn

Next ==
  \/ Call("eval", Leaves) /\ UNCHANGED depth
  \/ Grow
  \/ NextCall /\ depth' = 0

-----------------------------------------------------------------------------
(* Properties. *)

\* Subexpressions that have no value keep none, which coalesce and blend see.
RECURSIVE Kept(_, _, _)
Kept(e, in, solar) ==
  \A p \in Parts(e) :
    /\ Kept(p, in, solar)
    /\ e.op \in {"coalesce", "blend"} /\ EvalExpr(p, in, Noon, solar) = NoValue =>
         EvalExpr(Optimize(p), in, Noon, solar) = NoValue

Equals(v, w) == v = w \/ (v.type = w.type /\ v.type = "flt" /\ v.n * w.d = w.n * v.d)

\* What an expression computes from readings that it can be computed from, some
\* of which may be missing, is what its optimized form computes from them.
OptimizedComputesTheSame ==
  fn = "eval" => \A in \in Readings(arg), solar \in SunReadings :
    LET v == EvalExpr(arg, in, Noon, solar)
    IN  v # NoValue /\ Kept(arg, in, solar) => Equals(v, EvalExpr(Optimize(arg), in, Noon, solar))

\* A node may leave an optimized expression as it is while the field of the time
\* that it watches stays the same in both zones, and always if it watches none.
WatchedFieldSuffices ==
  fn = "eval" =>
    LET e == Optimize(arg)
        f == ExprUsesTime(e)
        Same(t) == f = Never \/ \A z \in {"utc", "local"} : t.before[z][Watched[f]] = t.after[z][Watched[f]]
    IN  \A t \in {u \in Ticks : Same(u)}, in \in Readings(arg), sun \in SunReadings :
          ExprUsesSolar(e) \/ sun = NoValue => EvalExpr(e, in, t.before, sun) = EvalExpr(e, in, t.after, sun)
=============================================================================
