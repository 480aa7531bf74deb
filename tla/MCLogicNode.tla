---------------------------- MODULE MCLogicNode ----------------------------
(***************************************************************************)
(* Logic nodes for TLC.  A behaviour is one of a node, or of calls of the  *)
(* language's functions.  The node has a definition that needs two         *)
(* readings, an expression of the definition and one of the time, a        *)
(* reading and the sun.                                                    *)
(***************************************************************************)
EXTENDS LogicNode, DatesAndColors

CONSTANTS
  In1, In2,     \* inputs
  Def1,         \* a definition
  Out1, Out2,   \* outputs
  IntMax, MaxDepth

VARIABLES part, depth

MCVars == {In1, In2}

MCEval(p, in, t, s) ==
  CASE p = Def1 -> IF None \in {in[In1], in[In2]} THEN None ELSE in[In1] # in[In2]
    [] p = 1 -> in[Def1]
    [] p = 2 -> IF None \in {in[In1], s} THEN None ELSE (t \div Unit = 0) = in[In1]
    [] OTHER -> in[In2]

\* As the documentation asks: one expression for each output.
OneEach == <<Out2, Out1>>

MCKelvinRgb(k) == IF k > 66 THEN <<2, 3, 4>> ELSE <<4, 3, 1>>

L == INSTANCE Language

langVars == <<calls, depth>>
logicVars == <<part, vars, langVars>>

LogicInit ==
  /\ part \in {"node", "language"}
  /\ Init /\ L!Init
  /\ part = "language" => now = 0

NodeDoes(A) == part = "node" /\ A /\ UNCHANGED <<part, langVars>>
LanguageDoes(A) == part = "language" /\ A /\ UNCHANGED <<part, vars>>

LogicNext == NodeDoes(Next) \/ LanguageDoes(L!Next)

LogicSpec == LogicInit /\ [][LogicNext]_logicVars /\ (part = "node" => Fairness)

OptimizedComputesTheSame == L!OptimizedComputesTheSame
WatchedFieldSuffices == L!WatchedFieldSuffices
=============================================================================
