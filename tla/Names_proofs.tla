--------------------------- MODULE Names_proofs ----------------------------
(***************************************************************************)
(* Proofs about patterns and names of any length: the matcher of the       *)
(* simple backend finds what the grammar of redis does, names are what the *)
(* grammar of names allows, and the devices of a driver have their own.    *)
(***************************************************************************)
EXTENDS NameCalls, TLAPS, WellFoundedInduction, SequenceTheorems

-----------------------------------------------------------------------------
(* The grammar of patterns. *)

\* The places from which one more character matches.
Before(pattern, name, i, next) ==
  IF pattern[i] = "*" THEN {j \in 1..(Len(name) + 1) : \E l \in next : j <= l}
  ELSE {j \in 1..Len(name) : pattern[i] \in {"?", name[j]} /\ j + 1 \in next}

\* The grammar's recursion.
LEMMA MatchedFromIs ==
  ASSUME NEW pattern, NEW name, NEW k \in Nat, Len(name) \in Nat
  PROVE  /\ MatchedFrom(pattern, k, name)[k + 1] = {Len(name) + 1}
         /\ \A i \in 1..k : MatchedFrom(pattern, k, name)[i]
              = Before(pattern, name, i, MatchedFrom(pattern, k, name)[i + 1])
<1> DEFINE N == Len(name)
           Is(f) == f = [i \in 1..(k + 1) |-> IF i = k + 1 THEN {N + 1} ELSE Before(pattern, name, i, f[i + 1])]
           Rule(S, i, j) ==
             \/ i = k + 1 /\ j = N + 1
             \/ i # k + 1 /\ pattern[i] = "*" /\ \E l \in 1..(N + 1) : j <= l /\ <<i + 1, l>> \in S
             \/ /\ i # k + 1 /\ pattern[i] # "*" /\ j \in 1..N /\ pattern[i] \in {"?", name[j]}
                /\ <<i + 1, j + 1>> \in S
           Closed(S) == \A i \in 1..(k + 1), j \in 1..(N + 1) : Rule(S, i, j) => <<i, j>> \in S
           W == {x \in (1..(k + 1)) \X (1..(N + 1)) : \A S : Closed(S) => x \in S}
           h == [i \in 1..(k + 1) |-> {j \in 1..(N + 1) : <<i, j>> \in W}]
<1>1. MatchedFrom(pattern, k, name) = CHOOSE f : Is(f)
  BY DEF MatchedFrom, Before
<1>2. N \in Nat
  OBVIOUS
<1> HIDE DEF N, Closed
<1>3. ASSUME NEW S, NEW T, S \subseteq T, NEW i, NEW j, Rule(S, i, j)
      PROVE  Rule(T, i, j)
  BY <1>3
<1>4. ASSUME NEW S, Closed(S) PROVE W \subseteq S
  BY <1>4
<1>5. ASSUME NEW i \in 1..(k + 1), NEW j \in 1..(N + 1), Rule(W, i, j)
      PROVE  <<i, j>> \in W
  <2> HIDE DEF Rule
  <2>1. ASSUME NEW S, Closed(S) PROVE <<i, j>> \in S
    <3> HIDE DEF W
    <3>1. Rule(S, i, j)
      BY <1>3, <1>4, <1>5, <2>1
    <3> QED
      BY <2>1, <3>1 DEF Closed
  <2> QED
    BY <2>1
<1>6. ASSUME NEW i \in 1..(k + 1), NEW j \in 1..(N + 1), <<i, j>> \in W
      PROVE  Rule(W, i, j)
  <2> DEFINE S == {x \in (1..(k + 1)) \X (1..(N + 1)) : Rule(W, x[1], x[2])}
  <2> HIDE DEF Rule
  <2>1. S \subseteq W
    <3> SUFFICES ASSUME NEW x \in S PROVE x \in W
      OBVIOUS
    <3>1. x = <<x[1], x[2]>> /\ x[1] \in 1..(k + 1) /\ x[2] \in 1..(N + 1) /\ Rule(W, x[1], x[2])
      OBVIOUS
    <3> HIDE DEF W
    <3> QED
      BY <1>5, <3>1
  <2>2. Closed(S)
    <3> SUFFICES ASSUME NEW a \in 1..(k + 1), NEW b \in 1..(N + 1), Rule(S, a, b)
                 PROVE  <<a, b>> \in S
      BY DEF Closed
    <3>1. Rule(W, a, b)
      <4> HIDE DEF S, W
      <4> QED
        BY <1>3, <2>1
    <3> QED
      BY <3>1
  <2>3. <<i, j>> \in S
    <3> HIDE DEF S
    <3> QED
      BY <1>4, <1>6, <2>2
  <2> QED
    BY <2>3
<1> HIDE DEF W
<1>7. \A i \in 1..(k + 1), j \in 1..(N + 1) : j \in h[i] <=> Rule(W, i, j)
  <2> TAKE i \in 1..(k + 1), j \in 1..(N + 1)
  <2>1. j \in h[i] <=> <<i, j>> \in W
    OBVIOUS
  <2> HIDE DEF Rule, h
  <2> QED
    BY <1>5, <1>6, <2>1
<1>8. h[k + 1] = {N + 1}
  <2>1. \A j \in 1..(N + 1) : j \in h[k + 1] <=> j = N + 1
    <3> TAKE j \in 1..(N + 1)
    <3>1. k + 1 \in 1..(k + 1)
      OBVIOUS
    <3>2. j \in h[k + 1] <=> Rule(W, k + 1, j)
      <4> HIDE DEF h, Rule
      <4> QED
        BY <1>7, <3>1
    <3> HIDE DEF h
    <3> QED
      BY <3>2
  <2>2. h[k + 1] \subseteq 1..(N + 1) /\ N + 1 \in 1..(N + 1)
    BY <1>2
  <2> HIDE DEF h
  <2> QED
    BY <2>1, <2>2
<1>9. ASSUME NEW i \in 1..k PROVE h[i] = Before(pattern, name, i, h[i + 1])
  <2>1. i \in 1..(k + 1) /\ i + 1 \in 1..(k + 1) /\ i # k + 1
    OBVIOUS
  <2>2. h[i] \subseteq 1..(N + 1) /\ h[i + 1] \subseteq 1..(N + 1)
    BY <2>1
  <2>3. \A l \in 1..(N + 1) : <<i + 1, l>> \in W <=> l \in h[i + 1]
    BY <2>1
  <2>4. \A j \in 1..N : j + 1 \in 1..(N + 1) /\ j \in 1..(N + 1)
    BY <1>2
  <2>5. \A j \in 1..(N + 1) : j \in h[i] <=> Rule(W, i, j)
    BY <1>7, <2>1
  <2> HIDE DEF h
  <2>6. CASE pattern[i] = "*"
    <3>1. \A j \in 1..(N + 1) : j \in h[i] <=> \E l \in h[i + 1] : j <= l
      BY <2>1, <2>2, <2>3, <2>5, <2>6
    <3>2. Before(pattern, name, i, h[i + 1]) = {j \in 1..(N + 1) : \E l \in h[i + 1] : j <= l}
      BY <2>6 DEF Before, N
    <3> QED
      BY <2>2, <3>1, <3>2
  <2>7. CASE pattern[i] # "*"
    <3>1. \A j \in 1..(N + 1) : j \in h[i] <=> j \in 1..N /\ pattern[i] \in {"?", name[j]} /\ j + 1 \in h[i + 1]
      BY <2>1, <2>3, <2>4, <2>5, <2>7
    <3>2. Before(pattern, name, i, h[i + 1]) = {j \in 1..N : pattern[i] \in {"?", name[j]} /\ j + 1 \in h[i + 1]}
      BY <2>7 DEF Before, N
    <3> QED
      BY <2>2, <2>4, <3>1, <3>2
  <2> QED
    BY <2>6, <2>7
<1>10. Is(h)
  <2>1. \A i \in 1..(k + 1) : i # k + 1 => i \in 1..k
    OBVIOUS
  <2>2. h = [i \in 1..(k + 1) |-> h[i]]
    OBVIOUS
  <2> HIDE DEF h
  <2> QED
    BY <1>8, <1>9, <2>1, <2>2
<1> DEFINE from == CHOOSE f : Is(f)
<1>11. Is(from)
  <2> HIDE DEF Is
  <2> QED
    BY <1>10
<1> HIDE DEF from
<1>12. from[k + 1] = {N + 1}
  BY <1>11
<1>13. \A i \in 1..k : from[i] = Before(pattern, name, i, from[i + 1])
  <2>1. \A i \in 1..k : i \in 1..(k + 1) /\ i # k + 1
    OBVIOUS
  <2> QED
    BY <1>11, <2>1
<1> QED
  BY <1>1, <1>12, <1>13 DEF from, N

-----------------------------------------------------------------------------
(* The machine. *)

SavedPlaces(pattern, name) == [p : 1..Len(pattern), n : 1..Len(name)]
State(pattern, name, i, j, s, at) ==
  [pattern |-> pattern, name |-> name, p |-> i, n |-> j, stack |-> s, at |-> at]

\* Such a state is one of the machine,
LEMMA StateIsMachine ==
  ASSUME NEW pattern, NEW name, NEW i \in 1..(Len(pattern) + 1), NEW j \in 1..(Len(name) + 1),
         NEW s \in Seq(SavedPlaces(pattern, name)),
         NEW at \in {"step", "wildcards", "places", "matched", "failed"}
  PROVE  State(pattern, name, i, j, s, at) \in Machines(pattern, name)
BY DEF State, Machines, SavedPlaces, Done

\* and every one is such a state.
LEMMA MachineIsState ==
  ASSUME NEW pattern, NEW name, NEW f \in Machines(pattern, name)
  PROVE  /\ f = State(pattern, name, f.p, f.n, f.stack, f.at)
         /\ f.p \in 1..(Len(pattern) + 1) /\ f.n \in 1..(Len(name) + 1)
         /\ f.stack \in Seq(SavedPlaces(pattern, name))
         /\ f.at \in {"step", "wildcards", "places", "matched", "failed"}
BY DEF State, Machines, SavedPlaces, Done

\* Taking the last place from the stack,
LEMMA PopIs ==
  ASSUME NEW S, NEW s \in Seq(S), s # <<>>
  PROVE  /\ s[Len(s)] \in S
         /\ SubSeq(s, 1, Len(s) - 1) \in Seq(S)
<1>1. Len(s) \in Nat /\ Len(s) # 0 /\ \A i \in 1..Len(s) : s[i] \in S
  BY EmptySeq, LenProperties, ElementOfSeq
<1>2. \A i \in 1..(Len(s) - 1) : s[i] \in S
  BY <1>1
<1>3. SubSeq(s, 1, Len(s) - 1) \in Seq(S)
  BY <1>1, <1>2, SubSeqProperties
<1> QED
  BY <1>1, <1>3

\* and putting one on it.
LEMMA PushPop ==
  ASSUME NEW S, NEW s \in Seq(S), NEW e \in S
  PROVE  /\ Append(s, e) \in Seq(S) /\ Append(s, e) # <<>>
         /\ Append(s, e)[Len(Append(s, e))] = e
         /\ SubSeq(Append(s, e), 1, Len(Append(s, e)) - 1) = s
<1> DEFINE a == Append(s, e)
<1>1. a \in Seq(S) /\ Len(a) = Len(s) + 1 /\ a[Len(s) + 1] = e /\ Len(s) \in Nat
      /\ \A i \in 1..Len(s) : a[i] = s[i]
  BY LenProperties
<1>2. a # <<>>
  BY <1>1
<1>3. \A i \in 1..Len(s) : a[i] \in S
  BY <1>1, ElementOfSeq
<1> DEFINE b == SubSeq(a, 1, Len(s))
<1>4. b \in Seq(S) /\ Len(b) = Len(s) /\ \A i \in 1..Len(s) : b[i] = s[i]
  <2> HIDE DEF a
  <2>1. /\ b \in Seq(S)
        /\ Len(b) = IF 1 <= Len(s) THEN Len(s) - 1 + 1 ELSE 0
        /\ \A i \in 1..(Len(s) - 1 + 1) : b[i] = a[1 + i - 1]
    BY <1>1, <1>3, SubSeqProperties
  <2> HIDE DEF b
  <2> QED
    BY <1>1, <2>1
<1>5. b = s
  <2> HIDE DEF b
  <2> QED
    BY <1>4, SeqEqual
<1>6. Len(a) - 1 = Len(s)
  BY <1>1
<1> QED
  BY <1>1, <1>2, <1>5, <1>6

\* Where backtracking goes on.
Back(pattern, name, s) ==
  State(pattern, name, s[Len(s)].p + 1, s[Len(s)].n + 1, SubSeq(s, 1, Len(s) - 1), "step")

\* Backtracking goes on there, if there is a saved place (Fsm::backtrace).
LEMMA BacktraceIs ==
  ASSUME NEW pattern, NEW name, NEW i, NEW j, NEW a, NEW s \in Seq(SavedPlaces(pattern, name)),
         Len(pattern) \in Nat, Len(name) \in Nat
  PROVE  Backtrace(State(pattern, name, i, j, s, a))
           = IF s = <<>> THEN State(pattern, name, i, j, s, "failed") ELSE Back(pattern, name, s)
<1> DEFINE f == State(pattern, name, i, j, s, a)
           top == s[Len(s)]
           below == SubSeq(s, 1, Len(s) - 1)
<1>1. f.stack = s /\ [f EXCEPT !.at = "failed"] = State(pattern, name, i, j, s, "failed")
  BY DEF State
<1>2. \A k, l, t : [f EXCEPT !.stack = t, !.p = k, !.n = l, !.at = "step"]
                     = State(pattern, name, k, l, t, "step")
  <2> TAKE k, l, t
  <2>1. [f EXCEPT !.stack = t] = State(pattern, name, i, j, t, a)
    BY DEF State
  <2>2. [State(pattern, name, i, j, t, a) EXCEPT !.p = k] = State(pattern, name, k, j, t, a)
    BY DEF State
  <2>3. [State(pattern, name, k, j, t, a) EXCEPT !.n = l] = State(pattern, name, k, l, t, a)
    BY DEF State
  <2>4. [State(pattern, name, k, l, t, a) EXCEPT !.at = "step"] = State(pattern, name, k, l, t, "step")
    BY DEF State
  <2> HIDE DEF f
  <2> QED
    BY <2>1, <2>2, <2>3, <2>4
<1>3. CASE s = <<>>
  <2> HIDE DEF f
  <2> QED
    BY <1>1, <1>3 DEF Backtrace, f
<1>4. CASE s # <<>>
  <2>1. s[Len(s)] \in SavedPlaces(pattern, name)
    BY <1>4, PopIs
  <2>2. top.p \in 1..Len(pattern) /\ top.n \in 1..Len(name)
    BY <2>1 DEF SavedPlaces
  <2>3. Backtrace(f) = NextBoth([f EXCEPT !.stack = SubSeq(f.stack, 1, Len(f.stack) - 1),
          !.p = f.stack[Len(f.stack)].p, !.n = f.stack[Len(f.stack)].n, !.at = "step"])
    <3> HIDE DEF f
    <3> QED
      BY <1>1, <1>4 DEF Backtrace
  <2>4. Backtrace(f) = NextBoth([f EXCEPT !.stack = below, !.p = top.p, !.n = top.n, !.at = "step"])
    BY <1>1, <2>3
  <2> HIDE DEF top, below
  <2>5. NextBoth(State(pattern, name, top.p, top.n, below, "step"))
          = State(pattern, name, top.p + 1, top.n + 1, below, "step")
    <3> DEFINE g == State(pattern, name, top.p, top.n, below, "step")
    <3>1. NextPat(g) = State(pattern, name, top.p + 1, top.n, below, "step")
      BY <2>2 DEF NextPat, NoPat, State
    <3>2. NextName(State(pattern, name, top.p + 1, top.n, below, "step"))
            = State(pattern, name, top.p + 1, top.n + 1, below, "step")
      BY <2>2 DEF NextName, NoName, State
    <3> QED
      BY <3>1, <3>2 DEF NextBoth
  <2> HIDE DEF f
  <2> QED
    BY <1>2, <1>4, <2>4, <2>5 DEF f, top, below, Back
<1> QED
  BY <1>3, <1>4

\* It leads to a state of the machine.
LEMMA BackIsMachine ==
  ASSUME NEW pattern, NEW name, NEW s \in Seq(SavedPlaces(pattern, name)), s # <<>>,
         Len(pattern) \in Nat, Len(name) \in Nat
  PROVE  Back(pattern, name, s) \in Machines(pattern, name)
<1>1. s[Len(s)] \in SavedPlaces(pattern, name) /\ SubSeq(s, 1, Len(s) - 1) \in Seq(SavedPlaces(pattern, name))
  BY PopIs
<1>2. s[Len(s)].p + 1 \in 1..(Len(pattern) + 1) /\ s[Len(s)].n + 1 \in 1..(Len(name) + 1)
  BY <1>1 DEF SavedPlaces
<1> QED
  BY <1>1, <1>2, StateIsMachine DEF Back

\* The steps of the machine, case by case.
CompareIs(pattern, name, i, j, s) ==
  LET P == Len(pattern)
      N == Len(name)
      f == State(pattern, name, i, j, s, "step")
  IN  IF j = N + 1 /\ (i = P + 1 \/ pattern[i] = "*") THEN State(pattern, name, i, j, s, "matched")
      ELSE IF i = P + 1 \/ j = N + 1 THEN Backtrace(f)
      ELSE IF pattern[i] = "*" THEN State(pattern, name, i, j, s, "wildcards")
      ELSE IF pattern[i] \in {"?", name[j]} THEN State(pattern, name, i + 1, j + 1, s, "step")
      ELSE Backtrace(f)
WildcardsIs(pattern, name, i, j, s) ==
  LET P == Len(pattern)
      N == Len(name)
      f == State(pattern, name, i + 1, j, s, "wildcards")
  IN  IF i = P + 1 \/ pattern[i] \notin {"?", "*"} THEN State(pattern, name, i, j, s, "places")
      ELSE IF i = P THEN State(pattern, name, i + 1, j, s, "matched")
      ELSE IF pattern[i + 1] # "?" THEN f
      ELSE IF j = N + 1 THEN Backtrace(f)
      ELSE State(pattern, name, i + 1, j + 1, s, "wildcards")
PlacesIs(pattern, name, i, j, s) ==
  LET N == Len(name)
      f == State(pattern, name, i, j, s, "places")
  IN  IF j = N + 1 THEN Backtrace(f)
      ELSE State(pattern, name, i, j + 1,
             IF i # Len(pattern) + 1 /\ pattern[i] = name[j] THEN Append(s, [p |-> i, n |-> j]) ELSE s,
             "places")

\* A step from each of the machine's loops does what these cases say.
LEMMA StepIs ==
  ASSUME NEW pattern, NEW name, NEW i \in 1..(Len(pattern) + 1), NEW j \in 1..(Len(name) + 1), NEW s,
         Len(pattern) \in Nat, Len(name) \in Nat
  PROVE  /\ Step(State(pattern, name, i, j, s, "step")) = CompareIs(pattern, name, i, j, s)
         /\ Step(State(pattern, name, i, j, s, "wildcards")) = WildcardsIs(pattern, name, i, j, s)
         /\ Step(State(pattern, name, i, j, s, "places")) = PlacesIs(pattern, name, i, j, s)
<1> USE DEF NoPat, NoName, PatIs, NextPat, NextName, NextBoth, Match, Save, State
<1>1. Step(State(pattern, name, i, j, s, "step")) = CompareIs(pattern, name, i, j, s)
  <2> DEFINE f == State(pattern, name, i, j, s, "step")
  <2>1. Step(f) = Compare(f)
    BY DEF Step
  <2>2. (NoPat(f) <=> i = Len(pattern) + 1) /\ (NoName(f) <=> j = Len(name) + 1)
    OBVIOUS
  <2>3. f.n = j /\ f.name = name /\ \A ch : PatIs(f, ch) <=> i # Len(pattern) + 1 /\ pattern[i] = ch
    OBVIOUS
  <2>4. Match(f) = State(pattern, name, i, j, s, "matched")
        /\ [f EXCEPT !.at = "wildcards"] = State(pattern, name, i, j, s, "wildcards")
    OBVIOUS
  <2>5. i # Len(pattern) + 1 /\ j # Len(name) + 1 =>
          NextBoth(f) = State(pattern, name, i + 1, j + 1, s, "step")
    OBVIOUS
  <2> HIDE DEF f, NoPat, NoName, PatIs, NextPat, NextName, NextBoth, Match, Save, State
  <2> QED
    BY <2>1, <2>2, <2>3, <2>4, <2>5 DEF Compare, CompareIs, f
<1>2. Step(State(pattern, name, i, j, s, "wildcards")) = WildcardsIs(pattern, name, i, j, s)
  <2> DEFINE f == State(pattern, name, i, j, s, "wildcards")
             g == State(pattern, name, i + 1, j, s, "wildcards")
  <2>1. Step(f) = Wildcards(f)
    BY DEF Step
  <2>2. \A ch : PatIs(f, ch) <=> i # Len(pattern) + 1 /\ pattern[i] = ch
    OBVIOUS
  <2>3. [f EXCEPT !.at = "places"] = State(pattern, name, i, j, s, "places")
    OBVIOUS
  <2>4. i # Len(pattern) + 1 =>
          /\ NextPat(f) = g
          /\ NoPat(g) <=> i = Len(pattern)
          /\ NoName(g) <=> j = Len(name) + 1
          /\ Match(g) = State(pattern, name, i + 1, j, s, "matched")
          /\ ~NoPat(g) => (PatIs(g, "?") <=> pattern[i + 1] = "?")
          /\ ~NoName(g) => NextName(g) = State(pattern, name, i + 1, j + 1, s, "wildcards")
    OBVIOUS
  <2> HIDE DEF f, g, NoPat, NoName, PatIs, NextPat, NextName, NextBoth, Match, Save, State
  <2> QED
    BY <2>1, <2>2, <2>3, <2>4 DEF Wildcards, WildcardsIs, f, g
<1>3. Step(State(pattern, name, i, j, s, "places")) = PlacesIs(pattern, name, i, j, s)
  <2> DEFINE f == State(pattern, name, i, j, s, "places")
             c == IF i # Len(pattern) + 1 /\ pattern[i] = name[j] THEN Append(s, [p |-> i, n |-> j]) ELSE s
  <2>1. Step(f) = Places(f)
    BY DEF Step
  <2>2. NoName(f) <=> j = Len(name) + 1
    OBVIOUS
  <2>3. f.n = j /\ f.name = name /\ (PatIs(f, name[j]) <=> i # Len(pattern) + 1 /\ pattern[i] = name[j])
    OBVIOUS
  <2>4. (IF PatIs(f, name[j]) THEN Save(f) ELSE f) = State(pattern, name, i, j, c, "places")
    <3>1. f.p = i /\ f.n = j /\ f.stack = s
      OBVIOUS
    <3>2. \A t : [f EXCEPT !.stack = t] = State(pattern, name, i, j, t, "places")
      OBVIOUS
    <3>3. Save(f) = State(pattern, name, i, j, Append(s, [p |-> i, n |-> j]), "places")
      <4> HIDE DEF f, PatIs, State
      <4> QED
        BY <3>1, <3>2
    <3> HIDE DEF f, PatIs, Save, State
    <3> QED
      BY <2>3, <3>3 DEF c, f
  <2> HIDE DEF c
  <2>5. j # Len(name) + 1 =>
          NextName(State(pattern, name, i, j, c, "places")) = State(pattern, name, i, j + 1, c, "places")
    OBVIOUS
  <2> HIDE DEF f, NoPat, NoName, PatIs, NextPat, NextName, NextBoth, Match, Save, State
  <2> QED
    BY <2>1, <2>2, <2>3, <2>4, <2>5 DEF Places, PlacesIs, f, c
<1> QED
  BY <1>1, <1>2, <1>3

\* The machine's positions and saved places stay within the pattern and the name.
LEMMA StepIsMachine ==
  ASSUME NEW pattern, NEW name, NEW f \in Machines(pattern, name), f.at \notin Done,
         Len(pattern) \in Nat, Len(name) \in Nat
  PROVE  Step(f) \in Machines(pattern, name)
<1> DEFINE i == f.p
           j == f.n
           s == f.stack
           at == f.at
           Good(k, l) == k \in 1..(Len(pattern) + 1) /\ l \in 1..(Len(name) + 1)
<1>1. /\ f = State(pattern, name, i, j, s, at) /\ Good(i, j)
      /\ s \in Seq(SavedPlaces(pattern, name))
      /\ at \in {"step", "wildcards", "places"}
  BY MachineIsState DEF Done
<1> HIDE DEF i, j, s, at
<1>2. ASSUME NEW k, NEW l, Good(k, l), NEW a
      PROVE  Backtrace(State(pattern, name, k, l, s, a)) \in Machines(pattern, name)
  <2>1. CASE s = <<>>
    <3>1. State(pattern, name, k, l, s, "failed") \in Machines(pattern, name)
      BY <1>1, <1>2, StateIsMachine
    <3> HIDE DEF Good
    <3> QED
      BY <1>1, <2>1, <3>1, BacktraceIs
  <2>2. CASE s # <<>>
    <3>1. Back(pattern, name, s) \in Machines(pattern, name)
      BY <1>1, <2>2, BackIsMachine
    <3> HIDE DEF Good
    <3> QED
      BY <1>1, <2>2, <3>1, BacktraceIs
  <2> QED
    BY <2>1, <2>2
<1>3. ASSUME NEW k, NEW l, Good(k, l), NEW t \in Seq(SavedPlaces(pattern, name)),
             NEW a \in {"step", "wildcards", "places", "matched", "failed"}
      PROVE  State(pattern, name, k, l, t, a) \in Machines(pattern, name)
  BY <1>3, StateIsMachine
<1>4. /\ i # Len(pattern) + 1 => Good(i + 1, j)
      /\ j # Len(name) + 1 => Good(i, j + 1)
      /\ i # Len(pattern) + 1 /\ j # Len(name) + 1 =>
           Good(i + 1, j + 1) /\ [p |-> i, n |-> j] \in SavedPlaces(pattern, name)
  <2>1. i # Len(pattern) + 1 => i \in 1..Len(pattern) /\ i + 1 \in 1..(Len(pattern) + 1)
    BY <1>1
  <2>2. j # Len(name) + 1 => j \in 1..Len(name) /\ j + 1 \in 1..(Len(name) + 1)
    BY <1>1
  <2> QED
    BY <1>1, <2>1, <2>2 DEF SavedPlaces
<1> HIDE DEF Good
<1>5. i = Len(pattern) => i # Len(pattern) + 1
  OBVIOUS
<1>6. CASE at = "step"
  <2>1. Step(f) = CompareIs(pattern, name, i, j, s)
    BY <1>1, <1>6, StepIs DEF Good
  <2> QED
    BY <2>1, <1>1, <1>2, <1>3, <1>4 DEF CompareIs
<1>7. CASE at = "wildcards"
  <2>1. Step(f) = WildcardsIs(pattern, name, i, j, s)
    BY <1>1, <1>7, StepIs DEF Good
  <2> QED
    BY <2>1, <1>1, <1>2, <1>3, <1>4, <1>5 DEF WildcardsIs
<1>8. CASE at = "places"
  <2>1. Step(f) = PlacesIs(pattern, name, i, j, s)
    BY <1>1, <1>8, StepIs DEF Good
  <2>2. i # Len(pattern) + 1 /\ j # Len(name) + 1 =>
          Append(s, [p |-> i, n |-> j]) \in Seq(SavedPlaces(pattern, name))
    BY <1>1, <1>4, PushPop
  <2> QED
    BY <2>1, <2>2, <1>1, <1>2, <1>3, <1>4 DEF PlacesIs
<1> QED
  BY <1>1, <1>6, <1>7, <1>8

\* The recursion of Process, unfolded: some function steps until the machine is done,
\* whatever state it is in (Fsm::process).
LEMMA ProcessIs ==
  ASSUME NEW pattern, NEW name, Len(pattern) \in Nat, Len(name) \in Nat
  PROVE  \A f \in Machines(pattern, name) :
           Process(pattern, name)[f] = IF f.at \in Done THEN f.at ELSE Process(pattern, name)[Step(f)]
<1> DEFINE Ms == Machines(pattern, name)
           Is(process) == process = [f \in Ms |-> IF f.at \in Done THEN f.at ELSE process[Step(f)]]
           Rule(S, f) == f.at = "matched" \/ (f.at \notin Done /\ Step(f) \in S)
           Closed(S) == \A f \in Ms : Rule(S, f) => f \in S
           W == {f \in Ms : \A S : Closed(S) => f \in S}
           h == [f \in Ms |-> IF f \in W THEN "matched" ELSE "failed"]
<1>1. Process(pattern, name) = CHOOSE process : Is(process)
  BY DEF Process
<1>2. \A f \in Ms : f.at \notin Done => Step(f) \in Ms
  BY StepIsMachine
<1> HIDE DEF Ms
<1>3. ASSUME NEW S, NEW T, S \subseteq T, NEW f, Rule(S, f)
      PROVE  Rule(T, f)
  BY <1>3
<1> HIDE DEF Rule
<1>4. ASSUME NEW S, Closed(S) PROVE W \subseteq S
  BY <1>4
<1>5. ASSUME NEW f \in Ms, Rule(W, f) PROVE f \in W
  <2> HIDE DEF Closed
  <2>1. ASSUME NEW S, Closed(S) PROVE f \in S
    <3> HIDE DEF W
    <3>1. Rule(S, f)
      BY <1>3, <1>4, <1>5, <2>1
    <3> QED
      BY <2>1, <3>1 DEF Closed
  <2> QED
    BY <2>1
<1>6. ASSUME NEW f \in W PROVE Rule(W, f)
  <2> DEFINE S == {g \in Ms : Rule(W, g)}
  <2>1. S \subseteq W
    <3> HIDE DEF W
    <3> QED
      BY <1>5
  <2>2. Closed(S)
    <3> SUFFICES ASSUME NEW g \in Ms, Rule(S, g) PROVE Rule(W, g)
      OBVIOUS
    <3> HIDE DEF S, W
    <3> QED
      BY <1>3, <2>1
  <2> HIDE DEF Closed
  <2>3. f \in S
    <3> HIDE DEF S
    <3> QED
      BY <1>4, <2>2
  <2> QED
    BY <2>3
<1>7. W \subseteq Ms
  OBVIOUS
<1> HIDE DEF W, Closed
<1>8. ASSUME NEW f \in Ms PROVE h[f] = IF f.at \in Done THEN f.at ELSE h[Step(f)]
  <2>1. CASE f.at \in Done
    <3>1. f \in W <=> f.at = "matched"
      BY <1>5, <1>6, <2>1 DEF Rule
    <3>2. f.at = "matched" \/ f.at = "failed"
      BY <2>1 DEF Done
    <3> QED
      BY <2>1, <3>1, <3>2
  <2>2. CASE f.at \notin Done
    <3>1. f.at # "matched"
      BY <2>2 DEF Done
    <3>2. f \in W <=> Step(f) \in W
      BY <1>5, <1>6, <2>2, <3>1 DEF Rule
    <3> QED
      BY <1>2, <2>2, <3>2
  <2> QED
    BY <2>1, <2>2
<1>9. Is(h)
  <2>1. h = [f \in Ms |-> h[f]]
    OBVIOUS
  <2> HIDE DEF h
  <2> QED
    BY <1>8, <2>1
<1> DEFINE process == CHOOSE p : Is(p)
<1>10. Is(process)
  <2> HIDE DEF Is
  <2> QED
    BY <1>9
<1> HIDE DEF process
<1>11. \A f \in Ms : process[f] = IF f.at \in Done THEN f.at ELSE process[Step(f)]
  BY <1>10
<1> QED
  BY <1>1, <1>11 DEF process, Ms

\* From a state the machine finds a match.
Found(pattern, name, i, j, s, at) == Process(pattern, name)[State(pattern, name, i, j, s, at)] = "matched"
FoundBack(pattern, name, s) ==
  s # <<>> /\ Process(pattern, name)[Back(pattern, name, s)] = "matched"

\* What the machine finds in each state is what it finds after its step: after it
\* backtracks,
LEMMA FoundAfterBacktrace ==
  ASSUME NEW pattern, NEW name, Len(pattern) \in Nat, Len(name) \in Nat,
         NEW i \in 1..(Len(pattern) + 1), NEW j \in 1..(Len(name) + 1),
         NEW s \in Seq(SavedPlaces(pattern, name)), NEW a
  PROVE  Process(pattern, name)[Backtrace(State(pattern, name, i, j, s, a))] = "matched"
           <=> FoundBack(pattern, name, s)
<1> DEFINE process == Process(pattern, name)
<1>1. CASE s = <<>>
  <2> DEFINE f == State(pattern, name, i, j, s, "failed")
  <2>1. Backtrace(State(pattern, name, i, j, s, a)) = f
    BY <1>1, BacktraceIs
  <2>2. f \in Machines(pattern, name)
    BY StateIsMachine
  <2>3. f.at = "failed"
    BY DEF State
  <2> HIDE DEF f
  <2>4. process[f] = "failed"
    <3> HIDE DEF process
    <3>1. f.at \in Done
      BY <2>3 DEF Done
    <3> QED
      BY <2>2, <2>3, <3>1, ProcessIs DEF process
  <2> QED
    BY <1>1, <2>1, <2>4 DEF FoundBack
<1>2. CASE s # <<>>
  BY <1>2, BacktraceIs DEF FoundBack
<1> QED
  BY <1>1, <1>2

\* after any step,
LEMMA FoundStep ==
  ASSUME NEW pattern, NEW name, Len(pattern) \in Nat, Len(name) \in Nat,
         NEW i \in 1..(Len(pattern) + 1), NEW j \in 1..(Len(name) + 1),
         NEW s \in Seq(SavedPlaces(pattern, name)), NEW at \in {"step", "wildcards", "places"}
  PROVE  Found(pattern, name, i, j, s, at)
           <=> Process(pattern, name)[Step(State(pattern, name, i, j, s, at))] = "matched"
<1> DEFINE f == State(pattern, name, i, j, s, at)
<1>1. f \in Machines(pattern, name)
  BY StateIsMachine
<1>2. f.at = at
  BY DEF State
<1> HIDE DEF f
<1>3. f.at \notin Done
  BY <1>2 DEF Done
<1>4. Process(pattern, name)[f] = Process(pattern, name)[Step(f)]
  BY <1>1, <1>3, ProcessIs
<1> QED
  BY <1>4 DEF Found, f

\* at a match,
LEMMA FoundAtMatch ==
  ASSUME NEW pattern, NEW name, Len(pattern) \in Nat, Len(name) \in Nat,
         NEW i \in 1..(Len(pattern) + 1), NEW j \in 1..(Len(name) + 1),
         NEW s \in Seq(SavedPlaces(pattern, name))
  PROVE  Found(pattern, name, i, j, s, "matched")
<1> DEFINE f == State(pattern, name, i, j, s, "matched")
<1>1. f \in Machines(pattern, name)
  BY StateIsMachine
<1>2. f.at = "matched"
  BY DEF State
<1> HIDE DEF f
<1>3. f.at \in Done
  BY <1>2 DEF Done
<1> QED
  BY <1>1, <1>2, <1>3, ProcessIs DEF Found, f

\* after a comparison (Fsm::step),
LEMMA FoundCompare ==
  ASSUME NEW pattern, NEW name, Len(pattern) \in Nat, Len(name) \in Nat,
         NEW i \in 1..(Len(pattern) + 1), NEW j \in 1..(Len(name) + 1),
         NEW s \in Seq(SavedPlaces(pattern, name))
  PROVE  Found(pattern, name, i, j, s, "step")
           <=> IF j = Len(name) + 1 /\ (i = Len(pattern) + 1 \/ pattern[i] = "*") THEN TRUE
               ELSE IF i = Len(pattern) + 1 \/ j = Len(name) + 1 THEN FoundBack(pattern, name, s)
               ELSE IF pattern[i] = "*" THEN Found(pattern, name, i, j, s, "wildcards")
               ELSE IF pattern[i] \in {"?", name[j]} THEN Found(pattern, name, i + 1, j + 1, s, "step")
               ELSE FoundBack(pattern, name, s)
<1>1. Step(State(pattern, name, i, j, s, "step")) = CompareIs(pattern, name, i, j, s)
  BY StepIs
<1>2. Found(pattern, name, i, j, s, "step") <=> Process(pattern, name)[CompareIs(pattern, name, i, j, s)] = "matched"
  BY <1>1, FoundStep
<1>3. Found(pattern, name, i, j, s, "matched")
  BY FoundAtMatch
<1>4. Process(pattern, name)[Backtrace(State(pattern, name, i, j, s, "step"))] = "matched"
        <=> FoundBack(pattern, name, s)
  BY FoundAfterBacktrace
<1> QED
  BY <1>2, <1>3, <1>4 DEF CompareIs, Found

\* in the loop over wildcards,
LEMMA FoundWildcards ==
  ASSUME NEW pattern, NEW name, Len(pattern) \in Nat, Len(name) \in Nat,
         NEW i \in 1..Len(pattern), NEW j \in 1..(Len(name) + 1),
         NEW s \in Seq(SavedPlaces(pattern, name))
  PROVE  Found(pattern, name, i, j, s, "wildcards")
           <=> IF pattern[i] \notin {"?", "*"} THEN Found(pattern, name, i, j, s, "places")
               ELSE IF i = Len(pattern) THEN TRUE
               ELSE IF pattern[i + 1] # "?" THEN Found(pattern, name, i + 1, j, s, "wildcards")
               ELSE IF j = Len(name) + 1 THEN FoundBack(pattern, name, s)
               ELSE Found(pattern, name, i + 1, j + 1, s, "wildcards")
<1>1. i \in 1..(Len(pattern) + 1) /\ i + 1 \in 1..(Len(pattern) + 1) /\ i # Len(pattern) + 1
  OBVIOUS
<1>2. Found(pattern, name, i, j, s, "wildcards") <=> Process(pattern, name)[WildcardsIs(pattern, name, i, j, s)] = "matched"
  BY <1>1, StepIs, FoundStep
<1>3. Found(pattern, name, i + 1, j, s, "matched")
  BY <1>1, FoundAtMatch
<1>4. Process(pattern, name)[Backtrace(State(pattern, name, i + 1, j, s, "wildcards"))] = "matched"
        <=> FoundBack(pattern, name, s)
  BY <1>1, FoundAfterBacktrace
<1> QED
  BY <1>1, <1>2, <1>3, <1>4 DEF WildcardsIs, Found

\* in the loop over the places of a literal,
LEMMA FoundPlaces ==
  ASSUME NEW pattern, NEW name, Len(pattern) \in Nat, Len(name) \in Nat,
         NEW i \in 1..Len(pattern), NEW j \in 1..(Len(name) + 1),
         NEW s \in Seq(SavedPlaces(pattern, name))
  PROVE  Found(pattern, name, i, j, s, "places")
           <=> IF j = Len(name) + 1 THEN FoundBack(pattern, name, s)
               ELSE Found(pattern, name, i, j + 1,
                      IF pattern[i] = name[j] THEN Append(s, [p |-> i, n |-> j]) ELSE s, "places")
<1>1. i \in 1..(Len(pattern) + 1) /\ i # Len(pattern) + 1
  OBVIOUS
<1>2. Found(pattern, name, i, j, s, "places") <=> Process(pattern, name)[PlacesIs(pattern, name, i, j, s)] = "matched"
  BY <1>1, StepIs, FoundStep
<1>4. Process(pattern, name)[Backtrace(State(pattern, name, i, j, s, "places"))] = "matched"
        <=> FoundBack(pattern, name, s)
  BY <1>1, FoundAfterBacktrace
<1> QED
  BY <1>1, <1>2, <1>4 DEF PlacesIs, Found

\* and from the place that was saved last.
LEMMA FoundBackPushed ==
  ASSUME NEW pattern, NEW name, NEW i \in 1..Len(pattern), NEW j \in 1..Len(name),
         NEW s \in Seq(SavedPlaces(pattern, name))
  PROVE  /\ Append(s, [p |-> i, n |-> j]) \in Seq(SavedPlaces(pattern, name))
         /\ FoundBack(pattern, name, Append(s, [p |-> i, n |-> j]))
              <=> Found(pattern, name, i + 1, j + 1, s, "step")
<1> DEFINE e == [p |-> i, n |-> j]
           a == Append(s, e)
<1>1. e \in SavedPlaces(pattern, name)
  BY DEF SavedPlaces
<1>2. e.p = i /\ e.n = j
  OBVIOUS
<1> HIDE DEF e
<1>3. /\ a \in Seq(SavedPlaces(pattern, name)) /\ a # <<>>
      /\ a[Len(a)] = e /\ SubSeq(a, 1, Len(a) - 1) = s
  BY <1>1, PushPop
<1> HIDE DEF a
<1>4. Back(pattern, name, a) = State(pattern, name, i + 1, j + 1, s, "step")
  BY <1>2, <1>3 DEF Back
<1> QED
  BY <1>3, <1>4 DEF FoundBack, Found, a, e

\* The rest of the pattern matches the rest of the name; and some prefix of the
\* pattern that a star follows, or all of it, does.
Rest(pattern, name, i, j) == j \in MatchedFrom(pattern, Len(pattern), name)[i]
Start(pattern, name, i, j) ==
  \E k \in (i - 1)..Len(pattern) :
    j \in MatchedFrom(pattern, k, name)[i] /\ (k < Len(pattern) => pattern[k + 1] = "*")

\* The grammar, from a place of the pattern and one of the name.
LEMMA MatchedFromNext ==
  ASSUME NEW pattern, NEW name, NEW k \in Nat, Len(name) \in Nat,
         NEW i \in 1..k, NEW j \in 1..(Len(name) + 1)
  PROVE  j \in MatchedFrom(pattern, k, name)[i]
           <=> IF pattern[i] = "*"
               THEN \E l \in j..(Len(name) + 1) : l \in MatchedFrom(pattern, k, name)[i + 1]
               ELSE /\ j # Len(name) + 1 /\ pattern[i] \in {"?", name[j]}
                    /\ j + 1 \in MatchedFrom(pattern, k, name)[i + 1]
<1> DEFINE from == MatchedFrom(pattern, k, name)
           N == Len(name)
<1>1. from[k + 1] = {N + 1} /\ \A m \in 1..k : from[m] = Before(pattern, name, m, from[m + 1])
  BY MatchedFromIs
<1> HIDE DEF from
<1>2. from[i + 1] \subseteq 1..(N + 1)
  <2>1. CASE i = k
    BY <1>1, <2>1
  <2>2. CASE i # k
    <3>1. i + 1 \in 1..k
      BY <2>2
    <3>2. from[i + 1] = Before(pattern, name, i + 1, from[(i + 1) + 1])
      BY <1>1, <3>1
    <3>3. \A next : Before(pattern, name, i + 1, next) \subseteq 1..(N + 1)
      BY DEF Before
    <3> QED
      BY <3>2, <3>3
  <2> QED
    BY <2>1, <2>2
<1>3. from[i] = Before(pattern, name, i, from[i + 1])
  BY <1>1
<1>4. CASE pattern[i] = "*"
  <2>1. from[i] = {m \in 1..(N + 1) : \E l \in from[i + 1] : m <= l}
    BY <1>3, <1>4 DEF Before
  <2>2. j \in from[i] <=> \E l \in j..(N + 1) : l \in from[i + 1]
    BY <1>2, <2>1
  <2> QED
    BY <1>4, <2>2 DEF from
<1>5. CASE pattern[i] # "*"
  <2>1. from[i] = {m \in 1..N : pattern[i] \in {"?", name[m]} /\ m + 1 \in from[i + 1]}
    BY <1>3, <1>5 DEF Before
  <2>2. j \in from[i] <=> j # N + 1 /\ pattern[i] \in {"?", name[j]} /\ j + 1 \in from[i + 1]
    BY <2>1
  <2> QED
    BY <1>5, <2>2 DEF from
<1> QED
  BY <1>4, <1>5

\* The same for the rest of the pattern,
LEMMA RestIs ==
  ASSUME NEW pattern, NEW name, Len(pattern) \in Nat, Len(name) \in Nat,
         NEW i \in 1..(Len(pattern) + 1), NEW j \in 1..(Len(name) + 1)
  PROVE  Rest(pattern, name, i, j)
           <=> IF i = Len(pattern) + 1 THEN j = Len(name) + 1
               ELSE IF pattern[i] = "*" THEN \E l \in j..(Len(name) + 1) : Rest(pattern, name, i + 1, l)
               ELSE /\ j # Len(name) + 1 /\ pattern[i] \in {"?", name[j]}
                    /\ Rest(pattern, name, i + 1, j + 1)
<1>1. CASE i = Len(pattern) + 1
  BY <1>1, MatchedFromIs DEF Rest
<1>2. CASE i # Len(pattern) + 1
  <2>1. i \in 1..Len(pattern)
    BY <1>2
  <2> QED
    BY <1>2, <2>1, MatchedFromNext DEF Rest
<1> QED
  BY <1>1, <1>2

\* and for a prefix that ends before a star.
LEMMA StartIs ==
  ASSUME NEW pattern, NEW name, Len(pattern) \in Nat, Len(name) \in Nat,
         NEW i \in 1..(Len(pattern) + 1), NEW j \in 1..(Len(name) + 1)
  PROVE  /\ (i = Len(pattern) + 1 \/ pattern[i] = "*") /\ j = Len(name) + 1 => Start(pattern, name, i, j)
         /\ i # Len(pattern) + 1 =>
              IF pattern[i] = "*"
              THEN (\E l \in j..(Len(name) + 1) : Start(pattern, name, i + 1, l)) => Start(pattern, name, i, j)
              ELSE j # Len(name) + 1 /\ pattern[i] \in {"?", name[j]} /\ Start(pattern, name, i + 1, j + 1)
                     => Start(pattern, name, i, j)
<1> DEFINE P == Len(pattern)
           N == Len(name)
<1>1. ASSUME i = P + 1 \/ pattern[i] = "*", j = N + 1
      PROVE  Start(pattern, name, i, j)
  <2>1. i - 1 \in (i - 1)..P /\ i - 1 \in Nat /\ (i - 1) + 1 = i
    OBVIOUS
  <2>2. j \in MatchedFrom(pattern, i - 1, name)[i]
    BY <1>1, <2>1, MatchedFromIs
  <2>3. i - 1 < P => pattern[(i - 1) + 1] = "*"
    BY <1>1, <2>1
  <2> QED
    BY <2>1, <2>2, <2>3 DEF Start
<1>2. ASSUME i # P + 1, NEW l \in 1..(N + 1), Start(pattern, name, i + 1, l),
             IF pattern[i] = "*" THEN j <= l ELSE j # N + 1 /\ pattern[i] \in {"?", name[j]} /\ l = j + 1
      PROVE  Start(pattern, name, i, j)
  <2>1. PICK k \in i..P : l \in MatchedFrom(pattern, k, name)[i + 1] /\ (k < P => pattern[k + 1] = "*")
    BY <1>2 DEF Start
  <2>2. i \in 1..k /\ k \in Nat /\ k \in (i - 1)..P
    BY <2>1
  <2>3. l \in j..(N + 1) \/ pattern[i] # "*"
    BY <1>2
  <2>4. j \in MatchedFrom(pattern, k, name)[i]
    BY <1>2, <2>1, <2>2, <2>3, MatchedFromNext
  <2> QED
    BY <2>1, <2>2, <2>4 DEF Start
<1>3. \A l \in j..(N + 1) : l \in 1..(N + 1) /\ j <= l
  OBVIOUS
<1>4. j # N + 1 => j + 1 \in 1..(N + 1)
  OBVIOUS
<1> QED
  BY <1>1, <1>2, <1>3, <1>4

-----------------------------------------------------------------------------
\* What is found: all that must be, or what backtracking finds, and nothing that
\* may not be.
Decides(found, must, may, back) == (must \/ back => found) /\ (found => may \/ back)

RestLater(pattern, name, i, j) == \E l \in j..(Len(name) + 1) : Rest(pattern, name, i, l)
StartLater(pattern, name, i, j) == \E l \in j..(Len(name) + 1) : Start(pattern, name, i, l)

StepsRight(pattern, name, i) ==
  \A j \in 1..(Len(name) + 1), s \in Seq(SavedPlaces(pattern, name)) :
    Decides(Found(pattern, name, i, j, s, "step"), Rest(pattern, name, i, j),
            Start(pattern, name, i, j), FoundBack(pattern, name, s))
WildcardsRight(pattern, name, i) ==
  \A j \in 1..(Len(name) + 1), s \in Seq(SavedPlaces(pattern, name)) :
    Decides(Found(pattern, name, i, j, s, "wildcards"), RestLater(pattern, name, i + 1, j),
            StartLater(pattern, name, i + 1, j), FoundBack(pattern, name, s))
PlacesRight(pattern, name, i) ==
  \A j \in 1..(Len(name) + 1), s \in Seq(SavedPlaces(pattern, name)) :
    Decides(Found(pattern, name, i, j, s, "places"), RestLater(pattern, name, i, j),
            StartLater(pattern, name, i, j), FoundBack(pattern, name, s))

\* A set of numbers that is not empty has a least one.
LEMMA LeastOf ==
  ASSUME NEW A, A \subseteq Nat, A # {}
  PROVE  \E i \in A : \A j \in A : i <= j
<1>1. PICK i \in A : \A j \in A : <<j, i>> \notin OpToRel(<, Nat)
  BY WFMin, NatLessThanWellFounded
<1>2. ASSUME NEW j \in A PROVE i <= j
  <2>1. j < i => <<j, i>> \in OpToRel(<, Nat)
    BY DEF OpToRel
  <2>2. ~(j < i)
    BY <1>1, <2>1
  <2> QED
    BY <2>2
<1> QED
  BY <1>2

\* The largest element.
LEMMA LargestOf ==
  ASSUME NEW n \in Nat, NEW A, A \subseteq 1..n, A # {}
  PROVE  \E i \in A : \A j \in A : j <= i
<1> DEFINE B == {n - i : i \in A}
<1>1. B \subseteq Nat /\ B # {}
  <2>1. \A i \in A : i \in 1..n /\ n - i \in Nat
    OBVIOUS
  <2> QED
    BY <2>1
<1>2. PICK b \in B : \A c \in B : b <= c
  BY <1>1, LeastOf
<1>3. PICK i \in A : b = n - i
  OBVIOUS
<1>4. \A j \in A : n - j \in B
  OBVIOUS
<1>5. ASSUME NEW j \in A PROVE j <= i
  <2>1. n - i <= n - j
    BY <1>2, <1>3, <1>4
  <2>2. i \in 1..n /\ j \in 1..n
    OBVIOUS
  <2> QED
    BY <2>1, <2>2
<1> QED
  BY <1>5

\* The loop over the places of a literal is right if the machine is from the next
\* character of the pattern on: it saves every place from which the rest may match.
LEMMA PlacesAreRight ==
  ASSUME NEW pattern, NEW name, Len(pattern) \in Nat, Len(name) \in Nat,
         NEW i \in 1..Len(pattern), pattern[i] \notin {"?", "*"}, StepsRight(pattern, name, i + 1)
  PROVE  PlacesRight(pattern, name, i)
<1> DEFINE N == Len(name)
           Stacks == Seq(SavedPlaces(pattern, name))
           Right(j) == \A s \in Stacks :
             Decides(Found(pattern, name, i, j, s, "places"), RestLater(pattern, name, i, j),
                     StartLater(pattern, name, i, j), FoundBack(pattern, name, s))
           Wrong == {j \in 1..(N + 1) : ~Right(j)}
<1>1. i \in 1..(Len(pattern) + 1) /\ i # Len(pattern) + 1
  OBVIOUS
<1>2. ASSUME NEW j \in 1..(N + 1)
      PROVE  /\ Rest(pattern, name, i, j) <=> j # N + 1 /\ pattern[i] = name[j] /\ Rest(pattern, name, i + 1, j + 1)
             /\ j # N + 1 /\ pattern[i] = name[j] /\ Start(pattern, name, i + 1, j + 1) => Start(pattern, name, i, j)
  BY <1>1, RestIs, StartIs
<1>3. ASSUME NEW j \in 1..N
      PROVE  /\ RestLater(pattern, name, i, j) <=> Rest(pattern, name, i, j) \/ RestLater(pattern, name, i, j + 1)
             /\ StartLater(pattern, name, i, j) <=> Start(pattern, name, i, j) \/ StartLater(pattern, name, i, j + 1)
  <2>1. \A l : l \in j..(N + 1) <=> l = j \/ l \in (j + 1)..(N + 1)
    OBVIOUS
  <2> QED
    BY <2>1 DEF RestLater, StartLater
<1>4. Right(N + 1)
  <2>1. ~RestLater(pattern, name, i, N + 1)
    <3>1. \A l \in (N + 1)..(N + 1) : l = N + 1 /\ l \in 1..(N + 1)
      OBVIOUS
    <3> QED
      BY <1>2, <3>1 DEF RestLater
  <2>2. N + 1 \in 1..(N + 1)
    OBVIOUS
  <2>3. \A s \in Stacks : Found(pattern, name, i, N + 1, s, "places") <=> FoundBack(pattern, name, s)
    BY <2>2, FoundPlaces
  <2> QED
    BY <2>1, <2>3 DEF Decides
<1>5. ASSUME NEW j \in 1..N, Right(j + 1) PROVE Right(j)
  <2> SUFFICES ASSUME NEW s \in Stacks
               PROVE  Decides(Found(pattern, name, i, j, s, "places"), RestLater(pattern, name, i, j),
                              StartLater(pattern, name, i, j), FoundBack(pattern, name, s))
    OBVIOUS
  <2> DEFINE pushed == Append(s, [p |-> i, n |-> j])
  <2>1. j \in 1..(N + 1) /\ j # N + 1 /\ j + 1 \in 1..(N + 1)
    OBVIOUS
  <2>2. Found(pattern, name, i, j, s, "places") <=>
          Found(pattern, name, i, j + 1, IF pattern[i] = name[j] THEN pushed ELSE s, "places")
    BY <2>1, FoundPlaces
  <2>3. pushed \in Stacks /\ (FoundBack(pattern, name, pushed) <=> Found(pattern, name, i + 1, j + 1, s, "step"))
    BY FoundBackPushed
  <2>4. Decides(Found(pattern, name, i + 1, j + 1, s, "step"), Rest(pattern, name, i + 1, j + 1),
                Start(pattern, name, i + 1, j + 1), FoundBack(pattern, name, s))
    BY <2>1 DEF StepsRight
  <2> HIDE DEF pushed
  <2>5. \A t \in Stacks :
          Decides(Found(pattern, name, i, j + 1, t, "places"), RestLater(pattern, name, i, j + 1),
                  StartLater(pattern, name, i, j + 1), FoundBack(pattern, name, t))
    BY <1>5
  <2> HIDE DEF Stacks
  <2>6. CASE pattern[i] = name[j]
    BY <1>2, <1>3, <2>1, <2>2, <2>3, <2>4, <2>5, <2>6 DEF Decides
  <2>7. CASE pattern[i] # name[j]
    BY <1>2, <1>3, <2>1, <2>2, <2>5, <2>7 DEF Decides
  <2> QED
    BY <2>6, <2>7
<1> HIDE DEF Right
<1>6. Wrong = {}
  <2> SUFFICES ASSUME Wrong # {} PROVE FALSE
    OBVIOUS
  <2>1. PICK j \in Wrong : \A l \in Wrong : l <= j
    <3> HIDE DEF Wrong
    <3>1. Wrong \subseteq 1..(N + 1) /\ N + 1 \in Nat
      BY DEF Wrong
    <3> QED
      BY <3>1, LargestOf
  <2>2. j # N + 1
    BY <1>4
  <2>3. j \in 1..N /\ j + 1 \in 1..(N + 1) /\ ~(j + 1 <= j)
    BY <2>2
  <2>4. Right(j + 1)
    BY <2>1, <2>3
  <2> QED
    BY <1>5, <2>3, <2>4
<1>7. \A j \in 1..(N + 1) : Right(j)
  BY <1>6
<1> QED
  BY <1>7 DEF Right, PlacesRight

\* The loop over wildcards is right if the loops at the next character are.
LEMMA WildcardsAreRight ==
  ASSUME NEW pattern, NEW name, Len(pattern) \in Nat, Len(name) \in Nat,
         NEW i \in 1..Len(pattern), pattern[i] \in {"?", "*"},
         i # Len(pattern) =>
           IF pattern[i + 1] \in {"?", "*"} THEN WildcardsRight(pattern, name, i + 1)
           ELSE PlacesRight(pattern, name, i + 1)
  PROVE  WildcardsRight(pattern, name, i)
<1> DEFINE P == Len(pattern)
           N == Len(name)
<1> SUFFICES ASSUME NEW j \in 1..(N + 1), NEW s \in Seq(SavedPlaces(pattern, name))
             PROVE  Decides(Found(pattern, name, i, j, s, "wildcards"), RestLater(pattern, name, i + 1, j),
                            StartLater(pattern, name, i + 1, j), FoundBack(pattern, name, s))
  BY DEF WildcardsRight
<1>1. i + 1 \in 1..(P + 1) /\ (i # P => i + 1 \in 1..P /\ i + 1 # P + 1)
  OBVIOUS
<1>2. CASE i = P
  <2>1. Found(pattern, name, i, j, s, "wildcards")
    BY <1>2, FoundWildcards
  <2>2. N + 1 \in j..(N + 1) /\ N + 1 \in 1..(N + 1)
    OBVIOUS
  <2>3. StartLater(pattern, name, i + 1, j)
    BY <1>1, <1>2, <2>2, StartIs DEF StartLater
  <2> QED
    BY <2>1, <2>3 DEF Decides
<1>3. CASE i # P /\ pattern[i + 1] = "*"
  <2>1. Found(pattern, name, i, j, s, "wildcards") <=> Found(pattern, name, i + 1, j, s, "wildcards")
    BY <1>3, FoundWildcards
  <2>2. Decides(Found(pattern, name, i + 1, j, s, "wildcards"), RestLater(pattern, name, (i + 1) + 1, j),
                StartLater(pattern, name, (i + 1) + 1, j), FoundBack(pattern, name, s))
    BY <1>3 DEF WildcardsRight
  <2>3. RestLater(pattern, name, i + 1, j) => RestLater(pattern, name, (i + 1) + 1, j)
    <3> SUFFICES ASSUME NEW l \in j..(N + 1), Rest(pattern, name, i + 1, l)
                 PROVE  \E m \in j..(N + 1) : Rest(pattern, name, (i + 1) + 1, m)
      BY DEF RestLater
    <3>0. l \in 1..(N + 1) /\ pattern[i + 1] = "*" /\ i + 1 \in 1..(P + 1) /\ i + 1 # P + 1
      BY <1>1, <1>3
    <3>1. PICK m \in l..(N + 1) : Rest(pattern, name, (i + 1) + 1, m)
      BY <3>0, RestIs
    <3>2. m \in j..(N + 1)
      OBVIOUS
    <3> QED
      BY <3>1, <3>2
  <2>4. StartLater(pattern, name, i + 1, j)
    <3>1. N + 1 \in j..(N + 1) /\ N + 1 \in 1..(N + 1)
      OBVIOUS
    <3> QED
      BY <1>1, <1>3, <3>1, StartIs DEF StartLater
  <2> QED
    BY <2>1, <2>2, <2>3, <2>4 DEF Decides
<1>4. CASE i # P /\ pattern[i + 1] = "?"
  <2>1. ASSUME NEW l \in 1..(N + 1)
        PROVE  /\ Rest(pattern, name, i + 1, l) <=> l # N + 1 /\ Rest(pattern, name, (i + 1) + 1, l + 1)
               /\ l # N + 1 /\ Start(pattern, name, (i + 1) + 1, l + 1) => Start(pattern, name, i + 1, l)
    <3>1. pattern[i + 1] = "?" /\ "?" # "*" /\ i + 1 \in 1..(P + 1) /\ i + 1 # P + 1
      BY <1>1, <1>4
    <3>2. Rest(pattern, name, i + 1, l) <=> l # N + 1 /\ Rest(pattern, name, (i + 1) + 1, l + 1)
      BY <3>1, RestIs
    <3>3. l # N + 1 /\ Start(pattern, name, (i + 1) + 1, l + 1) => Start(pattern, name, i + 1, l)
      BY <3>1, StartIs
    <3> QED
      BY <3>2, <3>3
  <2>2. CASE j = N + 1
    <3>1. Found(pattern, name, i, j, s, "wildcards") <=> FoundBack(pattern, name, s)
      BY <1>4, <2>2, FoundWildcards
    <3>2. \A l \in j..(N + 1) : l = N + 1 /\ l \in 1..(N + 1)
      BY <2>2
    <3>3. ~RestLater(pattern, name, i + 1, j)
      BY <2>1, <3>2 DEF RestLater
    <3> QED
      BY <3>1, <3>3 DEF Decides
  <2>3. CASE j # N + 1
    <3>1. Found(pattern, name, i, j, s, "wildcards") <=> Found(pattern, name, i + 1, j + 1, s, "wildcards")
      BY <1>4, <2>3, FoundWildcards
    <3>2. j + 1 \in 1..(N + 1)
      BY <2>3
    <3>3. Decides(Found(pattern, name, i + 1, j + 1, s, "wildcards"), RestLater(pattern, name, (i + 1) + 1, j + 1),
                  StartLater(pattern, name, (i + 1) + 1, j + 1), FoundBack(pattern, name, s))
      BY <1>4, <3>2 DEF WildcardsRight
    <3>4. RestLater(pattern, name, i + 1, j) => RestLater(pattern, name, (i + 1) + 1, j + 1)
      <4> SUFFICES ASSUME NEW l \in j..(N + 1), Rest(pattern, name, i + 1, l)
                   PROVE  \E m \in (j + 1)..(N + 1) : Rest(pattern, name, (i + 1) + 1, m)
        BY DEF RestLater
      <4>1. l # N + 1 /\ Rest(pattern, name, (i + 1) + 1, l + 1)
        BY <2>1
      <4>2. l + 1 \in (j + 1)..(N + 1)
        BY <4>1
      <4> QED
        BY <4>1, <4>2
    <3>5. StartLater(pattern, name, (i + 1) + 1, j + 1) => StartLater(pattern, name, i + 1, j)
      <4> SUFFICES ASSUME NEW m \in (j + 1)..(N + 1), Start(pattern, name, (i + 1) + 1, m)
                   PROVE  \E l \in j..(N + 1) : Start(pattern, name, i + 1, l)
        BY DEF StartLater
      <4>1. m - 1 \in j..(N + 1) /\ m - 1 \in 1..(N + 1) /\ m - 1 # N + 1 /\ (m - 1) + 1 = m
        OBVIOUS
      <4> QED
        BY <2>1, <4>1
    <3> QED
      BY <3>1, <3>3, <3>4, <3>5 DEF Decides
  <2> QED
    BY <2>2, <2>3
<1>5. CASE i # P /\ pattern[i + 1] \notin {"?", "*"}
  <2>1. Found(pattern, name, i, j, s, "wildcards") <=> Found(pattern, name, i + 1, j, s, "wildcards")
    BY <1>5, FoundWildcards
  <2>2. Found(pattern, name, i + 1, j, s, "wildcards") <=> Found(pattern, name, i + 1, j, s, "places")
    BY <1>1, <1>5, FoundWildcards
  <2>3. Decides(Found(pattern, name, i + 1, j, s, "places"), RestLater(pattern, name, i + 1, j),
                StartLater(pattern, name, i + 1, j), FoundBack(pattern, name, s))
    BY <1>5 DEF PlacesRight
  <2> QED
    BY <2>1, <2>2, <2>3 DEF Decides
<1> QED
  BY <1>2, <1>3, <1>4, <1>5

\* The machine is right at a character if it is at the next one.
LEMMA StepsAreRight ==
  ASSUME NEW pattern, NEW name, Len(pattern) \in Nat, Len(name) \in Nat,
         NEW i \in 1..(Len(pattern) + 1),
         i # Len(pattern) + 1 =>
           StepsRight(pattern, name, i + 1) /\ (pattern[i] = "*" => WildcardsRight(pattern, name, i))
  PROVE  StepsRight(pattern, name, i)
<1> DEFINE P == Len(pattern)
           N == Len(name)
<1> SUFFICES ASSUME NEW j \in 1..(N + 1), NEW s \in Seq(SavedPlaces(pattern, name))
             PROVE  Decides(Found(pattern, name, i, j, s, "step"), Rest(pattern, name, i, j),
                            Start(pattern, name, i, j), FoundBack(pattern, name, s))
  BY DEF StepsRight
<1>1. CASE j = N + 1 /\ (i = P + 1 \/ pattern[i] = "*")
  <2>1. Found(pattern, name, i, j, s, "step")
    BY <1>1, FoundCompare
  <2>2. Start(pattern, name, i, j)
    BY <1>1, StartIs
  <2> QED
    BY <2>1, <2>2 DEF Decides
<1>2. ASSUME ~(j = N + 1 /\ (i = P + 1 \/ pattern[i] = "*")),
             \/ i = P + 1 \/ j = N + 1
             \/ pattern[i] # "*" /\ pattern[i] \notin {"?", name[j]}
      PROVE  /\ ~Rest(pattern, name, i, j)
             /\ Found(pattern, name, i, j, s, "step") <=> FoundBack(pattern, name, s)
  BY <1>2, RestIs, FoundCompare
<1>3. CASE i # P + 1 /\ j # N + 1 /\ pattern[i] = "*"
  <2>1. Found(pattern, name, i, j, s, "step") <=> Found(pattern, name, i, j, s, "wildcards")
    BY <1>3, FoundCompare
  <2>2. Decides(Found(pattern, name, i, j, s, "wildcards"), RestLater(pattern, name, i + 1, j),
                StartLater(pattern, name, i + 1, j), FoundBack(pattern, name, s))
    BY <1>3 DEF WildcardsRight
  <2>3. Rest(pattern, name, i, j) <=> RestLater(pattern, name, i + 1, j)
    BY <1>3, RestIs DEF RestLater
  <2>4. StartLater(pattern, name, i + 1, j) => Start(pattern, name, i, j)
    BY <1>3, StartIs DEF StartLater
  <2> QED
    BY <2>1, <2>2, <2>3, <2>4 DEF Decides
<1>4. CASE i # P + 1 /\ j # N + 1 /\ pattern[i] # "*" /\ pattern[i] \in {"?", name[j]}
  <2>1. Found(pattern, name, i, j, s, "step") <=> Found(pattern, name, i + 1, j + 1, s, "step")
    BY <1>4, FoundCompare
  <2>2. j + 1 \in 1..(N + 1)
    BY <1>4
  <2>3. Decides(Found(pattern, name, i + 1, j + 1, s, "step"), Rest(pattern, name, i + 1, j + 1),
                Start(pattern, name, i + 1, j + 1), FoundBack(pattern, name, s))
    BY <1>4, <2>2 DEF StepsRight
  <2>4. Rest(pattern, name, i, j) <=> Rest(pattern, name, i + 1, j + 1)
    BY <1>4, RestIs
  <2>5. Start(pattern, name, i + 1, j + 1) => Start(pattern, name, i, j)
    BY <1>4, StartIs
  <2> QED
    BY <2>1, <2>3, <2>4, <2>5 DEF Decides
<1> QED
  BY <1>1, <1>2, <1>3, <1>4 DEF Decides

\* With any pattern and any name the matcher finds what redis' grammar matches; when
\* it finds more, the name has run out where the pattern has a star (Fsm::step,
\* Fsm::backtrace, Fsm::process).
THEOREM MatcherFindsAll ==
  ASSUME NEW pattern, NEW name, Len(pattern) \in Nat, Len(name) \in Nat
  PROVE  FindsMatches(pattern, name)
<1> DEFINE P == Len(pattern)
           N == Len(name)
           Right(i) == /\ StepsRight(pattern, name, i)
                       /\ i # P + 1 =>
                            IF pattern[i] \in {"?", "*"} THEN WildcardsRight(pattern, name, i)
                            ELSE PlacesRight(pattern, name, i)
           Wrong == {i \in 1..(P + 1) : ~Right(i)}
<1>1. Right(P + 1)
  BY StepsAreRight
<1>2. ASSUME NEW i \in 1..P, Right(i + 1) PROVE Right(i)
  <2>1. i \in 1..(P + 1) /\ i # P + 1 /\ (i # P => i + 1 # P + 1)
    OBVIOUS
  <2>2. IF pattern[i] \in {"?", "*"} THEN WildcardsRight(pattern, name, i) ELSE PlacesRight(pattern, name, i)
    BY <1>2, <2>1, WildcardsAreRight, PlacesAreRight
  <2>3. StepsRight(pattern, name, i)
    BY <1>2, <2>1, <2>2, StepsAreRight
  <2> QED
    BY <2>2, <2>3
<1> HIDE DEF Right
<1>3. Wrong = {}
  <2> SUFFICES ASSUME Wrong # {} PROVE FALSE
    OBVIOUS
  <2>1. PICK j \in Wrong : \A l \in Wrong : l <= j
    <3> HIDE DEF Wrong
    <3>1. Wrong \subseteq 1..(P + 1) /\ P + 1 \in Nat
      BY DEF Wrong
    <3> QED
      BY <3>1, LargestOf
  <2>2. j # P + 1
    BY <1>1
  <2>3. j \in 1..P /\ j + 1 \in 1..(P + 1) /\ ~(j + 1 <= j)
    BY <2>2
  <2> QED
    BY <1>2, <2>1, <2>3
<1>4. 1 \in 1..(P + 1) /\ 1 \in 1..(N + 1)
  OBVIOUS
<1>5. StepsRight(pattern, name, 1)
  BY <1>3, <1>4 DEF Right
<1>6. Decides(Found(pattern, name, 1, 1, <<>>, "step"), Rest(pattern, name, 1, 1),
              Start(pattern, name, 1, 1), FoundBack(pattern, name, <<>>))
  <2>1. <<>> \in Seq(SavedPlaces(pattern, name))
    BY EmptySeq
  <2> QED
    BY <1>4, <1>5, <2>1 DEF StepsRight
<1>7. ~FoundBack(pattern, name, <<>>)
  BY DEF FoundBack
<1>8. Found(pattern, name, 1, 1, <<>>, "step") <=> Matches(pattern, name)
  BY DEF Found, Matches, State, New
<1>9. Rest(pattern, name, 1, 1) <=> Globs(pattern, name)
  BY DEF Rest, Globs, GlobsUpTo
<1>10. Start(pattern, name, 1, 1) <=>
         \E k \in 0..P : GlobsUpTo(pattern, k, name) /\ (k < P => pattern[k + 1] = "*")
  BY DEF Start, GlobsUpTo
<1> QED
  BY <1>6, <1>7, <1>8, <1>9, <1>10 DEF Decides, FindsMatches

-----------------------------------------------------------------------------
(* Recursion on numbers. *)

\* A function that is defined by a recursion on numbers.
Iterates(f, n, S, base, step) ==
  f \in [0..n -> S] /\ f[0] = base /\ \A k \in 1..n : f[k] = step[<<k, f[k - 1]>>]

\* There is one, since each number has a next value.
LEMMA Iterated ==
  ASSUME NEW S, NEW n \in Nat, NEW base \in S, NEW step \in [(1..n) \X S -> S]
  PROVE  \E f : Iterates(f, n, S, base, step)
<1> DEFINE Good(m) == \E f \in [0..m -> S] : f[0] = base /\ \A k \in 1..m : f[k] = step[<<k, f[k - 1]>>]
           Bad1 == {m \in 0..n : ~Good(m)}
<1>1. Good(0)
  <2> DEFINE f == [k \in 0..0 |-> base]
  <2>1. f \in [0..0 -> S] /\ f[0] = base /\ \A k \in 1..0 : FALSE
    OBVIOUS
  <2> HIDE DEF f
  <2> QED
    BY <2>1
<1>2. ASSUME NEW m \in 1..n, Good(m - 1) PROVE Good(m)
  <2>1. PICK f \in [0..(m - 1) -> S] : f[0] = base /\ \A k \in 1..(m - 1) : f[k] = step[<<k, f[k - 1]>>]
    BY <1>2
  <2>2. m - 1 \in 0..(m - 1) /\ m \in 1..n /\ m - 1 \in Nat
    OBVIOUS
  <2>3. f[m - 1] \in S
    BY <2>2
  <2>4. step[<<m, f[m - 1]>>] \in S
    BY <2>2, <2>3
  <2> DEFINE g == [k \in 0..m |-> IF k = m THEN step[<<m, f[m - 1]>>] ELSE f[k]]
  <2>5. \A k \in 0..m : k # m => k \in 0..(m - 1) /\ f[k] \in S
    BY <2>1
  <2>6. g \in [0..m -> S]
    BY <2>4, <2>5
  <2>7. g[0] = base /\ g[m] = step[<<m, f[m - 1]>>] /\ \A k \in 0..(m - 1) : g[k] = f[k]
    BY <2>1, <2>2
  <2> HIDE DEF g
  <2>8. \A k \in 1..m : g[k] = step[<<k, g[k - 1]>>]
    <3> TAKE k \in 1..m
    <3>1. CASE k = m
      BY <2>2, <2>7, <3>1
    <3>2. CASE k # m
      <4>1. k \in 1..(m - 1) /\ k \in 0..(m - 1) /\ k - 1 \in 0..(m - 1)
        BY <3>2
      <4> QED
        BY <2>1, <2>7, <4>1
    <3> QED
      BY <3>1, <3>2
  <2> QED
    BY <2>6, <2>7, <2>8
<1> HIDE DEF Good
<1>3. Bad1 = {}
  <2> SUFFICES ASSUME Bad1 # {} PROVE FALSE
    OBVIOUS
  <2>1. PICK m \in Bad1 : \A l \in Bad1 : m <= l
    <3>1. Bad1 \subseteq Nat
      OBVIOUS
    <3> HIDE DEF Bad1
    <3> QED
      BY <3>1, LeastOf
  <2>2. m # 0 /\ m \in 0..n
    BY <1>1
  <2>3. m \in 1..n /\ m - 1 \in 0..n /\ ~(m <= m - 1)
    BY <2>2
  <2>4. m - 1 \notin Bad1
    <3> HIDE DEF Bad1
    <3> QED
      BY <2>1, <2>3
  <2> QED
    BY <1>2, <2>3, <2>4
<1>4. n \in 0..n
  OBVIOUS
<1>5. Good(n)
  BY <1>3, <1>4
<1> QED
  BY <1>5 DEF Good, Iterates

\* Two that take the same steps.
TakeSameSteps(f, g, n) == f[0] = g[0] /\ \A k \in 1..n : f[k - 1] = g[k - 1] => f[k] = g[k]
AreSame(f, g, n) == \A k \in 0..n : f[k] = g[k]

\* They are the same.
LEMMA IteratedUnique ==
  ASSUME NEW n \in Nat, NEW f, NEW g, TakeSameSteps(f, g, n)
  PROVE  AreSame(f, g, n)
<1> USE DEF TakeSameSteps, AreSame
<1> DEFINE Other == {k \in 0..n : f[k] # g[k]}
<1> SUFFICES ASSUME Other # {} PROVE FALSE
  OBVIOUS
<1>1. PICK k \in Other : \A l \in Other : k <= l
  <2>1. Other \subseteq Nat
    OBVIOUS
  <2> HIDE DEF Other
  <2> QED
    BY <2>1, LeastOf
<1>2. k \in 1..n /\ k - 1 \in 0..n /\ ~(k <= k - 1)
  OBVIOUS
<1> QED
  BY <1>1, <1>2

-----------------------------------------------------------------------------
(* Sequences, by their last element. *)

\* The last element, and those before it,
LEMMA Last ==
  ASSUME NEW S, NEW s \in Seq(S), s # <<>>
  PROVE  /\ s[Len(s)] \in S /\ Len(s) \in Nat \ {0}
         /\ SubSeq(s, 1, Len(s) - 1) \in Seq(S)
         /\ Len(SubSeq(s, 1, Len(s) - 1)) = Len(s) - 1
         /\ \A i \in 1..(Len(s) - 1) : SubSeq(s, 1, Len(s) - 1)[i] = s[i]
         /\ s = Append(SubSeq(s, 1, Len(s) - 1), s[Len(s)])
<1> DEFINE n == Len(s) - 1
           front == SubSeq(s, 1, n)
<1>1. Len(s) \in Nat \ {0} /\ \A i \in 1..Len(s) : s[i] \in S
  BY EmptySeq, LenProperties, ElementOfSeq
<1>2. n \in Nat /\ (\A i \in 1..n : s[i] \in S)
  BY <1>1
<1>3. front \in Seq(S) /\ Len(front) = n /\ \A i \in 1..n : front[i] = s[i]
  <2>1. /\ front \in Seq(S)
        /\ Len(front) = IF 1 <= n THEN n - 1 + 1 ELSE 0
        /\ \A i \in 1..(n - 1 + 1) : front[i] = s[1 + i - 1]
    BY <1>2, SubSeqProperties
  <2> HIDE DEF front, n
  <2> QED
    BY <1>2, <2>1
<1> DEFINE t == Append(front, s[Len(s)])
<1> HIDE DEF front
<1>4. t \in Seq(S) /\ Len(t) = n + 1 /\ \A i \in 1..(n + 1) : t[i] = IF i = n + 1 THEN s[Len(s)] ELSE front[i]
  <2>1. s[Len(s)] \in S
    BY <1>1
  <2> QED
    BY <1>2, <1>3, <2>1
<1> HIDE DEF t
<1>5. Len(t) = Len(s) /\ \A i \in 1..Len(s) : t[i] = s[i]
  BY <1>1, <1>3, <1>4
<1>6. s = t
  BY <1>4, <1>5, SeqEqual
<1> QED
  BY <1>1, <1>2, <1>3, <1>6 DEF front, t

\* of a sequence that got one more.
LEMMA Appended ==
  ASSUME NEW S, NEW s \in Seq(S), NEW e \in S
  PROVE  /\ Append(s, e) \in Seq(S) /\ Append(s, e) # <<>>
         /\ Len(s) \in Nat /\ Len(Append(s, e)) = Len(s) + 1
         /\ Append(s, e)[Len(s) + 1] = e
         /\ \A i \in 1..Len(s) : Append(s, e)[i] = s[i]
         /\ SubSeq(Append(s, e), 1, Len(s)) = s
<1> DEFINE a == Append(s, e)
<1>1. a \in Seq(S) /\ Len(a) = Len(s) + 1 /\ a[Len(s) + 1] = e /\ Len(s) \in Nat
      /\ \A i \in 1..Len(s) : a[i] = s[i]
  BY LenProperties
<1>2. a # <<>>
  BY <1>1
<1>3. \A i \in 1..Len(s) : a[i] \in S
  BY <1>1, ElementOfSeq
<1> DEFINE b == SubSeq(a, 1, Len(s))
<1>4. b \in Seq(S) /\ Len(b) = Len(s) /\ \A i \in 1..Len(s) : b[i] = s[i]
  <2> HIDE DEF a
  <2>1. /\ b \in Seq(S)
        /\ Len(b) = IF 1 <= Len(s) THEN Len(s) - 1 + 1 ELSE 0
        /\ \A i \in 1..(Len(s) - 1 + 1) : b[i] = a[1 + i - 1]
    BY <1>1, <1>3, SubSeqProperties
  <2> HIDE DEF b
  <2> QED
    BY <1>1, <2>1
<1>5. b = s
  <2> HIDE DEF b
  <2> QED
    BY <1>4, SeqEqual
<1> QED
  BY <1>1, <1>2, <1>5

\* What has the empty sequence and with each one all that are longer by one has all.
LEMMA SeqInduction ==
  ASSUME NEW S, NEW A, <<>> \in A,
         \A s \in Seq(S), e \in S : s \in A => Append(s, e) \in A
  PROVE  Seq(S) \subseteq A
<1> DEFINE Outside == {s \in Seq(S) : s \notin A}
           Lengths == {Len(s) : s \in Outside}
<1> SUFFICES ASSUME Outside # {} PROVE FALSE
  OBVIOUS
<1>1. Lengths \subseteq Nat /\ Lengths # {}
  BY LenProperties
<1>2. PICK n \in Lengths : \A m \in Lengths : n <= m
  <2> HIDE DEF Lengths
  <2> QED
    BY <1>1, LeastOf
<1>3. PICK s \in Outside : n = Len(s)
  OBVIOUS
<1>4. s \in Seq(S) /\ s \notin A /\ s # <<>>
  OBVIOUS
<1> DEFINE front == SubSeq(s, 1, Len(s) - 1)
<1>5. /\ s[Len(s)] \in S /\ Len(s) \in Nat \ {0} /\ front \in Seq(S) /\ Len(front) = Len(s) - 1
      /\ s = Append(front, s[Len(s)])
  BY <1>4, Last
<1> HIDE DEF front
<1>6. front \in A
  <2> SUFFICES ASSUME front \in Outside PROVE FALSE
    BY <1>5
  <2>1. Len(front) \in Lengths
    OBVIOUS
  <2>2. Len(s) <= Len(front)
    BY <1>2, <1>3, <2>1
  <2> QED
    BY <1>5, <2>2
<1> QED
  BY <1>4, <1>5, <1>6

-----------------------------------------------------------------------------
(* Splitting and joining. *)

Pieces == {g \in Seq(Seq(Chars)) : g # <<>>}

\* What is split after one more character.
Added(g, c) == IF c = ":" THEN Append(g, <<>>) ELSE [g EXCEPT ![Len(g)] = Append(@, c)]

\* A colon starts a new piece, any other character extends the last one.
LEMMA AddedIs ==
  ASSUME NEW h \in Seq(Seq(Chars)), NEW x \in Seq(Chars), NEW c \in Chars
  PROVE  /\ Append(h, x) \in Pieces /\ Added(Append(h, x), c) \in Pieces
         /\ c = ":" => Added(Append(h, x), c) = Append(Append(h, x), <<>>)
         /\ c # ":" => Added(Append(h, x), c) = Append(h, Append(x, c))
<1> DEFINE S == Seq(Chars)
           g == Append(h, x)
           y == Append(x, c)
<1>1. x \in S /\ y \in S /\ <<>> \in S
  BY Appended, EmptySeq
<1> HIDE DEF S, y
<1>2. g \in Seq(S) /\ Append(g, <<>>) \in Seq(S) /\ Append(g, <<>>) # <<>> /\ g # <<>>
      /\ Len(h) \in Nat /\ Len(g) = Len(h) + 1 /\ g[Len(h) + 1] = x /\ \A i \in 1..Len(h) : g[i] = h[i]
  <2>1. h \in Seq(S)
    BY DEF S
  <2>2. g \in Seq(S) /\ g # <<>>
        /\ Len(h) \in Nat /\ Len(g) = Len(h) + 1 /\ g[Len(h) + 1] = x /\ \A i \in 1..Len(h) : g[i] = h[i]
    BY <1>1, <2>1, Appended
  <2> HIDE DEF g
  <2> QED
    BY <1>1, <2>2, Appended
<1>3. Append(h, y) \in Seq(S) /\ Append(h, y) # <<>>
      /\ Len(Append(h, y)) = Len(h) + 1 /\ Append(h, y)[Len(h) + 1] = y
      /\ \A i \in 1..Len(h) : Append(h, y)[i] = h[i]
  BY <1>1, Appended DEF S
<1> DEFINE e == [g EXCEPT ![Len(h) + 1] = y]
<1> HIDE DEF g
<1>4. e \in Seq(S) /\ Len(e) = Len(h) + 1 /\ \A i \in 1..(Len(h) + 1) : e[i] = IF i = Len(h) + 1 THEN y ELSE g[i]
  <2>1. Len(h) + 1 \in 1..Len(g)
    BY <1>2
  <2> QED
    BY <1>1, <1>2, <2>1, ExceptSeq
<1>5. e = Append(h, y)
  <2> DEFINE a == Append(h, y)
  <2>1. \A i \in 1..Len(e) : e[i] = a[i]
    <3> TAKE i \in 1..Len(e)
    <3>1. i = Len(h) + 1 \/ i \in 1..Len(h)
      BY <1>2, <1>4
    <3> HIDE DEF e, a
    <3> QED
      BY <1>2, <1>3, <1>4, <3>1 DEF a
  <2>2. Len(e) = Len(a)
    BY <1>3, <1>4
  <2> HIDE DEF e, a
  <2> QED
    BY <1>3, <1>4, <2>1, <2>2, SeqEqual DEF a
<1>6. [g EXCEPT ![Len(g)] = Append(@, c)] = e
  BY <1>2 DEF y
<1> HIDE DEF e
<1> QED
  BY <1>2, <1>3, <1>5, <1>6 DEF g, y, S, Added, Pieces

\* There is always a last piece.
LEMMA AsAppended ==
  ASSUME NEW g \in Pieces
  PROVE  \E h \in Seq(Seq(Chars)), x \in Seq(Chars) : g = Append(h, x)
<1> DEFINE S == Seq(Chars)
<1>1. g \in Seq(S) /\ g # <<>>
  BY DEF Pieces
<1> HIDE DEF S
<1>2. SubSeq(g, 1, Len(g) - 1) \in Seq(S) /\ g[Len(g)] \in S
      /\ g = Append(SubSeq(g, 1, Len(g) - 1), g[Len(g)])
  BY <1>1, Last
<1> QED
  BY <1>2 DEF S

\* Splitting is the last of these steps,
LEMMA SplitIs ==
  ASSUME NEW s \in Seq(Chars), NEW f, f[0] = <<<<>>>>,
         \A k \in 1..Len(s) : f[k] = Added(f[k - 1], s[k])
  PROVE  Split(s) = f[Len(s)]
<1> DEFINE n == Len(s)
           Is(g) == g = [k \in 0..n |-> IF k = 0 THEN <<<<>>>> ELSE Added(g[k - 1], s[k])]
           h == [k \in 0..n |-> f[k]]
           split == CHOOSE g : Is(g)
<1>1. n \in Nat
  BY LenProperties
<1>2. Split(s) = split[n]
  BY DEF Split, Added
<1> HIDE DEF n
<1>3. Is(h)
  <2>1. \A k \in 0..n : h[k] = IF k = 0 THEN <<<<>>>> ELSE Added(h[k - 1], s[k])
    <3> TAKE k \in 0..n
    <3>1. k # 0 => k \in 1..n /\ k - 1 \in 0..n
      BY <1>1
    <3> QED
      BY <3>1 DEF n
  <2>2. h = [k \in 0..n |-> h[k]]
    OBVIOUS
  <2> HIDE DEF h
  <2> QED
    BY <2>1, <2>2
<1>4. Is(split)
  <2> HIDE DEF Is, h
  <2> QED
    BY <1>3
<1> HIDE DEF split
<1>5. split[0] = f[0] /\ \A k \in 1..n : split[k] = Added(split[k - 1], s[k])
  <2>1. 0 \in 0..n /\ \A k \in 1..n : k \in 0..n /\ k # 0
    BY <1>1
  <2> QED
    BY <1>4, <2>1
<1>6. \A k \in 1..n : f[k] = Added(f[k - 1], s[k])
  BY DEF n
<1>7. \A k \in 1..n : split[k - 1] = f[k - 1] => split[k] = f[k]
  BY <1>5, <1>6
<1>8. \A k \in 0..n : split[k] = f[k]
  <2>1. TakeSameSteps(split, f, n)
    BY <1>5, <1>7 DEF TakeSameSteps
  <2>2. AreSame(split, f, n)
    BY <1>1, <2>1, IteratedUnique
  <2> QED
    BY <2>2 DEF AreSame
<1> QED
  BY <1>1, <1>2, <1>8 DEF n

\* the first of which has one empty piece.
LEMMA SplitEmpty == Split(<<>>) = <<<<>>>>
<1> DEFINE f == [k \in {0} |-> <<<<>>>>]
<1>1. <<>> \in Seq(Chars) /\ Len(<<>>) = 0
  BY EmptySeq
<1>2. f[0] = <<<<>>>> /\ \A k \in 1..Len(<<>>) : f[k] = Added(f[k - 1], <<>>[k])
  BY <1>1
<1> HIDE DEF f
<1> QED
  BY <1>1, <1>2, SplitIs

\* So it goes character by character.
LEMMA SplitAppended ==
  ASSUME NEW s \in Seq(Chars), NEW c \in Chars
  PROVE  Split(s) \in Pieces /\ Split(Append(s, c)) = Added(Split(s), c)
<1> DEFINE t == Append(s, c)
           n == Len(s)
           step == [x \in (1..(n + 1)) \X Pieces |-> Added(x[2], t[x[1]])]
<1>1. t \in Seq(Chars) /\ n \in Nat /\ Len(t) = n + 1 /\ t[n + 1] = c /\ \A i \in 1..n : t[i] = s[i]
  BY Appended
<1> HIDE DEF t, n
<1>2. <<<<>>>> \in Pieces
  <2>1. <<>> \in Seq(Chars)
    BY EmptySeq
  <2> QED
    BY <2>1 DEF Pieces
<1>3. \A i \in 1..(n + 1) : t[i] \in Chars
  BY <1>1, ElementOfSeq
<1>4. step \in [(1..(n + 1)) \X Pieces -> Pieces]
  <2>1. ASSUME NEW i \in 1..(n + 1), NEW g \in Pieces PROVE Added(g, t[i]) \in Pieces
    BY <1>3, AsAppended, AddedIs
  <2> HIDE DEF Pieces
  <2> QED
    BY <2>1
<1>5. PICK f \in [0..(n + 1) -> Pieces] : f[0] = <<<<>>>> /\ \A k \in 1..(n + 1) : f[k] = step[<<k, f[k - 1]>>]
  <2> HIDE DEF step
  <2>1. \E f : Iterates(f, n + 1, Pieces, <<<<>>>>, step)
    <3>1. n + 1 \in Nat
      BY <1>1
    <3> QED
      BY <1>2, <1>4, <3>1, Iterated
  <2> QED
    BY <2>1 DEF Iterates
<1>6. \A k \in 1..(n + 1) : f[k] = Added(f[k - 1], t[k])
  <2> TAKE k \in 1..(n + 1)
  <2>1. k - 1 \in 0..(n + 1)
    BY <1>1
  <2> QED
    BY <1>5, <2>1
<1> HIDE DEF step
<1>7. Split(t) = f[n + 1]
  BY <1>1, <1>5, <1>6, SplitIs
<1>8. \A k \in 1..n : f[k] = Added(f[k - 1], s[k])
  <2> TAKE k \in 1..n
  <2>1. k \in 1..(n + 1)
    BY <1>1
  <2> QED
    BY <1>1, <1>6, <2>1
<1>9. Split(s) = f[n]
  BY <1>1, <1>5, <1>8, SplitIs DEF n
<1>10. n \in 0..(n + 1) /\ n + 1 \in 1..(n + 1) /\ (n + 1) - 1 = n
  BY <1>1
<1>11. f[n + 1] = Added(f[n], c) /\ f[n] \in Pieces
  BY <1>1, <1>5, <1>6, <1>10
<1> QED
  BY <1>7, <1>9, <1>11 DEF t

\* Joining is the last step of one that adds a piece at a time.
LEMMA JoinedIs ==
  ASSUME NEW g \in Pieces, NEW f, f[1] = g[1],
         \A k \in 2..Len(g) : f[k] = f[k - 1] \o <<":">> \o g[k]
  PROVE  Joined(g) = f[Len(g)]
<1> DEFINE n == Len(g)
           Is(j) == j = [k \in 1..n |-> IF k = 1 THEN g[1] ELSE j[k - 1] \o <<":">> \o g[k]]
           h == [k \in 1..n |-> f[k]]
           joined == CHOOSE j : Is(j)
<1>1. n \in Nat \ {0}
  BY EmptySeq DEF Pieces
<1>2. Joined(g) = joined[n]
  BY DEF Joined
<1> HIDE DEF n
<1>3. Is(h)
  <2>1. \A k \in 1..n : h[k] = IF k = 1 THEN g[1] ELSE h[k - 1] \o <<":">> \o g[k]
    <3> TAKE k \in 1..n
    <3>1. k # 1 => k \in 2..n /\ k - 1 \in 1..n
      BY <1>1
    <3> QED
      BY <3>1 DEF n
  <2>2. h = [k \in 1..n |-> h[k]]
    OBVIOUS
  <2> HIDE DEF h
  <2> QED
    BY <2>1, <2>2
<1>4. Is(joined)
  <2> HIDE DEF Is, h
  <2> QED
    BY <1>3
<1> HIDE DEF joined
<1>5. joined[1] = g[1] /\ \A k \in 2..n : joined[k] = joined[k - 1] \o <<":">> \o g[k]
  <2>1. 1 \in 1..n /\ \A k \in 2..n : k \in 1..n /\ k # 1
    BY <1>1
  <2> QED
    BY <1>4, <2>1
<1> DEFINE a == [k \in 0..(n - 1) |-> joined[k + 1]]
           b == [k \in 0..(n - 1) |-> f[k + 1]]
<1>6. n - 1 \in Nat /\ a[0] = b[0]
  BY <1>1, <1>5
<1>7. \A k \in 1..(n - 1) : a[k - 1] = b[k - 1] => a[k] = b[k]
  <2> TAKE k \in 1..(n - 1)
  <2>1. k - 1 \in 0..(n - 1) /\ k \in 0..(n - 1) /\ k + 1 \in 2..n /\ (k - 1) + 1 = k /\ (k + 1) - 1 = k
    BY <1>1
  <2>2. f[k + 1] = f[k] \o <<":">> \o g[k + 1] /\ joined[k + 1] = joined[k] \o <<":">> \o g[k + 1]
    BY <1>5, <2>1 DEF n
  <2>3. a[k - 1] = joined[k] /\ b[k - 1] = f[k] /\ a[k] = joined[k + 1] /\ b[k] = f[k + 1]
    BY <2>1
  <2> HIDE DEF a, b
  <2> QED
    BY <2>2, <2>3
<1>8. a[n - 1] = b[n - 1]
  <2>1. \A k \in 0..(n - 1) : a[k] = b[k]
    <3> HIDE DEF a, b
    <3> QED
      <4>1. TakeSameSteps(a, b, n - 1)
        BY <1>6, <1>7 DEF TakeSameSteps
      <4>2. AreSame(a, b, n - 1)
        BY <1>6, <4>1, IteratedUnique
      <4> QED
        BY <4>2 DEF AreSame
  <2> QED
    BY <1>1, <2>1
<1>9. n - 1 \in 0..(n - 1) /\ (n - 1) + 1 = n
  BY <1>1
<1>10. joined[n] = f[n]
  BY <1>8, <1>9
<1> QED
  BY <1>2, <1>10 DEF n

\* One piece is joined to itself,
LEMMA JoinedOne ==
  ASSUME NEW x \in Seq(Chars)
  PROVE  Joined(Append(<<>>, x)) = x
<1> DEFINE f == [k \in {1} |-> x]
           g == Append(<<>>, x)
<1>1. <<>> \in Seq(Seq(Chars))
  BY EmptySeq
<1>2. g \in Pieces /\ Len(g) = 1 /\ g[1] = x
  <2>1. g \in Seq(Seq(Chars)) /\ g # <<>> /\ Len(g) = Len(<<>>) + 1 /\ g[Len(<<>>) + 1] = x
    BY <1>1, Appended
  <2>2. Len(<<>>) = 0
    BY EmptySeq
  <2> HIDE DEF g
  <2> QED
    BY <2>1, <2>2 DEF Pieces
<1> HIDE DEF g
<1>3. f[1] = g[1] /\ f[Len(g)] = x /\ \A k \in 2..Len(g) : f[k] = f[k - 1] \o <<":">> \o g[k]
  BY <1>2
<1> HIDE DEF f
<1> QED
  BY <1>2, <1>3, JoinedIs DEF g

\* and one more follows a colon.
LEMMA JoinedAppended ==
  ASSUME NEW g \in Pieces, NEW x \in Seq(Chars)
  PROVE  /\ Joined(g) \in Seq(Chars)
         /\ Joined(Append(g, x)) = Joined(g) \o <<":">> \o x
<1> DEFINE t == Append(g, x)
           n == Len(g)
           S == Seq(Chars)
           step == [y \in (1..n) \X S |-> y[2] \o <<":">> \o t[y[1] + 1]]
<1>1. /\ t \in Seq(S) /\ t # <<>> /\ n \in Nat \ {0} /\ Len(t) = n + 1 /\ t[n + 1] = x
      /\ \A i \in 1..n : t[i] = g[i]
  BY Appended, EmptySeq DEF Pieces
<1> HIDE DEF t, n
<1>2. \A i \in 1..(n + 1) : t[i] \in S
  BY <1>1, ElementOfSeq
<1>3. \A y, z \in S : y \o <<":">> \o z \in S
  <2>1. <<":">> \in S
    <3>1. ":" \in Chars
      BY NamesAssumption
    <3> QED
      BY <3>1
  <2>2. \A y, z \in S : y \o z \in S
    BY ConcatProperties
  <2> HIDE DEF S
  <2> QED
    BY <2>1, <2>2
<1> HIDE DEF S
<1>4. step \in [(1..n) \X S -> S]
  <2>1. \A i \in 1..n : i + 1 \in 1..(n + 1)
    BY <1>1
  <2>2. ASSUME NEW i \in 1..n, NEW y \in S PROVE y \o <<":">> \o t[i + 1] \in S
    BY <1>2, <1>3, <2>1
  <2> QED
    BY <2>2
<1>5. t[1] \in S
  BY <1>1, <1>2
<1>6. PICK h \in [0..n -> S] : h[0] = t[1] /\ \A k \in 1..n : h[k] = step[<<k, h[k - 1]>>]
  <2> HIDE DEF step
  <2>1. \E h : Iterates(h, n, S, t[1], step)
    BY <1>1, <1>4, <1>5, Iterated
  <2> QED
    BY <2>1 DEF Iterates
<1> DEFINE f == [k \in 1..(n + 1) |-> h[k - 1]]
<1>7. \A k \in 2..(n + 1) : f[k] = f[k - 1] \o <<":">> \o t[k]
  <2> TAKE k \in 2..(n + 1)
  <2>1. k - 1 \in 1..n /\ (k - 1) - 1 \in 0..n /\ k \in 1..(n + 1) /\ k - 1 \in 1..(n + 1) /\ (k - 1) + 1 = k
    BY <1>1
  <2>2. h[k - 1] = h[(k - 1) - 1] \o <<":">> \o t[k]
    BY <1>6, <2>1
  <2> QED
    BY <2>1, <2>2
<1>8. f[1] = t[1] /\ f[n + 1] = h[n] /\ f[n] = h[n - 1] /\ h[n - 1] \in S
  BY <1>1, <1>6
<1> HIDE DEF f, step
<1>9. Joined(t) = f[n + 1]
  BY <1>1, <1>7, <1>8, JoinedIs DEF Pieces, S
<1>10. Joined(g) = f[n]
  <2>1. f[1] = g[1]
    BY <1>1, <1>8
  <2>2. \A k \in 2..n : f[k] = f[k - 1] \o <<":">> \o g[k]
    <3> TAKE k \in 2..n
    <3>1. k \in 2..(n + 1) /\ k \in 1..n
      BY <1>1
    <3> QED
      BY <1>1, <1>7, <3>1
  <2> QED
    BY <2>1, <2>2, JoinedIs DEF n
<1>11. f[n + 1] = f[n] \o <<":">> \o x
  <2>1. n + 1 \in 2..(n + 1) /\ (n + 1) - 1 = n
    BY <1>1
  <2> QED
    BY <1>1, <1>7, <2>1
<1> QED
  BY <1>8, <1>9, <1>10, <1>11 DEF t, S

\* Concatenating goes element by element.
LEMMA Concatenated ==
  ASSUME NEW S, NEW s \in Seq(S), NEW t \in Seq(S), NEW e \in S
  PROVE  /\ s \o t \in Seq(S) /\ s \o Append(t, e) = Append(s \o t, e)
         /\ s \o <<>> = s
<1> DEFINE u == Append(t, e)
           v == s \o t
           w == s \o u
           z == Append(v, e)
<1>1. u \in Seq(S) /\ Len(t) \in Nat /\ Len(s) \in Nat /\ Len(u) = Len(t) + 1 /\ u[Len(t) + 1] = e
      /\ \A i \in 1..Len(t) : u[i] = t[i]
  BY Appended, LenProperties
<1>2. v \in Seq(S) /\ Len(v) = Len(s) + Len(t)
      /\ \A i \in 1..(Len(s) + Len(t)) : v[i] = IF i <= Len(s) THEN s[i] ELSE t[i - Len(s)]
  BY ConcatProperties
<1> HIDE DEF u, v
<1>3. w \in Seq(S) /\ Len(w) = Len(s) + Len(u)
      /\ \A i \in 1..(Len(s) + Len(u)) : w[i] = IF i <= Len(s) THEN s[i] ELSE u[i - Len(s)]
  BY <1>1, ConcatProperties
<1>4. z \in Seq(S) /\ Len(z) = Len(v) + 1 /\ z[Len(v) + 1] = e /\ \A i \in 1..Len(v) : z[i] = v[i]
  <2>1. v \in Seq(S)
    BY <1>2
  <2> QED
    BY <2>1, Appended
<1> HIDE DEF w, z
<1>5. \A i \in 1..Len(w) : w[i] = z[i]
  <2> TAKE i \in 1..Len(w)
  <2>1. i \in 1..(Len(s) + Len(t) + 1)
    BY <1>1, <1>3
  <2>2. CASE i = Len(s) + Len(t) + 1
    BY <1>1, <1>2, <1>3, <1>4, <2>1, <2>2
  <2>3. CASE i # Len(s) + Len(t) + 1
    <3>1. i \in 1..Len(v) /\ i \in 1..(Len(s) + Len(t)) /\ i \in 1..(Len(s) + Len(u))
          /\ (~(i <= Len(s)) => i - Len(s) \in 1..Len(t))
      BY <1>1, <1>2, <2>1, <2>3
    <3>2. z[i] = IF i <= Len(s) THEN s[i] ELSE t[i - Len(s)]
      BY <1>2, <1>4, <3>1
    <3>3. w[i] = IF i <= Len(s) THEN s[i] ELSE u[i - Len(s)]
      BY <1>3, <3>1
    <3> QED
      BY <1>1, <3>1, <3>2, <3>3
  <2> QED
    BY <2>2, <2>3
<1>6. Len(w) = Len(z)
  BY <1>1, <1>2, <1>3, <1>4
<1>7. w = z
  BY <1>3, <1>4, <1>5, <1>6, SeqEqual
<1>8. s \o <<>> = s
  BY ConcatEmptySeq
<1> QED
  BY <1>2, <1>7, <1>8 DEF u, v, w, z

\* The colon is a character.
LEMMA Colon ==
  ASSUME NEW s \in Seq(Chars)
  PROVE  /\ ":" \in Chars /\ <<":">> \in Seq(Chars)
         /\ s \o <<":">> \in Seq(Chars) /\ s \o <<":">> = Append(s, ":")
<1>1. ":" \in Chars
  BY NamesAssumption
<1>2. <<>> \in Seq(Chars) /\ <<":">> = Append(<<>>, ":")
  BY EmptySeq
<1> QED
  BY <1>1, <1>2, Concatenated, Appended

\* Empty strings and lists of pieces.
LEMMA Nothing == <<>> \in Seq(Chars) /\ <<>> \in Seq(Seq(Chars)) /\ <<<<>>>> = Append(<<>>, <<>>)
BY EmptySeq

\* Joining pieces of which the last has one more character.
LEMMA JoinedExtended ==
  ASSUME NEW h \in Seq(Seq(Chars)), NEW x \in Seq(Chars), NEW c \in Chars
  PROVE  /\ Joined(Append(h, x)) \in Seq(Chars)
         /\ Joined(Append(h, Append(x, c))) = Append(Joined(Append(h, x)), c)
<1>1. Append(x, c) \in Seq(Chars)
  BY Appended
<1>2. CASE h = <<>>
  BY <1>1, <1>2, JoinedOne
<1>3. CASE h # <<>>
  <2> DEFINE j == Joined(h) \o <<":">>
  <2>1. h \in Pieces
    BY <1>3 DEF Pieces
  <2>2. Joined(h) \in Seq(Chars)
    BY <2>1, JoinedAppended
  <2>3. j \in Seq(Chars)
    BY <2>2, Colon
  <2>4. Joined(Append(h, x)) = j \o x /\ Joined(Append(h, Append(x, c))) = j \o Append(x, c)
    BY <1>1, <2>1, JoinedAppended
  <2> HIDE DEF j
  <2> QED
    BY <2>3, <2>4, Concatenated
<1> QED
  BY <1>2, <1>3

\* What is split and joined is the same again.
LEMMA SplitJoins ==
  ASSUME NEW s \in Seq(Chars)
  PROVE  Split(s) \in Pieces /\ Joined(Split(s)) = s
<1> DEFINE A == {t \in Seq(Chars) : Split(t) \in Pieces /\ Joined(Split(t)) = t}
<1>1. <<>> \in A
  <2>0. Split(<<>>) = Append(<<>>, <<>>)
    BY Nothing, SplitEmpty
  <2>1. Joined(Append(<<>>, <<>>)) = <<>>
    BY Nothing, JoinedOne
  <2>2. Append(<<>>, <<>>) \in Pieces
    BY Nothing, NamesAssumption, AddedIs
  <2> QED
    BY <2>0, <2>1, <2>2, Nothing
<1>2. ASSUME NEW t \in Seq(Chars), NEW c \in Chars, t \in A
      PROVE  Append(t, c) \in A
  <2>1. Split(t) \in Pieces /\ Split(Append(t, c)) = Added(Split(t), c) /\ Joined(Split(t)) = t
    BY <1>2, SplitAppended
  <2>2. PICK h \in Seq(Seq(Chars)), x \in Seq(Chars) : Split(t) = Append(h, x)
    BY <2>1, AsAppended
  <2>3. Append(h, x) \in Pieces /\ Split(Append(t, c)) \in Pieces
    BY <2>1, <2>2, AddedIs
  <2>4. CASE c = ":"
    <3>1. Split(Append(t, c)) = Append(Append(h, x), <<>>)
      BY <2>1, <2>2, <2>4, AddedIs
    <3>2. Joined(Append(Append(h, x), <<>>)) = Joined(Append(h, x)) \o <<":">> \o <<>>
      BY <2>3, JoinedAppended, Nothing
    <3>3. (t \o <<":">>) \o <<>> = Append(t, ":")
      BY Colon, ConcatEmptySeq
    <3>4. Joined(Split(Append(t, c))) = Append(t, c)
      BY <2>1, <2>2, <2>4, <3>1, <3>2, <3>3
    <3> QED
      BY <2>3, <3>4, Appended
  <2>5. CASE c # ":"
    <3>1. Split(Append(t, c)) = Append(h, Append(x, c))
      BY <2>1, <2>2, <2>5, AddedIs
    <3>2. Joined(Split(Append(t, c))) = Append(t, c)
      <4>1. Joined(Append(h, Append(x, c))) = Append(Joined(Append(h, x)), c)
        BY JoinedExtended
      <4>2. Joined(Append(h, x)) = t
        BY <2>1, <2>2
      <4> QED
        BY <3>1, <4>1, <4>2
    <3> QED
      BY <2>3, <3>2, Appended
  <2> QED
    BY <2>4, <2>5
<1>3. Seq(Chars) \subseteq A
  <2> HIDE DEF A
  <2> QED
    BY <1>1, <1>2, SeqInduction
<1> QED
  BY <1>3

ColonFree(x) == \A i \in 1..Len(x) : x[i] # ":"

\* A string without colons has none before its last character,
LEMMA ColonFreeEnd ==
  ASSUME NEW x \in Seq(Chars), NEW c \in Chars, ColonFree(Append(x, c))
  PROVE  ColonFree(x) /\ c # ":"
<1>1. Len(Append(x, c)) = Len(x) + 1 /\ Len(x) \in Nat /\ Append(x, c)[Len(x) + 1] = c
      /\ \A i \in 1..Len(x) : Append(x, c)[i] = x[i]
  BY Appended
<1>2. Len(x) + 1 \in 1..(Len(x) + 1) /\ \A i \in 1..Len(x) : i \in 1..(Len(x) + 1)
  BY <1>1
<1> QED
  BY <1>1, <1>2 DEF ColonFree

\* is one piece,
LEMMA SplitOne ==
  ASSUME NEW x \in Seq(Chars), ColonFree(x)
  PROVE  Split(x) = Append(<<>>, x)
<1> DEFINE A == {t \in Seq(Chars) : ColonFree(t) => Split(t) = Append(<<>>, t)}
<1>1. <<>> \in A
  BY Nothing, SplitEmpty
<1>2. ASSUME NEW t \in Seq(Chars), NEW c \in Chars, t \in A
      PROVE  Append(t, c) \in A
  <2> SUFFICES ASSUME ColonFree(Append(t, c)) PROVE Split(Append(t, c)) = Append(<<>>, Append(t, c))
    BY Appended
  <2>1. ColonFree(t) /\ c # ":"
    BY ColonFreeEnd
  <2>2. Split(Append(t, c)) = Added(Append(<<>>, t), c)
    BY <1>2, <2>1, SplitAppended
  <2> QED
    BY <2>1, <2>2, AddedIs, Nothing
<1>3. Seq(Chars) \subseteq A
  <2> HIDE DEF A
  <2> QED
    BY <1>1, <1>2, SeqInduction
<1> QED
  BY <1>3

\* and is the last one of what it ends.
LEMMA SplitConcatenated ==
  ASSUME NEW s \in Seq(Chars), NEW x \in Seq(Chars), ColonFree(x)
  PROVE  Split(s \o <<":">> \o x) = Append(Split(s), x)
<1> DEFINE j == s \o <<":">>
           A == {t \in Seq(Chars) : ColonFree(t) => Split(j \o t) = Append(Split(s), t)}
<1>1. j \in Seq(Chars) /\ j = Append(s, ":") /\ ":" \in Chars
  BY Colon
<1>2. Split(s) \in Pieces /\ Split(s) \in Seq(Seq(Chars))
  BY SplitJoins DEF Pieces
<1>3. Split(j) = Append(Split(s), <<>>)
  <2>1. PICK h \in Seq(Seq(Chars)), y \in Seq(Chars) : Split(s) = Append(h, y)
    BY <1>2, AsAppended
  <2>2. Split(j) = Added(Append(h, y), ":")
    BY <1>1, <2>1, SplitAppended
  <2>3. Added(Append(h, y), ":") = Append(Append(h, y), <<>>)
    BY <1>1, AddedIs
  <2> QED
    BY <2>1, <2>2, <2>3
<1> HIDE DEF j
<1>4. <<>> \in A
  BY <1>1, <1>3, Nothing, ConcatEmptySeq
<1>5. ASSUME NEW t \in Seq(Chars), NEW c \in Chars, t \in A
      PROVE  Append(t, c) \in A
  <2> SUFFICES ASSUME ColonFree(Append(t, c))
               PROVE  Split(j \o Append(t, c)) = Append(Split(s), Append(t, c))
    BY Appended
  <2>1. ColonFree(t) /\ c # ":"
    BY ColonFreeEnd
  <2>2. j \o Append(t, c) = Append(j \o t, c) /\ j \o t \in Seq(Chars)
    BY <1>1, Concatenated
  <2>3. Split(Append(j \o t, c)) = Added(Append(Split(s), t), c)
    BY <1>5, <2>1, <2>2, SplitAppended
  <2> QED
    BY <1>2, <2>1, <2>2, <2>3, AddedIs
<1>6. Seq(Chars) \subseteq A
  <2> HIDE DEF A
  <2> QED
    BY <1>4, <1>5, SeqInduction
<1> QED
  BY <1>6 DEF j

\* Pieces without colons that are joined are split into the same.
AllFree(g) == \A i \in 1..Len(g) : ColonFree(g[i])

LEMMA JoinSplits ==
  ASSUME NEW g \in Pieces, AllFree(g)
  PROVE  Joined(g) \in Seq(Chars) /\ Split(Joined(g)) = g
<1> DEFINE S == Seq(Chars)
           A == {t \in Seq(S) : t # <<>> /\ AllFree(t) => Split(Joined(t)) = t}
<1>1. <<>> \in A
  BY EmptySeq
<1>2. ASSUME NEW t \in Seq(S), NEW x \in S, t \in A
      PROVE  Append(t, x) \in A
  <2> SUFFICES ASSUME AllFree(Append(t, x)) PROVE Split(Joined(Append(t, x))) = Append(t, x)
    <3> HIDE DEF S
    <3> QED
      BY Appended
  <2>1. AllFree(t) /\ ColonFree(x)
    <3> HIDE DEF S
    <3>1. Len(Append(t, x)) = Len(t) + 1 /\ Len(t) \in Nat /\ Append(t, x)[Len(t) + 1] = x
          /\ \A i \in 1..Len(t) : Append(t, x)[i] = t[i]
      BY Appended
    <3>2. Len(t) + 1 \in 1..(Len(t) + 1) /\ \A i \in 1..Len(t) : i \in 1..(Len(t) + 1)
      BY <3>1
    <3> QED
      BY <3>1, <3>2 DEF AllFree
  <2>2. CASE t = <<>>
    BY <2>1, <2>2, JoinedOne, SplitOne
  <2>3. CASE t # <<>>
    <3>1. t \in Pieces /\ Split(Joined(t)) = t
      BY <1>2, <2>1, <2>3 DEF Pieces
    <3>2. Joined(t) \in Seq(Chars) /\ Joined(Append(t, x)) = Joined(t) \o <<":">> \o x
      BY <3>1, JoinedAppended
    <3> QED
      BY <2>1, <3>1, <3>2, SplitConcatenated
  <2> QED
    BY <2>2, <2>3
<1>3. Seq(S) \subseteq A
  <2> HIDE DEF A, S
  <2> QED
    BY <1>1, <1>2, SeqInduction
<1>4. Joined(g) \in Seq(Chars)
  BY Nothing, JoinedAppended
<1> QED
  BY <1>3, <1>4 DEF Pieces

-----------------------------------------------------------------------------
(* The grammar of names. *)

AllSegments(g) == \A i \in 1..Len(g) : IsSegment(g[i])

\* What a segment may start with, and a name.
OpenSegment(x) == \A i \in 1..Len(x) : x[i] \in Alphanumeric \/ (x[i] = "-" /\ i # 1)
OpenName(s) ==
  /\ \A i \in 1..Len(s) : s[i] \in Alphanumeric \union {"-", ":"}
  /\ s # <<>> => s[1] \in Alphanumeric
  /\ \A i \in 1..Len(s) : s[i] = ":" =>
       i # 1 /\ s[i - 1] \in Alphanumeric /\ (i # Len(s) => s[i + 1] \in Alphanumeric)

\* Colons, dashes and wildcards are no letters or digits.
LEMMA Kinds == ":" \notin Alphanumeric /\ "-" \notin Alphanumeric /\ "*" \notin Alphanumeric /\ "?" \notin Alphanumeric
BY NamesAssumption

\* A segment is one so far that ends with a letter or a digit, and has no colon.
LEMMA SegmentIs ==
  ASSUME NEW x \in Seq(Chars)
  PROVE  /\ IsSegment(x) <=> x # <<>> /\ OpenSegment(x) /\ x[Len(x)] \in Alphanumeric
         /\ IsSegment(x) => ColonFree(x)
<1>1. Len(x) \in Nat /\ DOMAIN x = 1..Len(x) /\ (x # <<>> => Len(x) # 0)
  BY LenProperties, EmptySeq
<1>2. x # <<>> => Len(x) \in 1..Len(x)
  BY <1>1
<1>3. \A i \in 1..Len(x) : i # Len(x) \/ x[i] = x[Len(x)]
  OBVIOUS
<1> QED
  BY <1>1, <1>2, <1>3, Kinds DEF IsSegment, IsValidChar, OpenSegment, ColonFree

\* One more segment.
LEMMA SegmentsAppended ==
  ASSUME NEW h \in Seq(Seq(Chars)), NEW x \in Seq(Chars)
  PROVE  AllSegments(Append(h, x)) <=> AllSegments(h) /\ IsSegment(x)
<1> DEFINE S == Seq(Chars)
           g == Append(h, x)
<1> HIDE DEF S
<1>1. Len(g) = Len(h) + 1 /\ Len(h) \in Nat /\ g[Len(h) + 1] = x /\ \A i \in 1..Len(h) : g[i] = h[i]
  <2>1. h \in Seq(S) /\ x \in S
    BY DEF S
  <2> QED
    BY <2>1, Appended
<1> HIDE DEF g
<1>2. \A i : i \in 1..(Len(h) + 1) <=> i \in 1..Len(h) \/ i = Len(h) + 1
  BY <1>1
<1> QED
  BY <1>1, <1>2 DEF AllSegments, g

\* One more character of a segment,
LEMMA OpenSegmentAppended ==
  ASSUME NEW x \in Seq(Chars), NEW c \in Chars
  PROVE  OpenSegment(Append(x, c)) <=> OpenSegment(x) /\ (c \in Alphanumeric \/ (c = "-" /\ x # <<>>))
<1> DEFINE y == Append(x, c)
<1>1. Len(y) = Len(x) + 1 /\ Len(x) \in Nat /\ y[Len(x) + 1] = c /\ \A i \in 1..Len(x) : y[i] = x[i]
  BY Appended
<1> HIDE DEF y
<1>2. \A i : i \in 1..(Len(x) + 1) <=> i \in 1..Len(x) \/ i = Len(x) + 1
  BY <1>1
<1>3. x # <<>> <=> Len(x) + 1 # 1
  BY <1>1, EmptySeq
<1> QED
  BY <1>1, <1>2, <1>3 DEF OpenSegment, y

\* and of a name.
LEMMA OpenNameAppended ==
  ASSUME NEW s \in Seq(Chars), NEW c \in Chars
  PROVE  OpenName(Append(s, c)) <=>
           /\ OpenName(s)
           /\ IF c = ":" THEN s # <<>> /\ s[Len(s)] \in Alphanumeric
              ELSE c \in Alphanumeric \/ (c = "-" /\ s # <<>> /\ s[Len(s)] # ":")
<1> DEFINE t == Append(s, c)
           n == Len(s)
           Around(u, i) == i # 1 /\ u[i - 1] \in Alphanumeric /\ (i # Len(u) => u[i + 1] \in Alphanumeric)
<1>1. t # <<>> /\ Len(t) = n + 1 /\ n \in Nat /\ t[n + 1] = c /\ \A i \in 1..n : t[i] = s[i]
  BY Appended
<1>2. s = <<>> <=> n = 0
  BY EmptySeq
<1> HIDE DEF t, n
<1>3. \A i : i \in 1..(n + 1) <=> i \in 1..n \/ i = n + 1
  BY <1>1
<1>4. (\A i \in 1..(n + 1) : t[i] \in Alphanumeric \union {"-", ":"})
        <=> (\A i \in 1..n : s[i] \in Alphanumeric \union {"-", ":"}) /\ c \in Alphanumeric \union {"-", ":"}
  BY <1>1, <1>3
<1>5. t[1] = IF s = <<>> THEN c ELSE s[1]
  BY <1>1, <1>2
<1>6. ASSUME NEW i \in 1..n, i # n
      PROVE  Around(t, i) <=> Around(s, i)
  <2>1. i + 1 \in 1..n /\ (i # 1 => i - 1 \in 1..n) /\ i # Len(t) /\ i # Len(s)
    BY <1>1, <1>6 DEF n
  <2>2. t[i + 1] = s[i + 1]
    BY <1>1, <2>1
  <2>3. i # 1 => t[i - 1] = s[i - 1]
    BY <1>1, <2>1
  <2> QED
    BY <2>1, <2>2, <2>3
<1>7. s # <<>> => (Around(t, n) <=> Around(s, n) /\ c \in Alphanumeric)
  <2>1. n = Len(s) /\ n # Len(t) /\ (s # <<>> => n \in 1..n /\ (n # 1 => n - 1 \in 1..n))
    <3>1. n = Len(s)
      BY DEF n
    <3>2. s # <<>> => n \in 1..n /\ (n # 1 => n - 1 \in 1..n)
      BY <1>1, <1>2
    <3> QED
      BY <1>1, <3>1, <3>2
  <2> QED
    BY <1>1, <2>1
<1>8. Around(t, n + 1) <=> s # <<>> /\ s[n] \in Alphanumeric
  <2>1. n + 1 = Len(t) /\ (n + 1) - 1 = n /\ (n # 0 => n \in 1..n) /\ (n + 1 # 1 <=> n # 0)
    BY <1>1
  <2> QED
    BY <1>1, <1>2, <2>1
<1>9. n = Len(s) /\ (s # <<>> => n \in 1..n /\ n # 0)
  BY <1>1, <1>2 DEF n
<1>10. OpenName(t) <=>
         /\ \A i \in 1..(n + 1) : t[i] \in Alphanumeric \union {"-", ":"}
         /\ t[1] \in Alphanumeric
         /\ \A i \in 1..(n + 1) : t[i] = ":" => Around(t, i)
  BY <1>1 DEF OpenName
<1>11. OpenName(s) <=>
         /\ \A i \in 1..n : s[i] \in Alphanumeric \union {"-", ":"}
         /\ s # <<>> => s[1] \in Alphanumeric
         /\ \A i \in 1..n : s[i] = ":" => Around(s, i)
  BY DEF OpenName, n
<1> HIDE DEF Around
<1>12. (\A i \in 1..(n + 1) : t[i] = ":" => Around(t, i)) <=>
         /\ \A i \in 1..n : i # n /\ s[i] = ":" => Around(s, i)
         /\ s # <<>> /\ s[n] = ":" => Around(s, n) /\ c \in Alphanumeric
         /\ c = ":" => s # <<>> /\ s[n] \in Alphanumeric
  BY <1>1, <1>3, <1>6, <1>7, <1>8, <1>9
<1>13. (\A i \in 1..n : s[i] = ":" => Around(s, i)) <=>
         /\ \A i \in 1..n : i # n /\ s[i] = ":" => Around(s, i)
         /\ s # <<>> /\ s[n] = ":" => Around(s, n)
  BY <1>2, <1>9
<1>14. (c \in Alphanumeric => c # ":" /\ c # "-") /\ ":" # "-" /\ (s[n] \in Alphanumeric => s[n] # ":")
  BY Kinds
<1> QED
  BY <1>4, <1>5, <1>9, <1>10, <1>11, <1>12, <1>13, <1>14 DEF t

\* How a string is split, by its last piece.
LEMMA SplitBy ==
  ASSUME NEW s \in Seq(Chars)
  PROVE  \E h \in Seq(Seq(Chars)), x \in Seq(Chars) :
           /\ Split(s) = Append(h, x)
           /\ AllSegments(h) /\ OpenSegment(x) <=> OpenName(s)
           /\ x = <<>> <=> (s = <<>> \/ s[Len(s)] = ":")
           /\ x # <<>> => x[Len(x)] = s[Len(s)]
           /\ h # <<>> <=> \E i \in 1..Len(s) : s[i] = ":"
<1> DEFINE Is(t, h, x) ==
             /\ Split(t) = Append(h, x)
             /\ AllSegments(h) /\ OpenSegment(x) <=> OpenName(t)
             /\ x = <<>> <=> (t = <<>> \/ t[Len(t)] = ":")
             /\ x # <<>> => x[Len(x)] = t[Len(t)]
             /\ h # <<>> <=> \E i \in 1..Len(t) : t[i] = ":"
           A == {t \in Seq(Chars) : \E h \in Seq(Seq(Chars)), x \in Seq(Chars) : Is(t, h, x)}
<1>1. <<>> \in A
  <2>1. Len(<<>>) = 0
    BY EmptySeq
  <2>2. \A i \in 1..Len(<<>>) : FALSE
    BY <2>1
  <2>3. AllSegments(<<>>) /\ OpenSegment(<<>>) /\ OpenName(<<>>)
    BY <2>2 DEF AllSegments, OpenSegment, OpenName
  <2>4. Is(<<>>, <<>>, <<>>)
    BY <2>2, <2>3, SplitEmpty, Nothing
  <2> HIDE DEF Is
  <2> QED
    BY <2>4, Nothing
<1>2. ASSUME NEW t \in Seq(Chars), NEW c \in Chars, t \in A
      PROVE  Append(t, c) \in A
  <2> DEFINE u == Append(t, c)
  <2>1. PICK h \in Seq(Seq(Chars)), x \in Seq(Chars) : Is(t, h, x)
    BY <1>2
  <2>2. Split(u) = Added(Append(h, x), c)
    BY <2>1, SplitAppended
  <2>3. u \in Seq(Chars) /\ u # <<>> /\ Len(u) = Len(t) + 1 /\ Len(t) \in Nat /\ u[Len(t) + 1] = c
        /\ \A i \in 1..Len(t) : u[i] = t[i]
    BY Appended
  <2>4. u[Len(u)] = c
    BY <2>3
  <2>5. (\E i \in 1..Len(u) : u[i] = ":") <=> c = ":" \/ \E i \in 1..Len(t) : t[i] = ":"
    <3>1. \A i : i \in 1..Len(u) <=> i \in 1..Len(t) \/ i = Len(t) + 1
      BY <2>3
    <3> HIDE DEF u
    <3> QED
      BY <2>3, <3>1
  <2>6. OpenName(u) <=>
          /\ OpenName(t)
          /\ IF c = ":" THEN t # <<>> /\ t[Len(t)] \in Alphanumeric
             ELSE c \in Alphanumeric \/ (c = "-" /\ t # <<>> /\ t[Len(t)] # ":")
    BY OpenNameAppended
  <2>7. CASE c = ":"
    <3> DEFINE g == Append(h, x)
    <3>1. g \in Seq(Seq(Chars)) /\ g # <<>>
      BY AddedIs DEF Pieces
    <3>2. Split(u) = Append(g, <<>>)
      BY <2>2, <2>7, AddedIs
    <3>3. AllSegments(g) /\ OpenSegment(<<>>) <=> OpenName(u)
      <4>1. OpenSegment(<<>>)
        BY EmptySeq DEF OpenSegment
      <4>2. AllSegments(g) <=> AllSegments(h) /\ x # <<>> /\ OpenSegment(x) /\ x[Len(x)] \in Alphanumeric
        BY SegmentsAppended, SegmentIs
      <4>3. t[Len(t)] \in Alphanumeric => t[Len(t)] # ":"
        BY Kinds
      <4> QED
        BY <2>1, <2>6, <2>7, <4>1, <4>2, <4>3
    <3> HIDE DEF g, u
    <3>4. Is(u, g, <<>>)
      BY <2>3, <2>4, <2>5, <2>7, <3>1, <3>2, <3>3
    <3> HIDE DEF Is
    <3> QED
      BY <2>3, <3>1, <3>4, Nothing DEF u
  <2>8. CASE c # ":"
    <3> DEFINE y == Append(x, c)
    <3>1. Split(u) = Append(h, y)
      <4>1. Added(Append(h, x), c) = Append(h, y)
        BY <2>8, AddedIs
      <4> HIDE DEF u, y
      <4> QED
        BY <2>2, <4>1
    <3>2. y \in Seq(Chars) /\ y # <<>> /\ y[Len(y)] = c
      <4>1. y \in Seq(Chars) /\ y # <<>> /\ Len(y) = Len(x) + 1 /\ y[Len(x) + 1] = c
        <5> DEFINE S == Chars
        <5>1. x \in Seq(S) /\ c \in S
          OBVIOUS
        <5> HIDE DEF S, A, u
        <5>2. y \in Seq(S) /\ y # <<>> /\ Len(y) = Len(x) + 1 /\ y[Len(x) + 1] = c
          BY <5>1, Appended
        <5> QED
          BY <5>2 DEF S
      <4> HIDE DEF y
      <4> QED
        BY <4>1
    <3>3. AllSegments(h) /\ OpenSegment(y) <=> OpenName(u)
      <4>1. OpenSegment(y) <=> OpenSegment(x) /\ (c \in Alphanumeric \/ (c = "-" /\ x # <<>>))
        BY OpenSegmentAppended
      <4> QED
        BY <2>1, <2>6, <2>8, <4>1
    <3> HIDE DEF y, u
    <3>4. Is(u, h, y)
      BY <2>1, <2>3, <2>4, <2>5, <2>8, <3>1, <3>2, <3>3
    <3> HIDE DEF Is
    <3> QED
      BY <2>3, <3>2, <3>4 DEF u
  <2> QED
    BY <2>7, <2>8
<1>3. Seq(Chars) \subseteq A
  <2> HIDE DEF A
  <2> QED
    BY <1>1, <1>2, SeqInduction
<1> QED
  BY <1>3

\* A name in terms of its characters.
LEMMA WellFormedIs ==
  ASSUME NEW s \in Seq(Chars)
  PROVE  WellFormed(s) <=>
           OpenName(s) /\ s # <<>> /\ s[Len(s)] \in Alphanumeric /\ \E i \in 1..Len(s) : s[i] = ":"
<1> DEFINE n == Len(s)
           Ends(i) == i \in 1..n /\ s[i] \in Alphanumeric
<1>1. n \in Nat /\ DOMAIN s = 1..n /\ (s = <<>> <=> n = 0)
  BY LenProperties, EmptySeq
<1>2. WellFormed(s) <=>
        /\ \E i \in 1..n : s[i] = ":"
        /\ \A i \in 1..n : s[i] \in Alphanumeric \union {"-", ":"}
        /\ \A i \in 1..n : s[i] = ":" => Ends(i - 1) /\ Ends(i + 1)
        /\ Ends(1) /\ Ends(n)
  BY <1>1 DEF WellFormed
<1>3. ":" \notin Alphanumeric
  BY Kinds
<1>4. ASSUME NEW i \in 1..n
      PROVE  /\ Ends(i - 1) <=> i # 1 /\ s[i - 1] \in Alphanumeric
             /\ Ends(i + 1) <=> i # n /\ s[i + 1] \in Alphanumeric
  <2> HIDE DEF n
  <2>1. (i - 1 \in 1..n <=> i # 1) /\ (i + 1 \in 1..n <=> i # n)
    BY <1>1
  <2> QED
    BY <2>1
<1>5. Ends(1) <=> s # <<>> /\ s[1] \in Alphanumeric
  BY <1>1
<1>6. Ends(n) <=> s # <<>> /\ s[n] \in Alphanumeric
  BY <1>1
<1> HIDE DEF Ends
<1>7. OpenName(s) <=>
        /\ \A i \in 1..n : s[i] \in Alphanumeric \union {"-", ":"}
        /\ s # <<>> => s[1] \in Alphanumeric
        /\ \A i \in 1..n : s[i] = ":" =>
             i # 1 /\ s[i - 1] \in Alphanumeric /\ (i # n => s[i + 1] \in Alphanumeric)
  BY DEF OpenName
<1> HIDE DEF n
<1>8. ASSUME s[n] \in Alphanumeric
      PROVE  \A i \in 1..n : s[i] = ":" => i # n
  BY <1>3, <1>8
<1> QED
  BY <1>2, <1>4, <1>5, <1>6, <1>7, <1>8 DEF n

\* Path::create and Name::create accept what the grammar allows.
LEMMA PathIs ==
  ASSUME NEW s \in Seq(Chars)
  PROVE  /\ CreatePath(s) # Bad <=> AllSegments(Split(s))
         /\ CreatePath(s) # Bad => CreatePath(s) = Split(s)
<1>1. Split(s) \in Seq(Seq(Chars))
  BY SplitJoins DEF Pieces
<1> DEFINE S == Seq(Chars)
<1>2. DOMAIN Split(s) = 1..Len(Split(s))
  <2> HIDE DEF S
  <2>1. Split(s) \in Seq(S)
    BY <1>1 DEF S
  <2> QED
    BY <2>1, LenProperties
<1>3. Split(s) # Bad
  BY <1>1, NamesAssumption
<1> QED
  BY <1>2, <1>3 DEF CreatePath, AllSegments

\* What Name::create makes of the pieces.
LEMMA NameOfPieces ==
  ASSUME NEW s \in Seq(Chars), NEW h \in Seq(Seq(Chars)), NEW x \in Seq(Chars), Split(s) = Append(h, x)
  PROVE  Create(s) = IF AllSegments(Append(h, x)) /\ h # <<>> THEN [path |-> h, base |-> x] ELSE Bad
<1> DEFINE S == Seq(Chars)
           g == Append(h, x)
<1>1. Len(g) = Len(h) + 1 /\ Len(h) \in Nat /\ g[Len(h) + 1] = x /\ SubSeq(g, 1, Len(h)) = h
      /\ (h # <<>> <=> Len(h) # 0)
  <2> HIDE DEF S
  <2>1. h \in Seq(S) /\ x \in S
    BY DEF S
  <2> QED
    BY <2>1, Appended, EmptySeq
<1>2. CreatePath(s) = IF AllSegments(g) THEN g ELSE Bad
  <2>1. AllSegments(Split(s)) <=> AllSegments(g)
    OBVIOUS
  <2>2. CreatePath(s) # Bad <=> AllSegments(g)
    BY <2>1, PathIs
  <2>3. CreatePath(s) # Bad => CreatePath(s) = g
    BY PathIs
  <2> HIDE DEF g
  <2> QED
    BY <2>2, <2>3
<1>3. g # Bad
  <2>1. ":" \in Chars
    BY NamesAssumption
  <2>2. g \in Seq(Seq(Chars))
    BY <2>1, AddedIs DEF Pieces
  <2> HIDE DEF g
  <2> QED
    BY <2>2, NamesAssumption
<1> HIDE DEF g
<1>4. Len(g) < 2 <=> h = <<>>
  BY <1>1
<1>5. Len(g) - 1 = Len(h)
  BY <1>1
<1>6. CASE AllSegments(g) /\ h # <<>>
  <2>1. CreatePath(s) = g
    BY <1>2, <1>6
  <2>2. Create(s) = [path |-> SubSeq(g, 1, Len(g) - 1), base |-> g[Len(g)]]
    BY <1>3, <1>4, <1>6, <2>1 DEF Create
  <2> QED
    BY <1>1, <1>5, <1>6, <2>2 DEF g
<1>7. CASE ~(AllSegments(g) /\ h # <<>>)
  <2>1. Create(s) = Bad
    BY <1>2, <1>4, <1>7 DEF Create
  <2> QED
    BY <1>7, <2>1 DEF g
<1> QED
  BY <1>6, <1>7

\* Exactly the grammar's strings are names, and a name is shown as it was written.
LEMMA CreateIs ==
  ASSUME NEW s \in Seq(Chars)
  PROVE  /\ Create(s) # Bad <=> WellFormed(s)
         /\ WellFormed(s) => Display(Create(s)) = s
<1>1. PICK h \in Seq(Seq(Chars)), x \in Seq(Chars) :
        /\ Split(s) = Append(h, x)
        /\ AllSegments(h) /\ OpenSegment(x) <=> OpenName(s)
        /\ x = <<>> <=> (s = <<>> \/ s[Len(s)] = ":")
        /\ x # <<>> => x[Len(x)] = s[Len(s)]
        /\ h # <<>> <=> \E i \in 1..Len(s) : s[i] = ":"
  BY SplitBy
<1>2. AllSegments(Append(h, x)) <=> AllSegments(h) /\ x # <<>> /\ OpenSegment(x) /\ x[Len(x)] \in Alphanumeric
  BY SegmentsAppended, SegmentIs
<1>3. s[Len(s)] \in Alphanumeric => s[Len(s)] # ":"
  BY Kinds
<1>4. WellFormed(s) <=> AllSegments(Append(h, x)) /\ h # <<>>
  <2>1. WellFormed(s) <=> OpenName(s) /\ s # <<>> /\ s[Len(s)] \in Alphanumeric /\ h # <<>>
    BY <1>1, WellFormedIs
  <2> QED
    BY <1>1, <1>2, <1>3, <2>1
<1>5. Create(s) = IF AllSegments(Append(h, x)) /\ h # <<>> THEN [path |-> h, base |-> x] ELSE Bad
  BY <1>1, NameOfPieces
<1>6. [path |-> h, base |-> x] # Bad
  <2>1. [path |-> h, base |-> x] \in [path : Seq(Seq(Chars)), base : Seq(Chars)]
    OBVIOUS
  <2> QED
    BY <2>1, NamesAssumption
<1>7. Joined(Append(h, x)) = s
  BY <1>1, SplitJoins
<1>8. Display([path |-> h, base |-> x]) = s
  BY <1>7 DEF Display
<1> QED
  BY <1>4, <1>5, <1>6, <1>8

\* A name is read as what it is shown as.
LEMMA DisplayIs ==
  ASSUME NEW h \in Pieces, NEW x \in Seq(Chars), AllSegments(h), IsSegment(x)
  PROVE  Create(Display([path |-> h, base |-> x])) = [path |-> h, base |-> x]
<1> DEFINE g == Append(h, x)
           s == Joined(g)
<1>1. h \in Seq(Seq(Chars)) /\ h # <<>>
  BY DEF Pieces
<1>2. AllSegments(g) /\ g \in Pieces
  BY <1>1, SegmentsAppended, AddedIs, Colon, Nothing
<1>3. AllFree(g)
  <2> HIDE DEF g
  <2>1. \A i \in 1..Len(g) : g[i] \in Seq(Chars)
    <3> DEFINE S == Seq(Chars)
    <3>1. g \in Seq(S)
      BY <1>2 DEF Pieces
    <3> HIDE DEF S
    <3>2. \A i \in 1..Len(g) : g[i] \in S
      BY <3>1, ElementOfSeq
    <3> QED
      BY <3>2 DEF S
  <2> QED
    BY <1>2, <2>1, SegmentIs DEF AllFree, AllSegments
<1>4. s \in Seq(Chars) /\ Split(s) = g
  <2> HIDE DEF g
  <2> QED
    BY <1>2, <1>3, JoinSplits
<1>5. Display([path |-> h, base |-> x]) = s
  BY DEF Display
<1> HIDE DEF s
<1> QED
  BY <1>1, <1>2, <1>4, <1>5, NameOfPieces

-----------------------------------------------------------------------------
(* Patterns with "#info", and without wildcards. *)

\* The suffix of a key changes no match.
LEMMA KeysGlob ==
  ASSUME NEW pattern, NEW name, Len(pattern) \in Nat, Len(name) \in Nat,
         NEW p2, Len(p2) = Len(pattern) + 1, p2[Len(p2)] = "#",
         \A i \in 1..Len(pattern) : p2[i] = pattern[i],
         NEW n2, Len(n2) = Len(name) + 1, n2[Len(n2)] = "#",
         \A i \in 1..Len(name) : n2[i] = name[i]
  PROVE  Globs(p2, n2) <=> Globs(pattern, name)
<1> DEFINE P == Len(pattern)
           N == Len(name)
           from == MatchedFrom(pattern, P, name)
           from2 == MatchedFrom(p2, P + 1, n2)
           Other == {i \in 1..(P + 1) : from2[i] # from[i] \/ ~(from[i] \subseteq 1..(N + 1))}
<1>0. Len(n2) = N + 1 /\ N \in Nat /\ P \in Nat /\ (P + 1) + 1 = P + 2 /\ (N + 1) + 1 = N + 2
  OBVIOUS
<1>1. from[P + 1] = {N + 1} /\ \A i \in 1..P : from[i] = Before(pattern, name, i, from[i + 1])
  BY MatchedFromIs
<1>2. from2[P + 2] = {N + 2} /\ \A i \in 1..(P + 1) : from2[i] = Before(p2, n2, i, from2[i + 1])
  <2>1. P + 1 \in Nat /\ Len(n2) \in Nat /\ (P + 1) + 1 = P + 2 /\ Len(n2) + 1 = N + 2
    OBVIOUS
  <2> QED
    BY <2>1, MatchedFromIs
<1> HIDE DEF from, from2
<1>3. from2[P + 1] = {N + 1}
  <2>1. from2[P + 1] = Before(p2, n2, P + 1, {N + 2})
    <3>1. P + 1 \in 1..(P + 1)
      BY <1>0
    <3>2. from2[P + 1] = Before(p2, n2, P + 1, from2[(P + 1) + 1])
      BY <1>2, <3>1
    <3> QED
      BY <1>0, <1>2, <3>2
  <2>2. Before(p2, n2, P + 1, {N + 2}) = {j \in 1..(N + 1) : "#" \in {"?", n2[j]} /\ j + 1 \in {N + 2}}
    <3>1. p2[P + 1] = "#"
      OBVIOUS
    <3> QED
      BY <1>0, <3>1 DEF Before
  <2>3. n2[N + 1] = "#" /\ N \in Nat
    OBVIOUS
  <2>4. {j \in 1..(N + 1) : "#" \in {"?", n2[j]} /\ j + 1 \in {N + 2}} = {N + 1}
    <3> HIDE DEF N
    <3> QED
      BY <2>3
  <2> QED
    BY <2>1, <2>2, <2>4
<1>4. ASSUME NEW i \in 1..P, NEW next, next \subseteq 1..(N + 1)
      PROVE  Before(p2, n2, i, next) = Before(pattern, name, i, next)
             /\ Before(pattern, name, i, next) \subseteq 1..(N + 1)
  <2>0. p2[i] = pattern[i] /\ Len(n2) = N + 1 /\ (N + 1) + 1 = N + 2 /\ N \in Nat
    OBVIOUS
  <2>1. CASE pattern[i] = "*"
    <3>1. Before(p2, n2, i, next) = {j \in 1..(N + 2) : \E l \in next : j <= l}
      BY <2>0, <2>1 DEF Before
    <3>2. Before(pattern, name, i, next) = {j \in 1..(N + 1) : \E l \in next : j <= l}
      BY <2>1 DEF Before
    <3> QED
      BY <1>4, <3>1, <3>2
  <2>2. CASE pattern[i] # "*"
    <3>1. Before(p2, n2, i, next) = {j \in 1..(N + 1) : pattern[i] \in {"?", n2[j]} /\ j + 1 \in next}
      BY <2>2 DEF Before
    <3>2. Before(pattern, name, i, next) = {j \in 1..N : pattern[i] \in {"?", name[j]} /\ j + 1 \in next}
      BY <2>2 DEF Before
    <3>3. \A j \in 1..(N + 1) : j + 1 \in next => j \in 1..N /\ n2[j] = name[j]
      BY <1>4
    <3> QED
      BY <3>1, <3>2, <3>3
  <2> QED
    BY <2>1, <2>2
<1>5. P + 1 \notin Other
  <2>1. from2[P + 1] = from[P + 1] /\ from[P + 1] \subseteq 1..(N + 1)
    BY <1>0, <1>1, <1>3
  <2> QED
    BY <2>1
<1>6. Other = {}
  <2> SUFFICES ASSUME Other # {} PROVE FALSE
    OBVIOUS
  <2>1. PICK i \in Other : \A l \in Other : l <= i
    <3>1. Other \subseteq 1..(P + 1) /\ P + 1 \in Nat
      OBVIOUS
    <3> DEFINE m == P + 1
    <3>2. m \in Nat /\ Other \subseteq 1..m /\ Other # {}
      BY <3>1
    <3> HIDE DEF Other, m
    <3> QED
      BY <3>2, LargestOf
  <2>2. i \in 1..P /\ i + 1 \in 1..(P + 1) /\ i + 1 \notin Other /\ i \in 1..(P + 1)
    <3>1. i \in 1..(P + 1) /\ i # P + 1
      BY <1>5
    <3> HIDE DEF Other
    <3> QED
      BY <2>1, <3>1
  <2>3. from2[i + 1] = from[i + 1] /\ from[i + 1] \subseteq 1..(N + 1)
    BY <2>2
  <2>4. from2[i] = from[i] /\ from[i] \subseteq 1..(N + 1)
    BY <1>1, <1>2, <1>4, <2>2, <2>3
  <2> QED
    BY <2>4
<1>7. from2[1] = from[1]
  BY <1>6
<1>8. Globs(pattern, name) <=> 1 \in from[1]
  BY DEF Globs, GlobsUpTo, from
<1>9. Globs(p2, n2) <=> 1 \in from2[1]
  BY DEF Globs, GlobsUpTo, from2
<1> QED
  BY <1>7, <1>8, <1>9

\* A pattern without wildcards matches itself only.
LEMMA LiteralGlobs ==
  ASSUME NEW pattern \in Seq(Chars), NEW name \in Seq(Chars),
         \A i \in 1..Len(pattern) : pattern[i] \notin {"*", "?"}
  PROVE  Globs(pattern, name) <=> name = pattern
<1> DEFINE P == Len(pattern)
           N == Len(name)
           d == N - P
           From(i, j) == j \in MatchedFrom(pattern, P, name)[i]
           Same(i) == \A k \in i..P : pattern[k] = name[k + d]
           Good(i) == \A j \in 1..(N + 1) : From(i, j) <=> j = i + d /\ Same(i)
           Other == {i \in 1..(P + 1) : ~Good(i)}
<1>1. P \in Nat /\ N \in Nat
  BY LenProperties
<1>2. Good(P + 1)
  <2>1. MatchedFrom(pattern, P, name)[P + 1] = {N + 1}
    BY <1>1, MatchedFromIs
  <2> QED
    BY <1>1, <2>1
<1>3. ASSUME NEW i \in 1..P, Good(i + 1)
      PROVE  Good(i)
  <2> SUFFICES ASSUME NEW j \in 1..(N + 1)
               PROVE  From(i, j) <=> j = i + d /\ Same(i)
    OBVIOUS
  <2>1. From(i, j) <=> j # N + 1 /\ pattern[i] = name[j] /\ From(i + 1, j + 1)
    BY <1>1, MatchedFromNext
  <2>2. j # N + 1 => (From(i + 1, j + 1) <=> j + 1 = (i + 1) + d /\ Same(i + 1))
    <3>1. j # N + 1 => j + 1 \in 1..(N + 1)
      BY <1>1
    <3> HIDE DEF From, Same
    <3> QED
      BY <1>3, <3>1
  <2>3. Same(i) <=> pattern[i] = name[i + d] /\ Same(i + 1)
    <3>1. \A k : k \in i..P <=> k = i \/ k \in (i + 1)..P
      BY <1>1
    <3> HIDE DEF d
    <3> QED
      BY <3>1
  <2>4. j = i + d => j # N + 1
    BY <1>1
  <2>5. j + 1 = (i + 1) + d <=> j = i + d
    BY <1>1
  <2> HIDE DEF From, Same
  <2> QED
    BY <2>1, <2>2, <2>3, <2>4, <2>5
<1> HIDE DEF Good
<1>4. Other = {}
  <2> SUFFICES ASSUME Other # {} PROVE FALSE
    OBVIOUS
  <2>1. PICK i \in Other : \A l \in Other : l <= i
    <3>1. Other \subseteq 1..(P + 1) /\ P + 1 \in Nat
      BY <1>1
    <3> HIDE DEF Other
    <3> QED
      BY <3>1, LargestOf
  <2>2. i \in 1..P /\ i + 1 \in 1..(P + 1) /\ i + 1 \notin Other
    <3>1. i \in 1..(P + 1) /\ i # P + 1
      BY <1>2
    <3> HIDE DEF Other
    <3> QED
      BY <1>1, <2>1, <3>1
  <2> QED
    BY <1>3, <2>2
<1>5. Good(1)
  BY <1>1, <1>4
<1>6. Globs(pattern, name) <=> From(1, 1)
  BY DEF Globs, GlobsUpTo
<1>7. Globs(pattern, name) <=> d = 0 /\ Same(1)
  <2>1. 1 \in 1..(N + 1) /\ (1 = 1 + d <=> d = 0)
    BY <1>1
  <2> HIDE DEF From, Same, d
  <2> QED
    BY <1>5, <1>6, <2>1 DEF Good
<1>8. d = 0 => (Same(1) <=> \A k \in 1..P : pattern[k] = name[k])
  BY <1>1
<1>9. d = 0 <=> P = N
  BY <1>1
<1>10. P = N /\ (\A k \in 1..P : pattern[k] = name[k]) => name = pattern
  BY SeqEqual
<1> HIDE DEF Same
<1>11. name = pattern => P = N /\ \A k \in 1..P : pattern[k] = name[k]
  OBVIOUS
<1> QED
  BY <1>7, <1>8, <1>9, <1>10, <1>11

-----------------------------------------------------------------------------
(* Queries. *)

\* A name has no wildcards.
LEMMA NoWildcards ==
  ASSUME NEW s \in Seq(Chars), WellFormed(s)
  PROVE  \A i \in 1..Len(s) : s[i] \notin {"*", "?"}
<1>1. \A i \in DOMAIN s : s[i] \in Alphanumeric \union {"-", ":"}
  BY DEF WellFormed
<1>2. "*" \notin {"-", ":"} /\ "?" \notin {"-", ":"}
  OBVIOUS
<1>3. DOMAIN s = 1..Len(s)
  BY LenProperties
<1> QED
  BY <1>1, <1>2, <1>3, Kinds

\* So redis, which matches keys, matches names.
LEMMA KeysOfNames ==
  ASSUME NEW pattern \in Seq(Chars), NEW name \in Seq(Chars)
  PROVE  Globs(Key(pattern), Key(name)) <=> Globs(pattern, name)
<1> DEFINE C == Chars \union {"#"}
           p2 == Append(pattern, "#")
           n2 == Append(name, "#")
<1>1. pattern \in Seq(C) /\ name \in Seq(C) /\ "#" \in C
  OBVIOUS
<1> HIDE DEF C, p2, n2
<1>2. Len(pattern) \in Nat /\ Len(p2) = Len(pattern) + 1 /\ p2[Len(pattern) + 1] = "#"
      /\ \A i \in 1..Len(pattern) : p2[i] = pattern[i]
  BY <1>1, Appended DEF p2
<1>3. Len(name) \in Nat /\ Len(n2) = Len(name) + 1 /\ n2[Len(name) + 1] = "#"
      /\ \A i \in 1..Len(name) : n2[i] = name[i]
  BY <1>1, Appended DEF n2
<1>4. p2[Len(p2)] = "#" /\ n2[Len(n2)] = "#"
  BY <1>2, <1>3
<1>5. Globs(p2, n2) <=> Globs(pattern, name)
  BY <1>2, <1>3, <1>4, KeysGlob
<1> QED
  BY <1>5 DEF Key, p2, n2

\* A query selects a device that there is, or its backend's grammar does.
LEMMA SelectedIs ==
  ASSUME NEW q \in Seq(Chars), NEW s \in Seq(Chars), WellFormed(s)
  PROVE  /\ WellFormed(q) => (Selects(q, Create(s)) <=> s = q) /\ (RedisSelects(q, Create(s)) <=> s = q)
         /\ RedisSelects(q, Create(s)) => Selects(q, Create(s))
         /\ Create(s) = Create(q) <=> s = q
<1>1. /\ Create(s) # Bad /\ Display(Create(s)) = s
      /\ Create(q) # Bad <=> WellFormed(q)
      /\ WellFormed(q) => Display(Create(q)) = q
  BY CreateIs
<1>2. Create(s) = Create(q) <=> s = q
  BY <1>1
<1>3. Selects(q, Create(s)) <=> IF WellFormed(q) THEN s = q ELSE Matches(q, s)
  BY <1>1, <1>2 DEF Selects
<1>4. RedisSelects(q, Create(s)) <=> Globs(q, s)
  BY <1>1, KeysOfNames DEF RedisSelects
<1>5. WellFormed(q) => (Globs(q, s) <=> s = q)
  BY NoWildcards, LiteralGlobs
<1>6. Globs(q, s) => Matches(q, s)
  <2>1. Len(q) \in Nat /\ Len(s) \in Nat
    BY LenProperties
  <2>2. FindsMatches(q, s)
    BY <2>1, MatcherFindsAll
  <2> QED
    BY <2>2 DEF FindsMatches
<1> QED
  BY <1>2, <1>3, <1>4, <1>5, <1>6

\* Devices have names.
LEMMA DevicesAre ==
  \A s \in DOMAIN Devices : s \in Seq(Chars) /\ WellFormed(s) /\ Devices[s] \in BOOLEAN
BY NamesAssumption

\* Every query finds what it asks for (get_device_info of both backends).
LEMMA QueriesSelect ==
  ASSUME NEW q \in Seq(Chars)
  PROVE  SelectsDevices(q, Devices)
<1> DEFINE selected == {s \in DOMAIN Devices : Selects(q, Create(s))}
           Shown(settable) == DeviceInfo(selected, settable, Devices)
           StoredOnes == {s \in DOMAIN Devices : RedisSelects(q, Create(s))}
<1>1. ASSUME NEW s \in DOMAIN Devices
      PROVE  /\ WellFormed(q) => (Selects(q, Create(s)) <=> s = q) /\ (RedisSelects(q, Create(s)) <=> s = q)
             /\ RedisSelects(q, Create(s)) => Selects(q, Create(s))
             /\ Create(s) = Create(q) <=> s = q
  BY DevicesAre, SelectedIs
<1>2. Shown(Bad) = selected
  BY DEF DeviceInfo
<1>3. Shown(Bad) = Shown(TRUE) \union Shown(FALSE)
  BY <1>2, DevicesAre DEF DeviceInfo
<1>4. StoredOnes \subseteq Shown(Bad)
  BY <1>1, <1>2
<1>5. Create(q) # Bad <=> WellFormed(q)
  BY CreateIs
<1>6. WellFormed(q) => Display(Create(q)) = q
  BY CreateIs
<1>7. WellFormed(q) => Shown(Bad) = {q} \intersect DOMAIN Devices /\ StoredOnes = Shown(Bad)
  <2> SUFFICES ASSUME WellFormed(q) PROVE selected = {q} \intersect DOMAIN Devices /\ StoredOnes = selected
    BY <1>2
  <2> QED
    BY <1>1
<1>8. MonitorFinds(q, DOMAIN Devices) <=> q \in DOMAIN Devices
  <2>1. q \in DOMAIN Devices => Create(q) # Bad
    BY <1>5, DevicesAre
  <2> QED
    BY <1>1, <2>1 DEF MonitorFinds
<1> HIDE DEF selected, StoredOnes, Shown
<1> QED
  BY <1>3, <1>4, <1>5, <1>6, <1>7, <1>8 DEF SelectsDevices, selected, StoredOnes, Shown

-----------------------------------------------------------------------------
(* Devices of drivers. *)

\* A prefix is shown as it was written,
LEMMA PathsAre ==
  ASSUME NEW s \in Seq(Chars), CreatePath(s) # Bad
  PROVE  /\ CreatePath(s) \in Pieces /\ AllSegments(CreatePath(s))
         /\ Joined(CreatePath(s)) = s
<1>1. CreatePath(s) = Split(s) /\ AllSegments(Split(s))
  BY PathIs
<1>2. Split(s) \in Pieces /\ Joined(Split(s)) = s
  BY SplitJoins
<1> QED
  BY <1>1, <1>2

\* and so is one with a group's subpath.
LEMMA PathsConcatenated ==
  ASSUME NEW g \in Pieces, NEW h \in Seq(Seq(Chars)), AllSegments(g), AllSegments(h)
  PROVE  g \o h \in Pieces /\ AllSegments(g \o h)
<1> DEFINE S == Seq(Chars)
           c == g \o h
<1>1. g \in Seq(S) /\ h \in Seq(S) /\ Len(g) # 0 /\ Len(g) \in Nat /\ Len(h) \in Nat
  <2>1. g \in Seq(S) /\ h \in Seq(S) /\ g # <<>>
    BY DEF Pieces
  <2> HIDE DEF S
  <2> QED
    BY <2>1, EmptySeq, LenProperties
<1>2. c \in Seq(S) /\ Len(c) = Len(g) + Len(h)
      /\ \A i \in 1..(Len(g) + Len(h)) : c[i] = IF i <= Len(g) THEN g[i] ELSE h[i - Len(g)]
  <2> HIDE DEF S
  <2> QED
    BY <1>1, ConcatProperties
<1> HIDE DEF c
<1>3. c # <<>>
  BY <1>1, <1>2
<1>4. \A i \in 1..Len(c) : IsSegment(c[i])
  <2> TAKE i \in 1..Len(c)
  <2>1. i <= Len(g) => i \in 1..Len(g)
    BY <1>1, <1>2
  <2>2. ~(i <= Len(g)) => i - Len(g) \in 1..Len(h)
    BY <1>1, <1>2
  <2> QED
    BY <1>1, <1>2, <2>1, <2>2 DEF AllSegments
<1> QED
  BY <1>2, <1>3, <1>4 DEF AllSegments, Pieces, c

\* What follows the same prefix differs if the whole does.
LEMMA SameAfter ==
  ASSUME NEW S, NEW p \in Seq(S), NEW g \in Seq(S), NEW h \in Seq(S), p \o g = p \o h
  PROVE  g = h
<1> DEFINE a == p \o g
           b == p \o h
<1>1. Len(p) \in Nat /\ Len(g) \in Nat /\ Len(h) \in Nat
  BY LenProperties
<1>2. Len(a) = Len(p) + Len(g)
      /\ \A i \in 1..(Len(p) + Len(g)) : a[i] = IF i <= Len(p) THEN p[i] ELSE g[i - Len(p)]
  BY ConcatProperties
<1>3. Len(b) = Len(p) + Len(h)
      /\ \A i \in 1..(Len(p) + Len(h)) : b[i] = IF i <= Len(p) THEN p[i] ELSE h[i - Len(p)]
  BY ConcatProperties
<1>4. a = b
  OBVIOUS
<1> HIDE DEF a, b
<1>5. Len(g) = Len(h)
  BY <1>1, <1>2, <1>3, <1>4
<1>6. \A i \in 1..Len(g) : g[i] = h[i]
  <2> TAKE i \in 1..Len(g)
  <2>1. i + Len(p) \in 1..(Len(p) + Len(g)) /\ i + Len(p) \in 1..(Len(p) + Len(h))
        /\ ~(i + Len(p) <= Len(p)) /\ (i + Len(p)) - Len(p) = i
    BY <1>1, <1>5
  <2>2. a[i + Len(p)] = g[i] /\ b[i + Len(p)] = h[i]
    BY <1>2, <1>3, <2>1
  <2> QED
    BY <1>4, <2>2
<1> QED
  BY <1>5, <1>6, SeqEqual

\* The subpath of a group.
SubpathOf(group) == IF group = <<>> THEN <<>> ELSE CreatePath(group)

\* Different groups have different subpaths.
LEMMA SubpathsAre ==
  ASSUME NEW g \in {<<>>} \union Paths
  PROVE  /\ SubpathOf(g) \in Seq(Seq(Chars)) /\ AllSegments(SubpathOf(g))
         /\ \A h \in {<<>>} \union Paths : SubpathOf(g) = SubpathOf(h) => g = h
<1>1. ASSUME NEW h \in {<<>>} \union Paths
      PROVE  IF h = <<>> THEN SubpathOf(h) = <<>>
             ELSE SubpathOf(h) \in Pieces /\ AllSegments(SubpathOf(h)) /\ Joined(SubpathOf(h)) = h
  <2>1. CASE h = <<>>
    BY <2>1 DEF SubpathOf
  <2>2. CASE h # <<>>
    <3>1. h \in Seq(Chars) /\ CreatePath(h) # Bad
      BY <2>2, NamesAssumption
    <3> QED
      BY <2>2, <3>1, PathsAre DEF SubpathOf
  <2> QED
    BY <2>1, <2>2
<1>2. <<>> \in Seq(Seq(Chars)) /\ AllSegments(<<>>)
  <2>1. Len(<<>>) = 0
    BY EmptySeq
  <2> QED
    BY <2>1, Nothing DEF AllSegments
<1>3. SubpathOf(g) \in Seq(Seq(Chars)) /\ AllSegments(SubpathOf(g))
  BY <1>1, <1>2 DEF Pieces
<1>4. ASSUME NEW h \in {<<>>} \union Paths, SubpathOf(g) = SubpathOf(h)
      PROVE  g = h
  BY <1>1, <1>4 DEF Pieces
<1> QED
  BY <1>3, <1>4

\* The devices of one driver have different names (build_final_name).
LEMMA MembersAreDistinct ==
  ASSUME NEW p \in Paths
  PROVE  NamesAreDistinct(CreatePath(p), Members)
<1> DEFINE prefix == CreatePath(p)
           Name(d) == BuildFinalName(prefix, SubpathOf(d.group), d.base)
           registered == {d \in Members : Name(d) # Bad}
<1>1. prefix \in Pieces /\ AllSegments(prefix)
  BY NamesAssumption, PathsAre
<1> HIDE DEF prefix
<1>2. ASSUME NEW d \in registered
      PROVE  /\ Name(d) = [path |-> prefix \o SubpathOf(d.group), base |-> d.base]
             /\ Create(Display(Name(d))) = Name(d)
  <2>1. d.group \in {<<>>} \union Paths /\ d.base \in Bases
    BY DEF Members
  <2>2. IsSegment(d.base) /\ Name(d) = [path |-> prefix \o SubpathOf(d.group), base |-> d.base]
    BY DEF BuildFinalName
  <2>3. SubpathOf(d.group) \in Seq(Seq(Chars)) /\ AllSegments(SubpathOf(d.group))
    BY <2>1, SubpathsAre
  <2>4. prefix \o SubpathOf(d.group) \in Pieces /\ AllSegments(prefix \o SubpathOf(d.group))
    BY <1>1, <2>3, PathsConcatenated
  <2>5. d.base \in Seq(Chars)
    BY <2>1, NamesAssumption
  <2> QED
    BY <2>2, <2>4, <2>5, DisplayIs
<1>3. ASSUME NEW d \in registered, NEW e \in registered, Display(Name(e)) = Display(Name(d))
      PROVE  d = e
  <2>1. Name(d) = Name(e)
    BY <1>2, <1>3
  <2>2. /\ Name(d) = [path |-> prefix \o SubpathOf(d.group), base |-> d.base]
        /\ Name(e) = [path |-> prefix \o SubpathOf(e.group), base |-> e.base]
    BY <1>2
  <2> HIDE DEF Name
  <2>3. d.base = e.base /\ prefix \o SubpathOf(d.group) = prefix \o SubpathOf(e.group)
    <3> DEFINE a == prefix \o SubpathOf(d.group)
               b == prefix \o SubpathOf(e.group)
    <3>1. [path |-> a, base |-> d.base] = [path |-> b, base |-> e.base]
      BY <2>1, <2>2
    <3> HIDE DEF a, b
    <3> QED
      BY <3>1 DEF a, b
  <2>4. d \in Members /\ e \in Members
    OBVIOUS
  <2>5. d.group \in {<<>>} \union Paths /\ e.group \in {<<>>} \union Paths
        /\ (d.base = e.base /\ d.group = e.group => d = e)
    BY <2>4 DEF Members
  <2>6. SubpathOf(d.group) \in Seq(Seq(Chars)) /\ SubpathOf(e.group) \in Seq(Seq(Chars))
    BY <2>5, SubpathsAre
  <2>7. SubpathOf(d.group) = SubpathOf(e.group)
    <3> DEFINE S == Seq(Chars)
    <3>1. prefix \in Seq(S) /\ SubpathOf(d.group) \in Seq(S) /\ SubpathOf(e.group) \in Seq(S)
      BY <1>1, <2>6 DEF Pieces
    <3> HIDE DEF S
    <3> QED
      BY <2>3, <3>1, SameAfter
  <2>8. d.group = e.group
    BY <2>5, <2>7, SubpathsAre
  <2> QED
    BY <2>3, <2>5, <2>8
<1>4. \A d \in registered : Create(Display(Name(d))) = Name(d)
  BY <1>2
<1>5. \A d, e \in registered : Display(Name(e)) = Display(Name(d)) => d = e
  BY <1>3
<1> QED
  BY <1>4, <1>5 DEF NamesAreDistinct, SubpathOf, prefix

-----------------------------------------------------------------------------
(* Every call. *)

CalledForNames ==
  \/ call = <<>>
  \/ \E p \in Patterns, s \in Labels : call = <<"match", p, s>>
  \/ \E q \in Queries : call = <<"query", q>>
  \/ \E p \in Paths : call = <<"register", p>>

\* Every call finds what it should.
LEMMA CallsFind == CalledForNames => NamesAreFound
<1> SUFFICES ASSUME CalledForNames PROVE NamesAreFound
  OBVIOUS
<1>1. CASE call = <<>>
  BY <1>1 DEF NamesAreFound, IsCall
<1>2. ASSUME NEW p \in Patterns, NEW s \in Labels, call = <<"match", p, s>> PROVE NamesAreFound
  <2>1. p \in Seq(Chars) /\ s \in Seq(Chars)
    BY NamesAssumption
  <2>2. Len(p) \in Nat /\ Len(s) \in Nat
    BY <2>1, LenProperties
  <2>3. FindsMatches(p, s)
    BY <2>2, MatcherFindsAll
  <2>4. call[1] = "match" /\ call[2] = p /\ call[3] = s
    BY <1>2
  <2> QED
    BY <2>3, <2>4 DEF NamesAreFound, IsCall
<1>3. ASSUME NEW q \in Queries, call = <<"query", q>> PROVE NamesAreFound
  <2>1. q \in Seq(Chars)
    BY NamesAssumption
  <2>2. SelectsDevices(q, Devices)
    BY <2>1, QueriesSelect
  <2>3. call[1] = "query" /\ call[2] = q
    BY <1>3
  <2> QED
    BY <2>2, <2>3 DEF NamesAreFound, IsCall
<1>4. ASSUME NEW p \in Paths, call = <<"register", p>> PROVE NamesAreFound
  <2>1. NamesAreDistinct(CreatePath(p), Members)
    BY MembersAreDistinct
  <2>2. call[1] = "register" /\ call[2] = p
    BY <1>4
  <2> QED
    BY <2>1, <2>2 DEF NamesAreFound, IsCall
<1> QED
  BY <1>1, <1>2, <1>3, <1>4 DEF CalledForNames

\* With any devices, any queries and any patterns of any length, queries find the
\* devices they are about, and the names of a driver's devices are distinct
\* (Name::create, build_final_name, Pattern::matches, get_device_info).
THEOREM NamesFound == NameSpec => []NamesAreFound
<1>1. call = <<>> => CalledForNames
  BY DEF CalledForNames
<1>2. CalledForNames /\ [CallName]_call => CalledForNames'
  BY DEF CalledForNames, CallName
<1> QED
  BY <1>1, <1>2, CallsFind, PTL DEF NameSpec
=============================================================================
