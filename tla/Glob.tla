-------------------------------- MODULE Glob --------------------------------
(***************************************************************************)
(* The simple backend's matcher of device names (simple/glob.rs): a        *)
(* machine that goes through a pattern and a name and saves the places it  *)
(* may come back to.  The iterators are the positions p and n of the       *)
(* current characters, which are after the last one at the end.            *)
(***************************************************************************)
EXTENDS Integers, Sequences

\* Fsm::new, and the first two lines of process.
New(pattern, name) ==
  [pattern |-> pattern, name |-> name, p |-> 1, n |-> 1, stack |-> <<>>, at |-> "step"]

NoPat(f) == f.p > Len(f.pattern)
NoName(f) == f.n > Len(f.name)
PatIs(f, ch) == ~NoPat(f) /\ f.pattern[f.p] = ch

NextPat(f) == IF NoPat(f) THEN f ELSE [f EXCEPT !.p = @ + 1]
NextName(f) == IF NoName(f) THEN f ELSE [f EXCEPT !.n = @ + 1]
NextBoth(f) == NextName(NextPat(f))

Match(f) == [f EXCEPT !.at = "matched"]
Save(f) == [f EXCEPT !.stack = Append(@, [p |-> f.p, n |-> f.n])]

\* Fsm::backtrace: on after the last place saved, or no match.
Backtrace(f) ==
  IF f.stack = <<>> THEN [f EXCEPT !.at = "failed"]
  ELSE LET top == f.stack[Len(f.stack)]
       IN  NextBoth([f EXCEPT !.stack = SubSeq(@, 1, Len(@) - 1),
                              !.p = top.p, !.n = top.n, !.at = "step"])

\* The loop over the wildcards after a star: each question mark takes a character.
Wildcards(f) ==
  IF ~PatIs(f, "?") /\ ~PatIs(f, "*") THEN [f EXCEPT !.at = "places"]
  ELSE LET g == NextPat(f)
       IN  IF NoPat(g) THEN Match(g)
           ELSE IF ~PatIs(g, "?") THEN g
           ELSE IF NoName(g) THEN Backtrace(g) ELSE NextName(g)

\* Defect: only the first place where the literal occurs is saved.
FirstPlace(f) ==
  IF NoName(f) THEN Backtrace(f)
  ELSE IF PatIs(f, f.name[f.n]) THEN Backtrace(Save(f)) ELSE NextName(f)

\* The loop over the places where the literal after the wildcards occurs.
Places(f) ==
  IF NoName(f) THEN Backtrace(f)
  ELSE NextName(IF PatIs(f, f.name[f.n]) THEN Save(f) ELSE f)

\* Fsm::step
Compare(f) ==
  IF NoName(f) /\ (NoPat(f) \/ PatIs(f, "*")) THEN Match(f)
  ELSE IF NoPat(f) \/ NoName(f) THEN Backtrace(f)
  ELSE IF PatIs(f, "*") THEN [f EXCEPT !.at = "wildcards"]
  ELSE IF PatIs(f, "?") \/ PatIs(f, f.name[f.n]) THEN NextBoth(f)
  ELSE Backtrace(f)

Step(f) ==
  IF f.at = "step" THEN Compare(f) ELSE IF f.at = "wildcards" THEN Wildcards(f) ELSE Places(f)

\* Fsm::process
Done == {"matched", "failed"}
Machines(pattern, name) ==
  [pattern : {pattern}, name : {name}, p : 1..(Len(pattern) + 1), n : 1..(Len(name) + 1),
   stack : Seq([p : 1..Len(pattern), n : 1..Len(name)]),
   at : {"step", "wildcards", "places"} \union Done]
Process(pattern, name) ==
  LET process[f \in Machines(pattern, name)] == IF f.at \in Done THEN f.at ELSE process[Step(f)]
  IN  process

Matches(pattern, name) == Process(pattern, name)[New(pattern, name)] = "matched"

-----------------------------------------------------------------------------
(* The grammar of Redis: a star matches any characters, a question mark    *)
(* one.                                                                    *)

\* From which places of the name the first k characters of the pattern match it
\* to its end, when they are read from the i-th on.
MatchedFrom(pattern, k, name) ==
  LET from[i \in 1..(k + 1)] ==
        IF i = k + 1 THEN {Len(name) + 1}
        ELSE LET next == from[i + 1]
             IN  IF pattern[i] = "*" THEN {j \in 1..(Len(name) + 1) : \E l \in next : j <= l}
                 ELSE {j \in 1..Len(name) : pattern[i] \in {"?", name[j]} /\ j + 1 \in next}
  IN  from

GlobsUpTo(pattern, k, name) == 1 \in MatchedFrom(pattern, k, name)[1]
Globs(pattern, name) == GlobsUpTo(pattern, Len(pattern), name)

-----------------------------------------------------------------------------
(* Properties of every call. *)

\* A device whose name Redis' grammar matches is found; when the matcher finds
\* more, the name has run out where the pattern has a star.
FindsMatches(pattern, name) ==
  /\ Globs(pattern, name) => Matches(pattern, name)
  /\ Matches(pattern, name) => \E k \in 0..Len(pattern) :
       GlobsUpTo(pattern, k, name) /\ (k < Len(pattern) => pattern[k + 1] = "*")
=============================================================================
