----------------------------- MODULE LogicNode -----------------------------
(***************************************************************************)
(* A logic node (drmemd/logic.rs) with its time filter (logic/tod.rs).     *)
(*                                                                         *)
(* The node waits for a reading, for the time or for the sun, evaluates    *)
(* its definitions and then all its expressions, and sends each result to  *)
(* an output that was not sent it before.  It waits for the drivers'       *)
(* replies before it waits again.  What an expression computes is a        *)
(* parameter.                                                              *)
(***************************************************************************)
EXTENDS Naturals, FiniteSets

CONSTANTS
  Vars,               \* the names in `inputs`
  Defs,               \* the names in `defs`
  Outputs,            \* the names in `outputs`
  NumExprs,           \* the length of `exprs`
  Target,             \* the output that each expression names
  Value, None,        \* values of devices, and Option::None
  Eval(_, _, _, _),   \* eval(program, inputs, time, solar)
  UsesTime, UsesSolar,   \* an expression does
  Unit, Period, Day,   \* the time field that is watched: see Field
  Suns,               \* how many values solar information takes
  SunCapacity         \* of the broadcast channel for it

Exprs == 1..NumExprs
Names == Vars \cup Defs
OptValue == Value \cup {None}
Times == 0..(Day - 1)
Solar == 0..(Suns - 1)

ASSUME NamesAssumption == Vars \cap Defs = {} /\ None \notin Value
ASSUME ExprsAssumption ==
  NumExprs \in Nat \ {0} /\ Target \in [Exprs -> Outputs] /\ IsFiniteSet(Outputs)
ASSUME TimeAssumption ==
  /\ Unit \in Nat \ {0} /\ Period \in Nat \ {0, 1} /\ Day \in Nat \ {0}
  /\ Day % (Unit * Period) = 0
  /\ Suns \in Nat \ {0} /\ SunCapacity \in Nat \ {0}
  /\ UsesTime \in BOOLEAN /\ UsesSolar \in BOOLEAN

\* A program's result is an Option<Value>, and a definition is compiled in an
\* environment that has only the variables.
Inputs == [Names -> OptValue]
OptSolar == Solar \cup {None}
ASSUME EvalAssumption ==
  \A p \in Exprs \cup Defs, in \in Inputs, t \in Times, s \in OptSolar :
    Eval(p, in, t, s) \in OptValue
ASSUME DefsAssumption ==
  \A d \in Defs, in1, in2 \in Inputs, t \in Times, s \in OptSolar :
    (\A n \in Vars : in1[n] = in2[n]) => Eval(d, in1, t, s) = Eval(d, in2, t, s)

VARIABLES
  drives,     \* the output that each expression was paired with
  inputs,     \* `inputs`: the last readings and the definitions' results
  pending,    \* a reading that each input stream has for the node
  now,        \* the time of day
  ticks,      \* times not read from the channel, whose capacity is one; 2 means lagged
  time,       \* `time`, which is also the filter's `prev` when there is one
  first,      \* the filter has no `prev`
  sun,        \* the newest solar information
  sunUnread,  \* how much of it was not read; beyond the capacity the node lags
  solar,      \* `solar`
  prev,       \* `prev` of each output
  todo,       \* the setting each expression awaits the reply to
  failed,     \* the outputs whose driver did not accept a result of this event
  evaluated   \* an event has been handled

env == <<pending, now, ticks, sun, sunUnread>>
vars == <<drives, inputs, pending, now, ticks, time, first, sun, sunUnread, solar,
          prev, todo, failed, evaluated>>

-----------------------------------------------------------------------------
(* Node::init: which expression drives which output.  The outputs are in   *)
(* the order of a hash map; the expressions are sorted by the position of  *)
(* their target and zipped with them.                                      *)

Bijections(S, T) ==
  {f \in [S -> T] : \A x, y \in S : f[x] = f[y] => x = y}

Orders == Bijections(1..Cardinality(Outputs), Outputs)

\* Defect: the expressions are zipped in the order of the configuration.
Unsorted(order) == {[k \in Exprs |-> k]}

\* The ways an unstable sort may leave the expressions.
Sorted(order) ==
  LET Position(e) == CHOOSE k \in DOMAIN order : order[k] = Target[e]
  IN  {s \in Bijections(Exprs, Exprs) :
         \A j, k \in Exprs : j < k => Position(s[j]) <= Position(s[k])}

\* Expressions beyond the last output are dropped.
Zip(s, order) ==
  [e \in {s[k] : k \in Exprs \cap DOMAIN order} |-> order[CHOOSE k \in Exprs : s[k] = e]]

Init ==
  /\ \E order \in Orders : \E s \in Sorted(order) : drives = Zip(s, order)
  /\ inputs = [n \in Names |-> None]
  /\ pending = [n \in Vars |-> None]
  /\ now \in Times /\ time = now
  /\ ticks = 0 /\ first = TRUE
  /\ sun = 0 /\ sunUnread = 0 /\ solar = None
  /\ prev = [o \in Outputs |-> None]
  /\ todo = [e \in Exprs |-> None]
  /\ failed = {}
  /\ evaluated = FALSE

-----------------------------------------------------------------------------
(* Node::run. *)

Waiting == \A e \in Exprs : todo[e] = None
SunReady == UsesSolar /\ sunUnread > 0
TimeReady == UsesTime /\ ticks > 0

\* A result is sent unless the output was sent it last.
ToSend(in, t, s) ==
  [e \in Exprs |->
     IF e \in DOMAIN drives /\ Eval(e, in, t, s) # prev[drives[e]]
     THEN Eval(e, in, t, s) ELSE None]

\* Defect: expressions see the definitions of the last event.
EvaluateStaleDefs(in, t, s) ==
  /\ inputs' = [n \in Names |-> IF n \in Defs THEN Eval(n, in, t, s) ELSE in[n]]
  /\ todo' = ToSend(in, t, s)
  /\ evaluated' = TRUE
  /\ failed' = {}
  /\ UNCHANGED <<drives, prev>>

\* The definitions, then the expressions, whose settings go out together.
Evaluate(in, t, s) ==
  LET all == [n \in Names |-> IF n \in Defs THEN Eval(n, in, t, s) ELSE in[n]]
  IN  /\ inputs' = all
      /\ todo' = ToSend(all, t, s)
      /\ evaluated' = TRUE
      /\ failed' = {}
      /\ UNCHANGED <<drives, prev>>

\* The solar branch, which comes first.  A node that lagged only goes on.
SunArrives ==
  /\ Waiting /\ SunReady
  /\ IF sunUnread > SunCapacity
     THEN /\ sunUnread' = SunCapacity
          /\ UNCHANGED <<drives, inputs, solar, prev, todo, failed, evaluated>>
     ELSE /\ solar' = (sun + (Suns - 1) * (sunUnread - 1)) % Suns
          /\ sunUnread' = sunUnread - 1
          /\ Evaluate(inputs, time, solar')
  /\ UNCHANGED <<pending, now, ticks, time, first, sun>>

\* The field of the time that the filter compares, such as the minute.
Field(t) == (t \div Unit) % Period

\* Defect: lagging does not make the filter forget the previous time.
PassesUnlessEqual == first \/ Field(now) # Field(time)

\* TimeFilter::poll_next lets a time pass that changed, and any after a lag.
Passes == first \/ ticks > 1 \/ Field(now) # Field(time)

\* The time branch.
TimeArrives ==
  /\ Waiting /\ ~SunReady /\ TimeReady
  /\ ticks' = 0
  /\ IF Passes
     THEN time' = now /\ first' = FALSE /\ Evaluate(inputs, now, solar)
     ELSE UNCHANGED <<drives, inputs, time, first, prev, todo, failed, evaluated>>
  /\ UNCHANGED <<pending, now, sun, sunUnread, solar>>

Store(i) == Evaluate([inputs EXCEPT ![i] = pending[i]], time, solar)

\* Defect: a stream is only read when those before it have nothing.
ReadingArrivesInOrder(i) ==
  /\ Waiting /\ ~SunReady /\ ~TimeReady
  /\ pending[i] # None
  /\ i = CHOOSE j \in Vars : pending[j] # None
  /\ Store(i)
  /\ pending' = [pending EXCEPT ![i] = None]
  /\ UNCHANGED <<now, ticks, time, first, sun, sunUnread, solar>>

\* The branch for the input streams, which comes last.
ReadingArrives(i) ==
  /\ Waiting /\ ~SunReady /\ ~TimeReady
  /\ pending[i] # None
  /\ Store(i)
  /\ pending' = [pending EXCEPT ![i] = None]
  /\ UNCHANGED <<now, ticks, time, first, sun, sunUnread, solar>>

\* Output::send goes on with the driver's reply to expression e, or without.
Accepted(e) ==
  /\ todo[e] # None
  /\ prev' = [prev EXCEPT ![drives[e]] = todo[e]]
  /\ todo' = [todo EXCEPT ![e] = None]
  /\ UNCHANGED <<drives, inputs, time, first, solar, failed, evaluated, env>>

Refused(e) ==
  /\ todo[e] # None
  /\ failed' = failed \cup {drives[e]}
  /\ todo' = [todo EXCEPT ![e] = None]
  /\ UNCHANGED <<drives, inputs, time, first, solar, prev, evaluated, env>>

-----------------------------------------------------------------------------
(* What the node waits for. *)

Read(i, v) ==
  /\ pending[i] = None
  /\ pending' = [pending EXCEPT ![i] = v]
  /\ UNCHANGED <<drives, inputs, now, ticks, time, first, sun, sunUnread, solar,
                 prev, todo, failed, evaluated>>

Tick ==
  /\ UsesTime
  /\ now' = (now + 1) % Day
  /\ ticks' = IF ticks = 0 THEN 1 ELSE 2
  /\ UNCHANGED <<drives, inputs, pending, time, first, sun, sunUnread, solar,
                 prev, todo, failed, evaluated>>

SunMoves ==
  /\ UsesSolar
  /\ sun' = (sun + 1) % Suns
  /\ sunUnread' = IF sunUnread > SunCapacity THEN sunUnread ELSE sunUnread + 1
  /\ UNCHANGED <<drives, inputs, pending, now, ticks, time, first, solar,
                 prev, todo, failed, evaluated>>

Next ==
  \/ SunArrives
  \/ TimeArrives
  \/ \E i \in Vars : ReadingArrives(i)
  \/ \E e \in Exprs : Accepted(e) \/ Refused(e)
  \/ \E i \in Vars, v \in Value : Read(i, v)
  \/ Tick
  \/ SunMoves

Spec == Init /\ [][Next]_vars

\* The node runs, and a driver replies or drops the setting.  An input stream
\* that often has a reading when the streams are polled is chosen at some
\* time, since they are polled from a random one on.
Fairness ==
  /\ WF_vars(SunArrives) /\ WF_vars(TimeArrives)
  /\ \A i \in Vars : SF_vars(ReadingArrives(i))
  /\ \A e \in Exprs : WF_vars(Accepted(e) \/ Refused(e))

-----------------------------------------------------------------------------
(* Properties. *)

\* When the node waits again, every output was sent what its expression says
\* of the readings, the definitions and the time that the node has now, or
\* its driver refused just that; no output is left at the value of an earlier
\* event, whichever of them replied first or failed.
Settled ==
  evaluated /\ Waiting =>
    /\ \A d \in Defs : inputs[d] = Eval(d, inputs, time, solar)
    /\ \A e \in DOMAIN drives :
         LET v == Eval(e, inputs, time, solar)
         IN  v \in {None, prev[drives[e]]} \/ drives[e] \in failed

\* The filter only compares one field, but the time that the node uses is
\* right in all larger ones too, even after the node fell behind.
TimeIsRight ==
  Waiting /\ ~TimeReady => time \div Unit = now \div Unit

\* Every expression drives the output that it names (LN_GRAMMAR.md).
RightOutput == drives = Target

\* A reading is used at some time, provided that the node keeps up with the
\* time and the sun: its select! prefers them.
ReadingsUsed ==
  []<>(Waiting /\ ~SunReady /\ ~TimeReady) =>
    \A i \in Vars : pending[i] # None ~> pending[i] = None
=============================================================================
