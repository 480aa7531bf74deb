------------------------- MODULE LogicNode_proofs --------------------------
(***************************************************************************)
(* Proofs about logic nodes, for every set of inputs, definitions,         *)
(* expressions and outputs, and whatever the expressions compute; and about*)
(* the language's functions on times and colors, for every year, every     *)
(* width of a channel and every conversion of temperatures.                *)
(***************************************************************************)
EXTENDS LogicNode, DatesAndColors, TLAPS, FunctionTheorems, FiniteSetTheorems

\* The part of the state that evaluations depend on is well typed, and no two
\* expressions drive the same output.
NodeTyped ==
  /\ inputs \in Inputs
  /\ pending \in [Vars -> OptValue]
  /\ now \in Times /\ time \in Times
  /\ sun \in Solar /\ sunUnread \in Nat /\ solar \in OptSolar
  /\ prev \in [Outputs -> OptValue]
  /\ todo \in [Exprs -> OptValue]
  /\ evaluated \in BOOLEAN

Paired ==
  /\ DOMAIN drives \subseteq Exprs
  /\ \A e \in DOMAIN drives : drives[e] \in Outputs
  /\ \A e, f \in DOMAIN drives : drives[e] = drives[f] => e = f

\* What an expression says now.
Says(e) == Eval(e, inputs, time, solar)

\* Settled, strengthened for the time that the node waits for replies.
Settling ==
  /\ \A e \in Exprs : todo[e] # None => evaluated /\ e \in DOMAIN drives /\ todo[e] = Says(e)
  /\ evaluated =>
       /\ \A d \in Defs : inputs[d] = Says(d)
       /\ \A e \in DOMAIN drives :
            Says(e) \in {None, prev[drives[e]], todo[e]} \/ drives[e] \in failed

NodeInv == NodeTyped /\ Paired /\ Settling

-----------------------------------------------------------------------------
(* Node::init. *)

LEMMA ZipPairs ==
  ASSUME NEW order \in Orders, NEW s \in Sorted(order), drives = Zip(s, order)
  PROVE  Paired
<1> DEFINE Ks == Exprs \cap DOMAIN order
<1> DEFINE K(e) == CHOOSE k \in Exprs : s[k] = e
<1>1. s \in [Exprs -> Exprs] /\ \A x, y \in Exprs : s[x] = s[y] => x = y
  BY DEF Sorted, Bijections
<1>2. /\ order \in [1..Cardinality(Outputs) -> Outputs]
      /\ \A x, y \in DOMAIN order : order[x] = order[y] => x = y
  BY DEF Orders, Bijections
<1>3. DOMAIN drives = {s[k] : k \in Ks} /\ \A e \in DOMAIN drives : drives[e] = order[K(e)]
  BY DEF Zip
<1>4. ASSUME NEW e \in DOMAIN drives PROVE K(e) \in Ks /\ s[K(e)] = e
  <2>1. PICK k \in Ks : e = s[k]
    BY <1>3
  <2>2. K(e) \in Exprs /\ s[K(e)] = e
    BY <2>1
  <2>3. K(e) = k
    BY <1>1, <2>1, <2>2
  <2> QED
    BY <2>1, <2>2, <2>3
<1> HIDE DEF K
<1>5. DOMAIN drives \subseteq Exprs
  BY <1>1, <1>3
<1>6. \A e \in DOMAIN drives : drives[e] \in Outputs
  BY <1>2, <1>3, <1>4
<1>7. ASSUME NEW e \in DOMAIN drives, NEW f \in DOMAIN drives, drives[e] = drives[f]
      PROVE  e = f
  <2>1. order[K(e)] = order[K(f)]
    BY <1>3, <1>7
  <2>2. K(e) = K(f)
    BY <1>2, <1>4, <2>1
  <2> QED
    BY <1>4, <2>2
<1> QED
  BY <1>5, <1>6, <1>7 DEF Paired

\* Before its first event a node has nothing to send.
LEMMA InitNodeInv == Init => NodeInv
<1> SUFFICES ASSUME Init PROVE NodeInv
  OBVIOUS
<1>1. NodeTyped
  <2>1. sun \in Solar /\ sunUnread \in Nat
    BY TimeAssumption DEF Init, Solar
  <2> QED
    BY <2>1 DEF Init, NodeTyped, Inputs, OptValue, OptSolar
<1>2. Paired
  BY ZipPairs DEF Init
<1>3. Settling
  BY DEF Init, Settling
<1> QED
  BY <1>1, <1>2, <1>3 DEF NodeInv

-----------------------------------------------------------------------------
(* An event: whatever is evaluated, the invariant holds after it.          *)

LEMMA EvaluateSettles ==
  ASSUME NodeInv, NEW in \in Inputs, NEW t \in Times, NEW s \in OptSolar,
         Evaluate(in, t, s), time' = t, solar' = s
  PROVE  /\ inputs' \in Inputs /\ prev' \in [Outputs -> OptValue]
         /\ todo' \in [Exprs -> OptValue] /\ evaluated' \in BOOLEAN
         /\ Paired' /\ Settling'
<1> DEFINE all == [n \in Names |-> IF n \in Defs THEN Eval(n, in, t, s) ELSE in[n]]
<1>1. all \in Inputs
  BY EvalAssumption DEF Inputs, Names
<1>2. /\ inputs' = all
      /\ todo' = ToSend(all, t, s)
      /\ evaluated' = TRUE
      /\ drives' = drives /\ prev' = prev
  BY DEF Evaluate
<1>3. ASSUME NEW d \in Defs PROVE all[d] = Eval(d, all, t, s)
  <2>1. \A n \in Vars : in[n] = all[n]
    BY NamesAssumption DEF Names
  <2>2. Eval(d, in, t, s) = Eval(d, all, t, s)
    BY <1>1, <2>1, DefsAssumption
  <2> QED
    BY <2>2 DEF Names
<1> HIDE DEF all
<1>4. \A e \in Exprs : Eval(e, all, t, s) \in OptValue
  BY <1>1, EvalAssumption
<1>5. todo' \in [Exprs -> OptValue]
  BY <1>2, <1>4 DEF ToSend, OptValue
<1>6. Paired'
  BY <1>2 DEF NodeInv, Paired
<1>7. \A p \in Exprs \cup Defs : Says(p)' = Eval(p, all, t, s)
  BY <1>2 DEF Says
<1>8. Settling'
  <2>1. ASSUME NEW e \in Exprs, todo'[e] # None
        PROVE  e \in DOMAIN drives /\ todo'[e] = Eval(e, all, t, s)
    BY <1>2, <2>1 DEF ToSend
  <2>2. ASSUME NEW e \in DOMAIN drives
        PROVE  Eval(e, all, t, s) \in {None, prev[drives[e]], todo'[e]}
    BY <1>2 DEF ToSend, NodeInv, Paired
  <2>3. DOMAIN drives \subseteq Exprs
    BY DEF NodeInv, Paired
  <2> QED
    BY <1>2, <1>3, <1>7, <2>1, <2>2, <2>3 DEF Settling
<1> QED
  BY <1>1, <1>2, <1>5, <1>6, <1>8 DEF NodeInv, NodeTyped

\* A reply to a setting, of whichever output, keeps the invariant.
LEMMA ReplySettles ==
  ASSUME NodeInv, NEW e \in Exprs, Accepted(e) \/ Refused(e)
  PROVE  NodeInv'
<1> USE DEF NodeInv
<1>1. /\ todo[e] # None /\ e \in DOMAIN drives /\ todo[e] = Says(e)
      /\ drives[e] \in Outputs /\ evaluated
  BY DEF Accepted, Refused, Settling, Paired
<1>2. /\ UNCHANGED <<drives, inputs, time, solar, evaluated, env>>
      /\ todo' = [todo EXCEPT ![e] = None]
      /\ \/ prev' = [prev EXCEPT ![drives[e]] = todo[e]] /\ failed' = failed
         \/ prev' = prev /\ failed' = failed \cup {drives[e]}
  BY DEF Accepted, Refused
<1>3. NodeTyped'
  BY <1>1, <1>2 DEF NodeTyped, env, OptValue
<1>4. Paired'
  BY <1>2 DEF Paired
<1>5. \A p : Says(p)' = Says(p)
  BY <1>2 DEF Says
<1>6. ASSUME NEW f \in DOMAIN drives, f # e
      PROVE  prev'[drives[f]] = prev[drives[f]] /\ todo'[f] = todo[f]
  BY <1>1, <1>2, <1>6 DEF Paired, NodeTyped
<1>7. prev'[drives[e]] = Says(e) \/ drives[e] \in failed'
  BY <1>1, <1>2 DEF NodeTyped
<1>8. \A f \in Exprs : todo'[f] # None => f # e /\ todo'[f] = todo[f]
  BY <1>2 DEF NodeTyped
<1>9. \A f \in DOMAIN drives :
        Says(f) \in {None, prev'[drives[f]], todo'[f]} \/ drives[f] \in failed'
  BY <1>1, <1>2, <1>6, <1>7 DEF Settling
<1> QED
  BY <1>2, <1>3, <1>4, <1>5, <1>8, <1>9 DEF Settling

\* A remainder is less than the divisor.
LEMMA ModRange ==
  ASSUME NEW a \in Nat, NEW b \in Nat \ {0}
  PROVE  a % b \in 0..(b - 1)
  OBVIOUS

\* So does every step of a node.
LEMMA NextNodeInv == NodeInv /\ [Next]_vars => NodeInv'
<1> SUFFICES ASSUME NodeInv, [Next]_vars PROVE NodeInv'
  OBVIOUS
<1> USE DEF NodeInv
<1>1. CASE SunArrives
  <2>1. CASE sunUnread > SunCapacity
    BY <1>1, <2>1, TimeAssumption
       DEF SunArrives, SunReady, NodeTyped, Paired, Settling, Says
  <2>2. CASE ~(sunUnread > SunCapacity)
    <3>1. sunUnread > 0 /\ sunUnread' = sunUnread - 1
      BY <1>1, <2>2 DEF SunArrives, SunReady
    <3>2. solar' = (sun + (Suns - 1) * (sunUnread - 1)) % Suns
      BY <1>1, <2>2 DEF SunArrives
    <3>3. (Suns - 1) * (sunUnread - 1) \in Nat
      <4>1. Suns - 1 \in Nat /\ sunUnread - 1 \in Nat
        BY <3>1, TimeAssumption DEF NodeTyped
      <4> QED
        BY <4>1
    <3>4. solar' \in OptSolar
      <4>1. sun + (Suns - 1) * (sunUnread - 1) \in Nat
        BY <3>3 DEF NodeTyped, Solar
      <4> QED
        BY <3>2, <4>1, ModRange, TimeAssumption DEF OptSolar, Solar
    <3>5. Evaluate(inputs, time, solar') /\ UNCHANGED <<pending, now, time, sun>>
      BY <1>1, <2>2 DEF SunArrives
    <3>6. inputs \in Inputs /\ time \in Times
      BY DEF NodeTyped
    <3> QED
      BY <3>1, <3>4, <3>5, <3>6, EvaluateSettles DEF NodeTyped
  <2> QED
    BY <2>1, <2>2
<1>2. CASE TimeArrives
  <2>1. CASE Passes
    <3>1. /\ Evaluate(inputs, now, solar) /\ time' = now /\ solar' = solar
          /\ UNCHANGED <<pending, now, sun, sunUnread>>
      BY <1>2, <2>1 DEF TimeArrives
    <3>2. inputs \in Inputs /\ now \in Times /\ solar \in OptSolar
      BY DEF NodeTyped
    <3> QED
      BY <3>1, <3>2, EvaluateSettles DEF NodeTyped
  <2>2. CASE ~Passes
    BY <1>2, <2>2 DEF TimeArrives, NodeTyped, Paired, Settling, Says
  <2> QED
    BY <2>1, <2>2
<1>3. ASSUME NEW i \in Vars, ReadingArrives(i) PROVE NodeInv'
  <2> DEFINE in == [inputs EXCEPT ![i] = pending[i]]
  <2>1. /\ Evaluate(in, time, solar) /\ time' = time /\ solar' = solar
        /\ pending' = [pending EXCEPT ![i] = None]
        /\ UNCHANGED <<now, sun, sunUnread>>
    BY <1>3 DEF ReadingArrives, Store
  <2>2. in \in Inputs /\ time \in Times /\ solar \in OptSolar
    BY DEF NodeTyped, Inputs, Names
  <2>3. pending' \in [Vars -> OptValue]
    BY <2>1 DEF NodeTyped, OptValue
  <2> HIDE DEF in
  <2> QED
    BY <2>1, <2>2, <2>3, EvaluateSettles DEF NodeTyped
<1>4. ASSUME NEW e \in Exprs, Accepted(e) \/ Refused(e) PROVE NodeInv'
  BY <1>4, ReplySettles
<1>5. ASSUME NEW i \in Vars, NEW v \in Value, Read(i, v) PROVE NodeInv'
  <2>1. pending' \in [Vars -> OptValue]
    BY <1>5 DEF Read, NodeTyped, OptValue
  <2> QED
    BY <1>5, <2>1 DEF Read, NodeTyped, Paired, Settling, Says
<1>6. CASE Tick
  <2>1. now' \in Times
    BY <1>6, ModRange, TimeAssumption DEF Tick, NodeTyped, Times
  <2> QED
    BY <1>6, <2>1 DEF Tick, NodeTyped, Paired, Settling, Says
<1>7. CASE SunMoves
  <2>1. sun' \in Solar
    BY <1>7, ModRange, TimeAssumption DEF SunMoves, NodeTyped, Solar
  <2>2. sunUnread' \in Nat
    BY <1>7 DEF SunMoves, NodeTyped
  <2> QED
    BY <1>7, <2>1, <2>2 DEF SunMoves, NodeTyped, Paired, Settling, Says
<1>8. CASE UNCHANGED vars
  BY <1>8 DEF vars, NodeTyped, Paired, Settling, Says
<1> QED
  BY <1>1, <1>2, <1>3, <1>4, <1>5, <1>6, <1>7, <1>8 DEF Next

\* Whenever a node waits (the select! of run), each output was sent what its
\* expression says of the present readings, definitions and time, unless its
\* driver refused that.
THEOREM OutputsSettled == Spec => []Settled
<1>1. NodeInv => Settled
  <2> SUFFICES ASSUME NodeInv, evaluated, Waiting
               PROVE  /\ \A d \in Defs : inputs[d] = Says(d)
                      /\ \A e \in DOMAIN drives :
                           Says(e) \in {None, prev[drives[e]]} \/ drives[e] \in failed
    BY DEF Settled, Says
  <2>1. \A e \in DOMAIN drives : todo[e] = None
    BY DEF NodeInv, Paired, Waiting
  <2> QED
    BY <2>1 DEF NodeInv, Settling
<1> QED
  BY InitNodeInv, NextNodeInv, <1>1, PTL DEF Spec

-----------------------------------------------------------------------------
(* The time.  The filter compares one field; what makes the larger ones    *)
(* right is that at most one tick was not read, unless the node lagged.     *)

LEMMA DivMod ==
  ASSUME NEW a \in Int, NEW b \in Int, b > 0
  PROVE  a = b * (a \div b) + (a % b)
  OBVIOUS

\* A quotient and a remainder are what they are.
LEMMA DivModIs ==
  ASSUME NEW a \in Nat, NEW b \in Nat \ {0}, NEW q \in Nat, NEW r \in 0..(b - 1), a = b * q + r
  PROVE  a \div b = q /\ a % b = r
<1> DEFINE p == a \div b
           s == a % b
<1>1. p \in Nat /\ s \in 0..(b - 1) /\ a = b * p + s
  BY DivMod
<1> HIDE DEF p, s
<1>2. ASSUME p < q PROVE FALSE
  <2>1. b * (p + 1) <= b * q /\ b * (p + 1) = b * p + b
    BY <1>1, <1>2
  <2> QED
    BY <1>1, <2>1
<1>3. ASSUME q < p PROVE FALSE
  <2>1. b * (q + 1) <= b * p /\ b * (q + 1) = b * q + b
    BY <1>1, <1>3
  <2> QED
    BY <1>1, <2>1
<1>4. p = q
  BY <1>1, <1>2, <1>3
<1>5. s = r
  BY <1>1, <1>4
<1> QED
  BY <1>4, <1>5 DEF p, s

\* Counting on by one moves to the next unit at most.
LEMMA NextUnit ==
  ASSUME NEW t \in Nat, NEW u \in Nat \ {0}
  PROVE  (t + 1) \div u \in {t \div u, (t \div u) + 1}
<1> DEFINE q == t \div u
           r == t % u
<1>1. q \in Nat /\ r \in 0..(u - 1) /\ t = u * q + r
  BY DivMod
<1> HIDE DEF q, r
<1>2. CASE r + 1 < u
  <2>1. t + 1 = u * q + (r + 1) /\ r + 1 \in 0..(u - 1) /\ t + 1 \in Nat
    BY <1>1, <1>2
  <2>2. (t + 1) \div u = q
    BY <1>1, <2>1, DivModIs
  <2> QED
    BY <2>2 DEF q
<1>3. CASE r + 1 = u
  <2>1. t + 1 = u * (q + 1) + 0 /\ 0 \in 0..(u - 1) /\ t + 1 \in Nat /\ q + 1 \in Nat
    BY <1>1, <1>3
  <2>2. (t + 1) \div u = q + 1
    BY <2>1, DivModIs
  <2> QED
    BY <2>2 DEF q
<1> QED
  BY <1>1, <1>2, <1>3

\* The next unit has another field.
LEMMA NextField ==
  ASSUME NEW x \in Nat, NEW n \in Nat \ {0, 1}
  PROVE  (x + 1) % n # x % n
<1> DEFINE q == x \div n
           r == x % n
<1>1. q \in Nat /\ r \in 0..(n - 1) /\ x = n * q + r
  BY DivMod
<1> HIDE DEF q, r
<1>2. CASE r + 1 < n
  <2>1. x + 1 = n * q + (r + 1) /\ r + 1 \in 0..(n - 1) /\ x + 1 \in Nat
    BY <1>1, <1>2
  <2>2. (x + 1) % n = r + 1
    BY <1>1, <2>1, DivModIs
  <2> QED
    BY <1>1, <2>2 DEF r
<1>3. CASE r + 1 = n
  <2>1. x + 1 = n * (q + 1) + 0 /\ 0 \in 0..(n - 1) /\ x + 1 \in Nat /\ q + 1 \in Nat
    BY <1>1, <1>3
  <2>2. (x + 1) % n = 0
    BY <2>1, DivModIs
  <2> QED
    BY <1>1, <1>3, <2>2 DEF r
<1> QED
  BY <1>1, <1>2, <1>3

\* So has the first one of a day, compared with the last.
LEMMA LastField == (((Day - 1) \div Unit) % Period) = Period - 1
<1> DEFINE n == Unit * Period
           m == Day \div n
<1>1. Unit \in Nat \ {0} /\ Period \in Nat \ {0, 1} /\ Day \in Nat \ {0} /\ Day % n = 0
  BY TimeAssumption
<1>2. n \in Nat \ {0}
  BY <1>1
<1> HIDE DEF n
<1>3. m \in Nat /\ Day = n * m + 0
  BY <1>1, <1>2, DivMod
<1> HIDE DEF m
<1>4. m # 0
  BY <1>1, <1>2, <1>3
<1>5. Day = Unit * (Period * m) /\ Period * m \in Nat
  BY <1>1, <1>3 DEF n
<1> DEFINE k == Period * m - 1
<1>6. k \in Nat /\ k = Period * (m - 1) + (Period - 1) /\ m - 1 \in Nat
  BY <1>1, <1>3, <1>4
<1>7. Day - 1 = Unit * k + (Unit - 1)
  BY <1>1, <1>5, <1>3
<1> HIDE DEF k
<1>8. (Day - 1) \div Unit = k
  <2> DEFINE a == Day - 1
             s == Unit - 1
  <2>1. a \in Nat /\ s \in 0..(Unit - 1) /\ Unit \in Nat \ {0} /\ k \in Nat /\ a = Unit * k + s
    BY <1>1, <1>6, <1>7
  <2> HIDE DEF a, s
  <2>2. a \div Unit = k
    BY <2>1, DivModIs
  <2> QED
    BY <2>2 DEF a
<1>9. k % Period = Period - 1
  <2>1. Period - 1 \in 0..(Period - 1) /\ Period \in Nat \ {0}
    BY <1>1
  <2> QED
    BY <1>6, <2>1, DivModIs
<1> QED
  BY <1>8, <1>9

\* The time is right up to the ticks that were not read, of which there is one
\* or the channel has overflowed.
TimeInv ==
  /\ now \in Times /\ time \in Times
  /\ ticks \in 0..2
  /\ ticks = 0 => time \div Unit = now \div Unit
  /\ ticks = 1 => \E t \in Times : t \div Unit = time \div Unit /\ now = (t + 1) % Day

\* A filter that lets no time pass has missed none.
LEMMA NothingMissed ==
  ASSUME TimeInv, ticks = 1, Field(now) = Field(time)
  PROVE  time \div Unit = now \div Unit
<1> USE TimeAssumption DEF TimeInv, Times
<1>1. PICK t \in Times : t \div Unit = time \div Unit /\ now = (t + 1) % Day
  OBVIOUS
<1> DEFINE q == t \div Unit
<1>2. q \in Nat /\ (q % Period) = ((now \div Unit) % Period)
  BY <1>1 DEF Field
<1>3. CASE t + 1 < Day
  <2>1. now = t + 1
    BY <1>1, <1>3
  <2>2. now \div Unit \in {q, q + 1}
    <3>1. t \in Nat /\ Unit \in Nat \ {0}
      BY <1>1
    <3>2. (t + 1) \div Unit \in {q, q + 1}
      BY <3>1, NextUnit
    <3> QED
      BY <2>1, <3>2
  <2>3. (q + 1) % Period # q % Period
    BY <1>2, NextField
  <2>4. now \div Unit # q + 1
    BY <1>2, <2>3
  <2> QED
    BY <1>1, <2>2, <2>4
<1>4. CASE t + 1 = Day
  <2>1. now = 0
    BY <1>1, <1>4
  <2>2. (now \div Unit) % Period = 0
    BY <2>1
  <2>3. q % Period = Period - 1
    BY <1>4, LastField
  <2> QED
    BY <1>2, <2>2, <2>3
<1> QED
  BY <1>3, <1>4

\* Every tick, and every time that is read or missed, keeps it.
LEMMA NextTimeInv == TimeInv /\ [Next]_vars => TimeInv'
<1> SUFFICES ASSUME TimeInv, [Next]_vars PROVE TimeInv'
  OBVIOUS
<1> USE DEF TimeInv
<1>1. CASE TimeArrives
  <2>1. CASE Passes
    BY <1>1, <2>1 DEF TimeArrives
  <2>2. CASE ~Passes
    <3>1. ticks = 1 /\ Field(now) = Field(time)
      BY <1>1, <2>2 DEF TimeArrives, Passes, TimeReady
    <3>2. time \div Unit = now \div Unit
      BY <3>1, NothingMissed
    <3> QED
      BY <1>1, <2>2, <3>2 DEF TimeArrives
  <2> QED
    BY <2>1, <2>2
<1>2. CASE Tick
  <2>1. now' = (now + 1) % Day /\ now' \in Times /\ time' = time
    BY <1>2, ModRange, TimeAssumption DEF Tick, Times
  <2>2. CASE ticks = 0
    BY <1>2, <2>1, <2>2 DEF Tick
  <2>3. CASE ticks # 0
    BY <1>2, <2>1, <2>3 DEF Tick
  <2> QED
    BY <2>2, <2>3
<1>3. CASE UNCHANGED <<now, ticks, time>>
  BY <1>3
<1> QED
  BY <1>1, <1>2, <1>3
     DEF Next, SunArrives, ReadingArrives, Accepted, Refused, Read, SunMoves, vars, env

\* A node that waits and has read the time has it right in the field that its
\* expressions watch and in all larger ones, even after it lagged (TimeFilter).
THEOREM TimeStaysRight == Spec => []TimeIsRight
<1>1. Init => TimeInv
  BY DEF Init, TimeInv
<1>2. TimeInv /\ (ticks > 0 => UsesTime) => TimeIsRight
  BY DEF TimeInv, TimeIsRight, TimeReady
<1>3. Init => (ticks > 0 => UsesTime)
  BY DEF Init
<1>4. (ticks > 0 => UsesTime) /\ [Next]_vars => (ticks > 0 => UsesTime)'
  BY DEF Next, SunArrives, TimeArrives, TimeReady, ReadingArrives, Accepted, Refused, Read,
         Tick, SunMoves, vars, env
<1> QED
  BY <1>1, <1>2, <1>3, <1>4, NextTimeInv, PTL DEF Spec
-----------------------------------------------------------------------------
(* The pairing.  What makes zipping by position right is counting: sorted    *)
(* positions that are all different are 1, 2, 3, ...                         *)

\* What LN_GRAMMAR.md asks of a configuration: each output has an expression,
\* and no other one has it.
EachOutputOnce ==
  /\ \A o \in Outputs : \E e \in Exprs : Target[e] = o
  /\ \A e, f \in Exprs : Target[e] = Target[f] => e = f

\* A set of numbers that is not empty has a least one.
LEMMA LeastOf ==
  ASSUME NEW S, S \subseteq Nat, S # {}
  PROVE  \E a \in S : \A b \in S : a <= b
<1>1. PICK a \in S : \A b \in S : <<b, a>> \notin OpToRel(<, Nat)
  BY WFMin, NatLessThanWellFounded
<1>2. ASSUME NEW b \in S
      PROVE  a <= b
  <2>1. b < a => <<b, a>> \in OpToRel(<, Nat)
    BY DEF OpToRel
  <2>2. ~(b < a)
    BY <1>1, <2>1
  <2> QED
    BY <2>2
<1> QED
  BY <1>2

\* An increasing sequence of n numbers from 1 to n counts them.
LEMMA IncreasingCounts ==
  ASSUME NEW n \in Nat, NEW p \in [1..n -> 1..n],
         \A j, k \in 1..n : j < k => p[j] < p[k]
  PROVE  \A j \in 1..n : p[j] = j
<1>1. ASSUME NEW S, S = {j \in 1..n : p[j] < j}, S # {}
      PROVE  FALSE
  <2>0. S \subseteq Nat
    BY <1>1
  <2>1. PICK a \in S : \A b \in S : a <= b
    BY <1>1, <2>0, LeastOf, Zenon
  <2>2. a \in 1..n /\ p[a] < a /\ p[a] \in 1..n
    BY <1>1, <2>1
  <2>3. a - 1 \in 1..n /\ a - 1 \notin S
    BY <2>1, <2>2
  <2>4. p[a - 1] \in 1..n /\ p[a - 1] >= a - 1
    BY <1>1, <2>3
  <2>5. p[a - 1] < p[a]
    BY <2>2, <2>3
  <2> QED
    BY <2>2, <2>4, <2>5
<1>2. ASSUME NEW S, S = {i \in 0..(n - 1) : p[n - i] > n - i}, S # {}
      PROVE  FALSE
  <2>0. S \subseteq Nat
    BY <1>2
  <2>1. PICK i \in S : \A b \in S : i <= b
    BY <1>2, <2>0, LeastOf, Zenon
  <2>2. i \in 0..(n - 1) /\ n - i \in 1..n /\ p[n - i] > n - i /\ p[n - i] \in 1..n
    BY <1>2, <2>1
  <2>3. i - 1 \in 0..(n - 1) /\ i - 1 \notin S /\ n - (i - 1) \in 1..n
    BY <2>1, <2>2
  <2> DEFINE j == n - i
             k == n - (i - 1)
  <2>4. p[k] \in 1..n /\ p[k] <= k
    BY <1>2, <2>3
  <2>5. k = j + 1 /\ j < k /\ j \in 1..n /\ k \in 1..n
    BY <2>2, <2>3
  <2>6. p[j] < p[k]
    BY <2>5
  <2> QED
    BY <2>2, <2>4, <2>5, <2>6
<1> QED
  <2> TAKE j \in 1..n
  <2>1. {k \in 1..n : p[k] < k} = {} /\ {i \in 0..(n - 1) : p[n - i] > n - i} = {}
    BY <1>1, <1>2, Zenon
  <2>2. n - j \in 0..(n - 1) /\ n - (n - j) = j
    OBVIOUS
  <2>3. ~(p[j] < j)
    BY <2>1
  <2>4. ~(p[n - (n - j)] > n - (n - j))
    BY <2>1, <2>2
  <2>5. p[j] \in 1..n
    OBVIOUS
  <2> QED
    BY <2>2, <2>3, <2>4, <2>5

\* As many expressions as outputs, so that orders and sorts leave nothing out.
LEMMA OneToOne ==
  ASSUME EachOutputOnce
  PROVE  /\ Cardinality(Outputs) = NumExprs
         /\ \A order \in Orders : \A o \in Outputs : \E k \in Exprs : order[k] = o
         /\ \A s \in Bijections(Exprs, Exprs) : \A e \in Exprs : \E k \in Exprs : s[k] = e
<1>1. NumExprs \in Nat /\ Target \in [Exprs -> Outputs] /\ IsFiniteSet(Outputs)
  BY ExprsAssumption
<1>2. IsFiniteSet(Exprs) /\ Cardinality(Exprs) = NumExprs
  BY <1>1, FS_Interval DEF Exprs
<1>3. Target \in Bijection(Exprs, Outputs)
  BY <1>1, Fun_IsBij DEF EachOutputOnce
<1>4. Cardinality(Outputs) = NumExprs
  BY <1>2, <1>3, FS_Bijection DEF ExistsBijection
<1>5. ASSUME NEW T, NEW f \in Bijections(Exprs, T), IsFiniteSet(T), Cardinality(T) = NumExprs
      PROVE  \A t \in T : \E k \in Exprs : f[k] = t
  <2>1. f \in Injection(Exprs, T)
    BY Fun_IsInj DEF Bijections
  <2>2. f \in Surjection(Exprs, T)
    BY <1>2, <1>5, <2>1, FS_Injection
  <2> QED
    BY <2>2, Fun_SurjectionProperties
<1>6. Orders = Bijections(Exprs, Outputs)
  BY <1>4 DEF Orders, Exprs
<1>7. \A order \in Orders : \A o \in Outputs : \E k \in Exprs : order[k] = o
  BY <1>1, <1>4, <1>5, <1>6
<1>8. \A s \in Bijections(Exprs, Exprs) : \A e \in Exprs : \E k \in Exprs : s[k] = e
  BY <1>2, <1>5
<1> QED
  BY <1>4, <1>7, <1>8

\* Whatever the order of the hash map and of the sort, zipping gives every
\* expression the output that it names.
LEMMA ZipIsTarget ==
  ASSUME EachOutputOnce, NEW order \in Orders, NEW s \in Sorted(order)
  PROVE  Zip(s, order) = Target
<1> DEFINE Position(e) == CHOOSE k \in DOMAIN order : order[k] = Target[e]
           p == [k \in Exprs |-> Position(s[k])]
           K(e) == CHOOSE k \in Exprs : s[k] = e
<1>1. /\ order \in [Exprs -> Outputs] /\ DOMAIN order = Exprs
      /\ \A o \in Outputs : \E k \in Exprs : order[k] = o
  BY OneToOne DEF Orders, Bijections, Exprs
<1>2. /\ s \in [Exprs -> Exprs] /\ \A j, k \in Exprs : s[j] = s[k] => j = k
      /\ \A e \in Exprs : \E k \in Exprs : s[k] = e
      /\ \A j, k \in Exprs : j < k => Position(s[j]) <= Position(s[k])
  BY OneToOne DEF Sorted, Bijections
<1>3. /\ Target \in [Exprs -> Outputs]
      /\ \A e, f \in Exprs : Target[e] = Target[f] => e = f
      /\ NumExprs \in Nat
  BY ExprsAssumption DEF EachOutputOnce
<1>4. ASSUME NEW e \in Exprs
      PROVE  Position(e) \in Exprs /\ order[Position(e)] = Target[e]
  BY <1>1, <1>3
<1> HIDE DEF Position
<1>5. p \in [Exprs -> Exprs]
  BY <1>2, <1>4
<1>6. ASSUME NEW j \in Exprs, NEW k \in Exprs, j < k
      PROVE  p[j] < p[k]
  <2>1. s[j] \in Exprs /\ s[k] \in Exprs /\ s[j] # s[k]
    BY <1>2, <1>3, <1>6 DEF Exprs
  <2>2. Position(s[j]) # Position(s[k])
    <3>1. Target[s[j]] # Target[s[k]]
      BY <1>3, <2>1
    <3> QED
      BY <1>4, <2>1, <3>1
  <2>3. Position(s[j]) <= Position(s[k])
    BY <1>2, <1>6
  <2>4. Position(s[j]) \in Nat /\ Position(s[k]) \in Nat
    BY <1>4, <2>1 DEF Exprs
  <2>5. Position(s[j]) < Position(s[k])
    BY <2>2, <2>3, <2>4
  <2> QED
    BY <2>5
<1>7. \A k \in Exprs : p[k] = k
  BY <1>3, <1>5, <1>6, IncreasingCounts DEF Exprs
<1>8. ASSUME NEW e \in Exprs
      PROVE  order[K(e)] = Target[e]
  <2>1. K(e) \in Exprs /\ s[K(e)] = e
    BY <1>2
  <2> HIDE DEF K
  <2>2. Position(e) = K(e)
    BY <1>7, <2>1
  <2> QED
    BY <1>4, <2>2
<1>9. {s[k] : k \in Exprs \cap DOMAIN order} = Exprs
  BY <1>1, <1>2
<1>10. Zip(s, order) = [e \in Exprs |-> order[K(e)]]
  BY <1>9 DEF Zip
<1> HIDE DEF K
<1> QED
  BY <1>3, <1>8, <1>10

\* Of a configuration with one expression for each output, every expression
\* drives the output that it names: sorting and zipping (Node::init) pair them
\* right, in whatever order the outputs come.
THEOREM OutputsAreRight ==
  ASSUME EachOutputOnce
  PROVE  Spec => []RightOutput
<1>1. Init => RightOutput
  BY ZipIsTarget DEF Init, RightOutput
<1>2. RightOutput /\ [Next]_vars => RightOutput'
  BY DEF RightOutput, Next, SunArrives, TimeArrives, ReadingArrives, Store, Evaluate,
         Accepted, Refused, Read, Tick, SunMoves, vars
<1> QED
  BY <1>1, <1>2, PTL DEF Spec

-----------------------------------------------------------------------------
(* Calls.                                                                  *)

\* What a function is called with.
CallsTyped ==
  /\ fn = "project" => arg \in Dates
  /\ fn = "blend" => arg \in Colors \X Colors

\* Every call has arguments of its function.
LEMMA CallTyped == CallSpec => []CallsTyped
<1>1. NoCall => CallsTyped
  BY DEF NoCall, CallsTyped
<1>2. CallsTyped /\ [NextCall]_calls => CallsTyped'
  BY DEF CallsTyped, NextCall, Call, Return, calls
<1> QED
  BY <1>1, <1>2, PTL DEF CallSpec

-----------------------------------------------------------------------------
(* Times.                                                                  *)

\* The recursion of DaysBefore, unfolded.
LEMMA DaysBeforeIs ==
  ASSUME NEW y \in Int
  PROVE  LET l == IF IsLeapYear(y) THEN 1 ELSE 0 IN
         /\ DaysBefore(1, y) = 0        /\ DaysBefore(2, y) = 31
         /\ DaysBefore(3, y) = 59 + l   /\ DaysBefore(4, y) = 90 + l
         /\ DaysBefore(5, y) = 120 + l  /\ DaysBefore(6, y) = 151 + l
         /\ DaysBefore(7, y) = 181 + l  /\ DaysBefore(8, y) = 212 + l
         /\ DaysBefore(9, y) = 243 + l  /\ DaysBefore(10, y) = 273 + l
         /\ DaysBefore(11, y) = 304 + l /\ DaysBefore(12, y) = 334 + l
<1> DEFINE l == IF IsLeapYear(y) THEN 1 ELSE 0
           Is(f) == f = [k \in 1..12 |-> IF k = 1 THEN 0 ELSE f[k - 1] + LastDay(k - 1, y)]
           sum == CHOOSE f : Is(f)
           days == <<0, 31, 59 + l, 90 + l, 120 + l, 151 + l, 181 + l, 212 + l, 243 + l, 273 + l,
                     304 + l, 334 + l>>
<1>1. \A m \in 1..12 : DaysBefore(m, y) = sum[m]
  BY DEF DaysBefore
<1>2. l \in {0, 1}
  OBVIOUS
<1>3. /\ LastDay(1, y) = 31 /\ LastDay(2, y) = 28 + l /\ LastDay(3, y) = 31
      /\ LastDay(4, y) = 30 /\ LastDay(5, y) = 31 /\ LastDay(6, y) = 30
      /\ LastDay(7, y) = 31 /\ LastDay(8, y) = 31 /\ LastDay(9, y) = 30
      /\ LastDay(10, y) = 31 /\ LastDay(11, y) = 30
  BY DEF LastDay
<1> HIDE DEF l
<1>4. \A k \in 1..12 : days[k] = IF k = 1 THEN 0 ELSE days[k - 1] + LastDay(k - 1, y)
  <2> SUFFICES ASSUME NEW k \in 1..12
               PROVE  days[k] = IF k = 1 THEN 0 ELSE days[k - 1] + LastDay(k - 1, y)
    OBVIOUS
  <2>1. k \in {1, 2, 3, 4, 5, 6, 7, 8, 9, 10, 11, 12}
    OBVIOUS
  <2> QED
    BY <1>2, <1>3, <2>1
<1>5. Is([k \in 1..12 |-> days[k]])
  BY <1>4
<1>6. Is(sum)
  <2> HIDE DEF Is
  <2> QED
    BY <1>5
<1> HIDE DEF sum
<1>7. /\ sum[1] = 0
      /\ \A k \in 2..12 : sum[k] = sum[k - 1] + LastDay(k - 1, y)
  BY <1>6
<1>8. /\ sum[1] = 0 /\ sum[2] = 31 /\ sum[3] = 59 + l /\ sum[4] = 90 + l
      /\ sum[5] = 120 + l /\ sum[6] = 151 + l
  BY <1>2, <1>3, <1>7
<1>9. /\ sum[7] = 181 + l /\ sum[8] = 212 + l /\ sum[9] = 243 + l /\ sum[10] = 273 + l
      /\ sum[11] = 304 + l /\ sum[12] = 334 + l
  BY <1>2, <1>3, <1>7, <1>8
<1> QED
  BY <1>1, <1>8, <1>9 DEF l

\* Every date has a day of its month.
LEMMA DateTyped ==
  ASSUME NEW t \in Dates
  PROVE  \E y \in Years, m \in 1..12, d \in 1..31 :
           t = At(y, m, d, 0, 0, 0) /\ d <= LastDay(m, y) /\ y \in Int
<1>1. PICK y \in Years, m \in 1..12, d \in 1..31 : t = At(y, m, d, 0, 0, 0) /\ ValidDate(t)
  BY DEF Dates
<1>2. t.month = m /\ t.year = y /\ t.day = d
  BY <1>1 DEF At
<1> QED
  BY <1>1, <1>2, YearsAssumption DEF ValidDate

\* DOY does not count February 29th.
LEMMA DayOfYearIsRight ==
  ASSUME NEW t \in Dates
  PROVE  DayOfYear(t) = DayOfCommonYear(t)
<1>1. PICK y \in Years, m \in 1..12, d \in 1..31 :
        t = At(y, m, d, 0, 0, 0) /\ d <= LastDay(m, y) /\ y \in Int
  BY DateTyped
<1> DEFINE l == IF IsLeapYear(y) THEN 1 ELSE 0
           e == IF m = 2 /\ d = 29 THEN 28 ELSE d
<1>2. t.month = m /\ t.year = y /\ t.day = d
  BY <1>1 DEF At
<1>3. Ordinal0(t) = DaysBefore(m, y) + d - 1
  BY <1>2 DEF Ordinal0
<1>4. DayOfCommonYear(t) = DaysBefore(m, 2023) + e - 1
  <2> DEFINE u == [t EXCEPT !.year = 2023, !.day = IF t.month = 2 /\ t.day = 29 THEN 28 ELSE t.day]
  <2>1. t = [year |-> y, month |-> m, day |-> d, hour |-> 0, minute |-> 0, second |-> 0]
    BY <1>1 DEF At
  <2>2. u.month = m /\ u.year = 2023 /\ u.day = e
    BY <2>1
  <2>3. DayOfCommonYear(t) = Ordinal0(u)
    BY DEF DayOfCommonYear
  <2> HIDE DEF u, e
  <2> QED
    BY <2>2, <2>3 DEF Ordinal0
<1>5. ~ IsLeapYear(2023)
  BY DEF IsLeapYear
<1>6. m = 2 => d <= 28 + l
  BY <1>1 DEF LastDay
<1>7. CASE m \in {1, 2}
  <2>1. DaysBefore(m, y) = DaysBefore(m, 2023) /\ DaysBefore(m, y) = (IF m = 1 THEN 0 ELSE 31)
    BY <1>1, <1>7, DaysBeforeIs
  <2> QED
    BY <1>2, <1>3, <1>4, <1>6, <1>7, <2>1 DEF DayOfYear
<1>8. CASE m \in 3..12
  <2>1. DaysBefore(m, y) = DaysBefore(m, 2023) + l /\ DaysBefore(m, 2023) \in Nat
        /\ DaysBefore(m, 2023) >= 59
    <3>1. m \in {3, 4, 5, 6, 7, 8, 9, 10, 11, 12}
      BY <1>8
    <3>2. 2023 \in Int
      OBVIOUS
    <3> QED
      BY <1>1, <1>5, <3>1, <3>2, DaysBeforeIs
  <2>2. e = d
    BY <1>8
  <2> HIDE DEF e
  <2> QED
    BY <1>2, <1>3, <1>4, <2>1, <2>2 DEF DayOfYear
<1> QED
  BY <1>7, <1>8

\* DOY starts at 0, and ends at 364 in a leap year too.
LEMMA DayOfYearInRange ==
  ASSUME NEW t \in Dates
  PROVE  DayOfYear(t) \in 0..364
<1>1. PICK y \in Years, m \in 1..12, d \in 1..31 :
        t = At(y, m, d, 0, 0, 0) /\ d <= LastDay(m, y) /\ y \in Int
  BY DateTyped
<1> DEFINE l == IF IsLeapYear(y) THEN 1 ELSE 0
           o == DaysBefore(m, y) + d - 1
<1>2. l \in {0, 1} /\ (IsLeapYear(y) <=> l = 1)
  OBVIOUS
<1>3. DayOfYear(t) = o - (IF o > 58 /\ l = 1 THEN 1 ELSE 0)
  BY <1>1, <1>2 DEF DayOfYear, Ordinal0, At
<1>4. o \in 0..(364 + l)
  <2>1. m \in {1, 2, 3, 4, 5, 6, 7, 8, 9, 10, 11, 12}
    OBVIOUS
  <2>2. m = 2 => d <= 28 + l
    BY <1>1 DEF LastDay
  <2>3. m \in {4, 6, 9, 11} => d <= 30
    BY <1>1 DEF LastDay
  <2> QED
    BY <1>1, <1>2, <2>1, <2>2, <2>3, DaysBeforeIs
<1> HIDE DEF l, o
<1> QED
  BY <1>2, <1>3, <1>4

\* The day d of t's month has its weekday if it is whole weeks away.
LEMMA SameWeekdayIs ==
  ASSUME NEW t \in Dates
  PROVE  SameWeekday(t) = {d \in Days(t.month, t.year) : (d - t.day) % 7 = 0}
<1>1. PICK y \in Years, m \in 1..12, day \in 1..31 :
        t = At(y, m, day, 0, 0, 0) /\ day <= LastDay(m, y) /\ y \in Int
  BY DateTyped
<1> DEFINE k == (y - 1) * 365 + (y - 1) \div 4 - (y - 1) \div 100 + (y - 1) \div 400 + DaysBefore(m, y) - 1
<1>2. t.month = m /\ t.year = y /\ t.day = day
  BY <1>1 DEF At
<1>3. DaysBefore(m, y) \in Int
  <2>1. m \in {1, 2, 3, 4, 5, 6, 7, 8, 9, 10, 11, 12}
    OBVIOUS
  <2> QED
    BY <1>1, <2>1, DaysBeforeIs
<1>4. k \in Int
  BY <1>1, <1>3
<1>5. LastDay(m, y) \in 28..31
  BY DEF LastDay
<1>6. ASSUME NEW u, u.month = m, u.year = y, u.day \in Int
      PROVE  Weekday(u) = (k + u.day) % 7
  BY <1>1, <1>3, <1>6 DEF Weekday, Ordinal0
<1>7. Weekday(t) = (k + day) % 7
  BY <1>2, <1>6
<1>8. ASSUME NEW d \in Days(m, y)
      PROVE  Weekday([t EXCEPT !.day = d]) = (k + d) % 7
  <2> DEFINE u == [t EXCEPT !.day = d]
  <2>1. t = [year |-> y, month |-> m, day |-> day, hour |-> 0, minute |-> 0, second |-> 0]
    BY <1>1 DEF At
  <2>2. u.month = m /\ u.year = y /\ u.day = d
    BY <2>1
  <2>3. d \in Int
    BY <1>5 DEF Days
  <2> HIDE DEF u
  <2> QED
    BY <1>6, <2>2, <2>3 DEF u
<1> HIDE DEF k
<1>9. ASSUME NEW d \in Days(m, y)
      PROVE  (k + d) % 7 = (k + day) % 7 <=> (d - day) % 7 = 0
  <2>1. d \in Int
    BY <1>5 DEF Days
  <2> QED
    BY <1>4, <2>1
<1> QED
  BY <1>2, <1>7, <1>8, <1>9 DEF SameWeekday

\* The n days from a day that are whole weeks before or after it.
Weeks(day, w, n) == {day + w * (k - 1) : k \in 1..n}

LEMMA WeeksCounted ==
  ASSUME NEW day \in Int, NEW n \in Nat, NEW w \in {-7, 7}
  PROVE  Cardinality(Weeks(day, w, n)) = n
<1> DEFINE f == [k \in 1..n |-> day + w * (k - 1)]
<1>1. \A j, k \in 1..n : f[j] = f[k] => j = k
  OBVIOUS
<1>2. f \in [1..n -> Weeks(day, w, n)] /\ \A s \in Weeks(day, w, n) : \E k \in 1..n : f[k] = s
  BY DEF Weeks
<1> HIDE DEF f
<1>3. f \in Bijection(1..n, Weeks(day, w, n))
  BY <1>1, <1>2, Fun_IsBij
<1>4. IsFiniteSet(1..n) /\ Cardinality(1..n) = n
  BY FS_Interval
<1> QED
  BY <1>3, <1>4, FS_Bijection DEF ExistsBijection

\* SOM and EOM count the days of the month with the same weekday.
LEMMA WeeksAreRight ==
  ASSUME NEW t \in Dates
  PROVE  /\ StartOfMonth(t) = Cardinality({d \in SameWeekday(t) : d <= t.day})
         /\ EndOfMonth(t) = Cardinality({d \in SameWeekday(t) : d >= t.day})
<1>1. PICK y \in Years, m \in 1..12, day \in 1..31 :
        t = At(y, m, day, 0, 0, 0) /\ day <= LastDay(m, y) /\ y \in Int
  BY DateTyped
<1> DEFINE last == LastDay(m, y)
           a == (day + 6) \div 7
           b == (last + 7 - day) \div 7
<1>2. t.month = m /\ t.year = y /\ t.day = day
  BY <1>1 DEF At
<1>3. last \in 28..31
  BY DEF LastDay
<1> HIDE DEF last
<1>4. SameWeekday(t) = {d \in 1..last : (d - day) % 7 = 0}
  BY <1>2, SameWeekdayIs DEF Days, last
<1>5. a \in Nat /\ b \in Nat
  BY <1>1, <1>3 DEF last
<1> DEFINE before == {d \in SameWeekday(t) : d <= day}
           after == {d \in SameWeekday(t) : d >= day}
<1>6. before = Weeks(day, -7, a)
  <2>1. ASSUME NEW d \in 1..last, (d - day) % 7 = 0, d <= day
        PROVE  \E k \in 1..a : d = day + (-7) * (k - 1)
    <3> DEFINE k == (day - d) \div 7 + 1
    <3>1. d = day + (-7) * (k - 1)
      BY <1>3, <2>1
    <3>2. k \in 1..a
      BY <1>3, <2>1
    <3> QED
      BY <3>1, <3>2
  <2>2. ASSUME NEW k \in 1..a
        PROVE  /\ day + (-7) * (k - 1) \in 1..last /\ day + (-7) * (k - 1) <= day
               /\ ((day + (-7) * (k - 1)) - day) % 7 = 0
    BY <1>1, <1>3 DEF last
  <2> HIDE DEF a
  <2> QED
    BY <1>4, <2>1, <2>2 DEF Weeks
<1>7. after = Weeks(day, 7, b)
  <2>1. ASSUME NEW d \in 1..last, (d - day) % 7 = 0, d >= day
        PROVE  \E k \in 1..b : d = day + 7 * (k - 1)
    <3> DEFINE k == (d - day) \div 7 + 1
    <3>1. d = day + 7 * (k - 1)
      BY <1>3, <2>1
    <3>2. k \in 1..b
      BY <1>3, <2>1
    <3> QED
      BY <3>1, <3>2
  <2>2. ASSUME NEW k \in 1..b
        PROVE  /\ day + 7 * (k - 1) \in 1..last /\ day + 7 * (k - 1) >= day
               /\ ((day + 7 * (k - 1)) - day) % 7 = 0
    BY <1>1, <1>3 DEF last
  <2> HIDE DEF b
  <2> QED
    BY <1>4, <2>1, <2>2 DEF Weeks
<1>8. StartOfMonth(t) = a /\ EndOfMonth(t) = b
  BY <1>2 DEF StartOfMonth, EndOfMonth, last
<1> HIDE DEF a, b
<1> HIDE DEF before, after
<1>9. Cardinality(before) = a
  BY <1>5, <1>6, WeeksCounted
<1>10. Cardinality(after) = b
  BY <1>5, <1>7, WeeksCounted
<1> QED
  BY <1>2, <1>8, <1>9, <1>10 DEF before, after

\* For dates of any years, DOY, SOM and EOM are what the comment of compile.rs
\* says (TimeField::project).
THEOREM FieldsOfDates == CallSpec => []FieldsAreRight
<1>1. CallsTyped => FieldsAreRight
  BY DayOfYearIsRight, DayOfYearInRange, WeeksAreRight DEF CallsTyped, FieldsAreRight, Project
<1> QED
  BY <1>1, CallTyped, PTL

-----------------------------------------------------------------------------
(* Colors.                                                                 *)

\* A quotient lies between two numbers if the dividend lies between their products.
LEMMA QuotientBetween ==
  ASSUME NEW n \in Int, NEW d \in Nat \ {0}, NEW a \in Int, NEW b \in Int,
         a * d <= n, n <= b * d
  PROVE  n \div d \in a..b
<1> DEFINE q == n \div d
<1>1. q \in Int /\ q * d <= n /\ n < q * d + d
  OBVIOUS
<1> HIDE DEF q
<1>2. ~ (q < a)
  <2> SUFFICES ASSUME q + 1 <= a PROVE FALSE
    BY <1>1
  <2>1. (q + 1) * d <= a * d
    BY <1>1
  <2> QED
    BY <1>1, <2>1
<1>3. ~ (b < q)
  <2> SUFFICES ASSUME b + 1 <= q PROVE FALSE
    BY <1>1
  <2>1. (b + 1) * d <= q * d
    BY <1>1
  <2> QED
    BY <1>1, <2>1
<1> QED
  BY <1>1, <1>2, <1>3 DEF q

\* So does the rounded one.
LEMMA RoundedBetween ==
  ASSUME NEW n \in Int, NEW d \in Nat \ {0}, NEW a \in Int, NEW b \in Int,
         a * d <= n, n <= b * d
  PROVE  Round(n, d) \in a..b
<1> DEFINE q == (2 * n + d) \div (2 * d)
           e == 2 * d
           m == 2 * n + d
<1>1. e \in Nat \ {0} /\ m \in Int
  OBVIOUS
<1>2. q \in Int /\ q * e <= m /\ m < q * e + e
  <2> HIDE DEF e, m
  <2>1. m \div e \in Int /\ (m \div e) * e <= m /\ m < (m \div e) * e + e
    BY <1>1
  <2> QED
    BY <2>1 DEF e, m
<1> HIDE DEF q
<1>3. 2 * (q * d) <= 2 * n + d /\ 2 * n + d < 2 * (q * d) + 2 * d
  BY <1>2
<1>4. ~ (q < a)
  <2> SUFFICES ASSUME q + 1 <= a PROVE FALSE
    BY <1>2
  <2>1. (q + 1) * d <= a * d
    BY <1>2
  <2> QED
    BY <1>2, <1>3, <2>1
<1>5. ~ (b < q)
  <2> SUFFICES ASSUME b + 1 <= q PROVE FALSE
    BY <1>2
  <2>1. (b + 1) * d <= q * d
    BY <1>2
  <2> QED
    BY <1>2, <1>3, <2>1
<1> QED
  BY <1>2, <1>4, <1>5 DEF q, Round

\* So does a weighted sum of two numbers.
LEMMA WeightedBetween ==
  ASSUME NEW p \in Nat, NEW r \in Nat, NEW x \in Int, NEW y \in Int, NEW a \in Int, NEW b \in Int,
         a <= x, a <= y, x <= b, y <= b
  PROVE  a * (p + r) <= x * p + y * r /\ x * p + y * r <= b * (p + r)
<1>1. a * p <= x * p /\ a * r <= y * r /\ x * p <= b * p /\ y * r <= b * r
  OBVIOUS
<1> QED
  BY <1>1

\* The channels and the alphas of two colors.
LEMMA BlendedBetween ==
  ASSUME NEW s \in Channels, NEW t \in Channels
  PROVE  LET alpha == s * Full + t * (Full - s) IN
         /\ alpha \in Nat
         /\ s * Full <= alpha /\ t * Full <= alpha
         /\ s * Full \in Nat /\ t * (Full - s) \in Nat
         /\ s = Full => alpha = Full * Full
         /\ s = 0 => alpha = t * Full
         /\ alpha = 0 => s = 0 /\ t = 0
<1>1. Full \in Nat \ {0} /\ Full - s \in Nat /\ Full - t \in Nat /\ s \in Nat /\ t \in Nat
  BY ColorsAssumption DEF Channels
<1>2. s * Full \in Nat /\ t * (Full - s) \in Nat /\ s * (Full - t) \in Nat /\ t * Full \in Nat
  BY <1>1
<1>3. s * Full + t * (Full - s) = t * Full + s * (Full - t)
  BY <1>1
<1>4. s = Full => s * Full + t * (Full - s) = Full * Full
  BY <1>1
<1>5. s = 0 => s * Full + t * (Full - s) = t * Full
  BY <1>1
<1>6. s * Full = 0 => s = 0
  BY <1>1
<1>7. t * Full = 0 => t = 0
  BY <1>1
<1> QED
  BY <1>2, <1>3, <1>4, <1>5, <1>6, <1>7

\* A channel that is weighted with the alphas of two layers lies between theirs.
LEMMA ChannelBetween ==
  ASSUME NEW s \in Channels, NEW t \in Channels, NEW x \in Int, NEW y \in Int,
         NEW a \in Int, NEW b \in Int, a <= x, a <= y, x <= b, y <= b
  PROVE  LET alpha == s * Full + t * (Full - s)
             weighted == x * s * Full + y * t * (Full - s)
         IN  weighted \in Int /\ a * alpha <= weighted /\ weighted <= b * alpha
<1> DEFINE p == s * Full
           r == t * (Full - s)
<1>1. p \in Nat /\ r \in Nat
  BY BlendedBetween
<1>2. Full \in Int /\ s \in Int /\ t \in Int
  BY ColorsAssumption DEF Channels
<1>3. x * s * Full + y * t * (Full - s) = x * p + y * r
  BY <1>2
<1> HIDE DEF p, r
<1>4. a * (p + r) <= x * p + y * r /\ x * p + y * r <= b * (p + r)
  BY <1>1, WeightedBetween
<1>5. x * p + y * r \in Int
  BY <1>1
<1> QED
  BY <1>3, <1>4, <1>5 DEF p, r

\* An RGB color, and a temperature.
Rgbas == [type : {"color"}, kind : {"rgba"}, c : [1..3 -> Channels], a : Channels]
Temps == [type : {"color"}, kind : {"ccta"}, c : [1..1 -> Nat], a : Channels]

\* What BlendsLikeLayers says of x over y, with how much a channel may lose.
Lower(j, k) == IF j < k THEN j ELSE k
Upper(j, k) == IF j < k THEN k ELSE j
Layers(over, x, y, loss) ==
  /\ x.a = Full => over = x
  /\ x.a = 0 /\ y.a > 0 => over = y
  /\ over.a >= x.a /\ over.a >= y.a
  /\ over.a > 0 => \A i \in 1..Len(over.c) :
       /\ over.c[i] + loss >= Lower(x.c[i], y.c[i])
       /\ over.c[i] <= Upper(x.c[i], y.c[i])

\* RGB colors blend like layers (blend_rgba).
LEMMA RgbasAreLayers ==
  ASSUME NEW x \in Rgbas, NEW y \in Rgbas
  PROVE  Layers(BlendRgba(x, y), x, y, 0)
<1> DEFINE alpha == AlphaOver(x, y)
           over == BlendRgba(x, y)
           c == [i \in 1..3 |-> Round(Weighted(x, y, i), alpha)]
           a == Round(alpha, Full)
<1>0. Full \in Nat \ {0}
  BY ColorsAssumption
<1>1. /\ x = [type |-> "color", kind |-> "rgba", c |-> x.c, a |-> x.a]
      /\ y = [type |-> "color", kind |-> "rgba", c |-> y.c, a |-> y.a]
      /\ x.a \in Channels /\ y.a \in Channels
      /\ x.c \in [1..3 -> Channels] /\ y.c \in [1..3 -> Channels]
  BY DEF Rgbas
<1>2. /\ alpha \in Nat
      /\ x.a * Full <= alpha /\ y.a * Full <= alpha
      /\ x.a = Full => alpha = Full * Full
      /\ x.a = 0 => alpha = y.a * Full
      /\ alpha = 0 => x.a = 0 /\ y.a = 0
  BY <1>1, BlendedBetween DEF AlphaOver
<1>3. ASSUME NEW i \in 1..3, NEW l \in Int, NEW u \in Int,
             l <= x.c[i], l <= y.c[i], x.c[i] <= u, y.c[i] <= u
      PROVE  Weighted(x, y, i) \in Int /\ l * alpha <= Weighted(x, y, i) /\ Weighted(x, y, i) <= u * alpha
  <2>1. x.c[i] \in Int /\ y.c[i] \in Int
    BY <1>0, <1>1 DEF Channels
  <2> QED
    BY <1>1, <1>3, <2>1, ChannelBetween DEF Weighted, AlphaOver
<1>4. CASE alpha = 0
  <2>1. over = Rgba(0, 0, 0, 0)
    BY <1>4 DEF BlendRgba, Transparent
  <2>2. over.a = 0
    BY <2>1 DEF Rgba, RgbaOf
  <2>3. x.a = 0 /\ y.a = 0
    BY <1>2, <1>4
  <2> QED
    BY <1>0, <2>2, <2>3 DEF Layers
<1>5. CASE alpha # 0
  <2>1. over = [type |-> "color", kind |-> "rgba", c |-> c, a |-> a]
    BY <1>5 DEF BlendRgba, RgbaOf
  <2>2. over.a = a /\ over.c = c /\ DOMAIN over.c = 1..3 /\ Len(over.c) = 3
    BY <2>1
  <2>3. a \in Int /\ a >= x.a /\ a >= y.a
    <3>1. \A l \in Int : l * Full <= alpha => a \in l..alpha
      <4>1. alpha <= alpha * Full
        BY <1>0, <1>2
      <4> QED
        BY <1>0, <1>2, <4>1, RoundedBetween
    <3>2. x.a \in Int /\ y.a \in Int
      BY <1>0, <1>1 DEF Channels
    <3> HIDE DEF a, alpha
    <3> QED
      BY <1>2, <3>1, <3>2
  <2>4. \A i \in 1..3 : c[i] = Round(Weighted(x, y, i), alpha) /\ x.c[i] \in Int /\ y.c[i] \in Int
    BY <1>0, <1>1 DEF Channels
  <2> HIDE DEF c, over
  <2>5. ASSUME NEW i \in 1..3
        PROVE  c[i] \in Lower(x.c[i], y.c[i])..Upper(x.c[i], y.c[i])
    <3> DEFINE l == Lower(x.c[i], y.c[i])
               u == Upper(x.c[i], y.c[i])
    <3>1. l \in Int /\ u \in Int /\ l <= x.c[i] /\ l <= y.c[i] /\ x.c[i] <= u /\ y.c[i] <= u
      BY <2>4 DEF Lower, Upper
    <3> HIDE DEF l, u
    <3>2. Weighted(x, y, i) \in Int /\ l * alpha <= Weighted(x, y, i) /\ Weighted(x, y, i) <= u * alpha
      BY <1>3, <3>1
    <3> HIDE DEF alpha
    <3>3. alpha \in Nat \ {0}
      BY <1>2, <1>5
    <3>4. Round(Weighted(x, y, i), alpha) \in l..u
      BY <3>1, <3>2, <3>3, RoundedBetween
    <3> QED
      BY <2>4, <3>4 DEF l, u
  <2>6. x.a = Full => over = x
    <3> SUFFICES ASSUME x.a = Full PROVE a = x.a /\ c = x.c
      BY <1>1, <2>1
    <3>1. a = x.a
      <4>1. alpha <= Full * Full
        BY <1>2
      <4> HIDE DEF alpha
      <4>2. a \in Full..Full
        BY <1>0, <1>2, <4>1, RoundedBetween
      <4> HIDE DEF a
      <4> QED
        BY <1>0, <4>2
    <3>2. ASSUME NEW i \in 1..3
          PROVE  c[i] = x.c[i]
      <4>1. Weighted(x, y, i) = x.c[i] * Full * Full /\ alpha = Full * Full
        BY <1>0, <1>1, <1>2, <2>4 DEF Weighted, Channels
      <4> HIDE DEF alpha
      <4>2. Weighted(x, y, i) \in Int /\ x.c[i] * alpha <= Weighted(x, y, i)
              /\ Weighted(x, y, i) <= x.c[i] * alpha /\ alpha \in Nat \ {0}
        BY <1>0, <1>2, <1>5, <2>4, <4>1
      <4> DEFINE k == x.c[i]
                 w == Weighted(x, y, i)
      <4>3. k \in Int /\ c[i] = Round(w, alpha)
        BY <2>4
      <4> HIDE DEF k, w
      <4>4. w \in Int /\ k * alpha <= w /\ w <= k * alpha /\ alpha \in Nat \ {0}
        BY <4>2 DEF k, w
      <4>5. c[i] \in k..k
        BY <4>3, <4>4, RoundedBetween
      <4> QED
        BY <4>3, <4>5 DEF k
    <3> QED
      BY <1>1, <3>1, <3>2 DEF c
  <2>7. x.a = 0 /\ y.a > 0 => over = y
    <3> SUFFICES ASSUME x.a = 0, y.a > 0 PROVE a = y.a /\ c = y.c
      BY <1>1, <2>1
    <3>0. y.a \in Int
      BY <1>0, <1>1 DEF Channels
    <3>1. a = y.a
      <4>1. alpha = y.a * Full
        BY <1>2
      <4> HIDE DEF alpha
      <4> DEFINE k == y.a
      <4>2. k \in Int /\ alpha = k * Full
        BY <3>0, <4>1
      <4> HIDE DEF k
      <4>3. k * Full \in Int /\ k * Full <= k * Full
        BY <1>0, <4>2
      <4>4. a \in k..k
        BY <1>0, <4>2, <4>3, RoundedBetween
      <4> HIDE DEF a
      <4> QED
        BY <4>2, <4>4 DEF k
    <3>2. ASSUME NEW i \in 1..3
          PROVE  c[i] = y.c[i]
      <4>0. alpha = y.a * Full
        BY <1>2
      <4>1. Weighted(x, y, i) = y.c[i] * y.a * Full /\ alpha = y.a * Full
        <5> HIDE DEF alpha
        <5>1. Weighted(x, y, i) = x.c[i] * 0 * Full + y.c[i] * y.a * (Full - 0)
          BY DEF Weighted
        <5>2. x.c[i] \in Int /\ y.c[i] \in Int
          BY <2>4
        <5> QED
          BY <1>0, <3>0, <4>0, <5>1, <5>2
      <4> HIDE DEF alpha
      <4>2. Weighted(x, y, i) \in Int /\ y.c[i] * alpha <= Weighted(x, y, i)
              /\ Weighted(x, y, i) <= y.c[i] * alpha /\ alpha \in Nat \ {0}
        BY <1>0, <1>2, <1>5, <2>4, <3>0, <4>1
      <4> DEFINE k == y.c[i]
                 w == Weighted(x, y, i)
      <4>3. k \in Int /\ c[i] = Round(w, alpha)
        BY <2>4
      <4> HIDE DEF k, w
      <4>4. w \in Int /\ k * alpha <= w /\ w <= k * alpha /\ alpha \in Nat \ {0}
        BY <4>2 DEF k, w
      <4>5. c[i] \in k..k
        BY <4>3, <4>4, RoundedBetween
      <4> QED
        BY <4>3, <4>5 DEF k
    <3> QED
      BY <1>1, <3>1, <3>2 DEF c
  <2>8. \A i \in 1..3 : c[i] \in Int /\ Lower(x.c[i], y.c[i]) \in Int /\ Upper(x.c[i], y.c[i]) \in Int
    BY <2>4, <2>5 DEF Lower, Upper
  <2> QED
    BY <2>2, <2>3, <2>5, <2>6, <2>7, <2>8 DEF Layers, over
<1> QED
  BY <1>4, <1>5

\* So do temperatures, but for the degree that is lost by truncation (blend_temps).
LEMMA TempsAreLayers ==
  ASSUME NEW x \in Temps, NEW y \in Temps
  PROVE  Layers(BlendTemps(x, y), x, y, 1)
<1> DEFINE alpha == AlphaOver(x, y)
           w == Weighted(x, y, 1)
           short == IF FallsShort /\ w % alpha = 0 /\ x.a \in 1..(Full - 1) /\ y.a > 0 THEN 1 ELSE 0
           over == BlendTemps(x, y)
           j == x.c[1]
           k == y.c[1]
<1>0. Full \in Nat \ {0}
  BY ColorsAssumption
<1>1. /\ x.a \in Channels /\ y.a \in Channels /\ x.a \in Int /\ y.a \in Int /\ j \in Nat /\ k \in Nat
      /\ x = Ccta(j, x.a) /\ y = Ccta(k, y.a)
  <2>1. /\ x = [type |-> "color", kind |-> "ccta", c |-> x.c, a |-> x.a]
        /\ y = [type |-> "color", kind |-> "ccta", c |-> y.c, a |-> y.a]
        /\ x.a \in Channels /\ y.a \in Channels
        /\ x.c \in [1..1 -> Nat] /\ y.c \in [1..1 -> Nat]
    BY DEF Temps
  <2>2. x.c = <<j>> /\ y.c = <<k>> /\ j \in Nat /\ k \in Nat
    BY <2>1
  <2>3. x.a \in Int /\ y.a \in Int
    BY <1>0, <2>1 DEF Channels
  <2> HIDE DEF j, k
  <2> QED
    BY <2>1, <2>2, <2>3 DEF Ccta
<1>2. /\ alpha \in Nat
      /\ x.a * Full <= alpha /\ y.a * Full <= alpha
      /\ x.a = Full => alpha = Full * Full
      /\ x.a = 0 => alpha = y.a * Full
      /\ alpha = 0 => x.a = 0 /\ y.a = 0
  BY <1>1, BlendedBetween DEF AlphaOver
<1>3. ASSUME NEW l \in Int, NEW u \in Int, l <= j, l <= k, j <= u, k <= u
      PROVE  w \in Int /\ l * alpha <= w /\ w <= u * alpha
  <2>1. /\ w = j * x.a * Full + k * y.a * (Full - x.a)
        /\ alpha = x.a * Full + y.a * (Full - x.a)
    BY DEF Weighted, AlphaOver
  <2>2. j \in Int /\ k \in Int
    BY <1>1
  <2> HIDE DEF j, k, w, alpha
  <2> QED
    BY <1>1, <1>3, <2>1, <2>2, ChannelBetween
<1>4. short \in {0, 1} /\ (x.a = 0 \/ x.a = Full => short = 0)
  BY <1>0, <1>1
<1>5. CASE alpha = 0
  <2>1. over = Ccta(k, 0)
    BY <1>5 DEF BlendTemps
  <2>2. over.a = 0
    BY <2>1 DEF Ccta
  <2>3. x.a = 0 /\ y.a = 0
    BY <1>2, <1>5
  <2> QED
    BY <1>0, <2>2, <2>3 DEF Layers
<1>6. CASE alpha # 0
  <2>1. over = Ccta((w \div alpha) - short, alpha \div Full)
    BY <1>6 DEF BlendTemps
  <2> HIDE DEF over, short
  <2>2. w \in Int
    <3>1. \E l, u \in Int : l <= j /\ l <= k /\ j <= u /\ k <= u
      <4>1. 0 <= j /\ 0 <= k /\ j <= j + k /\ k <= j + k /\ 0 \in Int /\ j + k \in Int
        BY <1>1
      <4> QED
        BY <4>1
    <3> HIDE DEF w, j, k
    <3> QED
      BY <1>3, <3>1
  <2> HIDE DEF alpha, w
  <2>3. alpha \in Nat \ {0}
    BY <1>2, <1>6
  <2>4. \A l, u \in Int : l * alpha <= w /\ w <= u * alpha => w \div alpha \in l..u
    BY <2>2, <2>3, QuotientBetween
  <2>5. \A l, u \in Int : l * Full <= alpha /\ alpha <= u * Full => alpha \div Full \in l..u
    BY <1>0, <2>3, QuotientBetween
  <2>6. alpha \div Full \in Int /\ x.a <= alpha \div Full /\ y.a <= alpha \div Full
    <3>1. alpha <= alpha * Full
      BY <1>0, <2>3
    <3>2. alpha \div Full \in x.a..alpha /\ alpha \div Full \in y.a..alpha
      BY <1>1, <1>2, <2>3, <2>5, <3>1
    <3> QED
      BY <1>1, <2>3, <3>2
  <2>7. /\ w \div alpha \in Int
        /\ Lower(j, k) <= w \div alpha /\ w \div alpha <= Upper(j, k)
        /\ Lower(j, k) \in Int /\ Upper(j, k) \in Int
    <3> DEFINE l == Lower(j, k)
               u == Upper(j, k)
    <3>1. l \in Int /\ u \in Int /\ l <= j /\ l <= k /\ j <= u /\ k <= u
      BY <1>1 DEF Lower, Upper
    <3> HIDE DEF l, u, j, k
    <3>2. w \div alpha \in l..u
      BY <1>3, <2>4, <3>1
    <3> QED
      BY <3>1, <3>2 DEF l, u
  <2>8. x.a = Full => over = x
    <3> SUFFICES ASSUME x.a = Full PROVE (w \div alpha) - short = j /\ alpha \div Full = x.a
      BY <1>1, <2>1
    <3>1. w = j * Full * Full
      BY <1>0, <1>1 DEF w, Weighted
    <3>2. alpha = Full * Full
      BY <1>2
    <3>3. j * alpha <= w /\ w <= j * alpha
      <4> HIDE DEF j
      <4> QED
        BY <1>0, <1>1, <3>1, <3>2
    <3> HIDE DEF j
    <3>4. w \div alpha \in j..j
      BY <1>1, <2>4, <3>3
    <3>5. alpha \div Full \in Full..Full
      <4>1. Full * Full <= alpha /\ alpha <= Full * Full
        BY <2>3, <3>2
      <4> QED
        BY <1>0, <2>5, <4>1
    <3> QED
      BY <1>0, <1>1, <1>4, <3>4, <3>5
  <2>9. x.a = 0 /\ y.a > 0 => over = y
    <3> SUFFICES ASSUME x.a = 0, y.a > 0 PROVE (w \div alpha) - short = k /\ alpha \div Full = y.a
      BY <1>1, <2>1
    <3>1. w = k * y.a * Full
      <4>1. w = j * 0 * Full + k * y.a * (Full - 0)
        BY DEF w, Weighted
      <4> HIDE DEF j, k
      <4> QED
        BY <1>0, <1>1, <4>1
    <3>2. alpha = y.a * Full
      BY <1>2
    <3> HIDE DEF j, k
    <3>3. k * alpha <= w /\ w <= k * alpha
      BY <1>0, <1>1, <3>1, <3>2
    <3>4. w \div alpha \in k..k
      BY <1>1, <2>4, <3>3
    <3>5. alpha \div Full \in y.a..y.a
      <4>1. y.a * Full <= alpha /\ alpha <= y.a * Full
        BY <2>3, <3>2
      <4> QED
        BY <1>1, <2>5, <4>1
    <3> QED
      BY <1>1, <1>4, <3>4, <3>5
  <2>10. over.a = alpha \div Full /\ over.c = <<(w \div alpha) - short>> /\ Len(over.c) = 1
         /\ over.c[1] = (w \div alpha) - short
    BY <2>1 DEF Ccta
  <2>11. over.c[1] + 1 >= Lower(j, k) /\ over.c[1] <= Upper(j, k)
    <3> HIDE DEF j, k
    <3> QED
      BY <1>4, <2>7, <2>10
  <2>12. \A i \in 1..1 : i = 1
    OBVIOUS
  <2> HIDE DEF Layers
  <2>13. over.a >= x.a /\ over.a >= y.a
    BY <1>1, <2>6, <2>10
  <2> QED
    BY <2>8, <2>9, <2>10, <2>11, <2>12, <2>13 DEF Layers, over
<1> QED
  BY <1>5, <1>6

\* Every color is one or the other, and has an RGB form.
LEMMA ColorTyped ==
  ASSUME NEW c \in Colors
  PROVE  /\ c.kind = "rgba" \/ c.kind = "ccta"
         /\ c.kind = "rgba" => c \in Rgbas
         /\ c.kind = "ccta" => c \in Temps
         /\ ToRgb(c) \in Rgbas /\ ToRgb(c).a = c.a
<1>1. CASE \E r, g, b \in Shown, a \in Channels : c = Rgba(r, g, b, a)
  <2>1. PICK r \in Shown, g \in Shown, b \in Shown, a \in Channels : c = Rgba(r, g, b, a)
    BY <1>1
  <2>2. c = [type |-> "color", kind |-> "rgba", c |-> <<r, g, b>>, a |-> a]
    BY <2>1 DEF Rgba, RgbaOf
  <2>3. <<r, g, b>> \in [1..3 -> Channels]
    BY ColorsAssumption
  <2>4. c.kind = "rgba" /\ c \in Rgbas
    BY <2>2, <2>3 DEF Rgbas
  <2> QED
    BY <2>4 DEF ToRgb
<1>2. CASE \E k \in Kelvins, a \in Channels : c = Ccta(k, a)
  <2>1. PICK k \in Kelvins, a \in Channels : c = Ccta(k, a)
    BY <1>2
  <2>2. c = [type |-> "color", kind |-> "ccta", c |-> <<k>>, a |-> a]
    BY <2>1 DEF Ccta
  <2>3. <<k>> \in [1..1 -> Nat] /\ KelvinRgb(k) \in [1..3 -> Channels]
    BY ColorsAssumption
  <2>4. c.kind = "ccta" /\ c \in Temps /\ c.c[1] = k /\ c.a = a
    BY <2>2, <2>3 DEF Temps
  <2>5. ToRgb(c) = [type |-> "color", kind |-> "rgba", c |-> KelvinRgb(k), a |-> a]
    BY <2>4 DEF ToRgb, RgbaOf
  <2> QED
    BY <2>3, <2>4, <2>5 DEF Rgbas
<1> QED
  BY <1>1, <1>2 DEF Colors

\* Whichever kinds they have, colors blend like layers.
LEMMA BlendIsRight ==
  ASSUME NEW top \in Colors, NEW bottom \in Colors
  PROVE  LET same == top.kind = bottom.kind
             x == IF same THEN top ELSE ToRgb(top)
             y == IF same THEN bottom ELSE ToRgb(bottom)
             over == Over(top, bottom)
         IN  /\ Layers(over, x, y, IF over.kind = "ccta" THEN 1 ELSE 0)
             /\ x.a = top.a /\ y.a = bottom.a
<1>1. CASE top.kind = "ccta" /\ bottom.kind = "ccta"
  <2>1. Over(top, bottom) = BlendTemps(top, bottom)
    BY <1>1 DEF Over
  <2>2. BlendTemps(top, bottom).kind = "ccta"
    BY DEF BlendTemps, Ccta
  <2>3. Layers(BlendTemps(top, bottom), top, bottom, 1)
    BY <1>1, ColorTyped, TempsAreLayers
  <2> QED
    BY <1>1, <2>1, <2>2, <2>3
<1>2. CASE ~ (top.kind = "ccta" /\ bottom.kind = "ccta")
  <2> DEFINE x == IF top.kind = bottom.kind THEN top ELSE ToRgb(top)
             y == IF top.kind = bottom.kind THEN bottom ELSE ToRgb(bottom)
  <2>1. x = ToRgb(top) /\ y = ToRgb(bottom)
    BY <1>2, ColorTyped DEF ToRgb
  <2>2. Over(top, bottom) = BlendRgba(x, y)
    BY <1>2, <2>1 DEF Over
  <2>3. BlendRgba(x, y).kind = "rgba"
    BY DEF BlendRgba, Transparent, Rgba, RgbaOf
  <2>4. x \in Rgbas /\ y \in Rgbas /\ x.a = top.a /\ y.a = bottom.a
    BY <2>1, ColorTyped
  <2> HIDE DEF x, y
  <2>5. Layers(BlendRgba(x, y), x, y, 0)
    BY <2>4, RgbasAreLayers
  <2>6. Layers(Over(top, bottom), x, y, IF Over(top, bottom).kind = "ccta" THEN 1 ELSE 0)
    BY <2>2, <2>3, <2>5
  <2> QED
    BY <2>4, <2>6 DEF x, y
<1> QED
  BY <1>1, <1>2

\* A blend is one of layers, for channels of any width and any way to show a
\* temperature (eval_as_blend_expr, blend_temps, blend_rgba).
THEOREM BlendsAreLayers == CallSpec => []BlendsLikeLayers
<1>1. CallsTyped => BlendsLikeLayers
  <2> SUFFICES ASSUME fn = "blend", arg \in Colors \X Colors PROVE BlendsLikeLayers
    BY DEF CallsTyped, BlendsLikeLayers
  <2>1. PICK top \in Colors, bottom \in Colors : arg = <<top, bottom>>
    OBVIOUS
  <2> DEFINE x == IF top.kind = bottom.kind THEN top ELSE ToRgb(top)
             y == IF top.kind = bottom.kind THEN bottom ELSE ToRgb(bottom)
             over == Over(top, bottom)
  <2>2. /\ Layers(over, x, y, IF over.kind = "ccta" THEN 1 ELSE 0)
        /\ x.a = top.a /\ y.a = bottom.a
    BY BlendIsRight
  <2>3. arg[1] = top /\ arg[2] = bottom
    BY <2>1
  <2> QED
    BY <2>2, <2>3 DEF BlendsLikeLayers, Layers, Lower, Upper
<1> QED
  BY <1>1, CallTyped, PTL
=============================================================================
