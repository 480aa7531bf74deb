--------------------------- MODULE DatesAndColors ---------------------------
(***************************************************************************)
(* Calls of the logic language's functions on times and colors: a date     *)
(* whose fields are taken, two colors that are blended.                    *)
(***************************************************************************)
EXTENDS Calendar, Color, Sequences, FiniteSets

CONSTANTS
  Years,     \* of the dates
  Shown,     \* values of the channels of an RGB color
  Kelvins    \* temperatures

Channels == 0..Full

ASSUME YearsAssumption == Years \subseteq Int
ASSUME ColorsAssumption ==
  /\ Full \in Nat \ {0}
  /\ Shown \subseteq Channels /\ Kelvins \subseteq Nat
  /\ \A k \in Kelvins : KelvinRgb(k) \in [1..3 -> Channels]

VARIABLES fn, arg

calls == <<fn, arg>>

At(y, m, d, h, mi, s) ==
  [year |-> y, month |-> m, day |-> d, hour |-> h, minute |-> mi, second |-> s]

ValidDate(t) == t.day <= LastDay(t.month, t.year)
Dates == {t \in {At(y, m, d, 0, 0, 0) : y \in Years, m \in 1..12, d \in 1..31} : ValidDate(t)}

Colors ==
  {Rgba(r, g, b, a) : r, g, b \in Shown, a \in Channels} \union {Ccta(k, a) : k \in Kelvins, a \in Channels}

NoCall == fn = "none" /\ arg = <<>>

Call(f, args) == fn = "none" /\ fn' = f /\ arg' \in args
Return == fn # "none" /\ fn' = "none" /\ arg' = <<>>

NextCall ==
  \/ Call("project", Dates)
  \/ Call("blend", Colors \X Colors)
  \/ Return

CallSpec == NoCall /\ [][NextCall]_calls

-----------------------------------------------------------------------------
(* Properties. *)

\* Three fields are what the comment of compile.rs (lines 25-28 and 38-41) says: DOY goes
\* from 0 to 364 and ignores leap days, SOM and EOM count the month's days that
\* share the weekday.  LN_GRAMMAR.md says otherwise of DOY: 0-365.
FieldsAreRight ==
  fn = "project" =>
    /\ Project("DOY", arg) = DayOfCommonYear(arg) /\ Project("DOY", arg) \in 0..364
    /\ Project("SOM", arg) = Cardinality({d \in SameWeekday(arg) : d <= arg.day})
    /\ Project("EOM", arg) = Cardinality({d \in SameWeekday(arg) : d >= arg.day})

\* An opaque color hides what is under it, a transparent one changes nothing, a
\* blend is at least as opaque as each of the two, and its channels lie between
\* theirs, but for the degree that truncating a temperature may cost.
BlendsLikeLayers ==
  fn = "blend" =>
    LET top == arg[1] bottom == arg[2] over == Over(top, bottom)
        same == top.kind = bottom.kind
        x == IF same THEN top ELSE ToRgb(top)
        y == IF same THEN bottom ELSE ToRgb(bottom)
    IN  /\ top.a = Full => over = x
        /\ top.a = 0 /\ bottom.a > 0 => over = y
        /\ over.a >= top.a /\ over.a >= bottom.a
        /\ over.a > 0 => \A i \in 1..Len(over.c) :
             /\ over.c[i] + (IF over.kind = "ccta" THEN 1 ELSE 0) >= (IF x.c[i] < y.c[i] THEN x.c[i] ELSE y.c[i])
             /\ over.c[i] <= (IF x.c[i] < y.c[i] THEN y.c[i] ELSE x.c[i])
=============================================================================
