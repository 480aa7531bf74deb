---------------------------- MODULE MemoryCells ----------------------------
(***************************************************************************)
(* The memory driver (drmemd/driver/memory): devices that keep what they   *)
(* are set to, each of one type.  All of them are served by one task.      *)
(***************************************************************************)
EXTENDS DriverParameters

\* A value is <<type, _>>.
SameType(v, w) == v[1] = w[1]

Cells == DOMAIN Initial
Nothing == <<>>

VARIABLES
  running,    \* the devices are registered
  stored,     \* the last value of each device in the backend, or Nothing
  queue,      \* the settings that wait
  held,       \* what get_next returned and is not yet reported
  replied     \* the value with which a client was last answered

vars == <<running, stored, queue, held, replied>>

Init ==
  /\ running = FALSE
  /\ stored \in [Cells -> Settings \cup {Nothing}]
  /\ queue = [c \in Cells |-> <<>>]
  /\ held = Nothing
  /\ replied = stored

\* Defect: any previous value is kept.
KeepsAny(c) == stored[c] # Nothing

\* The previous value is of the configured type.
Keeps(c) == stored[c] # Nothing /\ SameType(stored[c], Initial[c])

\* register_devices: another previous value is replaced by the initial one.
Register ==
  /\ ~running /\ running' = TRUE
  /\ stored' = [c \in Cells |-> IF Keeps(c) THEN stored[c] ELSE Initial[c]]
  /\ replied' = stored'
  /\ UNCHANGED <<queue, held>>

\* A client sets a device.
Set(c, v) ==
  /\ running /\ Len(queue[c]) < QueueSize
  /\ queue' = [queue EXCEPT ![c] = Append(@, v)]
  /\ UNCHANGED <<running, stored, held, replied>>

\* The position of the first setting of c with the right type; there may be none.
Good(c) == {i \in DOMAIN queue[c] : SameType(queue[c][i], Initial[c])}
FirstGood(c) == CHOOSE i \in Good(c) : \A j \in Good(c) : i <= j

\* get_next polls the devices in their order.  It refuses every setting of the
\* wrong type that it meets and returns the first other one.
GetNext ==
  /\ running /\ held = Nothing
  /\ \E c \in Cells : queue[c] # <<>>
  /\ LET ready == {c \in Cells : Good(c) # {}}
         next == CHOOSE c \in ready : \A d \in ready : c <= d
     IN IF ready = {}
        THEN queue' = [c \in Cells |-> <<>>] /\ UNCHANGED <<held, replied>>
        ELSE /\ queue' = [c \in Cells |->
                  IF c < next THEN <<>>
                  ELSE IF c = next THEN SubSeq(queue[c], FirstGood(c) + 1, Len(queue[c]))
                  ELSE queue[c]]
             /\ held' = <<next, queue[next][FirstGood(next)]>>
             /\ replied' = [replied EXCEPT ![next] = held'[2]]
  /\ UNCHANGED <<running, stored>>

\* run reports it.
ReportUpdate ==
  /\ running /\ held # Nothing
  /\ stored' = [stored EXCEPT ![held[1]] = held[2]]
  /\ held' = Nothing
  /\ UNCHANGED <<running, queue, replied>>

\* DrMem stops: a setting that was acknowledged may not be stored.
Stops ==
  /\ running /\ running' = FALSE
  /\ queue' = [c \in Cells |-> <<>>] /\ held' = Nothing
  /\ replied' = stored
  /\ UNCHANGED stored

Next ==
  \/ Register
  \/ \E c \in Cells, v \in Settings : Set(c, v)
  \/ GetNext
  \/ ReportUpdate
  \/ Stops

Spec == Init /\ [][Next]_vars

-----------------------------------------------------------------------------
(* Properties. *)

\* While the driver runs each device has the type it was configured with,
\* whatever it had before and whatever it is set to, and the value with which
\* its last client was answered, unless that one is being reported.
KeepsLastSetting ==
  running => \A c \in Cells :
    /\ SameType(stored[c], Initial[c])
    /\ (held # Nothing /\ held[1] = c) \/ stored[c] = replied[c]
=============================================================================
