-------------------------- MODULE DriverParameters --------------------------
(***************************************************************************)
(* The configurations of the drivers, from their config.rs and the         *)
(* constants of their code, and the bounds of their models.                *)
(***************************************************************************)
EXTENDS Integers, Sequences

CONSTANTS
  Millis,      \* a timer's length, a cycle's period
  Limit,       \* the greatest count of a counter (i32::MAX)
  Enabled,     \* the values of a cycle
  Disabled,    \* the output of a cycle that is not running
  Data,        \* what an integrator's data device is set to
  Bound,       \* bounds its sum
  Initial,     \* the `initial` of each memory device, in the order of the configuration
  Settings,    \* what they are set to, and what they may have had before
  QueueSize,   \* bounds the settings that wait for one of them
  Short,       \* a run of the pump that is not longer is a glitch (500 ms)
  Gpm,         \* what the pump moves
  LastStamp,   \* bounds its time stamps
  Dry,         \* the samples of a station in ten hours
  Deep,        \* bounds what falls in a day and in a rainfall
  Faults,      \* bounds the failures of an NTP server's socket and the packets
               \* that are lost or late or overtake another
  BufferSize,  \* of the socket, in packets
  Indices,     \* what the index of a map is set to, and where its ranges start and end
  Ranges,      \* the most ranges of a map
  Absent       \* a range has no `end`, a map no index

ASSUME MillisAssumption == Millis \in Nat \ {0}
ASSUME LimitAssumption == Limit \in Nat \ {0}
ASSUME EnabledAssumption == Len(Enabled) \in Nat \ {0}
ASSUME IntegrateAssumption == Data \subseteq Int /\ Bound \in Nat
ASSUME MemoryAssumption ==
  DOMAIN Initial \subseteq Nat /\ <<>> \notin Settings /\ QueueSize \in Nat
ASSUME SumpAssumption == Short \in Nat /\ Gpm \in Nat /\ LastStamp \in Nat
ASSUME RainfallAssumption == Dry \in Nat /\ Deep \in Nat
ASSUME MapAssumption == Indices \subseteq Int /\ Ranges \in Nat /\ Absent \notin Indices

\* A host's information takes up to two packets.
ASSUME NtpAssumption == Faults \in Nat /\ BufferSize \in Nat \ {0, 1}
=============================================================================
