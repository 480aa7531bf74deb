-------------------------------- MODULE Ntp --------------------------------
(***************************************************************************)
(* The NTP driver (drivers/drmem-drv-ntp) and the UDP socket it uses.      *)
(* Each poll asks the daemon for the host it is synced to, then for what   *)
(* it knows of that host.  A reply is whatever arrives next: it is not     *)
(* compared with the request.                                              *)
(***************************************************************************)
EXTENDS DriverParameters, SequencesExt

\* What the daemon knows of the host it is synced to, or that there is none.
None == 0
Infos == {1, 2}

\* server::Info::bad_value.
Unmatched == 3

VARIABLES
  server,   \* the daemon's own state
  wire,     \* the packets that the driver has not read
  phase,    \* "waiting" for the interval, or for a packet: "synced", "host"
  got,      \* the fragments of the host's information that have been read
  info,     \* what was reported last
  state,    \* the device
  source,   \* the devices of the host, its offset and its delay
  answer,   \* what the daemon answered in this poll
  faults

vars == <<server, wire, phase, got, info, state, source, answer, faults>>

Init ==
  /\ server \in Infos \cup {None}
  /\ wire = <<>> /\ phase = "waiting" /\ got = 0
  /\ info = Unmatched /\ state = FALSE /\ source = Unmatched
  /\ answer = None /\ faults = Faults

-----------------------------------------------------------------------------
(* The daemon answers at once.                                             *)

Status(host) == [kind |-> "status", part |-> 0, more |-> FALSE, info |-> host]
Fragment(i, more) == [kind |-> "info", part |-> i, more |-> more, info |-> server]

\* What it knows of a host fits one packet or takes two.
HostReplies ==
  IF server = None THEN {<<Fragment(0, FALSE)>>}
  ELSE {<<Fragment(0, FALSE)>>, <<Fragment(0, TRUE), Fragment(1, FALSE)>>}

\* What does not fit the socket's buffer is lost.
Arrive(rest, packets) ==
  LET all == rest \o packets IN
  wire' = SubSeq(all, 1, IF Len(all) < BufferSize THEN Len(all) ELSE BufferSize)

-----------------------------------------------------------------------------
(* The driver.                                                             *)

\* The interval: get_synced_host sends its request.
AskForSynced ==
  /\ phase = "waiting"
  /\ phase' = "synced"
  /\ Arrive(wire, <<Status(server)>>)
  /\ answer' = server
  /\ UNCHANGED <<server, got, info, state, source, faults>>

\* Defect: what was reported before is kept.
GiveUpQuietly ==
  /\ phase' = "waiting" /\ got' = 0
  /\ state' = (state /\ info = None)
  /\ UNCHANGED <<info, source>>

\* There is no synced host, or no information of it.
GiveUp ==
  /\ phase' = "waiting" /\ got' = 0
  /\ info' = None
  /\ state' = (state /\ info = None)
  /\ UNCHANGED source

\* The information of the host is reported if it is not what it was.
Report(new) ==
  /\ phase' = "waiting" /\ got' = 0
  /\ info' = new
  /\ IF new = info THEN UNCHANGED <<state, source>> ELSE state' = TRUE /\ source' = new

\* get_host_info sends its request; the daemon may have lost the host by then.
AskForHost ==
  /\ phase' = "host" /\ got' = 0
  /\ UNCHANGED <<info, state, source>>
  /\ \E r \in HostReplies : Arrive(Tail(wire), r)
  /\ answer' = server

\* The first packet is taken for the status.  In the text of a host's
\* information any word may look like that of a synced host.
ReadStatus ==
  /\ phase = "synced" /\ wire # <<>>
  /\ \/ Head(wire).kind = "status" /\ Head(wire).info = None
        /\ GiveUp /\ wire' = Tail(wire) /\ UNCHANGED answer
     \/ Head(wire).kind = "status" /\ Head(wire).info # None /\ AskForHost
     \/ Head(wire).kind = "info" /\ AskForHost
     \/ Head(wire).kind = "info" /\ GiveUp /\ wire' = Tail(wire) /\ UNCHANGED answer
  /\ UNCHANGED <<server, faults>>

\* Any packet is taken for the next fragment: one at another offset ends the
\* poll, and so does a last one that does not decode.
ReadHost ==
  /\ phase = "host" /\ wire # <<>>
  /\ wire' = Tail(wire)
  /\ LET m == Head(wire) IN
     IF m.part # got THEN GiveUp
     ELSE IF m.more THEN got' = got + 1 /\ UNCHANGED <<phase, info, state, source>>
     ELSE IF m.kind = "status" \/ m.info = None THEN GiveUp
     ELSE Report(m.info)
  /\ UNCHANGED <<server, answer, faults>>

\* A second has passed.  Only the first request is given up.
TimeOut ==
  /\ phase = "synced"
  /\ \/ wire = <<>> /\ UNCHANGED faults
     \/ wire # <<>> /\ faults > 0 /\ faults' = faults - 1
  /\ GiveUp
  /\ UNCHANGED <<server, wire, answer>>

\* Sending or receiving fails, or a packet is read that is too short or of a
\* wrong length.
SocketFails ==
  /\ phase # "waiting"
  /\ faults > 0 /\ faults' = faults - 1
  /\ \/ UNCHANGED wire
     \/ wire # <<>> /\ wire' = Tail(wire)
  /\ GiveUp
  /\ UNCHANGED <<server, answer>>

-----------------------------------------------------------------------------
(* The world.                                                              *)

\* The daemon is synced to another host, or no more.
ServerChanges ==
  /\ server' \in (Infos \cup {None}) \ {server}
  /\ UNCHANGED <<wire, phase, got, info, state, source, answer, faults>>

\* A packet is lost, or is overtaken by the next one.
Lose ==
  /\ faults > 0 /\ faults' = faults - 1
  /\ \/ \E i \in DOMAIN wire : wire' = RemoveAt(wire, i)
     \/ \E i \in 1..(Len(wire) - 1) : wire' = [wire EXCEPT ![i] = wire[i + 1], ![i + 1] = wire[i]]
  /\ UNCHANGED <<server, phase, got, info, state, source, answer>>

Reads == ReadStatus \/ ReadHost

Next == AskForSynced \/ Reads \/ TimeOut \/ SocketFails \/ ServerChanges \/ Lose

Fairness == WF_vars(AskForSynced) /\ WF_vars(Reads) /\ WF_vars(TimeOut /\ wire = <<>>)

Spec == Init /\ [][Next]_vars /\ Fairness

-----------------------------------------------------------------------------
(* Properties. *)

\* While no packet is lost, late or out of order, the devices show after every
\* poll what the daemon answered in it, although only changes are reported and
\* a host may be lost and found again as it was.
FollowsServer ==
  faults = Faults /\ phase = "waiting" /\ info # Unmatched =>
    /\ state = (answer # None)
    /\ state => source = answer

\* "`state`: set to `true` when the system is sync-ed with a time server", for
\* a server that stays so.  One lost or late packet is enough to break it: a
\* reply is not matched with its request, and the second wait has no end.
ShowsSync == <>[](server # None) => []<>state
=============================================================================
