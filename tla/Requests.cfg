SPECIFICATION RequestSpec
CONSTANTS
  Values = {v1, v2, v3}
  WrongType = wrong
  NoValue = none
  Clients = {c1, c2, c3}
  NoClient = nobody
  ChanSize = 2
  Timed = TRUE
  OverrideDuration = 2
  NumDrivers = 3
  Owner <- MixedOwner
  Wants <- MixedWants
  Devices = {"x", "y", "z"}
  ReadOnly = {"z"}
  Requesters = {c1, c2}
  NoDriver = none
  NoRequester = nobody
INVARIANTS BackendInStep BackendShowsHardware RequestsAccounted RightReply NoWaitCycle WaitsSomewhere HeldChannelIsCurrent
PROPERTIES TargetKept OverrideEnds  Answered
