SPECIFICATION AloneSpec
CONSTANTS
  Values = {v1, v2, v3}
  WrongType = wrong
  NoValue = none
  Clients = {c1, c2, c3}
  NoClient = nobody
  ChanSize = 2
  Timed = TRUE
  OverrideDuration = 2
  NumDrivers = 2
  Owner <- TwinOwner
  Wants <- TwinWants
  Devices = {"x"}
  ReadOnly = {}
  Requesters = {c1}
  NoDriver = none
  NoRequester = nobody
PROPERTY RegisteredIsInUse
