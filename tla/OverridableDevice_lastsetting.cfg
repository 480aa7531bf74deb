SPECIFICATION Spec
CONSTANTS
  Values = {v1, v2, v3}
  WrongType = wrong
  NoValue = none
  Clients = {c1}
  NoClient = nobody
  ChanSize = 1
  Timed = TRUE
  OverrideDuration = 1
PROPERTIES LastSettingKept
