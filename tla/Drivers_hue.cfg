SPECIFICATION MCSpec
CONSTANTS
  Millis = 3
  Limit = 3
  Enabled <- MCEnabled
  Disabled = low
  Other = high
  Data <- MCData
  Bound = 4
  Initial <- MCInitial
  Settings <- MCSettings
  QueueSize = 2
  Short = 1
  Gpm = 3
  LastStamp = 7
  Dry = 2
  Deep = 4
  BufferSize = 4
  Indices = {0, 1, 2, 3}
  Ranges = 3
  Absent = none
  Faults = 0
  red = red
  dark = dark
  blue = blue
  bright = bright
  here = here
  there = there
  Values = {0, 1, red, dark, blue}
  WrongType = wrong
  NoValue = none
  Clients = {client}
  NoClient = nobody
  ChanSize = 1
  Timed = FALSE
  OverrideDuration = 1
  Levels = {0, 1}
  Colors = {red, dark, blue}
  Points = {here, there}
  Clamp <- MCClamp
  CieXy <- MCCieXy
  Rgba <- MCRgba
INVARIANT OverrideHolds
