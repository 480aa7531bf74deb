SPECIFICATION HueSpec
CONSTANTS
  Millis = 3
  Limit = 3
  Enabled <- MCEnabled
  Disabled = low
  Other = high
  Data <- MCData
  Bound = 4
  Initial <- MCInitial
  Settings <- MCSettings
  QueueSize = 2
  Short = 1
  Gpm = 3
  LastStamp = 7
  Dry = 2
  Deep = 4
  BufferSize = 4
  Indices = {0, 1, 2, 3}
  Ranges = 3
  Absent = none
  Faults = 1
  red = red
  dark = dark
  blue = blue
  bright = bright
  here = here
  there = there
  Values = {0, 1, bright, red, dark, blue}
  WrongType = wrong
  NoValue = none
  Clients = {client}
  NoClient = nobody
  ChanSize = 1
  Timed = TRUE
  OverrideDuration = 1
  Levels = {0, 1, bright}
  Colors = {red, dark, blue}
  Points = {here, there}
  Clamp <- MCClamp
  CieXy <- MCCieXy
  Rgba <- MCRgba
PROPERTY SettingsTaken
