SPECIFICATION StorageSpec
CONSTANTS
  Reporters = {r1, r2}
  Monitors = {m1}
  ChanSize = 2
  MaxTime = 3
  MaxReadings = 4
  Drivers = {d1}
  None = None
  Requests <- MCRequests
  MaxHistory = 2
  Span = 3
  MaxMs = 3
  MaxLen = 4
  Alphanumeric <- MCAlphanumeric
  Bad = Bad
  Chars <- MCChars
  Patterns <- MCPatterns
  Labels <- MCLabels
  Queries <- MCQueries
  Devices <- MCDevices
  Paths <- MCPaths
  Bases <- MCBases
  Byte = 4
  Hex = 2
  Numbers <- MCNumbers
  Floats = {0}
  Texts <- MCTexts
  Shades <- MCShades
  Kelvins = {0, 100, 150, 275, 399, 400}
  Lists <- MCLists
  Strings <- MCStrings
INVARIANT CurrentGiven
CHECK_DEADLOCK FALSE
