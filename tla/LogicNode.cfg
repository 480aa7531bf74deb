SPECIFICATION LogicSpec
CONSTANTS
  In1 = x
  In2 = y
  Def1 = d
  Out1 = a
  Out2 = b
  Vars <- MCVars
  Defs = {d}
  Outputs = {a, b}
  NumExprs = 2
  Target <- OneEach
  Value = {TRUE, FALSE}
  None = none
  Eval <- MCEval
  UsesTime = TRUE
  UsesSolar = TRUE
  Unit = 1
  Period = 2
  Day = 4
  Suns = 1
  SunCapacity = 1
  IntMax = 31
  Full = 4
  KelvinRgb <- MCKelvinRgb
  FallsShort = TRUE
  Years = {1900, 2000, 2023, 2024}
  Shown = {0, 3, 4}
  Kelvins = {20, 61, 70}
  MaxDepth = 2
INVARIANTS
  Settled
  TimeIsRight
  RightOutput
  OptimizedComputesTheSame
  WatchedFieldSuffices
  FieldsAreRight
  BlendsLikeLayers
PROPERTY ReadingsUsed
