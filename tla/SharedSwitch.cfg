SPECIFICATION FairSpec
CONSTANTS
  low = low
  high = high
  Values = {low, high}
  WrongType = wrong
  NoValue = none
  Clients = {c1}
  NoClient = nobody
  ChanSize = 1
  Timed = TRUE
  OverrideDuration = 1
  Clip <- Exact
INVARIANT ErrorIsShown
PROPERTIES ImplementsDevice Converges
