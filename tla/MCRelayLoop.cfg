SPECIFICATION FairSpec
CONSTANTS
  A = A
  B = B
  C = C
  D = D
  Node = {A, B, C, D}
  Route <- Circular
  Links <- Chain
  LateLinks <- Shortcut
  KnownKeys <- OnRecord
  Drafts <- FromBoth
  MaxHops = 3
  MaxAge = 2
  RateWindow = 2
  MaxPerWindow = 2
  MaxTracked = 1
  MaxPins = 1
  MaxSends = 3
  MaxClock = 0
  MaxStarts = 0
PROPERTIES
  RelaysSettle
CHECK_DEADLOCK FALSE
