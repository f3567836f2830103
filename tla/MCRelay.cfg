SPECIFICATION Spec
CONSTANTS
  A = A
  B = B
  C = C
  D = D
  Node = {A, B, C, D}
  Route <- Circular
  Links <- Chain
  LateLinks <- Shortcut
  KnownKeys <- OnRecord
  Drafts <- FromBoth
  MaxHops = 3
  MaxAge = 0
  RateWindow = 2
  MaxPerWindow = 2
  MaxTracked = 9
  MaxPins = 9
  MaxSends = 3
  MaxClock = 1
  MaxStarts = 1
INVARIANTS
  TypeOK
  ForwardsOnce
CHECK_DEADLOCK FALSE
