SPECIFICATION Spec
CONSTANTS
  A = A
  B = B
  C = C
  D = D
  Node = {A, B, C, D}
  Route <- Circular
  Links <- Chain
  LateLinks <- Shortcut
  KnownKeys <- OnRecord
  Drafts <- FromA
  MaxHops = 3
  MaxAge = 1
  RateWindow = 2
  MaxPerWindow = 1
  MaxTracked = 9
  MaxPins = 9
  MaxSends = 4
  MaxClock = 4
  MaxStarts = 0
INVARIANTS
  RateBounded
CHECK_DEADLOCK FALSE
