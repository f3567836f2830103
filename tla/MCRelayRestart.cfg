SPECIFICATION Spec
CONSTANTS
  A = A
  B = B
  C = C
  D = D
  Node = {A, B, C, D}
  Route <- ViaB
  Links <- Line
  LateLinks = {}
  KnownKeys <- OnRecord
  Drafts <- FromA
  MaxHops = 2
  MaxAge = 2
  RateWindow = 2
  MaxPerWindow = 2
  MaxTracked = 9
  MaxPins = 9
  MaxSends = 2
  MaxClock = 0
  MaxStarts = 1
INVARIANTS
  RefusedWereSeen
CHECK_DEADLOCK FALSE
