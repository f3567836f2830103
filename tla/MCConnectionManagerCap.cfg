SPECIFICATION Spec
CONSTANTS
  A = A
  B = B
  Node = {A, B}
  Conn <- Crossing
  Known <- OneKnows
  MaxSlots = 1
  QueueCap = 1
  InboxCap = 1
  Faults = {}
  MaxFrames = 1
INVARIANTS
  GlobalCap
CHECK_DEADLOCK FALSE
