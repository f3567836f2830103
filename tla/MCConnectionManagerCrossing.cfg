SPECIFICATION FairSpec
CONSTANTS
  A = A
  B = B
  Node = {A, B}
  Conn <- Crossing
  Known <- OneKnows
  MaxSlots = 2
  QueueCap = 1
  InboxCap = 1
  Faults = {}
  MaxFrames = 0
PROPERTIES
  StaysConnected
CHECK_DEADLOCK FALSE
