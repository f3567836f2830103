SPECIFICATION Spec
CONSTANTS
  A = A
  B = B
  Node = {A, B}
  Conn <- Reconnect
  Known <- OneKnows
  MaxSlots = 1
  QueueCap = 1
  InboxCap = 1
  Faults = {"reject", "break", "idle"}
  MaxFrames = 1
INVARIANTS
  TypeOK
  SlotsExact
  NewestIsActive
CHECK_DEADLOCK FALSE
