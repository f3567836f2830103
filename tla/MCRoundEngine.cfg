SPECIFICATION Spec
CONSTANTS
  A = A
  B = B
  C = C
  k = k
  hello = hello
  bye = bye
  long = long
  NoKey = NoKey
  Node <- MCNode
  Text = {hello, bye}
  LongText = {}
  Key = {k}
  Groups <- MCGroupsMixed
  Leaders = {A, B}
  UnverifiedBy = {}
  KeyRings <- MCKeyRingsMixed
  Lossy = TRUE
  MaxRound = 1
INVARIANTS
  TypeOK
  NoForgedText
  OneSharePerRound
  RoundAgreement
  AtMostOncePerQueueing
CHECK_DEADLOCK FALSE
