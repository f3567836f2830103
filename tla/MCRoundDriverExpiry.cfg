SPECIFICATION Spec
CONSTANTS
  k = k
  hello = hello
  bye = bye
  later = later
  NoKey = NoKey
  Node = {1, 2}
  Text = {hello, bye}
  LongText = {}
  Key = {k}
  Groups <- WholeChannel
  EdgeKey <- FriendKeys
  Drafts <- TwoWriters
  MaxRetries = 3
  Patient = FALSE
  Lossy = TRUE
  Timely = FALSE
  MaxRound = 4
INVARIANTS
  TypeOK
  LowestUidWins
  OneSharePerRound
  NoDuplicateDelivery
CHECK_DEADLOCK FALSE
