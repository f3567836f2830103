SPECIFICATION Spec
CONSTANTS
  k = k
  hello = hello
  bye = bye
  later = later
  NoKey = NoKey
  Node = {1, 2}
  Text = {hello, bye}
  LongText = {}
  Key = {k}
  Groups <- WholeChannel
  EdgeKey <- FriendKeys
  Drafts <- OneWriter
  MaxRetries = 3
  Patient = FALSE
  Lossy = FALSE
  Timely = FALSE
  MaxRound = 5
INVARIANTS
  BoundedRetries
CHECK_DEADLOCK FALSE
