SPECIFICATION Spec
CONSTANTS
  k = k
  hello = hello
  bye = bye
  later = later
  NoKey = NoKey
  Node = {1, 2}
  Text = {hello, bye}
  LongText = {}
  Key = {k}
  Groups <- WholeChannel
  EdgeKey <- FriendKeys
  Drafts <- Eager
  MaxRetries = 3
  Patient = FALSE
  Lossy = FALSE
  Timely = TRUE
  MaxRound = 2
PROPERTIES
  QueuedUntilDelivered
CHECK_DEADLOCK FALSE
