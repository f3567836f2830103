SPECIFICATION FairSpec
CONSTANTS
  k = k
  hello = hello
  bye = bye
  later = later
  NoKey = NoKey
  Node = {1, 2, 3}
  Text = {hello, bye}
  LongText = {}
  Key = {k}
  Groups <- WholeChannel
  EdgeKey <- FriendKeys
  Drafts <- TwoWriters
  MaxRetries = 3
  Patient = FALSE
  Lossy = FALSE
  Timely = TRUE
  MaxRound = 2
PROPERTIES
  LoserRetries
CHECK_DEADLOCK FALSE
