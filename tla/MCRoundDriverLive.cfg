SPECIFICATION FairSpec
CONSTANTS
  k = k
  hello = hello
  bye = bye
  later = later
  NoKey = NoKey
  Node = {1, 2}
  Text = {hello, bye, later}
  LongText = {}
  Key = {k}
  Groups <- WholeChannel
  EdgeKey <- FriendKeys
  Drafts <- Chatty
  MaxRetries = 3
  Patient = TRUE
  Lossy = FALSE
  Timely = TRUE
  MaxRound = 6
PROPERTIES
  EveryMessageDelivered
  LoserRetries
CHECK_DEADLOCK FALSE
