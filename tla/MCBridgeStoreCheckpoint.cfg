SPECIFICATION Spec
CONSTANTS
  me = me
  nick = nick
  bob = bob
  carol = carol
  main = main
  plan = plan
  NoTopic = NoTopic
  Uid = {me, nick, bob, carol}
  Channel = {main}
  Topic = {NoTopic, plan}
  Me = me
  Calls <- FriendCalls
  CheckpointOps = 2
  Faults = {}
  MaxCalls = 3
  MaxCrashes = 2
INVARIANTS
  Durable
CHECK_DEADLOCK FALSE
