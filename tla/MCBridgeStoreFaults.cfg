SPECIFICATION Spec
CONSTANTS
  me = me
  nick = nick
  bob = bob
  carol = carol
  main = main
  plan = plan
  NoTopic = NoTopic
  Uid = {me, nick, bob, carol}
  Channel = {main}
  Topic = {NoTopic, plan}
  Me = me
  Calls <- AllCalls
  CheckpointOps = 2
  Faults = {"timer", "disk", "torn", "gap", "rename", "silent"}
  MaxCalls = 3
  MaxCrashes = 2
PROPERTIES
  CheckpointIsMemory
CHECK_DEADLOCK FALSE
