SPECIFICATION Spec
CONSTANTS
  me = me
  nick = nick
  bob = bob
  carol = carol
  main = main
  plan = plan
  NoTopic = NoTopic
  Uid = {me, nick, bob, carol}
  Channel = {main}
  Topic = {NoTopic, plan}
  Me = me
  Calls <- InviteCalls
  CheckpointOps = 100
  Faults = {"gap"}
  MaxCalls = 4
  MaxCrashes = 3
PROPERTIES
  ImplementsDurableState
CHECK_DEADLOCK FALSE
