SPECIFICATION Spec
CONSTANTS
  me = me
  nick = nick
  bob = bob
  carol = carol
  main = main
  plan = plan
  NoTopic = NoTopic
  Uid = {me, nick, bob, carol}
  Channel = {main}
  Topic = {NoTopic, plan}
  Me = me
  Calls <- AllCalls
  CheckpointOps = 100
  Faults = {"rename"}
  MaxCalls = 4
  MaxCrashes = 2
INVARIANTS
  TypeOK
  Durable
PROPERTIES
  ImplementsDurableState
CHECK_DEADLOCK FALSE
