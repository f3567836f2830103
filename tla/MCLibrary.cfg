SPECIFICATION LibrarySpec
CONSTANTS
  alice = alice
  bob = bob
  carol = carol
  plan = plan
  k1 = k1
  k2 = k2
  a = a
  b = b
  o1 = o1
  o2 = o2
  c1 = c1
  n1 = n1
  me = me
  p = p
  q = q
  Uid = {alice, bob, carol}
  Founder = alice
  Topic = {plan}
  MaxJoins = 4
  OwnKey = {k1, k2}
  PeerKey = {a, b}
  Missing = Missing
  SigLevel = {1, 2}
  ManualLevel = {2}
  MaxSignatures = 2
  MaxEdits = 2
  MaxStops = 1
  MaxFrames = 3
  MaxTurns = 1
  Owner = {o1, o2}
  Client = {c1}
  ServiceName = {n1}
  FirstPort = 1
  LastPort = 1
  MaxServices = 3
  MaxAccepts = 3
  Peer = {me, p, q}
  Me = me
  MaxRounds = 3
  MaxReports = 12
  n2 = n2
  n3 = n3
  n4 = n4
  Keeper = {n2, n3, n4}
  Stranger = {}
  SocketAddr = {1}
  PublicKey = {1}
  Confidence = {5}
  KeeperTrust <- TrustInARow
  AgeModulus = 8
  MaxAgeSecs = 1
  MaxNow = 1
  MaxEntered = 2
  MaxAnswers = 2
SYMMETRY Symmetry
CHECK_DEADLOCK FALSE
INVARIANTS
  LibraryTypeOK
  LeaderIsMember
  InvitesAreForOutsiders
  CacheIsLeast
  TrustHasPath
  OwnKeyRecognised
  ReadsInOrder
  NextFrameOpens
  ClosedIsUnreachable
  NoMaliciousMember
  WriteBackIsCurrent
  OneVerdict
  GossipFollowsTrust
PROPERTIES
  LevelsOnlyGrow
  PortsKept
