SPECIFICATION FairSpec
CONSTANTS
  Starters = {server, client}
  Client = client
  Provisioned = k0
  Generated = {k1, k2, k3}
  Absent = "absent"
  Torn = "torn"
  NoKey = NoKey
  Relays = {r1, r2}
  Configured = {r1}
  None = None
  Addrs <- MCAddrs
CHECK_DEADLOCK FALSE
INVARIANTS
  TypeOK
  OneLiveRelay
  NodesAgree
  HiddenNodes
PROPERTIES
  SamePeer
  SoundStartGetsKey
  CloseEndsLoops
  LostRelayIsReplaced
