SPECIFICATION FairSpec
CONSTANTS
  p1 = p1
  p2 = p2
  c1 = c1
  c2 = c2
  k = k
  Loop = Loop
  Peers = {p1, p2}
  Bootnodes = {p2}
  Conns = {c1}
  PeerOf <- MCPeerOf
  DirOf <- MCDirOf
  MaxConns <- MCMaxConns
  MaxTasks = 1
  Callers = {k}
  BusSize = 1
  OtherPeers = 0
CHECK_DEADLOCK FALSE
INVARIANTS
  TypeOK
  SleeperMissesOnlyDisconnects
  PanicsOnlyInShutdown
PROPERTY
  CloseEndsDialLoop
