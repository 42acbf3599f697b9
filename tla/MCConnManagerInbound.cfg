SPECIFICATION Spec
CONSTANTS
  p1 = p1
  p2 = p2
  c1 = c1
  c2 = c2
  c3 = c3
  Peers = {p1, p2}
  Bootnodes = {p1}
  Conns = {c1, c2, c3}
  PeerOf <- MCPeerOf
  DirOf <- MCDirOf
  MaxConns <- MCMaxConns
  MaxInProgress = 3
INVARIANT
  InboundWithinLimit
