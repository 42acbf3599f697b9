SPECIFICATION Spec
CONSTANTS
  p1 = p1
  k1 = k1
  k2 = k2
  Loop = Loop
  Peers = {p1}
  Bootnodes = {p1}
  Reachable = {p1}
  Finders = {k1, k2}
  BusSize = 1
INVARIANTS
  TypeOK
  TemporaryDialHasOwner
  EventsMove
  PeersAreRouted
CHECK_DEADLOCK FALSE
