SPECIFICATION FairSpec
CONSTANTS
  Msgs = {1, 2, 3}
  Nodes = {"n1", "n2"}
  NodeOf <- MCNodeOf
  BufferSize = 1
  BusSize = 1
  Peers = {p1, p2}
CHECK_DEADLOCK FALSE
INVARIANTS
  TypeOK
  PanicsOnlyAfterClose
  StaleOnlyIfCrossed
PROPERTIES
  StatusesComeIn
  EventsFlow
