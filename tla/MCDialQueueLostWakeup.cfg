SPECIFICATION FairSpec
CONSTANTS
  Peers = {p1, p2}
  Priorities <- MCPriorities
  MaxTasks = 2
PROPERTY
  SleeperIsWoken
CHECK_DEADLOCK FALSE
