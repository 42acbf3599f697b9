SPECIFICATION FairSpec
CONSTANTS
  Peers = {p1, p2}
  Priorities <- MCPriorities
  MaxTasks = 4
INVARIANTS
  TypeOK
  LastAddIsWithdrawable
  SleeperMissesOnlyEarlierTasks
PROPERTY
  CloseStopsPopper
CHECK_DEADLOCK FALSE
