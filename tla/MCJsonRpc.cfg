SPECIFICATION FairSpec
CONSTANTS
  Filters = {f1, f2}
  Conns = {c1}
  Handlers = {h1}
  NoFilter = NoFilter
  NoConn = NoConn
  NoTimer = NoTimer
  Any = "any"
  AppOf <- MCAppOf
  Queries <- MCQueries
  Timeout = 1
  MaxTime = 1
  MaxEvents = 2
CHECK_DEADLOCK FALSE
INVARIANTS
  TypeOK
  PolledFiltersExpire
  TimerIsTrue
  PolledUpdatesOnce
  OrphansAreLateOrReplaced
PROPERTIES
  ImplementsFilterBoxes
  RequestsAreHandled
  IdleFilterIsRemoved
