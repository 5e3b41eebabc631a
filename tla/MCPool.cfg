SPECIFICATION PoolSpec
CONSTANTS
  e1 = e1
  e2 = e2
  e3 = e3
  c1 = c1
  NoEntry = NoEntry
  NoChecker = NoChecker
  NoKey = NoKey
  Key <- MCKey
  Entry <- MCEntry
  Checker <- MCChecker
  ConnInput <- MCNoInput
  HealthInput <- MCHealthInput
  MaxInFlight = 1
SYMMETRY Symmetry
CHECK_DEADLOCK FALSE
INVARIANTS
  NoOrphanSubConn
  ProbeFollowsEntry
PROPERTY ImplementsLifecycle
