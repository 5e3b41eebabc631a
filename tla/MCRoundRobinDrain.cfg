SPECIFICATION Spec
CONSTANTS
  e1 = e1
  e2 = e2
  c1 = c1
  r1 = r1
  NoEntry = NoEntry
  NoChecker = NoChecker
  NoKey = NoKey
  Key <- MCOneKey
  Entry <- MCOneEntry
  Checker <- MCNoChecker
  Rpc <- MCRpc
  MaxSubconns = 0
  MaxEvents = 1
  MayClose = FALSE
  EnableHealthCheck = FALSE
  Policy = "round_robin"
CHECK_DEADLOCK FALSE
PROPERTIES
  DrainWaitsForRpcs
