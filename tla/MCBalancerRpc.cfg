SPECIFICATION Spec
CONSTANTS
  e1 = e1
  e2 = e2
  c1 = c1
  r1 = r1
  NoEntry = NoEntry
  NoChecker = NoChecker
  NoKey = NoKey
  Key <- MCKey
  Entry <- MCTwoEntries
  Checker <- MCNoChecker
  Rpc <- MCRpc
  MaxSubconns = 1
  MaxEvents = 1
  MayClose = FALSE
  EnableHealthCheck = FALSE
  Policy = "least_request"
SYMMETRY Symmetry
CHECK_DEADLOCK FALSE
INVARIANTS
  TypeOK
  PickerIsHealthySet
  InFlightExact
  PoolWithinCap
PROPERTIES
  DrainingPickedOnlyWhenStale
  DrainWaitsForRpcs
