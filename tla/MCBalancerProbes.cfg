SPECIFICATION Spec
CONSTANTS
  e1 = e1
  e2 = e2
  c1 = c1
  r1 = r1
  NoEntry = NoEntry
  NoChecker = NoChecker
  NoKey = NoKey
  Key <- MCOneKey
  Entry <- MCTwoEntries
  Checker <- MCOneChecker
  Rpc <- MCNoRpc
  MaxSubconns = 0
  MaxEvents = 1
  MayClose = FALSE
  EnableHealthCheck = TRUE
  Policy = "least_request"
SYMMETRY Symmetry
CHECK_DEADLOCK FALSE
INVARIANTS
  NoStrayProbe
  ServingWasProbed
