SPECIFICATION Spec
CONSTANTS
  Entry = {1, 2}
  Rpc = {"r1", "r2"}
  Configs <- MCConfigs
  Calls <- MCCalls
  Retryable = {"Unavailable"}
  Healthy <- MCHealthy
  MaxPickers = 2
  Width = 5
CHECK_DEADLOCK FALSE
INVARIANTS
  RoundRobinEven
  LeastRequestBound
  PauseIsReference
PROPERTIES
  RetryJustified
  RetryAvoidsTried
  ExpiredReturns
