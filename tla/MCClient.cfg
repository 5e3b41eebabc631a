SPECIFICATION Spec
CONSTANTS
  None = None
  NoScheme = NoScheme
  Client = {"c1", "c2", "c3"}
  Config <- MCConfig
  TargetText <- MCTargetText
  BuiltIn <- MCBuiltIn
  Custom = {"custom"}
  Factory = {"newPicker"}
  Call = {"k1", "k2"}
  Closer = {"x1", "x2"}
  Owner <- MCOwner
  Answer <- MCAnswer
  MaxFailures = 1
  MaxPort = 80
  Text <- MCText
  Namespace <- MCNamespace
  Host <- MCHost
CHECK_DEADLOCK FALSE
INVARIANTS
  TypeOK
  RoundTrip
  PortReachesBalancer
  OwnConfig
  PolicyAsValidated
  LateCallRefused
  CloseReleases
PROPERTIES
  EverythingReturns
  DnsRefreshed
