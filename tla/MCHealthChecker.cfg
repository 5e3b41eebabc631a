SPECIFICATION Spec
CONSTANTS
  Status = {"SERVING", "NOT_SERVING"}
  Capacity = 4
INVARIANTS
  TypeOK
PROPERTIES
  ImplementsProbe
  VerdictReported
  CancelReleases
