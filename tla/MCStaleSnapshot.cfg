SPECIFICATION Spec
CONSTANTS
  Never = Never
  Absent = Absent
  NoName = NoName
  Slice <- MCOneSlice
  SliceValue <- MCSliceValue
  TargetPort <- MCTargetPort
  Endpoint <- MCEndpoint
  Backoff <- MCBackoff
  GraceWindow = 2
  SyncTimeout = 1
  MaxGen = 2
  MaxChanges = 1
INVARIANTS
  SettledIsCurrent
