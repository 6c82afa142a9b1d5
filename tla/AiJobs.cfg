SPECIFICATION Spec
CONSTANTS
  e1 = e1
  c1 = c1
  n1 = n1
  Jobs = {e1, c1}
  Kind <- MCKind
  MaxText = 2
  MaxCrashes = 1
INVARIANTS
  TypeOK
  StreamHolds
  CancelStopsSoon
PROPERTIES
  WaitersAreTold
CHECK_DEADLOCK FALSE
