SPECIFICATION Spec
CONSTANTS
  Recorders = {t1, t2}
  Checkers = {c1}
  FailNum = 2
  DegNum = 1
  Den = 3
  MinRequests = 2
  RecoveryTimeout = 1
  MaxRequests = 3
  MaxTime = 2
  Expires = TRUE
SYMMETRY RecorderSymmetry
INVARIANTS
  IInv
  NoMissedTrip
PROPERTY
  DeadWaits
