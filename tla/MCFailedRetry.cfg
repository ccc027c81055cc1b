SPECIFICATION RetrySpec
CONSTANTS
  Recorders = {t1}
  Checkers = {c1}
  FailNum = 2
  DegNum = 1
  Den = 3
  MinRequests = 2
  RecoveryTimeout = 1
  MaxRequests = 4
  MaxTime = 3
  Expires = FALSE
PROPERTY FailedRetryWaits
