SPECIFICATION FairSpec
CONSTANTS
  Clients = {c1, c2}
  Closers = {x1, x2}
  CleanupEnabled = TRUE
  MaxConns = 2
INVARIANTS
  ClosedIsClean
PROPERTY
  CloseReturns
\* When Close has returned nothing is left to do.
CHECK_DEADLOCK FALSE
