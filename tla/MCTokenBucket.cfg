SPECIFICATION WatchSpec
CONSTANTS
  N = 2
  CapacityArg = 1
  RefillRateArg = 2
  NanosPerSec = 3
  MaxInt64 = 100
  StartTime = 1
  MaxTime = 5
INVARIANTS
  WindowBound
  RateBound
  WindowIInv
PROPERTIES
  RefillCreditsHalf
  LastRefillMonotone
  LockFree
