SPECIFICATION Spec
CONSTANTS
  Threads = {t1, t2}
  WindowSize = 4
  BucketSize = 2
  MaxEvents = 3
  StartTime = 5
  MaxTime = 11
PROPERTIES
  CountsOnlyWindow
  CountsWholeWindow
  BucketsAreRecent
