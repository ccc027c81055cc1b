SPECIFICATION Spec
CONSTANTS
  Workers = {w1}
  Doers = {d1}
  b1 = b1
  b2 = b2
  BatchJobs <- MCBatch
  BatchCtx = batch
  Closers = {c1}
  NoJob = none
  QueueSize = 1
INVARIANT NewCallsGetPoolClosed
