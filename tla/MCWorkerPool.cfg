SPECIFICATION MCSpec
CONSTANTS
  Workers = {w1}
  Doers = {d1}
  b1 = b1
  b2 = b2
  BatchJobs <- MCBatch
  BatchCtx = batch
  Closers = {c1, c2}
  NoJob = none
  QueueSize = 1
INVARIANTS
  IInv
  JobRunsOnce
  OutcomeJustified
  AbandonedJobSendsNothing
PROPERTY
  CallsReturn
