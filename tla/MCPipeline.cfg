SPECIFICATION PipelineSpec
CONSTANTS
  Workers = {w1, w2}
  Doers = {d1}
  b1 = b1
  BatchJobs <- MCBatch
  BatchCtx = batch
  Closers = {c1}
  NoJob = none
  QueueSize = 1
  Proxies = {p1}
  NoProxy = noproxy
  MaxConcurrent = 1
  LimitedJobs = {d1, b1}
  DomainBurst = 1
INVARIANTS
  PipelineIInv
  SlotsBalance
PROPERTIES
  SlotsComeBack
  ImplementsPool
  ImplementsCalls
  CallsReturn
  AcceptedJobRuns
  CloseReturns
