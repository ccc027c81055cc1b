SPECIFICATION FairSpec
CONSTANTS
  Workers = {w1, w2}
  NumProxies = 2
  MaxRetriesArg = 0
  MaxConcurrent = 1
  MaxTokens = 1
  MaxSelections = 4
INVARIANTS
  IInv
  ConcurrencyCap
  NoTokenWasted
  FullRotation
  EvenRotation
PROPERTY
  SelectReturns
