SPECIFICATION Spec
CONSTANTS
  p = p
  q = q
  bad = bad
  domain = domain
  Malformed = {bad}
  Configs <- MCConfigs
CHECK_DEADLOCK FALSE
INVARIANTS
  IInv
  ClientsAreWhole
  ComponentsSuited
  NothingLeftBehind
PROPERTIES
  FrozenInUse
