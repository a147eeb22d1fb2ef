CONSTANTS
  a = a  b = b  c = c
  r = r  s = s
  LowNeed = LowNeed
  NoLease = NoLease  NoRow = NoRow  NoContext = NoContext
  Owners = {a, b, c}
  Runs = {a, b, c}
  Requests = {r}
  Shortlists = {s}
  LeaseTtl = 1
  CacheTtl = 1
  MaxFence = 3
  MaxGeneration = 1
  MaxTime = 2
  MaxStepBack = 1
  WorkBudget = 1
  StoreFails = TRUE
SPECIFICATION SceneSpec
SYMMETRY RunSymmetry
INVARIANTS PairNeverMixed
PROPERTIES LeadershipAfterExpiry SuccessorPairStands NotServedPastTtl ClearedStaysCleared
CHECK_DEADLOCK FALSE
