CONSTANTS
  a = a  b = b  c = c
  r = r  s = s
  LowNeed = LowNeed
  NoLease = NoLease  NoRow = NoRow  NoContext = NoContext
  Owners = {a, b}
  Runs = {a, b}
  Requests = {r}
  Shortlists = {s}
  LeaseTtl = 1
  CacheTtl = 2
  MaxFence = 3
  MaxGeneration = 0
  MaxTime = 3
  MaxStepBack = 0
  WorkBudget = 2
  StoreFails = FALSE
SPECIFICATION PairSpec
SYMMETRY RunSymmetry
PROPERTIES FollowerTakesOver
CHECK_DEADLOCK FALSE
