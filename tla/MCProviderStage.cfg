CONSTANTS
  Procs = {p1, p2}
  NoProc = NoProc
  OPEN_AFTER_FAILURES = 2
  BASE_COOLDOWN_MS = 1
  MAX_COOLDOWN_MS = 1
  MAX_RETRY_AFTER_MS = 1
  MaxLogicalRequests = 2
  MaxHttpAttempts = 3
  MinAttemptReserve = 1
  MaxUsage = 1
  Models = {m1, m2}
  NoModel = NoModel
  Usages = {0, 1}
  Delays = {2}
  Backoff = 1
  Deadline = 3
  Limit = 3
  Skews = {0, 1}
  MaxTime = 4
SYMMETRY Symmetry
SPECIFICATION Spec
INVARIANTS CostAccounted LeaseCoversInvocation
PROPERTIES SendsAreMetered SendsAreWarranted
