CONSTANTS
  Procs = {p1, p2}
  Persistent = {p1, p2}
  NoProc = NoProc
  OPEN_AFTER_FAILURES = 2
  BASE_COOLDOWN_MS = 1
  MAX_COOLDOWN_MS = 1
  MAX_RETRY_AFTER_MS = 1
  Leases = {1}
  Delays = {2}
  MaxTime = 2
  MaxGen = 2
SYMMETRY ProcSymmetry
SPECIFICATION Spec
INVARIANTS CircuitNeverStuck
PROPERTIES OpenCircuitFenced EvidenceIsCurrent SharedMeansShared
CHECK_DEADLOCK FALSE
