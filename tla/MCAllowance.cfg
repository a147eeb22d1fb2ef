CONSTANTS
  Procs = {p1, p2}
  NoProc = NoProc
  Origins = {o1}
  Limits = {1, 2}
  WINDOW_MS = 1
  RETAINED_WINDOWS = 0
  MaxTime = 1
  MaxGen = 2
  MaxFaultKinds = 1
SYMMETRY ProcSymmetry
SPECIFICATION Spec
INVARIANTS TypeOK GenerationNamesLimit AccountingFollowsGuard HealthPredictsAdmission
PROPERTIES DebitUnderCurrentGuard DebitWithinLimit
