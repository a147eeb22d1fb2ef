CONSTANTS
  Runs = {r1, r2}
  Events = {e1, e2}
  Snapshots = {s1}
  NoRow = NoRow
  NoSnap = NoSnap
  MaxAttempts = 1
  MaxTime = 1
  MaxSweeps = 1
SYMMETRY Symmetries
SPECIFICATION Spec
INVARIANTS InFlightHonest SuccessStands EmittedWasPrinted PaidIsEvidenced ReferencesHold
CHECK_DEADLOCK FALSE
