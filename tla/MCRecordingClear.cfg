CONSTANTS
  Runs = {r1, r2}
  Events = {e1, e2}
  Snapshots = {s1}
  NoRow = NoRow
  NoSnap = NoSnap
  MaxAttempts = 1
  MaxTime = 0
  MaxSweeps = 1
SPECIFICATION Spec
INVARIANTS OlderWorkStaysOut
CHECK_DEADLOCK FALSE
