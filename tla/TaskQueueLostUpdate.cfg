SPECIFICATION Spec
CONSTANTS
  t1 = t1
  t2 = t2
  p1 = p1
  p2 = p2
  Tasks = {t1}
  Procs = {p1, p2}
  Keys = {k1}
  Runs = {r1}
  None = None
  MaxAttempts = 2
  LeaseFor = 1
  Delays = {0}
  MaxWait = 0
  MaxTime = 2
  MaxClaims = 3
SYMMETRY Symmetry
CHECK_DEADLOCK FALSE
INVARIANT
  ClaimsWithinBudget
