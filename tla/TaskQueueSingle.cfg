SPECIFICATION Spec
CONSTANTS
  t1 = t1
  t2 = t2
  p1 = p1
  p2 = p2
  Tasks = {t1, t2}
  Procs = {p1}
  Keys = {k1}
  Runs = {r1, r2}
  None = None
  MaxAttempts = 2
  LeaseFor = 1
  Delays = {0, 1}
  MaxWait = 0
  MaxTime = 3
  MaxClaims = 3
SYMMETRY Symmetry
CHECK_DEADLOCK FALSE
INVARIANTS
  TypeOK
  OneTaskPerLogicalWork
  AttemptsCountClaims
