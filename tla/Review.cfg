SPECIFICATION Spec
CONSTANTS
  runner1 = runner1
  runner2 = runner2
  clerk1 = clerk1
  clerk2 = clerk2
  Runners = {runner1, runner2}
  Procs = {runner1, runner2, clerk1, clerk2}
  Tasks = {t1}
  Keys = {k1}
  Runs = {r1}
  None = None
  MaxAttempts = 2
  LeaseFor = 1
  Delays = {0}
  MaxWait = 0
  MaxTime = 2
  MaxClaims = 1
  Cases = {c1, c2}
  Sigs = {scope, policy}
  Signals <- MCSignals
SYMMETRY Symmetry
CHECK_DEADLOCK FALSE
INVARIANTS
  NoUnapprovedExecution
  ParkedHasCase
PROPERTIES
  ResolutionIsFinal
  RejectionSettles
