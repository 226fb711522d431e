SPECIFICATION Spec
CONSTANTS
  requests = requests
  slot = slot
  RequestLimit = 2
  SlotLimit = 2
  UnbudgetedTasks = {}
  Tasks = {t1}
  Procs = {p1, p2}
  Keys = {k1}
  Runs = {r1}
  None = None
  MaxAttempts = 2
  LeaseFor = 2
  Delays = {0}
  MaxWait = 0
  MaxTime = 3
  MaxClaims = 2
  Reservations = {b1, b2}
  Accounts = {requests, slot}
  Capacity = {slot}
  Limit <- MCLimit
  HeldBack <- MCHeldBack
  Demands <- MCDemands
  DemandOf <- MCDemandOf
  LaneOf <- MCLaneOf
  Gates = {"ALLOW", "DEFER", "REVIEW", "BLOCK"}
  BatchSize = 1
  Concurrency = 1
  BeatEvery = 1
SYMMETRY Symmetry
CHECK_DEADLOCK FALSE
INVARIANTS
  LifecycleTypeOK
  ClaimsHaveExecutions
  WorkIsLeased
  NoDuplicateExecution
PROPERTIES
  SucceededIsCharged
  ReservationNotLeaked
