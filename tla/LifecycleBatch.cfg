SPECIFICATION FairSpec
CONSTANTS
  requests = requests
  slot = slot
  RequestLimit = 2
  SlotLimit = 1
  UnbudgetedTasks = {t2}
  Tasks = {t1, t2}
  Procs = {p1}
  Keys = {k1, k2}
  Runs = {r1}
  None = None
  MaxAttempts = 2
  LeaseFor = 2
  Delays = {0}
  MaxWait = 0
  MaxTime = 2
  MaxClaims = 1
  Reservations = {b1, b2}
  Accounts = {requests, slot}
  Capacity = {slot}
  Limit <- MCLimit
  HeldBack <- MCHeldBack
  Demands <- MCDemands
  DemandOf <- MCDemandOf
  LaneOf <- MCLaneOf
  Gates = {"ALLOW", "BLOCK", "DEFER"}
  BatchSize = 2
  Concurrency = 2
  BeatEvery = 1
CHECK_DEADLOCK FALSE
PROPERTIES
  ClaimsAreSettled
