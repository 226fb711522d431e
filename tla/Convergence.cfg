SPECIFICATION BranchSpec
CONSTANTS
  calls = calls
  requests = requests
  slots = slots
  Workers = {w1, w2}
  None = None
  Reservations = {b1, b2, b3}
  Accounts = {calls, requests, slots}
  Capacity = {slots}
  Limit <- MCLimit
  HeldBack <- MCHeldBack
  Demands <- MCDemands
  LeaseFor = 1
  MaxWait = 0
  MaxTime = 2
  Soft = {requests}
  Hard = {calls, slots}
  Metrics <- MCMetrics
  InitialTier = 4
  MaximumTier = 5
  AdvanceStreak = 1
  CooldownStreak = 1
  CloseStreak = 2
  CooldownBase = 1
  CooldownMax = 2
  CloseAt = 100
  PauseAt = 100
  AdvanceBelow = 80
SYMMETRY Symmetry
CHECK_DEADLOCK FALSE
INVARIANTS
  ClosedForAReason
PROPERTIES
  UndisturbedEvaluationsFollow
