SPECIFICATION Spec
CONSTANTS
  requests = requests
  slot = slot
  Reservations = {b1, b2, b3}
  Accounts = {requests, slot}
  Capacity = {slot}
  Limit <- MCLimit
  HeldBack <- MCHeldBack
  Demands <- MCDemands
  LeaseFor = 1
  MaxWait = 1
  MaxTime = 4
SYMMETRY Symmetry
CHECK_DEADLOCK FALSE
INVARIANTS
  WithinLimits
  ReservedIsBacked
  SpentIsCommitted
  ExplorationKeepsItsShare
