SPECIFICATION FairSpec
CONSTANTS
  crawler = crawler
  dns = dns
  c1 = c1
  c2 = c2
  d1 = d1
  d2 = d2
  None = None
  Tasks = {c1, c2, d1, d2}
  Workers = {crawler, dns}
  WorkerOf <- MCWorkerOf
  Priority <- MCPriority
  Created <- MCCreated
  Exploring = {c2}
  Seeds = {c1, d1}
  Leftover = {c2}
  Discovers <- MCDiscovers
  MaxAttempts = 2
  Delays = {0, 2}
  Limit = 3
  Concurrency = 2
  BatchSize = 2
  CandidateLimit = 3
  WorkerLimit <- MCWorkerLimit
  MaxDeferredWait = 1
  MaxRuns = 1
  Patience = 1
CHECK_DEADLOCK FALSE
INVARIANTS
  DispatcherTypeOK
  StepsWithinLimit
  TicketsHaveSlots
  SucceededRunIsDone
PROPERTIES
  BatchIsWorkerFair
  SlowWorkersLeaveRoom
  RunEnds
