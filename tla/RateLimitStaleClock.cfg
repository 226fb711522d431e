SPECIFICATION Spec
CONSTANTS
  host = host
  all = all
  http = http
  dns = dns
  nuclei = nuclei
  p1 = p1
  p2 = p2
  HostRate = 1
  HostBurst = 1
  Workers = {http, dns, nuclei}
  Procs = {p1, p2}
  ProcOf <- MCProcOf
  Buckets = {host, all}
  BucketsOf <- MCBucketsOf
  Requests <- MCRequests
  Slots <- MCSlots
  Paced = {host}
  Rate <- MCRate
  Burst <- MCBurst
  Capped = {all}
  MaxConcurrency <- MCMaxConcurrency
  Leases = {l1, l2, l3}
  None = None
  LeaseFor = 2
  MaxWait = 1
  MaxTime = 4
SYMMETRY Symmetry
CHECK_DEADLOCK FALSE
INVARIANT
  RateRespected
