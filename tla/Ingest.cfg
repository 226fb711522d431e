SPECIFICATION FairSpec
CONSTANTS
  p1 = p1
  crawl = crawl
  scan = scan
  tech = tech
  token = token
  cve = cve
  None = None
  Execs = {crawl, scan}
  Procs = {p1}
  ProcOf <- MCProcOf
  Assets = {tech, token, cve}
  ScopeOf <- MCScopeOf
  Derived <- MCDerived
  Enriched <- MCEnriched
  Keys = {"probe", "match", "verify"}
  Routes <- MCRoutes
  Seen = {1, 2}
  Capacity = 1
  MaxAttempts = 2
CHECK_DEADLOCK FALSE
INVARIANTS
  IngestTypeOK
  AssetSummarisesObservations
  SuccessIsRouted
PROPERTIES
  PublicationsEnd
