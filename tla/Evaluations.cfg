SPECIFICATION Spec
CONSTANTS
  r1 = r1
  r2 = r2
  r3 = r3
  h1 = h1
  h2 = h2
  w1 = w1
  w2 = w2
  d1 = d1
  t1 = t1
  p1 = p1
  p2 = p2
  NoRun = NoRun
  NoWorker = NoWorker
  Runs = {r1, r2, r3}
  Handlers = {h1, h2}
  Workers = {w1, w2}
  WorkerOf <- OneWorker
  Dispatchers = {d1}
  Tenants = {t1}
  Principals = {p1, p2}
  TenantOf <- OneTenant
  PrincipalOf <- OnePrincipal
  SourceOf <- TwoJobsOfR1
  MaxAttempts <- OneAttempt
  ServerMaxAttempts = 1
  PrincipalRunning = 2
  TenantRunning = 2
  PrincipalActive = 3
  TenantActive = 3
  ProviderErrors = {}
  Faults = {}
  MaxBacklog = 1
  MaxCopies = 1
INVARIANTS
  EvaluationFollowsJob
  SettledSummaryIsNewest
SYMMETRY JobSymmetry
CHECK_DEADLOCK FALSE
