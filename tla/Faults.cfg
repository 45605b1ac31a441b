SPECIFICATION FairSpec
CONSTANTS
  r1 = r1
  r2 = r2
  r3 = r3
  h1 = h1
  h2 = h2
  w1 = w1
  w2 = w2
  d1 = d1
  t1 = t1
  p1 = p1
  p2 = p2
  NoRun = NoRun
  NoWorker = NoWorker
  Runs = {r1}
  Handlers = {h1}
  Workers = {w1, w2}
  WorkerOf <- OneWorker
  Dispatchers = {d1}
  Tenants = {t1}
  Principals = {p1, p2}
  TenantOf <- OneTenant
  PrincipalOf <- OnePrincipal
  SourceOf <- NoJobs
  MaxAttempts <- TwoAttempts
  ServerMaxAttempts = 3
  PrincipalRunning = 1
  TenantRunning = 1
  PrincipalActive = 1
  TenantActive = 1
  ProviderErrors = {}
  Faults = {"publish", "dispatcher", "handler", "connection"}
  MaxBacklog = 2
  MaxCopies = 2
PROPERTIES
  AcceptedRunsSettle
  DeadLetterNoticeArrives

CHECK_DEADLOCK FALSE
