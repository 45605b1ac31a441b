SPECIFICATION Spec
CONSTANTS
  t1 = t1
  r1 = r1
  c1 = c1
  c2 = c2
  p1 = p1
  p2 = p2
  NoTenant = NoTenant
  NoCaller = NoCaller
  Never = Never
  Tenants = {t1}
  Runs = {r1}
  TenantOf <- OneTenant
  Callers = {c1, c2}
  Purges = {p1, p2}
  Horizon = 1
  AuditHorizon = 0
  BatchSize = 1
  BatchLimits = {1}
  NoLimit = 9
  MaxClock = 2
  MaxRows = 1
INVARIANTS
  OneKeyForever
  ErasuresOnRecord
  PurgeAccounts
PROPERTIES
  ErasureSparesLiveWork
  PurgeDrains
SYMMETRY
  Symmetry
CHECK_DEADLOCK FALSE
