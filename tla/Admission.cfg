SPECIFICATION Spec
CONSTANTS
  s1 = s1
  s2 = s2
  s3 = s3
  y1 = y1
  c1 = c1
  c2 = c2
  g1 = g1
  g2 = g2
  p1 = p1
  p2 = p2
  t1 = t1
  k1 = k1
  k2 = k2
  i1 = i1
  NoCall = NoCall
  Calls = {s1, s2, y1, c1, c2, g1, g2}
  Kind <- MCKind
  Principal <- MCPrincipal
  Tenant <- MCTenant
  Key <- MCKey
  Input <- MCInput
  Target <- MCTarget
  PrincipalActive = 1
  TenantActive = 2
  PrincipalRunning = 1
  TenantRunning = 1
  PrincipalCalls = 1
  TenantCalls = 1
  MaxWindow = 1
  MaxVersion = 1
  MaxAborts = 1
INVARIANTS
  ChecksStillHold
  QuotasHeld
  OneRunPerKey
  SomeCallProceeds
  WindowBudgetHeld
CHECK_DEADLOCK FALSE
