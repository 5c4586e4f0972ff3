\* Two requests, two imports and a cleanup of two tenants.
CONSTANTS
  t1 = t1
  t2 = t2
  r1 = r1
  r2 = r2
  s1 = s1
  s2 = s2
  d1 = d1
  a1 = a1
  a2 = a2
  w1 = w1
  Tenants = {t1, t2}
  Requests = {r1, r2}
  Syncs = {s1, s2}
  Cleanups = {d1}
  Tenant <- TwoTenants
  ApiPool = {a1, a2}
  WorkerPool = {w1}
  MaxReplaced = 1
SPECIFICATION Spec
SYMMETRY Symmetry
INVARIANTS
  TypeOK
  OwnTenantOnly
  RequestsHaveTheirTenant
  NothingLeftForRequests
  UnscopedOnlyAfterReplacement
CHECK_DEADLOCK FALSE
