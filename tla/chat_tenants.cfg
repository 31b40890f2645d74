\* Two keys that are edited and revoked under the requests of their callers.
CONSTANTS
  r1 = r1
  r2 = r2
  k1 = k1
  k2 = k2
  Request = {r1, r2}
  Key = {k1, k2}
  Call <- TenantCalls
  MaxEdits = 1
  Revocable = {k1, k2}
  MaxCrashes = 0
  Faults = {}
SPECIFICATION Spec
INVARIANTS TenantIsolation KeyNotStale
SYMMETRY KeySymmetry
