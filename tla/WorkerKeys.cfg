CONSTANTS
  None = None
  k1 = k1
  k2 = k2
  i1 = i1
  r1 = r1
  r2 = r2
  Kids = {k1, k2}
  Isolates = {i1}
  Requests = {r1, r2}
  ForcedInterval = 1
  Timeout = 1
  Cooldown = 1
  CacheMaxAge = 2
  MaxAge = 1
  Versions = 1
SPECIFICATION Spec
SYMMETRY KeysSymmetry
VIEW KeysView
INVARIANT KeysInv
PROPERTIES ForcedReloadsAreSpaced KeepsVerdicts
