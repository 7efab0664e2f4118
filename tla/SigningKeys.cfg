CONSTANTS
  None = None
  k1 = k1
  k2 = k2
  e1 = e1
  e2 = e2
  Kids = {k1, k2}
  Environments = {e1}
  ForcedInterval = 1
  Cooldown = 2
  CacheTTL = 3
  WriteInterval = 3
  MaxAge = 4
SPECIFICATION Spec
SYMMETRY KeysSymmetry
VIEW KeysView
INVARIANTS KeysInv SpacedInv
PROPERTIES RetiredKeysExpire RotationIsFollowed FetchesAreSpaced KeepsVerdicts
