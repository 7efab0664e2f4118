CONSTANTS
  j1 = j1
  e1 = e1
  e2 = e2
  k1 = k1
  k2 = k2
  u1 = u1
  u2 = u2
  None = None
  Unread = Unread
  Empty = Empty
  Jobs = {j1}
  Environments = {e1, e2}
  Patient = {j1}
  Keys = {k1, k2}
  Primary = u1
  Fallback = u2
  MaxChanges = 2
SPECIFICATION FairSpecInTurn
INVARIANTS ExchangeInv
PROPERTIES FallbackSuffices OutagesPass
