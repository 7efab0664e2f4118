CONSTANTS
  i1 = i1
  i2 = i2
  r1 = r1
  r2 = r2
  r3 = r3
  p1 = p1
  p2 = p2
  Installations = {i1,i2}
  Repos = {r1,r2,r3}
  Home <- Homes
  Released = {r1, r2}
  Pollers = {p1,p2}
  MaxInstallations = 1
  MaxRepos = 2
  PageSize = 2
  TTL = 1
  MaxNow = 2
  MaxEvents = 1
SPECIFICATION Spec
SYMMETRY ViewSymmetry
CHECK_DEADLOCK FALSE
INVARIANTS ViewInv NeverShortUnmarked AnswersAreRecent BudgetKept
