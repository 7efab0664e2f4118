CONSTANTS
  None = None
  b1 = b1
  c1 = c1
  c2 = c2
  r1 = r1
  r2 = r2
  Branches = {b1}
  FirstPatch <- OneBranch
  Parent <- OneAfterTheOther
  Commits = {c1, c2}
  Versions <- PromotionVersions
  Builds = {0, 1}
  Runs = {r1, r2}
  CarryForward = FALSE
  LineEnvs = {FALSE}
  Overrides <- TypedCandidate
SPECIFICATION Spec
SYMMETRY RunSymmetry
VIEW EndsAlike
CONSTRAINT OnePullRequest
INVARIANTS PromotedImageWasTested PromotionInv PromotionsCanBeRerun
PROPERTY KeepsLedger
