CONSTANTS
  None = None
  b1 = b1
  c1 = c1
  c2 = c2
  r1 = r1
  r2 = r2
  Branches = {b1}
  FirstPatch <- OneBranch
  Parent <- OneAfterTheOther
  Commits = {c1, c2}
  Versions <- LineVersions
  Builds = {0, 1}
  Runs = {r1, r2}
  CarryForward = TRUE
  LineEnvs = {FALSE, TRUE}
  Overrides = {}
SPECIFICATION Spec
SYMMETRY RunSymmetry
VIEW EndsAlike
CONSTRAINT OneImageEach
INVARIANTS TypeOK ReleasedRunOwnsItsTag ImageFitsTag NothingCutTwice NumbersInv RerunsFindTheirRelease LatestInv
PROPERTY LatestOnlyOvertaken
