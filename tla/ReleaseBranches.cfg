CONSTANTS
  r1 = r1
  r2 = r2
  Branches <- TwoLines
  Versions <- TwoLineVersions
  LastCommit = 3
  Runs = {r1, r2}
SPECIFICATION Spec
SYMMETRY RunSymmetry
CONSTRAINT CommitBound
INVARIANTS BranchesInv PromisesAreCarried
PROPERTIES BranchesOnlyMoveForward LinesStayClean DeletesTakeOnlyLateCommits
