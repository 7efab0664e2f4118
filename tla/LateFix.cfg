CONSTANTS
  r1 = r1
  r2 = r2
  Branches <- TwoLines
  Versions <- TwoLineVersions
  LastCommit = 2
  Runs = {r1, r2}
SPECIFICATION Spec
SYMMETRY RunSymmetry
INVARIANT NothingIsLost
