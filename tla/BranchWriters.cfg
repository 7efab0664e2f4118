CONSTANTS
  None = None
  main = main
  dev = dev
  fix = fix
  forth = forth
  back = back
  side = side
  h1 = h1
  h2 = h2
  s1 = s1
  Branches = {main, dev, fix}
  Pulls = {forth, back, side}
  HeadOf <- Heads
  BaseOf <- Bases
  AimOf <- Aims
  Handlers = {h1, h2}
  Clients = {s1}
  MaxPulls = 1
  Held <- Start
  Given = 3
  MaxTries = 2
SPECIFICATION FairSpec
CHECK_DEADLOCK FALSE
INVARIANTS WritersInv DuplicatesAreVisible NothingForgotten
PROPERTIES CascadesEnd
