CONSTANTS
  Modes = {"plain", "create-only", "existing-only"}
  Places = {own, org}
  Home = own
  MaxIds = 2
  MaxFlaps = 1
SPECIFICATION FairSpec
INVARIANTS NeverAdopts GoneByName
PROPERTIES RepoIdPinned DeletionEnds
CHECK_DEADLOCK FALSE
