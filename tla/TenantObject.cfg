CONSTANTS
  KindsChecked = {"DeployKey", "Collaborator", "Connection"}
  Wants <- MCWants
  MaxEvents <- MCMaxEvents
  MaxIds = 7
  AppKinds = {"Collaborator"}
SPECIFICATION FairSpec
INVARIANTS TypeOK ReadyIsReal Revoked
PROPERTIES Settles RestsWhileLimited DeletionEnds
CHECK_DEADLOCK FALSE
