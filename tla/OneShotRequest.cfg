CONSTANTS
  Scopes = {cluster}
  Contents = {x, y}
  None = None
  MaxAge = 1
  Requests = {r1}
  KindChoices <- OneController
  Scope = cluster
  MaxCrashes = 1
SPECIFICATION FairSpec
INVARIANTS HonestAnswer
PROPERTIES Settles
