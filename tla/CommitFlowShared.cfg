CONSTANTS
  Scopes = {cluster}
  Contents = {1, 2}
  None = None
  MaxAge = 20
  Requests = {1, 2}
  ContentOf <- SameContent
  TenantScope = cluster
  StorageScope = cluster
  Arrival = 1
  Window = 1
  RetryDelays = {1}
  Keyed = {1, 2}
  MaxCommits = 0
  MaxCrashes = 0
SPECIFICATION Spec
PROPERTIES KeptUntilCommitted
