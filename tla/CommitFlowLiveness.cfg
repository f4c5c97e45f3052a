CONSTANTS
  Scopes = {cluster}
  Contents = {1}
  None = None
  MaxAge = 2
  Requests = {1}
  ContentOf <- OwnContent
  TenantScope = cluster
  StorageScope = cluster
  Arrival = 1
  Window = 1
  RetryDelays = {1}
  Keyed = {}
  MaxCommits = 0
  MaxCrashes = 1
SPECIFICATION FairSpec
PROPERTIES Settles Reclaimed
