CONSTANTS
  Scopes = {cluster}
  Contents = {1}
  None = None
  MaxAge = 3
  Requests = {1}
  ContentOf <- OwnContent
  TenantScope = cluster
  StorageScope = cluster
  Arrival = 1
  Window = 2
  RetryDelays = {1, 2}
  Keyed = {1}
  MaxCommits = 2
  MaxCrashes = 1
SPECIFICATION Spec
INVARIANTS HonestSuccess
PROPERTIES ImplementsPromise BundleNotLost
