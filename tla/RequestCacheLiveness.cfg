CONSTANTS
  Callers = {c1, c2}
  Identities = {k1}
  Objects = {o1, o2}
  RequestKeys = {q1}
  ListingKeys = {l1}
  None = None
  MaxStates = 1
  MaxResponses = 2
  MaxBytes = 2
  Sizes = {1, 2, 3}
  IdleAge = 2
  TTL = 1
  BackoffMin = 1
  BackoffMax = 1
  Resets = {0}
  RetryAfters = {None}
  MaxPages = 2
  MaxTime = 1
SPECIFICATION FairSpec
INVARIANTS BytesAccounted
PROPERTIES CallReturns
