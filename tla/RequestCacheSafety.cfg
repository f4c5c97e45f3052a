CONSTANTS
  Callers = {c1, c2}
  Identities = {k1, k2}
  Objects = {o1, o2, o3}
  RequestKeys = {}
  ListingKeys = {l1, l2}
  None = None
  MaxStates = 1
  MaxResponses = 1
  MaxBytes = 1
  Sizes = {1}
  IdleAge = 1
  TTL = 1
  BackoffMin = 1
  BackoffMax = 1
  Resets = {0, 1}
  RetryAfters = {None, 2}
  MaxPages = 1
  MaxTime = 1
SPECIFICATION Spec
INVARIANTS TypeOK GateExclusion StatePinned FlightLed
PROPERTIES ThrottleRespected

SYMMETRY CallerSymmetry
