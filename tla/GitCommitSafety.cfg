CONSTANTS
  r1 = r1
  r2 = r2
  a = a
  b = b
  Requests = {r1, r2}
  Paths = {a, b}
  Values = {"x", "y"}
  None = None
  Keep = Keep
  Edits <- WriteAndDelete
  Quoting = {r1}
  Scan = 5
  MaxPushes = 2
  MaxAttempts = 2
SPECIFICATION Spec
INVARIANTS CommittedOnce NothingUndone ReportedIsApplied
CHECK_DEADLOCK FALSE
