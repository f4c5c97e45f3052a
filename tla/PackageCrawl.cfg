SPECIFICATION FairCrawl
CONSTANTS
  Fast = 1
  Interval = 2
  Window = 3
  TTL = 2
  Limit = 2
  Scenarios <- MCScenarios
INVARIANT Fresh
PROPERTIES NoFalseDelete MirrorStays Mirrors NoChurn
