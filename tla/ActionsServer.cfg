SPECIFICATION FairSpec
CONSTANTS
  Calls <- MCCalls
  Slots = 2
  SnapshotSlots = 1
  Snaps = {"good", "bad"}
  Sound = {"good"}
  Scenarios <- MCScenarios
  TTL = 1
  MaxCount = 2
  MaxBytes = 3
  Size <- MCSize
  MaxPages = 3
INVARIANTS TypeOK Quota LandsOnce FeedbackComplete ActsAsBound
PROPERTIES SlotsReturned PublishesStaged
