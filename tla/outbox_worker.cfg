SPECIFICATION FairSpec
CONSTANTS
  p1 = p1
  Events <- ThreeEvents
  Publishers = {p1}
  BatchSize = 2
  MaxAttempts = 2
  Base = 1
  Cap = 1
  MaxCrashes = 1
INVARIANTS
  CrashLosesOneAttempt
  PublishedMeansReceived
PROPERTIES
  EveryEventSettled
