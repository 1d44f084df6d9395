SPECIFICATION Spec
SYMMETRY Alike
CONSTANTS
  login1 = login1
  login2 = login2
  flow1 = flow1
  flow2 = flow2
  flow3 = flow3
  cmd2 = cmd2
  cmd3 = cmd3
  Events <- MCEvents
  ReadBy <- MCReadBy
  Traits <- MCTraits
  User <- MCUser
  Source <- MCSource
  Port <- MCPort
  Sensitivity <- MCSensitivity
  Threshold <- MCThreshold
  Window <- MCWindow
  MaxTime = 2
  MaxCrashes = 1
INVARIANTS
  BurstIsSeen
  AlertsAreEarned
  FreshItemsAreSeen
  PatternsAreReported
CHECK_DEADLOCK FALSE
