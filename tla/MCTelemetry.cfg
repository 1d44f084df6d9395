CONSTANTS
  Users = {"ann"}
  Activities = {"file_access", "internal_comm"}
  Background = {}
  Phases <- MCPhases
  ServersKnown = FALSE
  MinSession = 1
  QueueLimit = 2
  FlushEvery = 2
  MaxTick = 3
  MaxOutages = 1
SPECIFICATION Spec
INVARIANT SessionsBracket
INVARIANT LossNeedsOutage
PROPERTY EventsArrive
PROPERTY RansomwareIsSeen
CHECK_DEADLOCK FALSE
