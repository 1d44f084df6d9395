CONSTANTS
  Users = {"ann"}
  Activities = {"email", "file_access", "web_browse", "internal_comm"}
  Background = {"network", "process"}
  Phases <- MCPhases
  ServersKnown = FALSE
  MinSession = 1
  QueueLimit = 2
  FlushEvery = 2
  MaxTick = 1
  MaxOutages = 1
SPECIFICATION Spec
INVARIANT InjectedSignsAreFound
CHECK_DEADLOCK FALSE
