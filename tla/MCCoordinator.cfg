CONSTANTS
  sqli = sqli
  traversal = traversal
  burst = burst
  scan = scan
  access = access
  Alerts = {sqli, traversal}
  Monitors <- MonitorsOf
  Source <- SourceOf
  Time <- TimeOf
  Ip <- IpOf
  User <- UserOf
  Class <- ClassOf
  Proposes = {traversal}
  Nobody = Nobody
  MaxFaults = 1
SPECIFICATION Spec
INVARIANT TypeOK
INVARIANT NoDoubleCounting
INVARIANT IncidentsHangTogether
PROPERTY LossHasACause
PROPERTY ImplementsContract
CHECK_DEADLOCK FALSE
