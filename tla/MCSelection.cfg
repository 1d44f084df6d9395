CONSTANTS
  sqli = sqli
  traversal = traversal
  burst = burst
  scan = scan
  access = access
  Alerts = {burst, scan, access}
  Monitors <- MonitorsOf
  Source <- SourceOf
  Time <- TimeOf
  Ip <- IpOf
  User <- UserOf
  Class <- ClassOf
  Proposes = {burst, access}
  Nobody = Nobody
  MaxFaults = 0
SPECIFICATION Spec
PROPERTY SelectsWhenCollected
CHECK_DEADLOCK FALSE
