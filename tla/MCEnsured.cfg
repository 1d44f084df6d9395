CONSTANTS
  boot = boot
  small = small
  medium = medium
  large = large
  Requests = {small, medium, large}
  Boot = boot
  Length <- LengthOf
  Absent = Absent
  Hole = Hole
  MaxStops = 1
SPECIFICATION Spec
PROPERTY EnsuredReport
CHECK_DEADLOCK FALSE
