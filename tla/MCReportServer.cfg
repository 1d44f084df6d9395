CONSTANTS
  boot = boot
  small = small
  medium = medium
  large = large
  Requests = {small, medium, large}
  Boot = boot
  Length <- LengthOf
  Absent = Absent
  Hole = Hole
  MaxStops = 2
SPECIFICATION Spec
INVARIANT TypeOK
INVARIANT SuccessLeavesReport
PROPERTY FirstRunEnsures
PROPERTY EveryRequestAnswered
CHECK_DEADLOCK FALSE
