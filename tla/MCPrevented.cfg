CONSTANTS
  HostOrder <- MCHostOrder
  Trust <- MCTrust
  HostType <- MCHostType
  Hardening <- MCHardening
  Pii <- MCPii
  Draws = {2, 20, 60}
SPECIFICATION Spec
INVARIANT PreventedIsTheDifference
CHECK_DEADLOCK FALSE
