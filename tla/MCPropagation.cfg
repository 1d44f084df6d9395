CONSTANTS
  HostOrder <- MCHostOrder
  Trust <- MCTrust
  HostType <- MCHostType
  Hardening <- MCHardening
  Pii <- MCPii
  Draws = {2, 20, 60}
SPECIFICATION Spec
INVARIANT PivotsExplainSpread
INVARIANT UntouchedPlanIsNeutral
CHECK_DEADLOCK FALSE
