CONSTANTS
  HostOrder <- MCHostOrder
  ServiceOrder <- MCServiceOrder
  Trust <- MCTrust
  HostType <- MCHostType
  Pii <- MCPii
  Criticality <- MCCriticality
  Deps <- MCDeps
  Revenue <- MCRevenue
  Sla <- MCSla
  Central <- MCCentral
  Team = {"Identity", "Network", "Data", "Endpoint", "BusinessImpact"}
  Assessments <- MCAssessments
  Attacks = {"ransomware", "lateral_movement"}
  MaxHourlyLoss = 9000
SPECIFICATION Spec
INVARIANT TypeOK
INVARIANT ConfirmedNeverLost
INVARIANT GoldNeedsEvidence
INVARIANT VetoIsFinal
INVARIANT MultiHostServiceKeepsSpare
INVARIANT BudgetRespected
INVARIANT ModelIsSatisfiable
INVARIANT NoSpeculativeIsolation
INVARIANT LoneObjectorNeverPrevails
INVARIANT AdoptionsAreTraced
INVARIANT FreeCandidatesIsolated
INVARIANT ReplayAddsUp
PROPERTY CandidatesOnlyShrink
PROPERTY Decides
PROPERTY ImplementsContract
