CONSTANTS
  Hosts = {"ws", "db"}
  AlertTypes = {"c2_beacon", "auth_anomaly", "lateral_connection", "data_exfil_volume"}
  Strengths = {90, 100}
  Risks = {40, 90, 100}
  MaxAlerts <- MCMaxAlerts
SPECIFICATION Spec
INVARIANT MlNeverConfirmsAlone
INVARIANT CorroborationIsIndependent
PROPERTY EvidenceIsMonotone
