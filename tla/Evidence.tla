------------------------------ MODULE Evidence ------------------------------
(***************************************************************************)
(* The evidence model of amcds/evidence.py and the two rules the detection *)
(* layer feeds it with (amcds/detection).  Fidelities, strengths, risks    *)
(* and confidences are whole percents; the survival product of the noisy-OR*)
(* is kept in millionths, exact for up to three signals.                   *)
(*                                                                         *)
(* An item is [type, conf]: conf is Evidence.confidence, already scaled by *)
(* the strength of the alert.  An assessment is [evidence, risk], risk     *)
(* being NoRisk when the ML layer is off.                                  *)
(***************************************************************************)
EXTENDS Integers, FiniteSets, FiniteSetsExt, Folds

\* config.py, evidence and ML thresholds.
HARD_EVIDENCE_FIDELITY    == 85
CORROBORATION_CONFIDENCE  == 90
CORROBORATION_MIN_SIGNALS == 2
WEAK_EVIDENCE_FIDELITY    == 25
ML_SUSPICIOUS_THRESHOLD   == 90
ML_STRONG_THRESHOLD       == 98

\* None, the risk of a host the ML layer did not score.
NoRisk == -1

-----------------------------------------------------------------------------
HighFidelity   == {"ransomware_canary", "edr_malicious_process",
                   "credential_dump", "c2_beacon"}
MediumFidelity == {"auth_anomaly", "lateral_connection", "data_exfil_volume"}

\* The seven sensors of detection/sensors.py; nothing reports the two types that
\* evidence.py lists besides.
SensorTypes  == HighFidelity \cup MediumFidelity
EvidenceType == SensorTypes \cup {"ml_anomaly"}

\* EVIDENCE_FIDELITY: a property of the detector, not of one alert.
Fidelity ==
  [t \in SensorTypes |->
     CASE t = "ransomware_canary"     -> 97
       [] t = "edr_malicious_process" -> 94
       [] t = "credential_dump"       -> 92
       [] t = "c2_beacon"             -> 88
       [] t = "auth_anomaly"          -> 55
       [] t = "lateral_connection"    -> 60
       [] t = "data_exfil_volume"     -> 58]

Percent  == 0..100
Item     == [type : EvidenceType, conf : Percent]
RiskType == Percent \cup {NoRisk}

\* emit_alerts: a sensor that fires reports a strength in [0.5, 1].
Strength == 50..100

\* Evidence.confidence of a sensor alert: fidelity scaled by strength.
AlertItem(t, strength) == [type |-> t, conf |-> (Fidelity[t] * strength) \div 100]

\* ml_fidelity with the top of the band where its width belongs.
MlFidelityUncapped(risk) ==
  IF risk < ML_SUSPICIOUS_THRESHOLD THEN 0
  ELSE 40 + ((risk - ML_SUSPICIOUS_THRESHOLD) * 75) \div 10

\* ml_fidelity: a risk in [threshold, 1] mapped onto [0.40, 0.75], else 0.
MlFidelity(risk) ==
  IF risk < ML_SUSPICIOUS_THRESHOLD THEN 0
  ELSE 40 + ((risk - ML_SUSPICIOUS_THRESHOLD) * 35) \div 10

\* The item build_assessment adds for a scored host: none below the threshold.
MlItems(risk) ==
  IF MlFidelity(risk) = 0 THEN {}
  ELSE {[type |-> "ml_anomaly", conf |-> MlFidelity(risk)]}

-----------------------------------------------------------------------------
\* HostAssessment.hard_items.
HardItems(items) == {e \in items : e.conf >= HARD_EVIDENCE_FIDELITY}

\* corroborating_items without the one-per-type rule.
AllWeighty(items) == {e \in items : e.conf >= WEAK_EVIDENCE_FIDELITY}

\* corroborating_items keeping, of each type, an item no stronger than the rest.
FirstPerType(items) ==
  {e \in AllWeighty(items) :
     \A f \in AllWeighty(items) : f.type = e.type => f.conf >= e.conf}

\* HostAssessment.corroborating_items: the best item per evidence type.
CorroboratingItems(items) ==
  {e \in items : /\ e.conf >= WEAK_EVIDENCE_FIDELITY
                 /\ \A f \in items : f.type = e.type => f.conf <= e.conf}

\* corroborating_items are sorted by falling confidence: the last of some items.
Weakest(items) == CHOOSE e \in items : \A f \in items : e.conf <= f.conf

\* noisy_or: the product of (1 - confidence) in that order, in millionths, rounded
\* down at each factor.
Survival(items) ==
  MapThenFoldSet(LAMBDA conf, acc : (acc * (100 - conf)) \div 100, 1000000,
                 LAMBDA e : e.conf, Weakest, items)

\* noisy_or of the corroborating items, in millionths; 0 when there are none.
InfectionConfidence(items) == 1000000 - Survival(CorroboratingItems(items))

\* has_hard_evidence: one hard item, or enough independent signals.
HasHardEvidence(items) ==
  \/ HardItems(items) # {}
  \/ /\ Cardinality(CorroboratingItems(items)) >= CORROBORATION_MIN_SIGNALS
     /\ InfectionConfidence(items) >= CORROBORATION_CONFIDENCE * 10000

\* is_suspicious of an assessment a = [evidence, risk].
IsSuspicious(a) ==
  \/ HasHardEvidence(a.evidence)
  \/ a.risk >= ML_SUSPICIOUS_THRESHOLD
  \/ InfectionConfidence(a.evidence) >= 500000

Assessment == [evidence : SUBSET Item, risk : RiskType]
=============================================================================
