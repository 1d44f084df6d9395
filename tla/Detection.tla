----------------------------- MODULE Detection -----------------------------
(***************************************************************************)
(* detection/pipeline.py build_assessment: the alerts of one scenario are  *)
(* appended to the ledger of their host one at a time, in whatever order   *)
(* the list holds them, then the ML layer scores the hosts it has a risk   *)
(* for and adds one ml_anomaly item to those above the threshold.          *)
(***************************************************************************)
EXTENDS Evidence, Sequences, SequencesExt

CONSTANTS
  Hosts,        \* topology.host_ids()
  AlertTypes,   \* the sensors that may fire in this instance
  Strengths,    \* the strengths they may report
  Risks,        \* the risk scores the model may return
  MaxAlerts     \* bound: how many alerts each host may receive

ASSUME DetectionAssumption ==
  /\ AlertTypes \subseteq SensorTypes
  /\ Strengths \subseteq Strength
  /\ Risks \subseteq Percent
  /\ MaxAlerts \in [Hosts -> Nat]

VARIABLES
  stage,     \* "ALERTS", "ML" or "DONE"
  ledger,    \* HostAssessment.evidence of each host, in arrival order
  risk,      \* HostAssessment.risk_score
  unscored   \* hosts the ML loop has not visited

vars == <<stage, ledger, risk, unscored>>

Items(h) == ToSet(ledger[h])

Init ==
  /\ stage = "ALERTS"
  /\ ledger = [h \in Hosts |-> <<>>]
  /\ risk = [h \in Hosts |-> NoRisk]
  /\ unscored = Hosts

\* for ev in alerts: ta.get(ev.host_id).add(ev)
AddAlert(h, t, strength) ==
  /\ stage = "ALERTS"
  /\ Len(ledger[h]) < MaxAlerts[h]
  /\ ledger' = [ledger EXCEPT ![h] = Append(@, AlertItem(t, strength))]
  /\ UNCHANGED <<stage, risk, unscored>>

\* "if risks:" -- with the ML layer off the assessment is finished.
EndAlerts(useMl) ==
  /\ stage = "ALERTS"
  /\ stage' = IF useMl THEN "ML" ELSE "DONE"
  /\ UNCHANGED <<ledger, risk, unscored>>

\* One turn of the ML loop: the risk is recorded, and an item added above 0.90.
ScoreHost(h, r) ==
  /\ stage = "ML"
  /\ h \in unscored
  /\ unscored' = unscored \ {h}
  /\ risk' = [risk EXCEPT ![h] = r]
  /\ ledger' = [ledger EXCEPT ![h] = @ \o SetToSeq(MlItems(r))]
  /\ stage' = IF unscored' = {} THEN "DONE" ELSE "ML"

\* "hr = risks.get(host_id); if hr is None: continue"
SkipHost(h) ==
  /\ stage = "ML"
  /\ h \in unscored
  /\ unscored' = unscored \ {h}
  /\ stage' = IF unscored' = {} THEN "DONE" ELSE "ML"
  /\ UNCHANGED <<ledger, risk>>

Done == stage = "DONE" /\ UNCHANGED vars

Next ==
  \/ \E h \in Hosts, t \in AlertTypes, s \in Strengths : AddAlert(h, t, s)
  \/ \E useMl \in BOOLEAN : EndAlerts(useMl)
  \/ \E h \in Hosts, r \in Risks : ScoreHost(h, r)
  \/ \E h \in Hosts : SkipHost(h)
  \/ Done

Spec == Init /\ [][Next]_vars

-----------------------------------------------------------------------------
Alerts(h) == {e \in Items(h) : e.type # "ml_anomaly"}

\* ta.confirmed_infected() and ta.suspected()
Confirmed == {h \in Hosts : HasHardEvidence(Items(h))}
Suspected ==
  {h \in Hosts : /\ IsSuspicious([evidence |-> Items(h), risk |-> risk[h]])
                 /\ ~HasHardEvidence(Items(h))}

-----------------------------------------------------------------------------
\* Every ledger holds items of a known type with a confidence in percent.
TypeOK ==
  /\ stage \in {"ALERTS", "ML", "DONE"}
  /\ ledger \in [Hosts -> Seq(Item)]
  /\ risk \in [Hosts -> RiskType]
  /\ unscored \subseteq Hosts

\* The model alone never proves an infection ("ML must never be hard evidence",
\* detection/pipeline.py): a host is confirmed only with a sensor alert.
MlNeverConfirmsAlone == \A h \in Confirmed : Alerts(h) # {}

\* Without a hard item, three independent signals confirm a host, or two if one
\* of them is a high-fidelity sensor or the model: repeats of one alert, at any
\* strengths, never add up, and two medium sensors are not enough.
CorroborationIsIndependent ==
  \A h \in Confirmed :
     HardItems(Items(h)) = {} =>
        LET types == {e.type : e \in Items(h)}
        IN  \/ Cardinality(types) >= 3
            \/ /\ Cardinality(types) = 2
               /\ types \cap (HighFidelity \cup {"ml_anomaly"}) # {}

\* More evidence never clears a host: appending to the ledger, in any order,
\* keeps a confirmed host confirmed and never lowers its confidence.
EvidenceIsMonotone ==
  [][\A h \in Hosts :
       /\ HasHardEvidence(Items(h)) => HasHardEvidence(Items(h)')
       /\ InfectionConfidence(Items(h)) <= InfectionConfidence(Items(h)')]_vars
=============================================================================
