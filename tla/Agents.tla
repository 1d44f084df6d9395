------------------------------- MODULE Agents -------------------------------
(***************************************************************************)
(* The five specialists of amcds/agents: what each proposes, what it       *)
(* objects to and finds missing in a peer's proposal p, and which peer     *)
(* additions it adopts.  All are functions of the shared context           *)
(*   c = [assessment, attack, confirmed, suspected]                        *)
(* (NegotiationContext), which never holds ground truth.  Endorsements     *)
(* and every text only feed the report and are left out.                   *)
(***************************************************************************)
EXTENDS Topology

AgentNames  == {"Identity", "Network", "Data", "Endpoint", "BusinessImpact"}
Specialists == AgentNames \ {"BusinessImpact"}
AttackTypes == {"ransomware", "lateral_movement", "insider_threat"}

CREDENTIAL_PATH_TRUST == 2000
EXPOSURE_TRUST        == 2500
PII_REACH_TRUST       == 1000

Context == [assessment : [Hosts -> Assessment], attack : AttackTypes,
            confirmed : SUBSET Hosts, suspected : SUBSET Hosts]

\* NegotiationContext.build
BuildContext(assessment, attack) ==
  LET hard == {h \in Hosts : HasHardEvidence(assessment[h].evidence)}
  IN  [assessment |-> assessment, attack |-> attack, confirmed |-> hard,
       suspected |-> {h \in Hosts : IsSuspicious(assessment[h])} \ hard]

\* has_hard_evidence: the assessment does not change after build(), so asking
\* it again answers what ctx.confirmed recorded.
HardHost(c, h) == h \in c.confirmed

Evidence(c, h)  == c.assessment[h].evidence
RiskOf(c, h)    == c.assessment[h].risk
Signals(c, h)   == {e.type : e \in Evidence(c, h)}
ReachOf(c, h)   == Reach[c.confirmed][h]
Protects(c, h)  == HostsProtected[c.confirmed][h]
HasAlert(c, h)  == Signals(c, h) \ {"ml_anomaly"} # {}

-----------------------------------------------------------------------------
(* Identity *)
IdentityAssets == {h \in Hosts : HostType[h] \in {"domain_controller", "jump_host"}}

HasCredentialSignal(c, h) == Signals(c, h) \cap {"credential_dump", "auth_anomaly"} # {}

\* The best attack path from h to an identity asset other than itself.
BestAssetPath(h) == Max({0} \cup {Reach[{h}][a] : a \in IdentityAssets \ {h}})

IdentityPropose(c) ==
  LET pivots == {h \in c.suspected :
                   /\ BestAssetPath(h) >= CREDENTIAL_PATH_TRUST
                   /\ HasCredentialSignal(c, h) \/ BestAssetPath(h) >= 4000}
  IN  c.confirmed \cup {h \in pivots : HostType[h] # "domain_controller"}

IdentityObjects(c, p) == (p \cap IdentityAssets) \ c.confirmed
IdentityAdds(c, p)    == c.confirmed \ p
IdentityAccepts(c, h) == HardHost(c, h) \/ HasCredentialSignal(c, h)

-----------------------------------------------------------------------------
(* Network *)
NetworkPropose(c) ==
  LET exposed == {h \in Within2(c.confirmed) \ c.confirmed :
                    ReachOf(c, h) >= EXPOSURE_TRUST}
  IN  c.confirmed \cup {h \in exposed : \/ Protects(c, h) # {}
                                        \/ h \in Central
                                        \/ h \in c.suspected}

NetworkObjects(c, p) ==
  {h \in p \ c.confirmed :
     \/ ReachOf(c, h) < MIN_PATH_TRUST
     \/ Protects(c, h) = {} /\ ReachOf(c, h) < EXPOSURE_TRUST}

NetworkAdds(c, p) ==
  {h \in Hosts \ (p \cup c.confirmed) :
     ReachOf(c, h) >= 5000 /\ Cardinality(Protects(c, h)) >= 3}

NetworkAccepts(c, h) == HardHost(c, h) \/ ReachOf(c, h) >= EXPOSURE_TRUST

-----------------------------------------------------------------------------
(* Data *)
ExfilSignal(c, h) == "data_exfil_volume" \in Signals(c, h)

\* A multi-host service that S takes down completely although some host of it
\* has no hard evidence.
LosesEveryReplica(c, s, S) ==
  Cardinality(Deps[s]) >= 2 /\ Deps[s] \subseteq S /\ ~ Deps[s] \subseteq c.confirmed

\* min(spare, key = (confidence, risk, host_id)); a missing risk counts as 0.
LeastSuspicious(c, s) ==
  LET conf(h) == InfectionConfidence(Evidence(c, h))
      risk(h) == IF RiskOf(c, h) = NoRisk THEN 0 ELSE RiskOf(c, h)
  IN  CHOOSE h \in Deps[s] \ c.confirmed :
        \A g \in Deps[s] \ (c.confirmed \cup {h}) :
           \/ conf(h) < conf(g)
           \/ conf(h) = conf(g) /\ risk(h) < risk(g)
           \/ conf(h) = conf(g) /\ risk(h) = risk(g) /\ Before(h, g)

\* _preserve_a_replica, service by service in sorted order: a host given back
\* for one service may already spare the next.
PreserveReplicas(c, S) ==
  FoldLeft(LAMBDA out, s : IF LosesEveryReplica(c, s, out)
                           THEN out \ {LeastSuspicious(c, s)} ELSE out,
           S, ServiceOrder)

\* The PII hosts worth taking offline before they are proven compromised.
DataTargets(c) ==
  {h \in Pii \ c.confirmed :
     /\ ReachOf(c, h) >= PII_REACH_TRUST
     /\ \/ h \in c.suspected
        \/ ExfilSignal(c, h)
        \/ c.attack \in {"ransomware", "insider_threat"} /\ ReachOf(c, h) >= 4000}

\* The guard only takes targets back, never a proven host.
DataPropose(c) ==
  LET wanted == c.confirmed \cup DataTargets(c)
  IN  c.confirmed \cup (DataTargets(c) \cap PreserveReplicas(c, wanted))

DataObjects(c, p) ==
  {h \in p : \E s \in Services : LosesEveryReplica(c, s, p) /\ h = LeastSuspicious(c, s)}

DataAdds(c, p) ==
  {h \in Pii \ p : ExfilSignal(c, h) /\ ReachOf(c, h) >= PII_REACH_TRUST}

DataAccepts(c, h) == HardHost(c, h) \/ h \in Pii

-----------------------------------------------------------------------------
(* Endpoint *)
MlAvailable(c) == \E h \in Hosts : RiskOf(c, h) # NoRisk

Quiet(c, h) == ~HasAlert(c, h) /\ RiskOf(c, h) < ML_SUSPICIOUS_THRESHOLD

\* Without a score the alerts must do; the fault is to take no score for a bad one.
Unscored(c, h)     == RiskOf(c, h) = NoRisk
AlertedOnly(c, h)  == RiskOf(c, h) = NoRisk /\ InfectionConfidence(Evidence(c, h)) >= 500000

EndpointPropose(c) ==
  c.confirmed \cup
  {h \in Hosts :
     \/ RiskOf(c, h) >= ML_STRONG_THRESHOLD
     \/ RiskOf(c, h) >= ML_SUSPICIOUS_THRESHOLD /\ HasAlert(c, h)
     \/ AlertedOnly(c, h)}

EndpointObjects(c, p) == {h \in p \ c.confirmed : Quiet(c, h)}

EndpointAdds(c, p) ==
  {h \in Hosts \ p : MlAvailable(c) /\ RiskOf(c, h) >= ML_STRONG_THRESHOLD}

EndpointAccepts(c, h) == HardHost(c, h) \/ RiskOf(c, h) >= ML_SUSPICIOUS_THRESHOLD

-----------------------------------------------------------------------------
(* Business impact, the holder of the veto *)
BreachesGoldSla(h) == GoldServicesOn(h) # {}

VetoApplies(c, h) == BreachesGoldSla(h) /\ ~HardHost(c, h)

BusinessPropose(c)    == {h \in c.confirmed : BreachesGoldSla(h)}
BusinessObjects(c, p) == {h \in p : VetoApplies(c, h)}
BusinessAccepts(c, h) == HardHost(c, h)

-----------------------------------------------------------------------------
(* BaseAgent: the interface the protocol calls. *)
Propose(a, c) ==
  CASE a = "Identity"       -> IdentityPropose(c)
    [] a = "Network"        -> NetworkPropose(c)
    [] a = "Data"           -> DataPropose(c)
    [] a = "Endpoint"       -> EndpointPropose(c)
    [] a = "BusinessImpact" -> BusinessPropose(c)

Objections(a, c, p) ==
  CASE a = "Identity"       -> IdentityObjects(c, p)
    [] a = "Network"        -> NetworkObjects(c, p)
    [] a = "Data"           -> DataObjects(c, p)
    [] a = "Endpoint"       -> EndpointObjects(c, p)
    [] a = "BusinessImpact" -> BusinessObjects(c, p)

Additions(a, c, p) ==
  CASE a = "Identity"       -> IdentityAdds(c, p)
    [] a = "Network"        -> NetworkAdds(c, p)
    [] a = "Data"           -> DataAdds(c, p)
    [] a = "Endpoint"       -> EndpointAdds(c, p)
    [] a = "BusinessImpact" -> {}

Accepts(a, c, h) ==
  CASE a = "Identity"       -> IdentityAccepts(c, h)
    [] a = "Network"        -> NetworkAccepts(c, h)
    [] a = "Data"           -> DataAccepts(c, h)
    [] a = "Endpoint"       -> EndpointAccepts(c, h)
    [] a = "BusinessImpact" -> BusinessAccepts(c, h)

\* AgentProposal.confidence, in percent; every agent has weight 1.
Confidence(a, c) ==
  LET proven == c.confirmed # {}
  IN  CASE a = "Identity"       -> IF proven THEN 85 ELSE 35
        [] a = "Network"        -> IF proven THEN 85 ELSE 30
        [] a = "Data"           -> IF proven THEN 80 ELSE 35
        [] a = "Endpoint"       -> IF proven THEN 80 ELSE 40
        [] a = "BusinessImpact" -> 100
=============================================================================
