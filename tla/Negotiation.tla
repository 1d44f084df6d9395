---------------------------- MODULE Negotiation ----------------------------
(***************************************************************************)
(* AMCDSPipeline.run from a finished assessment to a plan: the phases      *)
(* PROPOSE, CRITIQUE, COUNTER, VETO and CONSENSUS of negotiation/protocol.py*)
(* and the CP-SAT solver over the surviving candidates.  The code runs on  *)
(* one thread, so a phase is one step, except that each turn of the budget *)
(* loop of the veto holder is a step of its own.                           *)
(***************************************************************************)
EXTENDS Agents

CONSTANTS
  Team,          \* the agents of the protocol, default_agents() by default
  Assessments,   \* the assessments the detection layer may hand over
  Attacks,       \* the attack types they may come with
  MaxHourlyLoss  \* ceiling of the veto holder and of the solver

\* The protocol refuses an empty team; a team with no specialist cannot know
\* of a confirmed host that carries no gold service.  The detection layer adds a
\* model item only to a host it gave a score above the threshold.
ASSUME NegotiationAssumption ==
  /\ Team \subseteq AgentNames
  /\ Team \cap Specialists # {}
  /\ Assessments \subseteq [Hosts -> Assessment]
  /\ \A assessment \in Assessments : \A h \in Hosts : \A e \in assessment[h].evidence :
       e.type = "ml_anomaly" => assessment[h].risk >= ML_SUSPICIOUS_THRESHOLD
  /\ Attacks \subseteq AttackTypes
  /\ MaxHourlyLoss \in Nat

VARIABLES
  ctx,         \* NegotiationContext
  phase,       \* the phase to run next
  proposals,   \* agent -> isolate set of its proposal
  objections,  \* critic -> target -> hosts it objects to in target's proposal
  additions,   \* critic -> target -> hosts it finds missing there
  counters,    \* agent -> isolate set after COUNTER
  surviving,   \* candidates the veto phase lets through
  vetoed,      \* VetoDecision.vetoed
  overridden,  \* VetoDecision.overridden
  pending,     \* droppable hosts the budget loop has not visited
  final,       \* log.final_isolate
  plan,        \* result["isolate"]
  status       \* result["status"], "" before the solver ran

vars == <<ctx, phase, proposals, objections, additions, counters, surviving,
          vetoed, overridden, pending, final, plan, status>>

NoSets    == [a \in Team |-> {}]
NoReviews == [a \in Team |-> NoSets]

Init ==
  /\ \E assessment \in Assessments, attack \in Attacks :
       ctx = BuildContext(assessment, attack)
  /\ phase = "PROPOSE"
  /\ proposals = NoSets /\ counters = NoSets
  /\ objections = NoReviews /\ additions = NoReviews
  /\ surviving = {} /\ vetoed = {} /\ overridden = {} /\ pending = {}
  /\ final = {} /\ plan = {} /\ status = ""

-----------------------------------------------------------------------------
ProposePhase ==
  /\ phase = "PROPOSE"
  /\ proposals' = [a \in Team |-> Propose(a, ctx)]
  /\ phase' = "CRITIQUE"
  /\ UNCHANGED <<ctx, objections, additions, counters, surviving, vetoed,
                 overridden, pending, final, plan, status>>

\* What critic a says of the proposal of b; nobody reviews its own.
Review(a, b, hosts) == IF a = b THEN {} ELSE hosts

CritiquePhase ==
  /\ phase = "CRITIQUE"
  /\ objections' = [a \in Team |-> [b \in Team |-> Review(a, b, Objections(a, ctx, proposals[b]))]]
  /\ additions' = [a \in Team |-> [b \in Team |-> Review(a, b, Additions(a, ctx, proposals[b]))]]
  /\ phase' = "COUNTER"
  /\ UNCHANGED <<ctx, proposals, counters, surviving, vetoed, overridden,
                 pending, final, plan, status>>

\* counter(): a host two peers object to is conceded unless it is proven, then
\* the acceptable additions of the peers are adopted.
MIN_OBJECTIONS == 2

Conceded(a, own) ==
  {h \in own : /\ ~HardHost(ctx, h)
               /\ Cardinality({b \in Team : h \in objections[b][a]}) >= MIN_OBJECTIONS}

CounterOf(a) ==
  (proposals[a] \ Conceded(a, proposals[a]))
    \cup {h \in UNION {additions[b][a] : b \in Team} : Accepts(a, ctx, h)}

CounterPhase ==
  /\ phase = "COUNTER"
  /\ counters' = [a \in Team |-> CounterOf(a)]
  /\ phase' = "VETO"
  /\ UNCHANGED <<ctx, proposals, objections, additions, surviving, vetoed,
                 overridden, pending, final, plan, status>>

-----------------------------------------------------------------------------
Pooled == UNION {counters[a] : a \in Team}

HasVetoHolder == "BusinessImpact" \in Team

\* Rule 1 of apply_veto, and the fault of never applying it.
NoGoldVetoed   == {}
GoldVetoed     == {h \in Pooled : HasVetoHolder /\ VetoApplies(ctx, h)}
GoldOverridden == {h \in Pooled : HasVetoHolder /\ BreachesGoldSla(h) /\ HardHost(ctx, h)}

\* Rule 2 works on what rule 1 leaves.
RoundStart == Pooled \ GoldVetoed
Forced(S)  == {h \in S : HardHost(ctx, h)}

OverBudget(S)  == Cost[S] > MaxHourlyLoss
Attainable(S)  == Cost[Forced(S)] <= MaxHourlyLoss
AnyDroppable(S) == S
Droppable(S)   == {h \in S : ~HardHost(ctx, h)}
DropsBudget    == HasVetoHolder /\ OverBudget(RoundStart) /\ Attainable(RoundStart)

VetoPhase ==
  /\ phase = "VETO"
  /\ surviving' = RoundStart
  /\ vetoed' = GoldVetoed
  /\ overridden' = GoldOverridden
  /\ pending' = IF DropsBudget THEN Droppable(RoundStart) ELSE {}
  /\ phase' = IF DropsBudget THEN "BUDGET" ELSE "CONSENSUS"
  /\ UNCHANGED <<ctx, proposals, objections, additions, counters, final, plan, status>>

\* The loop visits the hosts by descending marginal cost at the start of the
\* round, ties by host id; each is visited once.
IsNext(h) ==
  /\ h \in pending
  /\ \A g \in pending \ {h} :
       \/ MarginalCost(RoundStart, h) > MarginalCost(RoundStart, g)
       \/ MarginalCost(RoundStart, h) = MarginalCost(RoundStart, g) /\ Before(h, g)

VisitAgain(h) == pending
Visit(h)      == pending \ {h}

BudgetDrop(h) ==
  /\ phase = "BUDGET"
  /\ OverBudget(surviving)
  /\ IsNext(h)
  /\ MarginalCost(surviving, h) > 0
  /\ surviving' = surviving \ {h}
  /\ vetoed' = vetoed \cup {h}
  /\ pending' = Visit(h)
  /\ UNCHANGED <<ctx, phase, proposals, objections, additions, counters,
                 overridden, final, plan, status>>

\* "if marginal <= 0: continue": another host keeps its services down.
BudgetSkip(h) ==
  /\ phase = "BUDGET"
  /\ OverBudget(surviving)
  /\ IsNext(h)
  /\ MarginalCost(surviving, h) <= 0
  /\ pending' = Visit(h)
  /\ UNCHANGED <<ctx, phase, proposals, objections, additions, counters,
                 surviving, vetoed, overridden, final, plan, status>>

BudgetEnd ==
  /\ phase = "BUDGET"
  /\ ~OverBudget(surviving) \/ pending = {}
  /\ pending' = {}
  /\ phase' = "CONSENSUS"
  /\ UNCHANGED <<ctx, proposals, objections, additions, counters, surviving,
                 vetoed, overridden, final, plan, status>>

-----------------------------------------------------------------------------
CONSENSUS_SUPPORT_THRESHOLD == 50

Weight(S) == MapThenSumSet(LAMBDA a : Confidence(a, ctx), S)

Supporters(h) == {a \in Team : h \in counters[a]}

\* An agent that holds the host itself after COUNTER is no objector.
Objectors(h) ==
  {a \in Team : h \notin counters[a] /\ \E b \in Team : h \in objections[a][b]}

Support(h)    == Weight(Supporters(h))

\* The vote as it would be if an agent counted once for each of its critiques.
OppositionPerCritique(h) ==
  MapThenSumSet(LAMBDA r : Confidence(r[1], ctx),
                {r \in Objectors(h) \X Team : h \in objections[r[1]][r[2]]})

Opposition(h) == Weight(Objectors(h))

Kept(h) ==
  \/ HardHost(ctx, h)
  \/ 100 * Support(h) >= CONSENSUS_SUPPORT_THRESHOLD * (Support(h) + Opposition(h))

\* The hosts that are put to the vote: not all that were pooled, and not only
\* those that were proposed in the first place.
AllPooled    == Pooled
ProposedOnly == {h \in surviving : \E a \in Team : h \in proposals[a]}
OnBallot     == surviving

ConsensusPhase ==
  /\ phase = "CONSENSUS"
  /\ final' = {h \in OnBallot : Kept(h)}
  /\ phase' = "SOLVE"
  /\ UNCHANGED <<ctx, proposals, objections, additions, counters, surviving,
                 vetoed, overridden, pending, plan, status>>

-----------------------------------------------------------------------------
NothingForced == {}
SolverHard    == ctx.confirmed \cap final

\* C2 and C3: some host without hard evidence of the service stays online,
\* enforced only when every such host is a candidate.
SpareOnline(s, p) ==
  LET spare == Deps[s] \ SolverHard
  IN  (spare # {} /\ spare \subseteq final) => ~ spare \subseteq p

ManyHost(s)  == Cardinality(Deps[s]) > 2
MultiHost(s) == Cardinality(Deps[s]) >= 2

\* C4, relaxed when the proven hosts alone are over the ceiling.
AnyCost(p)      == TRUE
StrictBudget(p) == Cost[p] <= MaxHourlyLoss
WithinBudget(p) == Cost[SolverHard] <= MaxHourlyLoss => Cost[p] <= MaxHourlyLoss

Feasible(p) ==
  /\ SolverHard \subseteq p
  /\ \A s \in Services : Sla[s] = "gold" \/ MultiHost(s) => SpareOnline(s, p)
  /\ WithinBudget(p)

FeasiblePlans == {p \in SUBSET final : Feasible(p)}

\* _risk_weight: criticality x reach x (1 + anomaly) x RISK_UNIT, rounded; with
\* RISK_UNIT = 500, reach in 1/10000 and the anomaly in percent.
RiskWeight(h) ==
  LET anomaly == IF RiskOf(ctx, h) = NoRisk THEN 0 ELSE RiskOf(ctx, h)
  IN  (Criticality[h] * ReachOf(ctx, h) * (100 + anomaly) + 1000) \div 2000

ResidualIfIsolated(p) == MapThenSumSet(RiskWeight, p)
ResidualRisk(p)       == MapThenSumSet(RiskWeight, final \ p)

Objective(p) == ResidualRisk(p) + Cost[p]

OptimalPlans ==
  LET value == [p \in FeasiblePlans |-> Objective(p)]
      best  == Min({value[p] : p \in FeasiblePlans})
  IN  {p \in FeasiblePlans : value[p] = best}

Solved(p, s) ==
  /\ plan' = p
  /\ status' = s
  /\ phase' = "DONE"
  /\ UNCHANGED <<ctx, proposals, objections, additions, counters, surviving,
                 vetoed, overridden, pending, final>>

SolveEmpty == phase = "SOLVE" /\ final = {} /\ Solved({}, "EMPTY")

SolveOptimal ==
  /\ phase = "SOLVE" /\ final # {}
  /\ \E p \in OptimalPlans : Solved(p, "OPTIMAL")

\* max_time_in_seconds is over with a solution in hand.
SolveFeasible ==
  /\ phase = "SOLVE" /\ final # {}
  /\ \E p \in FeasiblePlans : Solved(p, "FEASIBLE")

\* ... or without one: UNKNOWN, and INFEASIBLE if there is none.
SolveFallback ==
  /\ phase = "SOLVE" /\ final # {}
  /\ Solved(SolverHard, IF FeasiblePlans = {} THEN "INFEASIBLE" ELSE "UNKNOWN")

Done == phase = "DONE" /\ UNCHANGED vars

Next ==
  \/ ProposePhase
  \/ CritiquePhase
  \/ CounterPhase
  \/ VetoPhase
  \/ \E h \in Hosts : BudgetDrop(h) \/ BudgetSkip(h)
  \/ BudgetEnd
  \/ ConsensusPhase
  \/ SolveEmpty \/ SolveOptimal \/ SolveFeasible \/ SolveFallback
  \/ Done

Spec == Init /\ [][Next]_vars /\ WF_vars(Next)

-----------------------------------------------------------------------------
\* trace_host: the outcome the audit trail of the decision gives host h.
Outcome(h) ==
  CASE h \in plan -> "ISOLATED"
    [] h \in vetoed \ plan -> "VETOED"
    [] h \in final \ (plan \cup vetoed) -> "DROPPED_BY_OPTIMIZER"
    [] h \notin final \cup plan \cup vetoed ->
         IF \E a \in Team : h \in proposals[a]
         THEN "REJECTED_IN_CONSENSUS" ELSE "NOT_PROPOSED"

-----------------------------------------------------------------------------
Phases   == {"PROPOSE", "CRITIQUE", "COUNTER", "VETO", "BUDGET", "CONSENSUS",
             "SOLVE", "DONE"}
Statuses == {"", "EMPTY", "OPTIMAL", "FEASIBLE", "UNKNOWN", "INFEASIBLE"}

\* Shape of the state; the budget loop only ever holds unproven survivors.
TypeOK ==
  /\ ctx \in Context
  /\ phase \in Phases
  /\ proposals \in [Team -> SUBSET Hosts]
  /\ counters \in [Team -> SUBSET Hosts]
  /\ objections \in [Team -> [Team -> SUBSET Hosts]]
  /\ additions \in [Team -> [Team -> SUBSET Hosts]]
  /\ surviving \subseteq Hosts /\ vetoed \subseteq Hosts /\ overridden \subseteq Hosts
  /\ pending \subseteq surviving \ ctx.confirmed
  /\ final \subseteq Hosts /\ plan \subseteq Hosts
  /\ status \in Statuses

\* Every host with hard evidence is in the plan, however the agents object, the
\* budget presses and the solver ends (test_every_hard_evidence_host_is_isolated).
ConfirmedNeverLost == phase = "DONE" => ctx.confirmed \subseteq plan

\* A gold service goes down only with an isolated host of it that is proven
\* infected: the veto rule of business_impact_agent.py, carried to the plan.
GoldNeedsEvidence ==
  (phase = "DONE" /\ HasVetoHolder) =>
     \A s \in SlaBreaches(plan) : Deps[s] \cap plan \cap ctx.confirmed # {}

\* No support and no optimum brings a vetoed host back.
VetoIsFinal == vetoed \cap (final \cup plan) = {}

\* A service on several hosts is never taken down completely while one of its
\* hosts is unproven, although agents adopt each other's hosts after the Data
\* agent spared a replica.
MultiHostServiceKeepsSpare ==
  \A s \in Services :
     Cardinality(Deps[s]) >= 2 /\ Deps[s] \subseteq plan => Deps[s] \subseteq ctx.confirmed

\* The plan is within the ceiling unless the proven hosts alone exceed it,
\* whatever the budget loop of the veto left over.
BudgetRespected ==
  phase = "DONE" /\ Cost[ctx.confirmed] <= MaxHourlyLoss => Cost[plan] <= MaxHourlyLoss

\* The constraints never contradict each other: one gives way exactly where the
\* proven hosts, which must go, break it, so INFEASIBLE is never the answer.
ModelIsSatisfiable == status # "INFEASIBLE"

\* An unproven host the attacker cannot plausibly reach is isolated only if a
\* sensor reported it or the model finds it suspicious: no chain of proposals,
\* additions and adoptions brings in a host nothing points at.
NoSpeculativeIsolation ==
  \A h \in plan \ ctx.confirmed :
     \/ HasAlert(ctx, h)
     \/ RiskOf(ctx, h) >= ML_SUSPICIOUS_THRESHOLD
     \/ ReachOf(ctx, h) >= MIN_PATH_TRUST

\* One agent does not outvote two: a host that at least two agents hold after
\* COUNTER and the veto let through is dropped only against two objectors.
LoneObjectorNeverPrevails ==
  phase \in {"SOLVE", "DONE"} =>
     \A h \in surviving \ final :
        Cardinality(Supporters(h)) >= 2 =>
           Cardinality({a \in Team \ Supporters(h) :
                          \E b \in Team : h \in objections[a][b]}) >= 2

\* The trace never calls a host NOT_PROPOSED that some agent adopted from a peer
\* and still held when the vote was taken.
AdoptionsAreTraced ==
  phase = "DONE" =>
     \A h \in Hosts : Outcome(h) = "NOT_PROPOSED" => Supporters(h) = {}

\* At the optimum a candidate that costs nothing and carries risk is isolated.
FreeCandidatesIsolated ==
  status = "OPTIMAL" =>
     \A h \in final : ServicesOnHost(h) = {} /\ RiskWeight(h) > 0 => h \in plan

\* What is still on the table in each phase.
OnTable ==
  CASE phase = "VETO" -> Pooled
    [] phase \in {"BUDGET", "CONSENSUS"} -> surviving
    [] phase = "SOLVE" -> final
    [] phase = "DONE" -> plan
    [] OTHER -> Hosts

\* After COUNTER no phase adds a host; none removes a proven one.
CandidatesOnlyShrink ==
  [][/\ OnTable' \subseteq OnTable
     /\ OnTable \cap ctx.confirmed \subseteq OnTable']_vars

\* Every negotiation ends in a decision.
Decides == <>(phase = "DONE")

\* The negotiation implements the contract of a containment decision.
Guarded == IF HasVetoHolder
           THEN {h \in Hosts : VetoApplies(ctx, h)} ELSE {}

Contract == INSTANCE ContainmentContract WITH
  known <- ctx.confirmed,
  guarded <- Guarded,
  stage <- CASE phase = "SOLVE" -> "AGREED" [] phase = "DONE" -> "COMMITTED"
             [] OTHER -> "ARGUING",
  candidates <- final

ImplementsContract == Contract!Spec
=============================================================================
