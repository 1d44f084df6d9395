-------------------------- MODULE NegotiationProofs --------------------------
(***************************************************************************)
(* Theorems about the negotiation and its replay for every network, every  *)
(* team with a specialist and every assessment, checked by TLAPS: what the *)
(* phases do with the hosts, what the agents propose, and that the events  *)
(* of a replay add up to the decision.  Sums, relaxations and other folds  *)
(* are handled through the equation they satisfy (IsSum, IsFold, IsFlat),  *)
(* by smallest counterexample.                                             *)
(***************************************************************************)
EXTENDS Timeline, FiniteSetTheorems, WellFoundedInduction, TLAPS

\* Every agent proposes hosts of the network, and every specialist proposes
\* each confirmed host.
LEMMA ProposeType ==
  ASSUME NEW a \in AgentNames, NEW c, c.confirmed \subseteq Hosts, c.suspected \subseteq Hosts
  PROVE  /\ Propose(a, c) \subseteq Hosts
         /\ a \in Specialists => c.confirmed \subseteq Propose(a, c)
<1>1. CASE a = "Identity"
  BY <1>1 DEF Propose, IdentityPropose, Specialists
<1>2. CASE a = "Network"
  <2>1. Within2(c.confirmed) \subseteq Hosts
    BY DEF Within2, Neighbors
  <2> QED BY <1>2, <2>1 DEF Propose, NetworkPropose, Specialists
<1>3. CASE a = "Data"
  <2>1. DataTargets(c) \subseteq Hosts
    BY TopologyAssumption DEF DataTargets
  <2> QED BY <1>3, <2>1 DEF Propose, DataPropose, Specialists
<1>4. CASE a = "Endpoint"
  BY <1>4 DEF Propose, EndpointPropose, Specialists
<1>5. CASE a = "BusinessImpact"
  BY <1>5 DEF Propose, BusinessPropose, Specialists
<1> QED BY <1>1, <1>2, <1>3, <1>4, <1>5 DEF AgentNames

\* Objections are to hosts of the proposal, additions are hosts of the network.
LEMMA ReviewType ==
  ASSUME NEW a \in AgentNames, NEW c, c.confirmed \subseteq Hosts,
         NEW p \in SUBSET Hosts
  PROVE  /\ Objections(a, c, p) \subseteq p
         /\ Additions(a, c, p) \subseteq Hosts
<1>1. CASE a = "Identity"
  BY <1>1 DEF Objections, Additions, IdentityObjects, IdentityAdds
<1>2. CASE a = "Network"
  BY <1>2 DEF Objections, Additions, NetworkObjects, NetworkAdds
<1>3. CASE a = "Data"
  <2>1. DataAdds(c, p) \subseteq Hosts
    BY TopologyAssumption DEF DataAdds
  <2> QED BY <1>3, <2>1 DEF Objections, Additions, DataObjects
<1>4. CASE a = "Endpoint"
  BY <1>4 DEF Objections, Additions, EndpointObjects, EndpointAdds
<1>5. CASE a = "BusinessImpact"
  BY <1>5 DEF Objections, Additions, BusinessObjects
<1> QED BY <1>1, <1>2, <1>3, <1>4, <1>5 DEF AgentNames

-----------------------------------------------------------------------------
\* The state has its shape, and the budget loop only holds unproven survivors.
LEMMA InitTypeOK == Init => TypeOK
<1> SUFFICES ASSUME Init PROVE TypeOK
  OBVIOUS
<1>1. PICK assessment \in Assessments, attack \in Attacks : ctx = BuildContext(assessment, attack)
  BY DEF Init
<1>2. assessment \in [Hosts -> Assessment] /\ attack \in AttackTypes
  BY <1>1, NegotiationAssumption
<1>3. ctx \in Context
  BY <1>1, <1>2 DEF BuildContext, Context
<1>4. NoSets \in [Team -> SUBSET Hosts] /\ NoReviews \in [Team -> [Team -> SUBSET Hosts]]
  BY DEF NoSets, NoReviews
<1> QED BY <1>3, <1>4 DEF Init, TypeOK, Phases, Statuses

LEMMA ContextSets == TypeOK => ctx.confirmed \subseteq Hosts /\ ctx.suspected \subseteq Hosts
BY DEF TypeOK, Context

LEMMA SolverPlans ==
  /\ OptimalPlans \subseteq FeasiblePlans
  /\ \A p \in FeasiblePlans : p \subseteq final /\ Feasible(p)
BY DEF OptimalPlans, FeasiblePlans

LEMMA StepTypeOK == TypeOK /\ [Next]_vars => TypeOK'
<1> SUFFICES ASSUME TypeOK, [Next]_vars PROVE TypeOK'
  OBVIOUS
<1> USE NegotiationAssumption
<1>0. ctx.confirmed \subseteq Hosts /\ ctx.suspected \subseteq Hosts
  BY ContextSets
<1>1. CASE ProposePhase
  <2>1. \A a \in Team : Propose(a, ctx) \subseteq Hosts
    BY <1>0, ProposeType
  <2>2. proposals' \in [Team -> SUBSET Hosts]
    BY <1>1, <2>1 DEF ProposePhase
  <2> QED BY <1>1, <2>2 DEF ProposePhase, TypeOK, Phases
<1>2. CASE CritiquePhase
  <2>1. \A a, b \in Team : /\ Review(a, b, Objections(a, ctx, proposals[b])) \subseteq Hosts
                           /\ Review(a, b, Additions(a, ctx, proposals[b])) \subseteq Hosts
    <3> SUFFICES ASSUME NEW a \in Team, NEW b \in Team
                 PROVE  /\ Review(a, b, Objections(a, ctx, proposals[b])) \subseteq Hosts
                        /\ Review(a, b, Additions(a, ctx, proposals[b])) \subseteq Hosts
      OBVIOUS
    <3>1. proposals[b] \in SUBSET Hosts
      BY DEF TypeOK
    <3>2. /\ Objections(a, ctx, proposals[b]) \subseteq proposals[b]
          /\ Additions(a, ctx, proposals[b]) \subseteq Hosts
      BY <1>0, <3>1, ReviewType
    <3> QED BY <3>1, <3>2 DEF Review
  <2>2. /\ objections' \in [Team -> [Team -> SUBSET Hosts]]
        /\ additions' \in [Team -> [Team -> SUBSET Hosts]]
    BY <1>2, <2>1 DEF CritiquePhase
  <2> QED BY <1>2, <2>2 DEF CritiquePhase, TypeOK, Phases
<1>3. CASE CounterPhase
  <2>1. \A a \in Team : CounterOf(a) \subseteq Hosts
    BY DEF CounterOf, TypeOK
  <2>2. counters' \in [Team -> SUBSET Hosts]
    BY <1>3, <2>1 DEF CounterPhase
  <2> QED BY <1>3, <2>2 DEF CounterPhase, TypeOK, Phases
<1>4. CASE VetoPhase
  <2>1. Pooled \subseteq Hosts
    BY DEF Pooled, TypeOK
  <2>2. RoundStart \subseteq Hosts /\ GoldVetoed \subseteq Hosts /\ GoldOverridden \subseteq Hosts
    BY <2>1 DEF RoundStart, GoldVetoed, GoldOverridden
  <2>3. Droppable(RoundStart) \subseteq RoundStart \ ctx.confirmed
    BY DEF Droppable, HardHost
  <2> QED BY <1>4, <2>2, <2>3 DEF VetoPhase, TypeOK, Phases
<1>5. ASSUME NEW h \in Hosts, BudgetDrop(h) PROVE TypeOK'
  BY <1>5 DEF BudgetDrop, Visit, TypeOK, Phases
<1>6. ASSUME NEW h \in Hosts, BudgetSkip(h) PROVE TypeOK'
  BY <1>6 DEF BudgetSkip, Visit, TypeOK, Phases
<1>7. CASE BudgetEnd
  BY <1>7 DEF BudgetEnd, TypeOK, Phases
<1>8. CASE ConsensusPhase
  <2>1. final' \subseteq Hosts
    BY <1>8 DEF ConsensusPhase, OnBallot, TypeOK
  <2> QED BY <1>8, <2>1 DEF ConsensusPhase, TypeOK, Phases
<1>9. CASE SolveEmpty
  BY <1>9 DEF SolveEmpty, Solved, TypeOK, Phases, Statuses
<1>10. CASE SolveOptimal
  BY <1>10, SolverPlans DEF SolveOptimal, Solved, TypeOK, Phases, Statuses
<1>11. CASE SolveFeasible
  BY <1>11, SolverPlans DEF SolveFeasible, Solved, TypeOK, Phases, Statuses
<1>12. CASE SolveFallback
  <2>1. SolverHard \subseteq Hosts
    BY <1>0 DEF SolverHard
  <2> QED BY <1>12, <2>1 DEF SolveFallback, Solved, TypeOK, Phases, Statuses
<1>13. CASE UNCHANGED vars
  BY <1>13 DEF vars, TypeOK
<1> QED
  BY <1>1, <1>2, <1>3, <1>4, <1>5, <1>6, <1>7, <1>8, <1>9, <1>10, <1>11, <1>12, <1>13
     DEF Next, Done

\* The type invariant holds in every state of every negotiation.
THEOREM TypeCorrect == Spec => []TypeOK
<1>1. Init => TypeOK
  BY InitTypeOK
<1>2. TypeOK /\ [Next]_vars => TypeOK'
  BY StepTypeOK
<1> QED BY <1>1, <1>2, PTL DEF Spec

-----------------------------------------------------------------------------
(* The inductive invariant: what each phase hands to the next. *)

\* From PROPOSE on every specialist holds every proven host, and keeps it in
\* COUNTER.
SpecialistsKnow ==
  \A a \in Team \cap Specialists :
     /\ phase # "PROPOSE" => ctx.confirmed \subseteq proposals[a]
     /\ phase \notin {"PROPOSE", "CRITIQUE", "COUNTER"} => ctx.confirmed \subseteq counters[a]

\* The veto keeps the proven hosts and parts the others for good.
VetoSound ==
  IF phase \in {"BUDGET", "CONSENSUS", "SOLVE", "DONE"}
  THEN /\ ctx.confirmed \subseteq surviving
       /\ surviving \cap (vetoed \cup Guarded) = {}
  ELSE vetoed = {}

\* The vote keeps the proven hosts and adds none.
VoteSound ==
  IF phase \in {"SOLVE", "DONE"}
  THEN ctx.confirmed \subseteq final /\ final \subseteq surviving
  ELSE final = {}

\* The plan is a feasible selection, however the solver ended.
PlanSound ==
  IF phase = "DONE" THEN plan \subseteq final /\ Feasible(plan)
  ELSE plan = {} /\ status = ""

IInv ==
  /\ TypeOK
  /\ SpecialistsKnow
  /\ VetoSound
  /\ VoteSound
  /\ PlanSound
  /\ ModelIsSatisfiable

-----------------------------------------------------------------------------
\* The proven hosts alone satisfy every constraint of the CP-SAT model.
LEMMA HardFeasible == Feasible(SolverHard) /\ SolverHard \in FeasiblePlans
<1>1. SolverHard \subseteq final
  BY DEF SolverHard
<1>2. \A s \in Services : SpareOnline(s, SolverHard)
  BY DEF SpareOnline
<1>3. WithinBudget(SolverHard)
  BY DEF WithinBudget
<1> QED BY <1>1, <1>2, <1>3 DEF Feasible, FeasiblePlans

\* COUNTER concedes no proven host.
LEMMA CounterKeepsProven ==
  ASSUME TypeOK, NEW a \in Team, ctx.confirmed \subseteq proposals[a]
  PROVE  ctx.confirmed \subseteq CounterOf(a)
BY DEF CounterOf, Conceded, HardHost

\* Rule 1 leaves every proven host, and of the others none with a gold service.
LEMMA RuleOneSound ==
  ASSUME TypeOK, SpecialistsKnow, phase = "VETO"
  PROVE  /\ ctx.confirmed \subseteq RoundStart
         /\ RoundStart \cap (GoldVetoed \cup Guarded) = {}
<1>1. PICK a \in Team \cap Specialists : TRUE
  BY NegotiationAssumption
<1>2. ctx.confirmed \subseteq counters[a]
  BY <1>1 DEF SpecialistsKnow
<1>3. ctx.confirmed \subseteq Pooled
  BY <1>1, <1>2 DEF Pooled
<1>4. ctx.confirmed \cap GoldVetoed = {}
  BY DEF GoldVetoed, VetoApplies, HardHost
<1>5. RoundStart \cap Guarded = {}
  BY DEF RoundStart, GoldVetoed, Guarded
<1> QED BY <1>3, <1>4, <1>5 DEF RoundStart

LEMMA InitIInv == Init => IInv
<1> SUFFICES ASSUME Init PROVE IInv
  OBVIOUS
<1>1. TypeOK
  BY InitTypeOK
<1> QED
  BY <1>1 DEF IInv, Init, SpecialistsKnow, VetoSound, VoteSound, PlanSound, ModelIsSatisfiable

\* The three ways to the end leave a feasible plan inside the candidates.
LEMMA SolvedIInv ==
  ASSUME IInv, phase = "SOLVE",
         NEW p \in FeasiblePlans, NEW s \in Statuses, s # "INFEASIBLE", Solved(p, s)
  PROVE  SpecialistsKnow' /\ VetoSound' /\ VoteSound' /\ PlanSound' /\ ModelIsSatisfiable'
<1>1. p \subseteq final /\ Feasible(p)
  BY SolverPlans
<1>2. SolverHard' = SolverHard
  BY DEF Solved, SolverHard
<1>3. Feasible(plan)'
  BY <1>1, <1>2 DEF Solved, Feasible, SpareOnline, MultiHost, WithinBudget
<1>4. SpecialistsKnow'
  BY DEF IInv, SpecialistsKnow, Solved
<1>5. VetoSound'
  BY DEF IInv, VetoSound, Solved, Guarded
<1>6. VoteSound'
  BY DEF IInv, VoteSound, Solved
<1>7. PlanSound' /\ ModelIsSatisfiable'
  BY <1>1, <1>3 DEF PlanSound, ModelIsSatisfiable, Solved
<1> QED BY <1>4, <1>5, <1>6, <1>7

LEMMA StepIInv == IInv /\ [Next]_vars => IInv'
<1> SUFFICES ASSUME IInv, [Next]_vars PROVE IInv'
  OBVIOUS
<1> USE NegotiationAssumption DEF IInv
<1>0. TypeOK'
  BY StepTypeOK
<1>1. CASE ProposePhase
  <2>1. \A a \in Team \cap Specialists : ctx.confirmed \subseteq Propose(a, ctx)
    BY ContextSets, ProposeType
  <2>2. SpecialistsKnow'
    BY <1>1, <2>1 DEF ProposePhase, SpecialistsKnow
  <2> QED
    BY <1>0, <1>1, <2>2 DEF ProposePhase, VetoSound, VoteSound, PlanSound, ModelIsSatisfiable
<1>2. CASE CritiquePhase
  BY <1>0, <1>2
     DEF CritiquePhase, SpecialistsKnow, VetoSound, VoteSound, PlanSound, ModelIsSatisfiable
<1>3. CASE CounterPhase
  <2>1. \A a \in Team \cap Specialists : ctx.confirmed \subseteq CounterOf(a)
    BY <1>3, CounterKeepsProven DEF CounterPhase, SpecialistsKnow
  <2>2. SpecialistsKnow'
    BY <1>3, <2>1 DEF CounterPhase, SpecialistsKnow
  <2> QED
    BY <1>0, <1>3, <2>2 DEF CounterPhase, VetoSound, VoteSound, PlanSound, ModelIsSatisfiable
<1>4. CASE VetoPhase
  <2>1. /\ ctx.confirmed \subseteq RoundStart
        /\ RoundStart \cap (GoldVetoed \cup Guarded) = {}
    BY <1>4, RuleOneSound DEF VetoPhase
  <2>2. Guarded' = Guarded
    BY <1>4 DEF VetoPhase, Guarded
  <2>3. VetoSound'
    BY <1>4, <2>1, <2>2 DEF VetoPhase, VetoSound
  <2>4. SpecialistsKnow'
    BY <1>4 DEF VetoPhase, SpecialistsKnow
  <2> QED
    BY <1>0, <1>4, <2>3, <2>4 DEF VetoPhase, VoteSound, PlanSound, ModelIsSatisfiable
<1>5. ASSUME NEW h \in Hosts, BudgetDrop(h) PROVE IInv'
  <2>1. h \notin ctx.confirmed
    BY <1>5 DEF BudgetDrop, IsNext, TypeOK
  <2>2. Guarded' = Guarded
    BY <1>5 DEF BudgetDrop, Guarded
  <2>3. VetoSound'
    BY <1>5, <2>1, <2>2 DEF BudgetDrop, VetoSound
  <2>4. SpecialistsKnow'
    BY <1>5 DEF BudgetDrop, SpecialistsKnow
  <2> QED
    BY <1>0, <1>5, <2>3, <2>4 DEF BudgetDrop, VoteSound, PlanSound, ModelIsSatisfiable
<1>6. ASSUME NEW h \in Hosts, BudgetSkip(h) PROVE IInv'
  BY <1>0, <1>6 DEF BudgetSkip, SpecialistsKnow, VetoSound, Guarded, VoteSound, PlanSound,
                   ModelIsSatisfiable
<1>7. CASE BudgetEnd
  BY <1>0, <1>7 DEF BudgetEnd, SpecialistsKnow, VetoSound, Guarded, VoteSound, PlanSound,
                   ModelIsSatisfiable
<1>8. CASE ConsensusPhase
  <2>1. ctx.confirmed \subseteq final' /\ final' \subseteq surviving
    BY <1>8 DEF ConsensusPhase, OnBallot, Kept, HardHost, VetoSound
  <2>2. VoteSound'
    BY <1>8, <2>1 DEF ConsensusPhase, VoteSound
  <2>3. VetoSound'
    BY <1>8 DEF ConsensusPhase, VetoSound, Guarded
  <2>4. SpecialistsKnow'
    BY <1>8 DEF ConsensusPhase, SpecialistsKnow
  <2> QED
    BY <1>0, <1>8, <2>2, <2>3, <2>4 DEF ConsensusPhase, PlanSound, ModelIsSatisfiable
<1>9. CASE SolveEmpty
  <2>1. SolverHard = {}
    BY <1>9 DEF SolveEmpty, SolverHard
  <2>2. {} \in FeasiblePlans
    BY <2>1, HardFeasible
  <2> QED BY <1>0, <1>9, <2>2, SolvedIInv DEF SolveEmpty, Statuses
<1>10. CASE SolveOptimal
  BY <1>0, <1>10, SolverPlans, SolvedIInv DEF SolveOptimal, Statuses
<1>11. CASE SolveFeasible
  BY <1>0, <1>11, SolvedIInv DEF SolveFeasible, Statuses
<1>12. CASE SolveFallback
  <2>1. Solved(SolverHard, "UNKNOWN")
    BY <1>12, HardFeasible DEF SolveFallback
  <2> QED BY <1>0, <1>12, <2>1, HardFeasible, SolvedIInv DEF SolveFallback, Statuses
<1>13. CASE UNCHANGED vars
  BY <1>0, <1>13 DEF vars, SpecialistsKnow, VetoSound, Guarded, VoteSound, PlanSound, Feasible,
                     SpareOnline, MultiHost, WithinBudget, SolverHard, ModelIsSatisfiable
<1> QED
  BY <1>1, <1>2, <1>3, <1>4, <1>5, <1>6, <1>7, <1>8, <1>9, <1>10, <1>11, <1>12, <1>13
     DEF Next, Done

\* The inductive invariant holds in every state of every negotiation.
THEOREM Inductive == Spec => []IInv
<1>1. Init => IInv
  BY InitIInv
<1>2. IInv /\ [Next]_vars => IInv'
  BY StepIInv
<1> QED BY <1>1, <1>2, PTL DEF Spec

-----------------------------------------------------------------------------
(* What follows from it. *)

\* Every host with hard evidence is in the plan of every finished negotiation.
THEOREM ProvenHostsIsolated == Spec => []ConfirmedNeverLost
<1>1. IInv => ConfirmedNeverLost
  BY DEF IInv, VoteSound, PlanSound, Feasible, SolverHard, ConfirmedNeverLost
<1> QED BY <1>1, Inductive, PTL

\* What the veto holder forbids is neither a candidate nor isolated.
THEOREM VetoStands == Spec => []VetoIsFinal
<1>1. IInv => VetoIsFinal
  BY DEF IInv, VetoSound, VoteSound, PlanSound, VetoIsFinal
<1> QED BY <1>1, Inductive, PTL

\* A gold service goes down only with a proven host of it.
THEOREM GoldProtected == Spec => []GoldNeedsEvidence
<1>1. IInv => GoldNeedsEvidence
  <2> SUFFICES ASSUME IInv, phase = "DONE", HasVetoHolder, NEW s \in SlaBreaches(plan)
               PROVE  Deps[s] \cap plan \cap ctx.confirmed # {}
    BY DEF GoldNeedsEvidence
  <2>1. s \in GoldServices /\ s \in Services /\ Deps[s] \cap plan # {}
    BY DEF SlaBreaches, DownedServices
  <2>2. PICK h \in Deps[s] \cap plan : TRUE
    BY <2>1
  <2>3. h \in Hosts /\ h \notin Guarded
    BY <2>2 DEF IInv, TypeOK, VetoSound, VoteSound, PlanSound
  <2>4. BreachesGoldSla(h)
    BY <2>1, <2>2 DEF BreachesGoldSla, GoldServicesOn, ServicesOnHost
  <2>5. h \in ctx.confirmed
    BY <2>3, <2>4 DEF Guarded, VetoApplies, HardHost
  <2> QED BY <2>2, <2>5
<1> QED BY <1>1, Inductive, PTL

\* A service on several hosts keeps one online while one of them is unproven.
THEOREM SpareKept == Spec => []MultiHostServiceKeepsSpare
<1>1. IInv => MultiHostServiceKeepsSpare
  <2> SUFFICES ASSUME IInv, NEW s \in Services, Cardinality(Deps[s]) >= 2, Deps[s] \subseteq plan
               PROVE  Deps[s] \subseteq ctx.confirmed
    BY DEF MultiHostServiceKeepsSpare
  <2>1. Deps[s] # {}
    BY TopologyAssumption
  <2>2. plan \subseteq final /\ Feasible(plan)
    BY <2>1 DEF IInv, PlanSound
  <2>3. SpareOnline(s, plan)
    BY <2>2 DEF Feasible, MultiHost
  <2> QED BY <2>2, <2>3 DEF SpareOnline, SolverHard
<1> QED BY <1>1, Inductive, PTL

\* The plan costs no more than the ceiling unless the proven hosts alone do.
THEOREM BudgetKept == Spec => []BudgetRespected
<1>1. IInv => BudgetRespected
  <2> SUFFICES ASSUME IInv, phase = "DONE", Cost[ctx.confirmed] <= MaxHourlyLoss
               PROVE  Cost[plan] <= MaxHourlyLoss
    BY DEF BudgetRespected
  <2>1. Feasible(plan) /\ ctx.confirmed \subseteq final
    BY DEF IInv, PlanSound, VoteSound
  <2>2. SolverHard = ctx.confirmed
    BY <2>1 DEF SolverHard
  <2> QED BY <2>1, <2>2 DEF Feasible, WithinBudget
<1> QED BY <1>1, Inductive, PTL

\* The solver's model always has a solution, whatever survives the vote.
THEOREM NeverInfeasible == Spec => []ModelIsSatisfiable
<1>1. IInv => ModelIsSatisfiable
  BY DEF IInv
<1> QED BY <1>1, Inductive, PTL

\* After COUNTER no step adds a host, and none removes a proven one.
THEOREM OnlyShrinks == Spec => CandidatesOnlyShrink
<1> USE NegotiationAssumption
<1>1. IInv /\ [Next]_vars =>
        [OnTable' \subseteq OnTable /\ OnTable \cap ctx.confirmed \subseteq OnTable']_vars
  <2> SUFFICES ASSUME IInv, [Next]_vars
               PROVE  \/ OnTable' \subseteq OnTable /\ OnTable \cap ctx.confirmed \subseteq OnTable'
                      \/ UNCHANGED vars
    OBVIOUS
  <2>0. IInv' /\ ctx.confirmed \subseteq Hosts
    BY StepIInv, ContextSets DEF IInv
  <2>1. CASE ProposePhase
    BY <2>1 DEF ProposePhase, OnTable
  <2>2. CASE CritiquePhase
    BY <2>2 DEF CritiquePhase, OnTable
  <2>3. CASE CounterPhase
    <3>1. ctx.confirmed \subseteq Pooled'
      <4>1. PICK a \in Team \cap Specialists : TRUE
        OBVIOUS
      <4>2. ctx'.confirmed \subseteq counters'[a]
        BY <2>0, <2>3, <4>1 DEF CounterPhase, IInv, SpecialistsKnow
      <4>3. ctx' = ctx
        BY <2>3 DEF CounterPhase
      <4> QED BY <4>1, <4>2, <4>3 DEF Pooled
    <3>2. Pooled' \subseteq Hosts
      BY <2>0 DEF IInv, TypeOK, Pooled
    <3> QED BY <2>3, <3>1, <3>2 DEF CounterPhase, OnTable
  <2>4. CASE VetoPhase
    <3>1. ctx.confirmed \subseteq RoundStart
      BY <2>4, RuleOneSound DEF VetoPhase, IInv
    <3>2. RoundStart \subseteq Pooled
      BY DEF RoundStart
    <3> QED BY <2>4, <3>1, <3>2 DEF VetoPhase, OnTable
  <2>5. ASSUME NEW h \in Hosts, BudgetDrop(h) PROVE
          OnTable' \subseteq OnTable /\ OnTable \cap ctx.confirmed \subseteq OnTable'
    BY <2>5 DEF BudgetDrop, IsNext, OnTable, IInv, TypeOK
  <2>6. ASSUME NEW h \in Hosts, BudgetSkip(h) PROVE
          OnTable' \subseteq OnTable /\ OnTable \cap ctx.confirmed \subseteq OnTable'
    BY <2>6 DEF BudgetSkip, OnTable
  <2>7. CASE BudgetEnd
    BY <2>7 DEF BudgetEnd, OnTable
  <2>8. CASE ConsensusPhase
    <3>1. final' \subseteq surviving /\ ctx.confirmed \subseteq final'
      BY <2>0, <2>8 DEF ConsensusPhase, IInv, VoteSound
    <3> QED BY <2>8, <3>1 DEF ConsensusPhase, OnTable
  <2>9. CASE SolveEmpty \/ SolveOptimal \/ SolveFeasible \/ SolveFallback
    <3>1. phase = "SOLVE" /\ phase' = "DONE" /\ final' = final /\ ctx' = ctx
      BY <2>9 DEF SolveEmpty, SolveOptimal, SolveFeasible, SolveFallback, Solved
    <3>2. plan' \subseteq final /\ Feasible(plan)' /\ ctx.confirmed \subseteq final
      BY <2>0, <3>1 DEF IInv, PlanSound, VoteSound
    <3>3. ctx.confirmed \subseteq plan'
      BY <3>1, <3>2 DEF Feasible, SolverHard
    <3> QED BY <3>1, <3>2, <3>3 DEF OnTable
  <2>10. CASE UNCHANGED vars
    BY <2>10
  <2> QED
    BY <2>1, <2>2, <2>3, <2>4, <2>5, <2>6, <2>7, <2>8, <2>9, <2>10 DEF Next, Done
<1> QED BY <1>1, Inductive, PTL DEF Spec, CandidatesOnlyShrink

-----------------------------------------------------------------------------
(* The negotiation implements ContainmentContract, but for its liveness. *)

LEMMA InitContract == Init => Contract!Init
<1> SUFFICES ASSUME Init PROVE Contract!Init
  OBVIOUS
<1>1. ctx.confirmed \subseteq Hosts
  BY InitTypeOK, ContextSets
<1>2. Guarded \subseteq Hosts \ ctx.confirmed
  BY DEF Guarded, VetoApplies, HardHost
<1> QED BY <1>1, <1>2 DEF Init, Contract!Init

\* The vote is the agreement, the solver's answer the commitment, and every
\* other step is invisible.
LEMMA StepContract == IInv /\ [Next]_vars => [Contract!Next]_(Contract!vars)
<1> SUFFICES ASSUME IInv, [Next]_vars PROVE Contract!Next \/ UNCHANGED Contract!vars
  OBVIOUS
<1>0. IInv'
  BY StepIInv
<1>1. CASE ConsensusPhase
  <2>1. /\ phase = "CONSENSUS" /\ phase' = "SOLVE"
        /\ ctx' = ctx /\ plan' = plan
    BY <1>1 DEF ConsensusPhase
  <2>2. ctx.confirmed \subseteq final'
    BY <1>0, <2>1 DEF IInv, VoteSound
  <2>3. final' \in SUBSET (Hosts \ Guarded)
    <3>1. final' \subseteq surviving /\ surviving \subseteq Hosts
      BY <1>1 DEF ConsensusPhase, OnBallot, IInv, TypeOK
    <3> QED BY <2>1, <3>1 DEF IInv, VetoSound
  <2>4. Guarded' = Guarded
    BY <2>1 DEF Guarded
  <2>5. Contract!Agree
    BY <2>1, <2>2, <2>3, <2>4 DEF Contract!Agree
  <2> QED BY <2>5 DEF Contract!Next
<1>2. CASE SolveEmpty \/ SolveOptimal \/ SolveFeasible \/ SolveFallback
  <2>1. phase = "SOLVE" /\ phase' = "DONE" /\ final' = final /\ ctx' = ctx
    BY <1>2 DEF SolveEmpty, SolveOptimal, SolveFeasible, SolveFallback, Solved
  <2>2. plan' \subseteq final /\ ctx.confirmed \subseteq plan'
    BY <1>0, <2>1 DEF IInv, PlanSound, VoteSound, Feasible, SolverHard
  <2>3. Guarded' = Guarded
    BY <2>1 DEF Guarded
  <2>4. Contract!Commit
    BY <2>1, <2>2, <2>3 DEF Contract!Commit
  <2> QED BY <2>4 DEF Contract!Next
<1>3. ASSUME ctx' = ctx, final' = final, plan' = plan,
             phase \notin {"SOLVE", "DONE"}, phase' \notin {"SOLVE", "DONE"}
      PROVE  UNCHANGED Contract!vars
  BY <1>3 DEF Contract!vars, Guarded
<1>4. CASE ProposePhase \/ CritiquePhase \/ CounterPhase \/ VetoPhase \/ BudgetEnd
  BY <1>3, <1>4 DEF ProposePhase, CritiquePhase, CounterPhase, VetoPhase, BudgetEnd
<1>5. ASSUME NEW h \in Hosts, BudgetDrop(h) \/ BudgetSkip(h)
      PROVE  UNCHANGED Contract!vars
  BY <1>3, <1>5 DEF BudgetDrop, BudgetSkip
<1>6. CASE UNCHANGED vars
  BY <1>6 DEF vars, Contract!vars, Guarded
<1> QED
  BY <1>1, <1>2, <1>4, <1>5, <1>6 DEF Next, Done

\* Every behaviour of the negotiation is one the contract allows.
THEOREM Implements == Spec => Contract!Init /\ [][Contract!Next]_(Contract!vars)
<1>1. Init => Contract!Init
  BY InitContract
<1>2. IInv /\ [Next]_vars => [Contract!Next]_(Contract!vars)
  BY StepContract
<1> QED BY <1>1, <1>2, Inductive, PTL DEF Spec

-----------------------------------------------------------------------------
(* Smallest counterexamples, finite images and sums over finite sets. *)

\* The element a fold takes from a set next.
PickOf(s) == CHOOSE x \in s : TRUE

\* g is the function a sum of the w[x] over S is computed with: g[T] is the sum
\* over T, for every T inside S.
IsSum(g, w, S) ==
  g = [s \in SUBSET S |-> IF s = {} THEN 0 ELSE w[PickOf(s)] + g[s \ {PickOf(s)}]]

\* Of some finite sets one is smallest: no other of them is inside it.
LEMMA SmallestOf ==
  ASSUME NEW S, IsFiniteSet(S), NEW B \in SUBSET SUBSET S, B # {}
  PROVE  \E s \in B : \A t \in B : t \subseteq s => t = s
<1>1. B \subseteq FiniteSubsetsOf(S)
  <2>1. \A s \in B : s \subseteq S /\ IsFiniteSet(s) BY FS_Subset
  <2>. QED BY <2>1 DEF FiniteSubsetsOf
<1>2. PICK s \in B : \A t \in B : <<t, s>> \notin StrictSubsetOrdering(S)
  BY <1>1, WFMin, FS_StrictSubsetOrderingWellFounded
<1>3. \A t \in B : t \subseteq s /\ t # s => <<t, s>> \in StrictSubsetOrdering(S)
  BY DEF StrictSubsetOrdering
<1>4. \A t \in B : t \subseteq s => t = s BY <1>2, <1>3
<1>. QED BY <1>4

\* It is one of them.
LEMMA PickIn == \A s : s # {} => PickOf(s) \in s
BY DEF PickOf

\* What the equation says of one set, the empty and a nonempty one.
LEMMA SumStep ==
  \A S, w, g :
     IsSum(g, w, S) =>
       /\ g[{}] = 0
       /\ \A u \in SUBSET S :
            u # {} => PickOf(u) \in u /\ g[u] = w[PickOf(u)] + g[u \ {PickOf(u)}]
<1>. TAKE S, w, g
<1>1. {} \in SUBSET S OBVIOUS
<1>. QED BY <1>1, PickIn DEF IsSum

\* Two such functions agree where both are defined.
LEMMA SumUnique ==
  ASSUME NEW w, NEW S, NEW T, NEW g, NEW h,
         IsSum(g, w, S), IsSum(h, w, T), T \subseteq S, IsFiniteSet(T)
  PROVE  \A U \in SUBSET T : g[U] = h[U]
<1>. DEFINE Bad == {u \in SUBSET T : g[u] # h[u]}
<1>1. /\ g[{}] = 0 /\ h[{}] = 0
      /\ \A u \in SUBSET T :
           u # {} => /\ PickOf(u) \in u
                     /\ g[u] = w[PickOf(u)] + g[u \ {PickOf(u)}]
                     /\ h[u] = w[PickOf(u)] + h[u \ {PickOf(u)}]
  <2>. HIDE DEF Bad
  <2>1. /\ h[{}] = 0
        /\ \A u \in SUBSET T : u # {} => h[u] = w[PickOf(u)] + h[u \ {PickOf(u)}]
    BY SumStep
  <2>2. g[{}] = 0 BY SumStep
  <2>3. ASSUME NEW u \in SUBSET T, u # {}
        PROVE  PickOf(u) \in u /\ g[u] = w[PickOf(u)] + g[u \ {PickOf(u)}]
    <3>1. u \in SUBSET S OBVIOUS
    <3>. QED BY <2>3, <3>1, SumStep
  <2>. QED BY <2>1, <2>2, <2>3
<1>2. CASE Bad # {}
  <2>1. PICK u \in Bad : \A t \in Bad : t \subseteq u => t = u
    <3>1. Bad \in SUBSET SUBSET T OBVIOUS
    <3>. HIDE DEF Bad
    <3>. QED BY <1>2, <3>1, SmallestOf
  <2>2. u # {} BY <1>1
  <2>3. PickOf(u) \in u BY <1>1, <2>2
  <2>4. u \ {PickOf(u)} \notin Bad BY <2>1, <2>3
  <2>5. u \ {PickOf(u)} \in SUBSET T OBVIOUS
  <2>. QED BY <1>1, <2>2, <2>4, <2>5
<1>. QED BY <1>2

\* A sum over a finite set exists.
LEMMA SumExists ==
  ASSUME NEW S, IsFiniteSet(S), NEW w
  PROVE  \E g : IsSum(g, w, S)
<1>. DEFINE Bad == {s \in SUBSET S : ~ \E g : IsSum(g, w, s)}
<1>1. CASE Bad = {}
  BY <1>1
<1>2. CASE Bad # {}
  <2>1. PICK s \in Bad : \A t \in Bad : t \subseteq s => t = s
    <3>1. Bad \in SUBSET SUBSET S OBVIOUS
    <3>. HIDE DEF Bad
    <3>. QED BY <1>2, <3>1, SmallestOf
  <2>. DEFINE Of(t) == CHOOSE g : IsSum(g, w, t)
              below == [t \in SUBSET s |-> IF t = s THEN 0 ELSE Of(t)[t]]
              h == [t \in SUBSET s |->
                      IF t = {} THEN 0 ELSE w[PickOf(t)] + below[t \ {PickOf(t)}]]
  <2>2. \A t \in SUBSET s : t # s => IsSum(Of(t), w, t)
    <3>1. \A t \in SUBSET s : t # s => \E g : IsSum(g, w, t) BY <2>1
    <3>. QED BY <3>1
  <2>. HIDE DEF Of
  <2>3. \A t \in SUBSET s : t # {} =>
          /\ PickOf(t) \in t
          /\ t \ {PickOf(t)} \in SUBSET s /\ t \ {PickOf(t)} # s
          /\ t \ {PickOf(t)} \subseteq t /\ IsFiniteSet(t \ {PickOf(t)})
    BY PickIn, FS_Subset
  <2>4. ASSUME NEW t \in SUBSET s, t # s PROVE h[t] = below[t]
    <3>1. IsSum(Of(t), w, t) BY <2>2, <2>4
    <3>2. CASE t = {} BY <3>1, <3>2, <2>4, SumStep
    <3>3. CASE t # {}
      <4>1. Of(t)[t] = w[PickOf(t)] + Of(t)[t \ {PickOf(t)}]
        BY <3>1, <3>3, SumStep
      <4>2. IsSum(Of(t \ {PickOf(t)}), w, t \ {PickOf(t)}) BY <2>2, <2>3, <3>3
      <4>3. Of(t)[t \ {PickOf(t)}] = Of(t \ {PickOf(t)})[t \ {PickOf(t)}]
        <5>. DEFINE u == t \ {PickOf(t)}
        <5>1. IsFiniteSet(u) /\ u \in SUBSET t /\ u \in SUBSET u BY <2>3, <3>3
        <5>2. IsSum(Of(u), w, u) BY <4>2
        <5>. HIDE DEF u
        <5>3. Of(t)[u] = Of(u)[u] BY <3>1, <5>1, <5>2, SumUnique
        <5>. QED BY <5>3 DEF u
      <4>. QED BY <2>3, <2>4, <3>3, <4>1, <4>3
    <3>. QED BY <3>2, <3>3
  <2>5. \A t \in SUBSET s : t # {} => h[t \ {PickOf(t)}] = below[t \ {PickOf(t)}]
    <3>. HIDE DEF h, below
    <3>. QED BY <2>3, <2>4
  <2>6. h = [t \in SUBSET s |-> IF t = {} THEN 0 ELSE w[PickOf(t)] + h[t \ {PickOf(t)}]]
    <3>1. \A t \in SUBSET s :
            h[t] = IF t = {} THEN 0 ELSE w[PickOf(t)] + h[t \ {PickOf(t)}]
      <4>1. \A t \in SUBSET s :
              h[t] = IF t = {} THEN 0 ELSE w[PickOf(t)] + below[t \ {PickOf(t)}]
        OBVIOUS
      <4>. HIDE DEF h, below
      <4>. QED BY <2>5, <4>1
    <3>2. h = [t \in SUBSET s |-> h[t]] OBVIOUS
    <3>. HIDE DEF h
    <3>. QED BY <3>1, <3>2
  <2>7. IsSum(h, w, s) BY <2>6 DEF IsSum
  <2>. QED BY <2>1, <2>7
<1>. QED BY <1>1, <1>2

\* A sum of integers is an integer, and may be taken in any order.
LEMMA SumFacts ==
  ASSUME NEW S, IsFiniteSet(S), NEW w, \A x \in S : w[x] \in Int,
         NEW g, IsSum(g, w, S)
  PROVE  /\ g[{}] = 0
         /\ \A T \in SUBSET S : g[T] \in Int
         /\ \A T \in SUBSET S : \A x \in T : g[T] = w[x] + g[T \ {x}]
<1>0. /\ g[{}] = 0
      /\ \A T \in SUBSET S :
           T # {} => PickOf(T) \in T /\ g[T] = w[PickOf(T)] + g[T \ {PickOf(T)}]
  BY SumStep
<1>1. \A T \in SUBSET S : g[T] \in Int
  <2>. DEFINE Bad == {T \in SUBSET S : g[T] \notin Int}
  <2>. SUFFICES ASSUME Bad # {} PROVE FALSE
    OBVIOUS
  <2>1. PICK T \in Bad : \A U \in Bad : U \subseteq T => U = T
    <3>1. Bad \in SUBSET SUBSET S OBVIOUS
    <3>. HIDE DEF Bad
    <3>. QED BY <3>1, SmallestOf
  <2>2. T # {}
    <3>1. g[T] \notin Int /\ 0 \in Int OBVIOUS
    <3>. QED BY <1>0, <3>1
  <2>3. T \in SUBSET S OBVIOUS
  <2>4. PickOf(T) \in T /\ g[T] = w[PickOf(T)] + g[T \ {PickOf(T)}] BY <1>0, <2>2, <2>3
  <2>5. g[T \ {PickOf(T)}] \in Int BY <2>1, <2>4
  <2>. QED BY <2>1, <2>4, <2>5
<1>2. \A T \in SUBSET S : \A x \in T : g[T] = w[x] + g[T \ {x}]
  <2>. DEFINE Bad == {T \in SUBSET S : \E x \in T : g[T] # w[x] + g[T \ {x}]}
  <2>. SUFFICES ASSUME Bad # {} PROVE FALSE
    OBVIOUS
  <2>1. PICK T \in Bad : \A U \in Bad : U \subseteq T => U = T
    <3>1. Bad \in SUBSET SUBSET S OBVIOUS
    <3>. HIDE DEF Bad
    <3>. QED BY <3>1, SmallestOf
  <2>2. PICK x \in T : g[T] # w[x] + g[T \ {x}] OBVIOUS
  <2>. DEFINE c == PickOf(T)
  <2>3. T \in SUBSET S /\ T # {} OBVIOUS
  <2>4. c \in T /\ g[T] = w[c] + g[T \ {c}] BY <1>0, <2>3
  <2>. HIDE DEF c
  <2>5. c # x BY <2>2, <2>4
  <2>6. T \ {c} \notin Bad /\ T \ {x} \notin Bad BY <2>1, <2>4
  <2>7. x \in T \ {c} /\ c \in T \ {x} BY <2>4, <2>5
  <2>8. g[T \ {c}] = w[x] + g[(T \ {c}) \ {x}] BY <2>3, <2>6, <2>7
  <2>9. g[T \ {x}] = w[c] + g[(T \ {x}) \ {c}] BY <2>3, <2>6, <2>7
  <2>10. (T \ {c}) \ {x} = (T \ {x}) \ {c} OBVIOUS
  <2>11. g[(T \ {x}) \ {c}] \in Int BY <1>1, <2>3
  <2>12. w[x] \in Int /\ w[c] \in Int BY <2>3, <2>4
  <2>13. g[T] = w[c] + (w[x] + g[(T \ {x}) \ {c}]) BY <2>4, <2>8, <2>10
  <2>14. g[T] = w[x] + g[T \ {x}] 
    <3>. DEFINE r == g[(T \ {x}) \ {c}]
    <3>1. r \in Int /\ g[T] = w[c] + (w[x] + r) /\ g[T \ {x}] = w[c] + r
      BY <2>9, <2>11, <2>13
    <3>. HIDE DEF r
    <3>. QED BY <2>12, <3>1
  <2>. QED BY <2>2, <2>14
<1>. QED BY <1>1, <1>2, SumStep

\* A sum of natural numbers is one, and at least any two of its terms.
LEMMA SumBounds ==
  ASSUME NEW S, IsFiniteSet(S), NEW w, \A x \in S : w[x] \in Nat,
         NEW g, IsSum(g, w, S)
  PROVE  /\ \A T \in SUBSET S : g[T] \in Nat
         /\ \A T \in SUBSET S : \A x \in T : g[T] >= w[x]
         /\ \A T \in SUBSET S : \A x, y \in T : x # y => g[T] >= w[x] + w[y]
<1>0. /\ g[{}] = 0
      /\ \A T \in SUBSET S : g[T] \in Int
      /\ \A T \in SUBSET S : \A x \in T : g[T] = w[x] + g[T \ {x}]
  <2>1. \A x \in S : w[x] \in Int OBVIOUS
  <2>. QED BY <2>1, SumFacts
<1>1. \A T \in SUBSET S : g[T] \in Nat
  <2>. DEFINE Bad == {T \in SUBSET S : g[T] \notin Nat}
  <2>. SUFFICES ASSUME Bad # {} PROVE FALSE
    OBVIOUS
  <2>1. PICK T \in Bad : \A U \in Bad : U \subseteq T => U = T
    <3>1. Bad \in SUBSET SUBSET S OBVIOUS
    <3>. HIDE DEF Bad
    <3>. QED BY <3>1, SmallestOf
  <2>2. T # {}
    <3>1. g[T] \notin Nat /\ 0 \in Nat OBVIOUS
    <3>. QED BY <1>0, <3>1
  <2>3. PICK x \in T : TRUE BY <2>2
  <2>4. T \in SUBSET S /\ x \in S OBVIOUS
  <2>5. T \ {x} \notin Bad BY <2>1, <2>3
  <2>6. g[T \ {x}] \in Nat BY <2>4, <2>5
  <2>7. g[T] = w[x] + g[T \ {x}] BY <1>0, <2>3, <2>4
  <2>8. g[T] \in Nat BY <2>4, <2>6, <2>7
  <2>. QED BY <2>8
<1>2. ASSUME NEW T \in SUBSET S, NEW x \in T PROVE g[T] >= w[x]
  <2>1. T \ {x} \in SUBSET S /\ w[x] \in Nat OBVIOUS
  <2>2. g[T \ {x}] \in Nat BY <1>1, <2>1
  <2>3. g[T] = w[x] + g[T \ {x}] BY <1>0
  <2>. QED BY <2>1, <2>2, <2>3
<1>3. ASSUME NEW T \in SUBSET S, NEW x \in T, NEW y \in T, x # y
      PROVE  g[T] >= w[x] + w[y]
  <2>1. T \ {x} \in SUBSET S /\ y \in T \ {x} /\ w[x] \in Nat /\ w[y] \in Nat BY <1>3
  <2>2. g[T \ {x}] >= w[y] /\ g[T \ {x}] \in Nat BY <1>1, <1>2, <2>1
  <2>3. g[T] = w[x] + g[T \ {x}] BY <1>0
  <2>. QED BY <2>1, <2>2, <2>3
<1>. QED BY <1>1, <1>2, <1>3

\* Of some natural numbers one is the least: of the intervals up to them, one
\* contains no other.
LEMMA LeastOf ==
  ASSUME NEW S \in SUBSET Nat, S # {}
  PROVE  \E i \in S : \A j \in S : i <= j
<1>. DEFINE upTo == {1..i : i \in S}
<1>1. upTo \subseteq FiniteSubsetsOf(Nat) /\ upTo # {}
  <2>1. \A i \in S : 1..i \subseteq Nat /\ IsFiniteSet(1..i) BY FS_Interval
  <2>. QED BY <2>1 DEF FiniteSubsetsOf
<1>2. PICK t \in upTo : \A u \in upTo : <<u, t>> \notin StrictSubsetOrdering(Nat)
  BY <1>1, WFMin, FS_StrictSubsetOrderingWellFounded
<1>3. PICK i \in S : t = 1..i OBVIOUS
<1>4. ASSUME NEW j \in S, j < i PROVE FALSE
  <2>1. 1..j \subseteq 1..i /\ i \in 1..i /\ i \notin 1..j BY <1>4
  <2>2. 1..i \subseteq Nat OBVIOUS
  <2>3. <<1..j, 1..i>> \in StrictSubsetOrdering(Nat) BY <2>1, <2>2 DEF StrictSubsetOrdering
  <2>. QED BY <1>2, <1>3, <2>3
<1>. QED BY <1>4

\* What a function makes of a finite set is finite.
LEMMA ImageFinite ==
  ASSUME NEW S, IsFiniteSet(S), NEW f, NEW T, \A y \in T : \E x \in S : y = f[x]
  PROVE  IsFiniteSet(T)
<1>. DEFINE U == {f[x] : x \in S}
            g == [x \in S |-> f[x]]
<1>1. g \in Surjection(S, U) BY DEF Surjection
<1>2. IsFiniteSet(U) BY <1>1, FS_Surjection
<1>. QED BY <1>2, FS_Subset

-----------------------------------------------------------------------------
(* What the supporters and the objectors of a host weigh. *)

\* There are five agents at most.
LEMMA TeamFinite == IsFiniteSet(Team)
<1>1. /\ IsFiniteSet({"Identity"})
      /\ IsFiniteSet({"Identity", "Network"})
      /\ IsFiniteSet({"Identity", "Network", "Data"})
      /\ IsFiniteSet({"Identity", "Network", "Data", "Endpoint"})
      /\ IsFiniteSet({"Identity", "Network", "Data", "Endpoint", "BusinessImpact"})
  <2>1. IsFiniteSet({"Identity"}) BY FS_Singleton
  <2>2. IsFiniteSet({"Identity"} \cup {"Network"}) BY <2>1, FS_AddElement
  <2>3. IsFiniteSet({"Identity", "Network"} \cup {"Data"}) BY <2>2, FS_AddElement
  <2>4. IsFiniteSet({"Identity", "Network", "Data"} \cup {"Endpoint"}) BY <2>3, FS_AddElement
  <2>5. IsFiniteSet({"Identity", "Network", "Data", "Endpoint"} \cup {"BusinessImpact"})
    BY <2>4, FS_AddElement
  <2>. QED BY <2>1, <2>2, <2>3, <2>4, <2>5
<1>2. IsFiniteSet(AgentNames) BY <1>1 DEF AgentNames
<1>. QED BY <1>2, NegotiationAssumption, FS_Subset

\* The weight of some agents is the sum of their confidences.
LEMMA WeightIs ==
  ASSUME NEW S \in SUBSET Team
  PROVE  \E g : IsSum(g, [a \in Team |-> Confidence(a, ctx)], S) /\ Weight(S) = g[S]
<1>. DEFINE w == [a \in Team |-> Confidence(a, ctx)]
            G == CHOOSE g : g = [s \in SUBSET S |->
                   IF s = {} THEN 0
                   ELSE Confidence(CHOOSE x \in s : TRUE, ctx) + g[s \ {CHOOSE x \in s : TRUE}]]
<1>1. Weight(S) = G[S]
  BY DEF Weight, MapThenSumSet, MapThenFoldSet
<1>2. PICK g : IsSum(g, w, S)
  BY SumExists, TeamFinite, FS_Subset
<1>3. g = [s \in SUBSET S |->
             IF s = {} THEN 0
             ELSE Confidence(CHOOSE x \in s : TRUE, ctx) + g[s \ {CHOOSE x \in s : TRUE}]]
  <2>1. \A s \in SUBSET S : s # {} => w[PickOf(s)] = Confidence(CHOOSE x \in s : TRUE, ctx)
    BY PickIn DEF PickOf
  <2>. HIDE DEF w
  <2>2. g = [s \in SUBSET S |-> IF s = {} THEN 0 ELSE w[PickOf(s)] + g[s \ {PickOf(s)}]]
    BY <1>2 DEF IsSum
  <2>. QED BY <2>1, <2>2 DEF PickOf
<1>4. G = [s \in SUBSET S |->
             IF s = {} THEN 0
             ELSE Confidence(CHOOSE x \in s : TRUE, ctx) + G[s \ {CHOOSE x \in s : TRUE}]]
  BY <1>3
<1>5. IsSum(G, w, S)
  <2>1. \A s \in SUBSET S : s # {} => w[PickOf(s)] = Confidence(CHOOSE x \in s : TRUE, ctx)
    BY PickIn DEF PickOf
  <2>. HIDE DEF w, G
  <2>. QED BY <1>4, <2>1 DEF PickOf, IsSum
<1>. QED BY <1>1, <1>5

\* What the weights of the vote come to.
LEMMA WeightBounds ==
  ASSUME NEW S \in SUBSET Team
  PROVE  /\ Weight({}) = 0
         /\ Weight(S) \in Nat
         /\ \A a, b \in S : a # b => Weight(S) >= Confidence(a, ctx) + Confidence(b, ctx)
         /\ \A a \in S : S = {a} => Weight(S) = Confidence(a, ctx)
<1>. DEFINE w == [a \in Team |-> Confidence(a, ctx)]
<1>1. \A a \in Team : w[a] \in Nat /\ w[a] = Confidence(a, ctx)
  BY NegotiationAssumption DEF Confidence, AgentNames
<1>. HIDE DEF w
<1>2. \A T \in SUBSET Team : \E g : IsSum(g, w, T) /\ Weight(T) = g[T]
  BY WeightIs DEF w
<1>3. Weight({}) = 0
  <2>1. PICK g : IsSum(g, w, {}) /\ Weight({}) = g[{}] BY <1>2
  <2>. QED BY <2>1, SumStep
<1>4. PICK g : IsSum(g, w, S) /\ Weight(S) = g[S] BY <1>2
<1>5. IsFiniteSet(S) /\ \A a \in S : w[a] \in Nat BY <1>1, TeamFinite, FS_Subset
<1>6. /\ \A T \in SUBSET S : g[T] \in Nat
      /\ \A T \in SUBSET S : \A x, y \in T : x # y => g[T] >= w[x] + w[y]
  BY <1>4, <1>5, SumBounds
<1>7. /\ g[{}] = 0
      /\ \A T \in SUBSET S : \A x \in T : g[T] = w[x] + g[T \ {x}]
  <2>1. \A a \in S : w[a] \in Int BY <1>5
  <2>. QED BY <1>4, <1>5, <2>1, SumFacts
<1>8. ASSUME NEW a \in S, S = {a} PROVE Weight(S) = Confidence(a, ctx)
  <2>1. S \ {a} = {} BY <1>8
  <2>2. g[S] = w[a] + g[S \ {a}] BY <1>7
  <2>. QED BY <1>1, <1>4, <1>7, <2>1, <2>2
<1>. QED BY <1>1, <1>3, <1>4, <1>6, <1>8

-----------------------------------------------------------------------------
(* The vote: what the critiques and the pool hold when it is taken. *)

\* Objections are to hosts of the proposal, and those of the veto holder to hosts
\* it guards; there are none before CRITIQUE.
CritiqueSound ==
  /\ \A a, b \in Team : objections[a][b] \subseteq proposals[b]
  /\ \A b \in Team : HasVetoHolder => objections["BusinessImpact"][b] \subseteq Guarded
  /\ phase \in {"PROPOSE", "CRITIQUE"} => objections = NoReviews

\* A pooled host is still a candidate or was vetoed, and a candidate the vote
\* dropped did not carry it.
NothingSlipsOut ==
  /\ phase \in {"BUDGET", "CONSENSUS", "SOLVE", "DONE"} => Pooled \subseteq surviving \cup vetoed
  /\ phase \in {"SOLVE", "DONE"} => \A h \in surviving \ final : ~Kept(h)

VInv ==
  /\ IInv
  /\ CritiqueSound
  /\ NothingSlipsOut

\* Votes and weights do not change while what they are taken from does not.
LEMMA SameVote ==
  ASSUME UNCHANGED <<ctx, counters, objections>>
  PROVE  /\ Pooled' = Pooled
         /\ \A h : Kept(h)' <=> Kept(h)
<1>1. Pooled' = Pooled BY DEF Pooled
<1>2. ASSUME NEW h PROVE Kept(h)' <=> Kept(h)
  <2>1. Support(h)' = Support(h)
    <3>1. Supporters(h)' = Supporters(h) BY DEF Supporters
    <3>. QED BY <3>1, Zenon DEF Support, Weight, MapThenSumSet, MapThenFoldSet
  <2>2. Opposition(h)' = Opposition(h)
    <3>1. Objectors(h)' = Objectors(h) BY DEF Objectors
    <3>. QED BY <3>1, Zenon DEF Opposition, Weight, MapThenSumSet, MapThenFoldSet
  <2>3. HardHost(ctx, h)' <=> HardHost(ctx, h) BY DEF HardHost
  <2>. QED BY <2>1, <2>2, <2>3 DEF Kept
<1>. QED BY <1>1, <1>2

LEMMA StepCritiqueSound == VInv /\ [Next]_vars => CritiqueSound'
<1> SUFFICES ASSUME VInv, [Next]_vars PROVE CritiqueSound'
  OBVIOUS
<1> USE NegotiationAssumption
<1>0. TypeOK /\ CritiqueSound BY DEF VInv, IInv
<1>1. CASE ProposePhase
  <2>1. objections' = NoReviews BY <1>0, <1>1 DEF ProposePhase, CritiqueSound
  <2>2. \A a, b \in Team : NoReviews[a][b] = {} BY DEF NoReviews, NoSets
  <2>. QED BY <1>1, <2>1, <2>2 DEF ProposePhase, CritiqueSound, HasVetoHolder
<1>2. CASE CritiquePhase
  <2>1. \A a, b \in Team : objections'[a][b] = Review(a, b, Objections(a, ctx, proposals[b]))
    BY <1>2 DEF CritiquePhase
  <2>2. \A b \in Team : proposals[b] \in SUBSET Hosts BY <1>0 DEF TypeOK
  <2>3. \A a, b \in Team : Objections(a, ctx, proposals[b]) \subseteq proposals[b]
    BY <1>0, <2>2, ContextSets, ReviewType
  <2>4. \A a, b \in Team : objections'[a][b] \subseteq proposals'[b]
    BY <1>2, <2>1, <2>3 DEF Review, CritiquePhase
  <2>5. ASSUME NEW b \in Team, HasVetoHolder
        PROVE  objections'["BusinessImpact"][b] \subseteq Guarded'
    <3>1. Objections("BusinessImpact", ctx, proposals[b]) = BusinessObjects(ctx, proposals[b])
      BY DEF Objections
    <3>2. BusinessObjects(ctx, proposals[b]) \subseteq Guarded
      BY <2>2, <2>5 DEF BusinessObjects, Guarded
    <3>3. Guarded' = Guarded BY <1>2 DEF CritiquePhase, Guarded
    <3>. QED BY <2>1, <2>5, <3>1, <3>2, <3>3 DEF Review, HasVetoHolder
  <2>. QED BY <1>2, <2>4, <2>5 DEF CritiquePhase, CritiqueSound
<1>3. ASSUME UNCHANGED <<ctx, proposals, objections>>,
             phase' \notin {"PROPOSE", "CRITIQUE"} \/ phase' = phase
      PROVE  CritiqueSound'
  <2>1. Guarded' = Guarded BY <1>3 DEF Guarded
  <2>. QED BY <1>0, <1>3, <2>1 DEF CritiqueSound
<1>4. CASE CounterPhase \/ VetoPhase \/ BudgetEnd \/ ConsensusPhase
  BY <1>3, <1>4 DEF CounterPhase, VetoPhase, BudgetEnd, ConsensusPhase
<1>5. ASSUME NEW h \in Hosts, BudgetDrop(h) \/ BudgetSkip(h) PROVE CritiqueSound'
  BY <1>3, <1>5 DEF BudgetDrop, BudgetSkip
<1>6. CASE SolveEmpty \/ SolveOptimal \/ SolveFeasible \/ SolveFallback
  BY <1>3, <1>6 DEF SolveEmpty, SolveOptimal, SolveFeasible, SolveFallback, Solved
<1>7. CASE UNCHANGED vars
  BY <1>3, <1>7 DEF vars
<1>. QED BY <1>1, <1>2, <1>4, <1>5, <1>6, <1>7 DEF Next, Done

LEMMA StepNothingSlipsOut == VInv /\ [Next]_vars => NothingSlipsOut'
<1> SUFFICES ASSUME VInv, [Next]_vars PROVE NothingSlipsOut'
  OBVIOUS
<1>0. NothingSlipsOut BY DEF VInv
<1>1. CASE ProposePhase \/ CritiquePhase \/ CounterPhase
  BY <1>1 DEF ProposePhase, CritiquePhase, CounterPhase, NothingSlipsOut
<1>2. CASE VetoPhase
  <2>1. Pooled' = Pooled BY <1>2, SameVote DEF VetoPhase
  <2>2. Pooled \subseteq RoundStart \cup GoldVetoed BY DEF RoundStart
  <2>. QED BY <1>2, <2>1, <2>2 DEF VetoPhase, NothingSlipsOut
<1>3. ASSUME NEW h \in Hosts, BudgetDrop(h) PROVE NothingSlipsOut'
  <2>1. Pooled' = Pooled BY <1>3, SameVote DEF BudgetDrop
  <2>. QED BY <1>0, <1>3, <2>1 DEF BudgetDrop, NothingSlipsOut
<1>4. ASSUME NEW h \in Hosts, BudgetSkip(h) PROVE NothingSlipsOut'
  <2>1. Pooled' = Pooled BY <1>4, SameVote DEF BudgetSkip
  <2>. QED BY <1>0, <1>4, <2>1 DEF BudgetSkip, NothingSlipsOut
<1>5. CASE BudgetEnd
  <2>1. Pooled' = Pooled BY <1>5, SameVote DEF BudgetEnd
  <2>. QED BY <1>0, <1>5, <2>1 DEF BudgetEnd, NothingSlipsOut
<1>6. CASE ConsensusPhase
  <2>1. Pooled' = Pooled /\ \A h : Kept(h)' <=> Kept(h) BY <1>6, SameVote DEF ConsensusPhase
  <2>. QED BY <1>0, <1>6, <2>1 DEF ConsensusPhase, OnBallot, NothingSlipsOut
<1>7. ASSUME UNCHANGED <<ctx, counters, objections, surviving, vetoed, final>>,
             phase' = phase \/ phase = "SOLVE"
      PROVE  NothingSlipsOut'
  <2>1. Pooled' = Pooled /\ \A h : Kept(h)' <=> Kept(h) BY <1>7, SameVote
  <2>. QED BY <1>0, <1>7, <2>1 DEF NothingSlipsOut
<1>8. CASE SolveEmpty \/ SolveOptimal \/ SolveFeasible \/ SolveFallback
  BY <1>7, <1>8 DEF SolveEmpty, SolveOptimal, SolveFeasible, SolveFallback, Solved
<1>9. CASE UNCHANGED vars
  BY <1>7, <1>9 DEF vars
<1>. QED BY <1>1, <1>2, <1>3, <1>4, <1>5, <1>6, <1>8, <1>9 DEF Next, Done

\* What the critiques and the pool hold is invariant.
THEOREM VoteIsAccounted == Spec => []VInv
<1>1. Init => VInv
  <2>. SUFFICES ASSUME Init PROVE CritiqueSound /\ NothingSlipsOut
    BY InitIInv DEF VInv
  <2>1. \A a, b \in Team : NoReviews[a][b] = {} BY DEF NoReviews, NoSets
  <2>. QED BY <2>1 DEF Init, CritiqueSound, NothingSlipsOut, HasVetoHolder
<1>2. VInv /\ [Next]_vars => VInv'
  BY StepIInv, StepCritiqueSound, StepNothingSlipsOut DEF VInv
<1>. QED BY <1>1, <1>2, PTL DEF Spec

\* A candidate nobody objects to carries the vote.
LEMMA UnopposedKept ==
  ASSUME TypeOK, NEW h, Objectors(h) = {}
  PROVE  Kept(h)
<1>1. Supporters(h) \in SUBSET Team BY DEF Supporters
<1>2. Weight({}) = 0 /\ Weight(Supporters(h)) \in Nat BY <1>1, WeightBounds
<1>3. Opposition(h) = 0 /\ Support(h) \in Nat BY <1>2 DEF Opposition, Support
<1>. QED BY <1>3 DEF Kept, CONSENSUS_SUPPORT_THRESHOLD

\* A host some agent adopted and still held at the vote is never called NOT_PROPOSED:
\* without a proposal there is no objection, and without an objection no lost vote.
THEOREM AdoptionsTraced == Spec => []AdoptionsAreTraced
<1>1. VInv => AdoptionsAreTraced
  <2>. SUFFICES ASSUME VInv, phase = "DONE", NEW h \in Hosts, Outcome(h) = "NOT_PROPOSED"
                PROVE  Supporters(h) = {}
    BY DEF AdoptionsAreTraced
  <2>1. h \notin final \cup plan \cup vetoed /\ \A a \in Team : h \notin proposals[a]
    BY DEF Outcome
  <2>2. Objectors(h) = {}
    BY <2>1 DEF Objectors, VInv, CritiqueSound
  <2>3. Kept(h) BY <2>2, UnopposedKept DEF VInv, IInv
  <2>4. h \notin surviving BY <2>1, <2>3 DEF VInv, NothingSlipsOut
  <2>5. h \notin Pooled BY <2>1, <2>4 DEF VInv, NothingSlipsOut
  <2>. QED BY <2>5 DEF Pooled, Supporters
<1>. QED BY <1>1, VoteIsAccounted, PTL

\* One agent does not outvote two: the veto holder, whose word weighs as much as
\* three, never has to vote against a host it let through.
THEOREM LoneObjectorLoses == Spec => []LoneObjectorNeverPrevails
<1>1. VInv => LoneObjectorNeverPrevails
  <2>. SUFFICES ASSUME VInv, phase \in {"SOLVE", "DONE"}, NEW h \in surviving \ final,
                       Cardinality(Supporters(h)) >= 2, Cardinality(Objectors(h)) < 2
                PROVE  FALSE
    <3>1. \A h : {a \in Team \ Supporters(h) : \E b \in Team : h \in objections[a][b]}
                   = Objectors(h)
      BY DEF Objectors, Supporters
    <3>2. \A h : Objectors(h) \subseteq Team BY DEF Objectors
    <3>3. \A h : Cardinality(Objectors(h)) \in Nat /\ 2 \in Nat
      <4>1. \A h : IsFiniteSet(Objectors(h)) BY <3>2, TeamFinite, FS_Subset
      <4>. QED BY <4>1, FS_CardinalityType
    <3>4. \A n \in Nat : ~(n < 2) => n >= 2 OBVIOUS
    <3>5. \A h : ~(Cardinality(Objectors(h)) < 2) => Cardinality(Objectors(h)) >= 2
      BY <3>3, <3>4
    <3>. QED BY <3>1, <3>5 DEF LoneObjectorNeverPrevails
  <2>0. ~Kept(h) /\ h \notin Guarded
    BY DEF VInv, IInv, NothingSlipsOut, VetoSound
  <2>1. Supporters(h) \in SUBSET Team /\ Objectors(h) \in SUBSET Team
    BY DEF Supporters, Objectors
  <2>2. IsFiniteSet(Supporters(h)) /\ IsFiniteSet(Objectors(h))
    BY <2>1, TeamFinite, FS_Subset
  <2>3. PICK a \in Supporters(h), b \in Supporters(h) : a # b
    <3>1. Supporters(h) # {} BY <2>2, FS_EmptySet
    <3>2. PICK a \in Supporters(h) : TRUE BY <3>1
    <3>3. Cardinality(Supporters(h) \ {a}) = Cardinality(Supporters(h)) - 1
      BY <2>2, <3>2, FS_RemoveElement
    <3>4. Supporters(h) \ {a} # {}
      <4>1. Cardinality(Supporters(h)) \in Nat BY <2>2, FS_CardinalityType
      <4>2. Cardinality(Supporters(h) \ {a}) # 0 BY <3>3, <4>1
      <4>. QED BY <4>2, FS_EmptySet
    <3>. QED BY <3>2, <3>4
  <2>4. Support(h) >= Confidence(a, ctx) + Confidence(b, ctx) /\ Support(h) \in Nat
    BY <2>1, <2>3, WeightBounds DEF Support
  <2>5. PICK x \in Objectors(h) : Objectors(h) = {x}
    <3>1. Objectors(h) # {} BY <2>0, UnopposedKept DEF VInv, IInv
    <3>2. PICK x \in Objectors(h) : TRUE BY <3>1
    <3>3. Cardinality(Objectors(h) \ {x}) = Cardinality(Objectors(h)) - 1
      BY <2>2, <3>2, FS_RemoveElement
    <3>4. Objectors(h) \ {x} = {}
      <4>1. IsFiniteSet(Objectors(h) \ {x}) BY <2>2, FS_Subset
      <4>2. /\ Cardinality(Objectors(h) \ {x}) \in Nat
            /\ Cardinality(Objectors(h)) \in Nat
        BY <2>2, <4>1, FS_CardinalityType
      <4>3. Cardinality(Objectors(h) \ {x}) = 0 BY <3>3, <4>2
      <4>. QED BY <4>1, <4>3, FS_EmptySet
    <3>. QED BY <3>2, <3>4
  <2>6. Opposition(h) = Confidence(x, ctx)
    BY <2>1, <2>5, WeightBounds DEF Opposition
  <2>7. x # "BusinessImpact" \/ ctx.confirmed # {}
    <3>. SUFFICES ASSUME x = "BusinessImpact" PROVE FALSE
      OBVIOUS
    <3>1. HasVetoHolder BY <2>1 DEF HasVetoHolder
    <3>2. PICK c \in Team : h \in objections["BusinessImpact"][c] BY DEF Objectors
    <3>. QED BY <2>0, <3>1, <3>2 DEF VInv, CritiqueSound
  <2>8. Confidence(a, ctx) + Confidence(b, ctx) > Confidence(x, ctx)
    <3>1. a \in AgentNames /\ b \in AgentNames /\ x \in AgentNames
      BY <2>1, NegotiationAssumption
    <3>2. CASE ctx.confirmed # {}
      <4>1. \A c \in AgentNames : Confidence(c, ctx) \in 80..100
        BY <3>2 DEF Confidence, AgentNames
      <4>. QED BY <3>1, <4>1
    <3>3. CASE ctx.confirmed = {}
      <4>1. \A c \in AgentNames : Confidence(c, ctx) \in 30..100
        BY <3>3 DEF Confidence, AgentNames
      <4>2. \A c \in AgentNames \ {"BusinessImpact"} : Confidence(c, ctx) \in 30..40
        BY <3>3 DEF Confidence, AgentNames
      <4>. QED BY <2>7, <3>1, <3>3, <4>1, <4>2
    <3>. QED BY <3>2, <3>3
  <2>9. Confidence(a, ctx) \in Nat /\ Confidence(b, ctx) \in Nat /\ Confidence(x, ctx) \in Nat
    BY <2>1, NegotiationAssumption DEF Confidence, AgentNames
  <2>. QED BY <2>0, <2>4, <2>6, <2>8, <2>9 DEF Kept, CONSENSUS_SUPPORT_THRESHOLD
<1>. QED BY <1>1, VoteIsAccounted, PTL

-----------------------------------------------------------------------------
(* Path trusts are natural numbers. *)

\* A finite set of numbers has a best one: of the sets of numbers no smaller than
\* one of them, one contains no other.
LEMMA BestIs ==
  ASSUME NEW F, IsFiniteSet(F), F # {}
  PROVE  F \subseteq Nat => Best(F) \in F /\ \A u \in F : u <= Best(F)
<1>. DEFINE above == {{y \in F : y >= x} : x \in F}
<1>1. PICK s \in above : \A t \in above : t \subseteq s => t = s
  <2>1. above \in SUBSET SUBSET F OBVIOUS
  <2>2. above # {} OBVIOUS
  <2>. HIDE DEF above
  <2>. QED BY <2>1, <2>2, SmallestOf
<1>2. PICK x \in F : s = {y \in F : y >= x} OBVIOUS
<1>. HAVE F \subseteq Nat
<1>3. ASSUME NEW z \in F, z > x PROVE FALSE
  <2>1. {y \in F : y >= z} \in above OBVIOUS
  <2>2. x \in Nat /\ z \in Nat OBVIOUS
  <2>3. {y \in F : y >= z} \subseteq s
    <3>1. \A y \in Nat : y >= z => y >= x BY <1>3, <2>2
    <3>. QED BY <1>2, <3>1
  <2>4. x \in s /\ x \notin {y \in F : y >= z} BY <1>2, <1>3, <2>2
  <2>. HIDE DEF above
  <2>. QED BY <1>1, <2>1, <2>3, <2>4
<1>4. \A u \in F : u <= x
  <2>1. \A u \in F : u \in Nat /\ x \in Nat /\ ~(u > x) BY <1>3
  <2>. QED BY <2>1
<1>. QED BY <1>4 DEF Best

\* A network has finitely many hosts and services: they are listed.
LEMMA HostsFinite == IsFiniteSet(Hosts) /\ IsFiniteSet(Services)
<1>1. HostOrder \in Seq(Hosts) /\ ServiceOrder \in Seq(Services) BY TopologyAssumption
<1>2. IsFiniteSet(1..Len(HostOrder)) /\ IsFiniteSet(1..Len(ServiceOrder)) BY <1>1, FS_Interval
<1>3. Hosts = {HostOrder[i] : i \in 1..Len(HostOrder)} BY <1>1 DEF Hosts, ToSet
<1>4. Services = {ServiceOrder[i] : i \in 1..Len(ServiceOrder)} BY <1>1 DEF Services, ToSet
<1>. QED BY <1>2, <1>3, <1>4, ImageFinite

\* So is the trust of one hop.
LEMMA HopType == \A g, h \in Hosts : Hop(g, h) \in Nat
<1>1. Trust \in [Hosts -> [Hosts -> 0..100]] BY TopologyAssumption DEF Percent
<1>. TAKE g, h \in Hosts
<1>2. Trust[g] \in [Hosts -> 0..100] BY <1>1
<1>3. Trust[g][h] \in Nat BY <1>2
<1>. QED BY <1>3 DEF Hop

\* A table of path trusts: a number for each host of D.
PathsFor(paths, D) ==
  /\ paths \in SUBSET (D \X Nat) /\ IsFiniteSet(paths)
  /\ \A h \in D : \E t \in Nat : <<h, t>> \in paths

LEMMA RelaxType ==
  ASSUME NEW cut, NEW paths, PathsFor(paths, Hosts \ cut)
  PROVE  PathsFor(Relax(paths, cut), Hosts \ cut)
<1>. DEFINE D == Hosts \ cut
            to(h) == {(p[2] * Hop(p[1], h)) \div 100 : p \in paths}
            step == [h \in D |-> <<h, Best(to(h))>>]
<1>1. ASSUME NEW h \in D PROVE Best(to(h)) \in Nat
  <2>. DEFINE f == [p \in paths |-> (p[2] * Hop(p[1], h)) \div 100]
  <2>1. \A y \in to(h) : \E p \in paths : y = f[p] OBVIOUS
  <2>2. IsFiniteSet(to(h))
    <3>1. IsFiniteSet(paths) BY DEF PathsFor
    <3>. HIDE DEF f, to
    <3>. QED BY <2>1, <3>1, ImageFinite
  <2>3. ASSUME NEW p \in paths PROVE (p[2] * Hop(p[1], h)) \div 100 \in Nat
    <3>1. p[1] \in Hosts /\ p[2] \in Nat BY DEF PathsFor
    <3>2. Hop(p[1], h) \in Nat BY <3>1, HopType
    <3>3. \A x, y \in Nat : (x * y) \in Nat OBVIOUS
    <3>4. \A x \in Nat : x \div 100 \in Nat OBVIOUS
    <3>. QED BY <3>1, <3>2, <3>3, <3>4
  <2>4. to(h) \subseteq Nat BY <2>3
  <2>5. to(h) # {} BY DEF PathsFor
  <2>. HIDE DEF to
  <2>. QED BY <2>2, <2>4, <2>5, BestIs
<1>2. Relax(paths, cut) = {step[h] : h \in D} BY DEF Relax
<1>3. IsFiniteSet(D) BY HostsFinite, FS_Subset
<1>4. IsFiniteSet(Relax(paths, cut))
  <2>1. \A y \in Relax(paths, cut) : \E h \in D : y = step[h] BY <1>2
  <2>. HIDE DEF step, D
  <2>. QED BY <1>3, <2>1, ImageFinite
<1>. HIDE DEF to
<1>5. Relax(paths, cut) \in SUBSET (D \X Nat) BY <1>1, <1>2
<1>6. \A h \in D : <<h, Best(to(h))>> \in Relax(paths, cut) BY <1>2
<1>. QED BY <1>1, <1>4, <1>5, <1>6 DEF PathsFor

\* The rounds of relaxation exist, and each leaves a table.
LEMMA BestPathsType ==
  ASSUME NEW S, NEW cut, Hosts # {}
  PROVE  PathsFor(BestPaths(S, cut), Hosts \ cut)
<1>. DEFINE N == Cardinality(Hosts)
            D == Hosts \ cut
            first == {<<h, IF h \in S THEN FULL_TRUST ELSE 0>> : h \in D}
            Rounds(f, n) == f = [k \in 1..n |-> IF k = 1 THEN first ELSE Relax(f[k - 1], cut)]
            paths == CHOOSE f : Rounds(f, N)
<1>1. N \in Nat /\ N # 0 BY HostsFinite, FS_CardinalityType, FS_EmptySet
<1>2. BestPaths(S, cut) = paths[N] BY DEF BestPaths
<1>3. PathsFor(first, D)
  <2>. DEFINE start == [h \in D |-> <<h, IF h \in S THEN FULL_TRUST ELSE 0>>]
  <2>1. \A y \in first : \E h \in D : y = start[h] OBVIOUS
  <2>2. IsFiniteSet(D) BY HostsFinite, FS_Subset
  <2>3. IsFiniteSet(first)
    <3>. HIDE DEF first, start, D
    <3>. QED BY <2>1, <2>2, ImageFinite
  <2>4. \A h \in D : (IF h \in S THEN FULL_TRUST ELSE 0) \in Nat BY DEF FULL_TRUST
  <2>. QED BY <2>3, <2>4 DEF PathsFor
<1>. HIDE DEF first
<1>4. \E f : Rounds(f, N)
  <2>. DEFINE Bad == {n \in Nat : ~ \E f : Rounds(f, n)}
  <2>1. CASE Bad # {}
    <3>1. PICK n \in Bad : \A m \in Bad : n <= m BY <2>1, LeastOf
    <3>2. n # 0
      <4>. DEFINE f == [k \in 1..0 |-> first]
      <4>1. f = [k \in 1..0 |-> IF k = 1 THEN first ELSE Relax(f[k - 1], cut)] OBVIOUS
      <4>. QED BY <4>1
    <3>3. n - 1 \in Nat /\ n - 1 \notin Bad
      <4>1. n \in Nat OBVIOUS
      <4>. HIDE DEF Bad
      <4>2. n - 1 \in Nat /\ ~(n <= n - 1) BY <3>2, <4>1
      <4>. QED BY <3>1, <4>2
    <3>4. PICK f : Rounds(f, n - 1) BY <3>3
    <3>. DEFINE g == [k \in 1..n |-> IF k = 1 THEN first ELSE Relax(f[k - 1], cut)]
    <3>5. \A k \in 1..n : k # 1 => g[k - 1] = f[k - 1]
      <4>. TAKE k \in 1..n
      <4>. HAVE k # 1
      <4>1. k - 1 \in 1..n /\ k - 1 \in 1..(n - 1) OBVIOUS
      <4>2. f[k - 1] = IF k - 1 = 1 THEN first ELSE Relax(f[(k - 1) - 1], cut)
        BY <3>4, <4>1
      <4>3. g[k - 1] = IF k - 1 = 1 THEN first ELSE Relax(f[(k - 1) - 1], cut)
        BY <4>1
      <4>. QED BY <4>2, <4>3
    <3>6. \A k \in 1..n : g[k] = IF k = 1 THEN first ELSE Relax(g[k - 1], cut)
      <4>1. \A k \in 1..n : g[k] = IF k = 1 THEN first ELSE Relax(f[k - 1], cut) OBVIOUS
      <4>. HIDE DEF g
      <4>. QED BY <3>5, <4>1
    <3>7. g = [k \in 1..n |-> g[k]] OBVIOUS
    <3>8. Rounds(g, n)
      <4>. HIDE DEF g
      <4>. QED BY <3>6, <3>7
    <3>. QED BY <3>1, <3>8
  <2>. QED BY <1>1, <2>1
<1>5. Rounds(paths, N) BY <1>4
<1>. HIDE DEF paths, N
<1>6. PathsFor(paths[N], D)
  <2>. DEFINE Bad == {k \in 1..N : ~PathsFor(paths[k], D)}
  <2>1. CASE Bad # {}
    <3>0. Bad \in SUBSET Nat BY <1>1
    <3>1. PICK k \in Bad : \A m \in Bad : k <= m
      <4>. HIDE DEF Bad
      <4>. QED BY <2>1, <3>0, LeastOf
    <3>2. paths[k] = IF k = 1 THEN first ELSE Relax(paths[k - 1], cut) BY <1>5
    <3>3. k # 1 BY <1>3, <3>1, <3>2
    <3>4. k - 1 \in 1..N /\ k - 1 \notin Bad BY <1>1, <3>1, <3>3
    <3>5. PathsFor(paths[k - 1], D) BY <3>4
    <3>6. PathsFor(Relax(paths[k - 1], cut), D) BY <3>5, RelaxType
    <3>. QED BY <3>1, <3>2, <3>3, <3>6
  <2>. QED BY <1>1, <2>1
<1>. QED BY <1>2, <1>6

\* Keeping a function in a table changes nothing.
LEMMA TableIs == \A f : Table(f) = f
BY DEF Table

\* The trust of the best path from some hosts to another is a natural number.
LEMMA ReachType == \A S \in SUBSET Hosts : \A h \in Hosts : Reach[S][h] \in Nat
<1>. TAKE S \in SUBSET Hosts
<1>. TAKE h \in Hosts
<1>. DEFINE paths == BestPaths(S, {})
            row == [g \in Hosts |-> Best({p[2] : p \in {q \in paths : q[1] = g}})]
            all == [T \in SUBSET Hosts |->
                      LET ps == BestPaths(T, {})
                      IN  Table([g \in Hosts |-> Best({p[2] : p \in {q \in ps : q[1] = g}})])]
<1>1. Reach = Table(all) BY DEF Reach
<1>2. Table(all) = all BY TableIs
<1>3. all[S] = Table(row) OBVIOUS
<1>4. Table(row) = row BY TableIs
<1>5. Reach[S][h] = Best({p[2] : p \in {q \in paths : q[1] = h}})
  <2>1. row[h] = Best({p[2] : p \in {q \in paths : q[1] = h}}) OBVIOUS
  <2>. HIDE DEF all, row
  <2>. QED BY <1>1, <1>2, <1>3, <1>4, <2>1
<1>6. PathsFor(paths, Hosts)
  <2>1. PathsFor(paths, Hosts \ {}) BY BestPathsType
  <2>2. Hosts \ {} = Hosts OBVIOUS
  <2>. QED BY <2>1, <2>2
<1>. HIDE DEF paths
<1>. DEFINE mine == {q \in paths : q[1] = h}
            trusts == {p[2] : p \in mine}
            second == [p \in mine |-> p[2]]
<1>7. IsFiniteSet(mine) BY <1>6, FS_Subset DEF PathsFor
<1>8. \A y \in trusts : \E p \in mine : y = second[p] OBVIOUS
<1>9. IsFiniteSet(trusts)
  <2>. HIDE DEF mine, second, trusts
  <2>. QED BY <1>7, <1>8, ImageFinite
<1>10. trusts \subseteq Nat /\ trusts # {}
  <2>1. PICK t \in Nat : <<h, t>> \in paths BY <1>6 DEF PathsFor
  <2>2. <<h, t>> \in mine /\ t \in trusts BY <2>1
  <2>. QED BY <1>6, <2>2 DEF PathsFor
<1>. HIDE DEF trusts
<1>11. Best(trusts) \in Nat BY <1>9, <1>10, BestIs
<1>. QED BY <1>5, <1>11 DEF trusts

-----------------------------------------------------------------------------
(* Every host on the table is proven or pointed at. *)

\* Nothing survives of no evidence: only a host with an item is half confirmed.
LEMMA NoItemsNoConfidence ==
  ASSUME NEW items, InfectionConfidence(items) >= 500000
  PROVE  items # {}
<1>. SUFFICES ASSUME items = {} PROVE FALSE
  OBVIOUS
<1>1. CorroboratingItems(items) = {} BY DEF CorroboratingItems
<1>. DEFINE one == 1000000
          rest(g, s) == (g[s \ {Weakest(s)}] * (100 - Weakest(s).conf)) \div 100
          G == CHOOSE g : g = [s \in SUBSET {} |-> IF s = {} THEN one ELSE rest(g, s)]
<1>2. Survival({}) = G[{}]
  BY SMT DEF Survival, MapThenFoldSet
<1>3. G[{}] = one
  <2>. HIDE DEF one, rest
  <2>. DEFINE f == [s \in SUBSET {} |-> one]
  <2>1. f = [s \in SUBSET {} |-> IF s = {} THEN one ELSE rest(f, s)]
    OBVIOUS
  <2>2. G = [s \in SUBSET {} |-> IF s = {} THEN one ELSE rest(G, s)]
    <3>. HIDE DEF f
    <3>. QED BY <2>1
  <2>. HIDE DEF G
  <2>. QED BY <2>2
<1>4. Survival({}) = 1000000
  <2>. HIDE DEF G
  <2>. QED BY <1>2, <1>3
<1>5. InfectionConfidence(items) = 1000000 - Survival({})
  BY <1>1 DEF InfectionConfidence
<1>. HIDE DEF G
<1>. QED BY <1>4, <1>5, SMT

\* What NoSpeculativeIsolation asks of a host.
PointedAt(c, h) ==
  \/ HasAlert(c, h)
  \/ RiskOf(c, h) >= ML_SUSPICIOUS_THRESHOLD
  \/ ReachOf(c, h) >= MIN_PATH_TRUST

\* A context as NegotiationContext.build makes it.
Built(c) == \E assessment \in Assessments, attack \in Attacks : c = BuildContext(assessment, attack)

LEMMA BuiltIs ==
  ASSUME NEW c, Built(c)
  PROVE  /\ c.confirmed \subseteq Hosts /\ c.suspected \subseteq Hosts
         /\ \A h \in Hosts : RiskOf(c, h) \in Int /\ ReachOf(c, h) \in Nat
         /\ \A h \in Hosts : InfectionConfidence(Evidence(c, h)) >= 500000 => PointedAt(c, h)
         /\ \A h \in c.suspected : PointedAt(c, h)
<1>1. PICK assessment \in Assessments, attack \in Attacks : c = BuildContext(assessment, attack)
  BY DEF Built
<1>2. /\ c.assessment = assessment
      /\ c.confirmed = {h \in Hosts : HasHardEvidence(assessment[h].evidence)}
      /\ c.suspected = {h \in Hosts : IsSuspicious(assessment[h])} \ c.confirmed
  BY <1>1 DEF BuildContext
<1>3. assessment \in [Hosts -> Assessment] BY NegotiationAssumption
<1>4. \A h \in Hosts : RiskOf(c, h) \in Int
  <2>1. \A h \in Hosts : assessment[h].risk \in RiskType BY <1>3 DEF Assessment
  <2>2. RiskType \subseteq Int BY DEF RiskType, Percent, NoRisk
  <2>. QED BY <1>2, <2>1, <2>2 DEF RiskOf
<1>5. \A h \in Hosts : ReachOf(c, h) \in Nat
  <2>1. c.confirmed \in SUBSET Hosts BY <1>2
  <2>. QED BY <2>1, ReachType DEF ReachOf
<1>6. ASSUME NEW h \in Hosts, NEW e \in Evidence(c, h) PROVE PointedAt(c, h)
  <2>1. e \in assessment[h].evidence BY <1>2 DEF Evidence
  <2>2. CASE e.type = "ml_anomaly"
    <3>1. assessment[h].risk >= ML_SUSPICIOUS_THRESHOLD
      BY <2>1, <2>2, NegotiationAssumption
    <3>. QED BY <1>2, <3>1 DEF PointedAt, RiskOf
  <2>3. CASE e.type # "ml_anomaly"
    BY <2>1, <2>3 DEF PointedAt, HasAlert, Signals
  <2>. QED BY <2>2, <2>3
<1>7. \A h \in Hosts : InfectionConfidence(Evidence(c, h)) >= 500000 => PointedAt(c, h)
  BY <1>6, NoItemsNoConfidence
<1>8. ASSUME NEW h \in c.suspected PROVE PointedAt(c, h)
  <2>1. h \in Hosts /\ h \notin c.confirmed /\ IsSuspicious(assessment[h]) BY <1>2
  <2>2. ~HasHardEvidence(assessment[h].evidence) BY <1>2, <2>1
  <2>3. CASE assessment[h].risk >= ML_SUSPICIOUS_THRESHOLD
    BY <1>2, <2>3 DEF PointedAt, RiskOf
  <2>4. CASE InfectionConfidence(assessment[h].evidence) >= 500000
    BY <1>2, <1>7, <2>1, <2>4 DEF Evidence
  <2>. QED BY <2>1, <2>2, <2>3, <2>4 DEF IsSuspicious
<1>. QED BY <1>2, <1>4, <1>5, <1>7, <1>8

\* An unproven host an agent proposes is pointed at.
LEMMA ProposesPointedAt ==
  ASSUME NEW a \in AgentNames, NEW c, Built(c)
  PROVE  \A h \in Propose(a, c) \ c.confirmed : h \in Hosts /\ PointedAt(c, h)
<1>0. /\ c.confirmed \subseteq Hosts /\ c.suspected \subseteq Hosts
      /\ \A h \in Hosts : RiskOf(c, h) \in Int /\ ReachOf(c, h) \in Nat
      /\ \A h \in Hosts : InfectionConfidence(Evidence(c, h)) >= 500000 => PointedAt(c, h)
      /\ \A h \in c.suspected : PointedAt(c, h)
  BY BuiltIs
<1>1. \A h \in Hosts : ReachOf(c, h) >= PII_REACH_TRUST => PointedAt(c, h)
  BY <1>0 DEF PointedAt, PII_REACH_TRUST, MIN_PATH_TRUST
<1>2. \A h \in Hosts : ReachOf(c, h) >= EXPOSURE_TRUST => PointedAt(c, h)
  BY <1>0 DEF PointedAt, EXPOSURE_TRUST, MIN_PATH_TRUST
<1>3. \A h \in Hosts : RiskOf(c, h) >= ML_STRONG_THRESHOLD => PointedAt(c, h)
  BY <1>0 DEF PointedAt, ML_STRONG_THRESHOLD, ML_SUSPICIOUS_THRESHOLD
<1>4. CASE a = "Identity"
  <2>1. Propose(a, c) \ c.confirmed \subseteq c.suspected
    BY <1>4 DEF Propose, IdentityPropose
  <2>. QED BY <1>0, <2>1
<1>5. CASE a = "Network"
  <2>1. \A h \in Propose(a, c) \ c.confirmed : h \in Within2(c.confirmed) /\ ReachOf(c, h) >= EXPOSURE_TRUST
    BY <1>5 DEF Propose, NetworkPropose
  <2>2. Within2(c.confirmed) \subseteq Hosts BY <1>0 DEF Within2, Neighbors
  <2>. QED BY <1>2, <2>1, <2>2
<1>6. CASE a = "Data"
  <2>1. \A h \in Propose(a, c) \ c.confirmed : h \in DataTargets(c)
    BY <1>6 DEF Propose, DataPropose
  <2>2. \A h \in DataTargets(c) : h \in Hosts /\ ReachOf(c, h) >= PII_REACH_TRUST
    BY TopologyAssumption DEF DataTargets
  <2>. QED BY <1>1, <2>1, <2>2
<1>7. CASE a = "Endpoint"
  <2>1. \A h \in Propose(a, c) \ c.confirmed :
          /\ h \in Hosts
          /\ \/ RiskOf(c, h) >= ML_STRONG_THRESHOLD
             \/ RiskOf(c, h) >= ML_SUSPICIOUS_THRESHOLD
             \/ InfectionConfidence(Evidence(c, h)) >= 500000
    BY <1>7 DEF Propose, EndpointPropose, AlertedOnly
  <2>. QED BY <1>0, <1>3, <2>1 DEF PointedAt
<1>8. CASE a = "BusinessImpact"
  BY <1>8 DEF Propose, BusinessPropose
<1>. QED BY <1>4, <1>5, <1>6, <1>7, <1>8 DEF AgentNames

\* So is one it finds missing in a peer's proposal.
LEMMA AddsPointedAt ==
  ASSUME NEW a \in AgentNames, NEW c, Built(c), NEW p
  PROVE  \A h \in Additions(a, c, p) \ c.confirmed : h \in Hosts /\ PointedAt(c, h)
<1>0. /\ c.confirmed \subseteq Hosts
      /\ \A h \in Hosts : RiskOf(c, h) \in Int /\ ReachOf(c, h) \in Nat
  BY BuiltIs
<1>1. CASE a = "Identity"
  BY <1>1 DEF Additions, IdentityAdds
<1>2. CASE a = "Network"
  <2>1. \A h \in Additions(a, c, p) : h \in Hosts /\ ReachOf(c, h) >= 5000
    BY <1>2 DEF Additions, NetworkAdds
  <2>. QED BY <1>0, <2>1 DEF PointedAt, MIN_PATH_TRUST
<1>3. CASE a = "Data"
  <2>1. \A h \in Additions(a, c, p) : h \in Hosts /\ ReachOf(c, h) >= PII_REACH_TRUST
    BY <1>3, TopologyAssumption DEF Additions, DataAdds
  <2>. QED BY <1>0, <2>1 DEF PointedAt, PII_REACH_TRUST, MIN_PATH_TRUST
<1>4. CASE a = "Endpoint"
  <2>1. \A h \in Additions(a, c, p) : h \in Hosts /\ RiskOf(c, h) >= ML_STRONG_THRESHOLD
    BY <1>4 DEF Additions, EndpointAdds
  <2>. QED BY <1>0, <2>1 DEF PointedAt, ML_STRONG_THRESHOLD, ML_SUSPICIOUS_THRESHOLD
<1>5. CASE a = "BusinessImpact"
  BY <1>5 DEF Additions
<1>. QED BY <1>1, <1>2, <1>3, <1>4, <1>5 DEF AgentNames

\* Every unproven host on the table, in a proposal, in a critique, in a counter or
\* in the plan, is pointed at.
Grounded ==
  /\ Built(ctx)
  /\ \A a \in Team : \A h \in (proposals[a] \cup counters[a]) \ ctx.confirmed : PointedAt(ctx, h)
  /\ \A a, b \in Team : \A h \in additions[a][b] \ ctx.confirmed : PointedAt(ctx, h)
  /\ \A h \in (surviving \cup final \cup plan) \ ctx.confirmed : PointedAt(ctx, h)

\* PROPOSE and CRITIQUE bring hosts in; the other phases pass them on.
LEMMA StepGrounded == IInv /\ Grounded /\ [Next]_vars => Grounded'
<1>. SUFFICES ASSUME IInv, Grounded, [Next]_vars PROVE Grounded'
  OBVIOUS
<1>. USE NegotiationAssumption
<1>0. IInv' /\ Built(ctx)
  BY StepIInv DEF Grounded
<1>1. ASSUME UNCHANGED <<ctx, proposals, counters, additions>>,
             surviving' \cup final' \cup plan' \subseteq surviving \cup final \cup plan
      PROVE  Grounded'
  <2>1. Built(ctx)' /\ \A h : PointedAt(ctx, h)' <=> PointedAt(ctx, h)
    BY <1>0, <1>1 DEF Built, PointedAt, HasAlert, Signals, Evidence, RiskOf, ReachOf
  <2>. QED BY <1>1, <2>1 DEF Grounded
<1>2. CASE ProposePhase
  <2>1. \A a \in Team : \A h \in Propose(a, ctx) \ ctx.confirmed : PointedAt(ctx, h)
    BY <1>0, ProposesPointedAt
  <2>2. \A a \in Team : proposals'[a] = Propose(a, ctx) BY <1>2 DEF ProposePhase
  <2>3. /\ ctx' = ctx /\ counters' = counters /\ additions' = additions
        /\ surviving' = surviving /\ final' = final /\ plan' = plan
    BY <1>2 DEF ProposePhase
  <2>4. Built(ctx)' /\ \A h : PointedAt(ctx, h)' <=> PointedAt(ctx, h)
    BY <1>0, <2>3 DEF Built, PointedAt, HasAlert, Signals, Evidence, RiskOf, ReachOf
  <2>. QED BY <2>1, <2>2, <2>3, <2>4 DEF Grounded
<1>3. CASE CritiquePhase
  <2>1. \A a, b \in Team : \A h \in Additions(a, ctx, proposals[b]) \ ctx.confirmed : PointedAt(ctx, h)
    BY <1>0, AddsPointedAt
  <2>2. \A a, b \in Team : additions'[a][b] \subseteq Additions(a, ctx, proposals[b])
    <3>1. \A a, b \in Team : additions'[a][b] = Review(a, b, Additions(a, ctx, proposals[b]))
      BY <1>3 DEF CritiquePhase
    <3>. QED BY <3>1 DEF Review
  <2>3. /\ ctx' = ctx /\ counters' = counters /\ proposals' = proposals
        /\ surviving' = surviving /\ final' = final /\ plan' = plan
    BY <1>3 DEF CritiquePhase
  <2>4. Built(ctx)' /\ \A h : PointedAt(ctx, h)' <=> PointedAt(ctx, h)
    BY <1>0, <2>3 DEF Built, PointedAt, HasAlert, Signals, Evidence, RiskOf, ReachOf
  <2>. QED BY <2>1, <2>2, <2>3, <2>4 DEF Grounded
<1>4. CASE CounterPhase
  <2>1. \A a \in Team : counters'[a] = CounterOf(a) BY <1>4 DEF CounterPhase
  <2>2. \A a \in Team : \A h \in CounterOf(a) :
          h \in proposals[a] \/ \E b \in Team : h \in additions[b][a]
    BY DEF CounterOf
  <2>3. /\ ctx' = ctx /\ proposals' = proposals /\ additions' = additions
        /\ surviving' = surviving /\ final' = final /\ plan' = plan
    BY <1>4 DEF CounterPhase
  <2>4. Built(ctx)' /\ \A h : PointedAt(ctx, h)' <=> PointedAt(ctx, h)
    BY <1>0, <2>3 DEF Built, PointedAt, HasAlert, Signals, Evidence, RiskOf, ReachOf
  <2>. QED BY <2>1, <2>2, <2>3, <2>4 DEF Grounded
<1>5. CASE VetoPhase
  <2>1. surviving' \subseteq Pooled BY <1>5 DEF VetoPhase, RoundStart
  <2>2. /\ ctx' = ctx /\ proposals' = proposals /\ additions' = additions
        /\ counters' = counters /\ final' = final /\ plan' = plan
    BY <1>5 DEF VetoPhase
  <2>3. Built(ctx)' /\ \A h : PointedAt(ctx, h)' <=> PointedAt(ctx, h)
    BY <1>0, <2>2 DEF Built, PointedAt, HasAlert, Signals, Evidence, RiskOf, ReachOf
  <2>4. \A h \in Pooled \ ctx.confirmed : PointedAt(ctx, h) BY DEF Pooled, Grounded
  <2>. QED BY <2>1, <2>2, <2>3, <2>4 DEF Grounded
<1>6. ASSUME NEW h \in Hosts, BudgetDrop(h) \/ BudgetSkip(h) PROVE Grounded'
  BY <1>1, <1>6 DEF BudgetDrop, BudgetSkip
<1>7. CASE BudgetEnd
  BY <1>1, <1>7 DEF BudgetEnd
<1>8. CASE ConsensusPhase
  BY <1>1, <1>8 DEF ConsensusPhase, OnBallot
<1>9. CASE SolveEmpty \/ SolveOptimal \/ SolveFeasible \/ SolveFallback
  <2>1. plan' \subseteq final'
    BY <1>0, <1>9 DEF IInv, PlanSound, SolveEmpty, SolveOptimal, SolveFeasible,
                      SolveFallback, Solved
  <2>. QED
    BY <1>1, <1>9, <2>1 DEF SolveEmpty, SolveOptimal, SolveFeasible, SolveFallback, Solved
<1>10. CASE UNCHANGED vars
  BY <1>1, <1>10 DEF vars
<1>. QED BY <1>2, <1>3, <1>4, <1>5, <1>6, <1>7, <1>8, <1>9, <1>10 DEF Next, Done

\* No chain of proposals, additions and adoptions isolates a host that no sensor
\* reported, that the model finds normal and that no path of a trust of at least
\* MIN_PATH_TRUST joins to a compromised host.
THEOREM NothingSpeculative == Spec => []NoSpeculativeIsolation
<1>1. Init => Grounded
  <2>. SUFFICES ASSUME Init PROVE Grounded
    OBVIOUS
  <2>1. /\ \A a \in Team : NoSets[a] = {}
        /\ \A a, b \in Team : NoReviews[a][b] = {}
    BY DEF NoReviews, NoSets
  <2>. QED BY <2>1 DEF Init, Grounded, Built
<1>2. IInv /\ Grounded /\ [Next]_vars => Grounded'
  BY StepGrounded
<1>3. Grounded => NoSpeculativeIsolation
  BY DEF Grounded, NoSpeculativeIsolation, PointedAt
<1>. QED BY <1>1, <1>2, <1>3, Inductive, PTL DEF Spec

-----------------------------------------------------------------------------
(* The optimum takes what is free. *)

\* A plan costs the sum of the revenues of the services it downs.
LEMMA CostIs ==
  /\ \A p \in SUBSET Hosts : Cost[p] \in Nat
  /\ \A p, q \in SUBSET Hosts : DownedServices(p) = DownedServices(q) => Cost[p] = Cost[q]
<1>. DEFINE sum(D) == MapThenSumSet(LAMBDA s : Revenue[s], D)
            G(D) == CHOOSE g : g = [u \in SUBSET D |->
                      IF u = {} THEN 0
                      ELSE Revenue[CHOOSE x \in u : TRUE] + g[u \ {CHOOSE x \in u : TRUE}]]
<1>1. \A p \in SUBSET Hosts : Cost[p] = sum(DownedServices(p))
  <2>. DEFINE all == [p \in SUBSET Hosts |-> MapThenSumSet(LAMBDA s : Revenue[s], DownedServices(p))]
  <2>1. Cost = all BY TableIs DEF Cost
  <2>. QED BY <2>1
<1>2. ASSUME NEW D \in SUBSET Services PROVE sum(D) \in Nat
  <2>1. sum(D) = G(D)[D] BY DEF MapThenSumSet, MapThenFoldSet
  <2>2. IsFiniteSet(D) BY HostsFinite, FS_Subset
  <2>3. PICK g : IsSum(g, Revenue, D) BY <2>2, SumExists
  <2>4. g = [u \in SUBSET D |->
             IF u = {} THEN 0
             ELSE Revenue[CHOOSE x \in u : TRUE] + g[u \ {CHOOSE x \in u : TRUE}]]
    BY <2>3 DEF IsSum, PickOf
  <2>5. G(D) = [u \in SUBSET D |->
             IF u = {} THEN 0
             ELSE Revenue[CHOOSE x \in u : TRUE] + G(D)[u \ {CHOOSE x \in u : TRUE}]]
    BY <2>4
  <2>. HIDE DEF G
  <2>6. IsSum(G(D), Revenue, D) BY <2>5 DEF IsSum, PickOf
  <2>7. \A s \in D : Revenue[s] \in Nat BY TopologyAssumption
  <2>. QED BY <2>1, <2>2, <2>6, <2>7, SumBounds
<1>. HIDE DEF sum
<1>3. \A p : DownedServices(p) \in SUBSET Services BY DEF DownedServices
<1>. QED BY <1>1, <1>2, <1>3

\* The weight of a host in the objective is a natural number.
LEMMA RiskWeightType ==
  ASSUME ctx \in Context
  PROVE  \A h \in Hosts : RiskWeight(h) \in Nat
<1>. TAKE h \in Hosts
<1>. DEFINE anomaly == IF RiskOf(ctx, h) = NoRisk THEN 0 ELSE RiskOf(ctx, h)
<1>1. anomaly \in Nat
  <2>1. RiskOf(ctx, h) \in RiskType BY DEF Context, Assessment, RiskOf
  <2>. QED BY <2>1 DEF RiskType, Percent, NoRisk
<1>2. ReachOf(ctx, h) \in Nat
  <2>1. ctx.confirmed \in SUBSET Hosts BY DEF Context
  <2>. QED BY <2>1, ReachType DEF ReachOf
<1>3. Criticality[h] \in Nat
  <2>1. Criticality[h] \in 1..5 BY TopologyAssumption
  <2>. QED BY <2>1
<1>. HIDE DEF anomaly
<1>4. Criticality[h] * ReachOf(ctx, h) \in Nat BY <1>2, <1>3
<1>5. \A x, y \in Nat : (x * (100 + y) + 1000) \div 2000 \in Nat
  <2>. TAKE x, y \in Nat
  <2>1. x * (100 + y) \in Nat OBVIOUS
  <2>2. \A z \in Nat : (z + 1000) \div 2000 \in Nat OBVIOUS
  <2>. QED BY <2>1, <2>2
<1>6. (Criticality[h] * ReachOf(ctx, h) * (100 + anomaly) + 1000) \div 2000 \in Nat
  BY <1>1, <1>4, <1>5
<1>. QED BY <1>6 DEF RiskWeight, anomaly

\* What a plan leaves at risk is the sum of the weights it leaves out.
LEMMA ResidualIs ==
  ASSUME NEW p
  PROVE  IsFiniteSet(final \ p) =>
           \E g : IsSum(g, [h \in final |-> RiskWeight(h)], final \ p) /\ ResidualRisk(p) = g[final \ p]
<1>. DEFINE S == final \ p
            w == [h \in final |-> RiskWeight(h)]
            G == CHOOSE g : g = [u \in SUBSET S |->
                   IF u = {} THEN 0
                   ELSE RiskWeight(CHOOSE x \in u : TRUE) + g[u \ {CHOOSE x \in u : TRUE}]]
<1>. SUFFICES ASSUME IsFiniteSet(S)
              PROVE  \E g : IsSum(g, w, S) /\ ResidualRisk(p) = g[S]
  OBVIOUS
<1>1. ResidualRisk(p) = G[S]
  BY DEF ResidualRisk, MapThenSumSet, MapThenFoldSet
<1>0. S \subseteq final OBVIOUS
<1>. HIDE DEF S
<1>2. PICK g : IsSum(g, w, S)
  BY SumExists
<1>3. \A s \in SUBSET S : s # {} => w[PickOf(s)] = RiskWeight(CHOOSE x \in s : TRUE)
  BY <1>0, PickIn DEF PickOf
<1>4. g = [u \in SUBSET S |->
             IF u = {} THEN 0
             ELSE RiskWeight(CHOOSE x \in u : TRUE) + g[u \ {CHOOSE x \in u : TRUE}]]
  <2>. HIDE DEF w
  <2>1. g = [u \in SUBSET S |-> IF u = {} THEN 0 ELSE w[PickOf(u)] + g[u \ {PickOf(u)}]]
    BY <1>2 DEF IsSum
  <2>. QED BY <1>3, <2>1 DEF PickOf
<1>5. G = [u \in SUBSET S |->
             IF u = {} THEN 0
             ELSE RiskWeight(CHOOSE x \in u : TRUE) + G[u \ {CHOOSE x \in u : TRUE}]]
  BY <1>4
<1>6. IsSum(G, w, S)
  <2>. HIDE DEF w, G
  <2>. QED BY <1>3, <1>5 DEF PickOf, IsSum
<1>. HIDE DEF G, w
<1>. QED BY <1>1, <1>6

\* Taking one more host off the network saves its weight.
LEMMA ResidualStep ==
  ASSUME ctx \in Context, final \subseteq Hosts, NEW p \in SUBSET final, NEW h \in final \ p
  PROVE  /\ ResidualRisk(p) \in Nat
         /\ ResidualRisk(p) = RiskWeight(h) + ResidualRisk(p \cup {h})
<1>. DEFINE w == [g \in final |-> RiskWeight(g)]
            q == p \cup {h}
<1>1. IsFiniteSet(final \ p) /\ IsFiniteSet(final \ q) BY HostsFinite, FS_Subset
<1>2. PICK f : IsSum(f, w, final \ p) /\ ResidualRisk(p) = f[final \ p] BY <1>1, ResidualIs
<1>3. PICK g : IsSum(g, w, final \ q) /\ ResidualRisk(q) = g[final \ q] BY <1>1, ResidualIs
<1>4. final \ q \subseteq final \ p /\ (final \ p) \ {h} = final \ q OBVIOUS
<1>5. \A x \in final \ p : w[x] \in Nat /\ w[x] \in Int BY RiskWeightType
<1>6. w[h] = RiskWeight(h) OBVIOUS
<1>. HIDE DEF w, q
<1>7. f[final \ q] = g[final \ q]
  <2>1. final \ q \in SUBSET (final \ q) OBVIOUS
  <2>. QED BY <1>1, <1>2, <1>3, <1>4, <2>1, SumUnique
<1>8. f[final \ p] = w[h] + f[(final \ p) \ {h}]
  <2>. DEFINE S == final \ p
  <2>0. S \in SUBSET S /\ h \in S OBVIOUS
  <2>1. \A x \in S : w[x] \in Int BY <1>5
  <2>2. IsFiniteSet(S) /\ IsSum(f, w, S) BY <1>1, <1>2
  <2>. HIDE DEF S
  <2>3. /\ f[{}] = 0
        /\ \A T \in SUBSET S : f[T] \in Int
        /\ \A T \in SUBSET S : \A x \in T : f[T] = w[x] + f[T \ {x}]
    BY <2>1, <2>2, SumFacts
  <2>4. f[S] = w[h] + f[S \ {h}] BY <2>0, <2>3
  <2>. QED BY <2>4 DEF S
<1>9. f[final \ p] \in Nat
  <2>. DEFINE S == final \ p
  <2>0. S \in SUBSET S OBVIOUS
  <2>1. \A x \in S : w[x] \in Nat BY <1>5
  <2>2. IsFiniteSet(S) /\ IsSum(f, w, S) BY <1>1, <1>2
  <2>. HIDE DEF S
  <2>3. \A T \in SUBSET S : f[T] \in Nat BY <2>1, <2>2, SumBounds
  <2>4. f[S] \in Nat BY <2>0, <2>3
  <2>. QED BY <2>4 DEF S
<1>. QED BY <1>2, <1>3, <1>4, <1>6, <1>7, <1>8, <1>9 DEF q

\* So what any plan leaves at risk is a natural number.
LEMMA ResidualType ==
  ASSUME ctx \in Context, final \subseteq Hosts
  PROVE  \A p \in SUBSET final : ResidualRisk(p) \in Nat
<1>. TAKE p \in SUBSET final
<1>1. CASE p # final
  <2>1. PICK h \in final \ p : TRUE BY <1>1
  <2>. QED BY ResidualStep
<1>2. CASE p = final
  <2>1. final \ p = {} BY <1>2
  <2>2. IsFiniteSet(final \ p) BY <2>1, FS_EmptySet
  <2>. DEFINE w == [g \in final |-> RiskWeight(g)]
  <2>3. PICK f : IsSum(f, w, final \ p) /\ ResidualRisk(p) = f[final \ p] BY <2>2, ResidualIs
  <2>. HIDE DEF w
  <2>4. f[{}] = 0 BY <2>3, SumStep
  <2>5. ResidualRisk(p) = 0 BY <2>1, <2>3, <2>4
  <2>. QED BY <2>5
<1>. QED BY <1>1, <1>2

\* A candidate that hosts no service can be added to a feasible plan for nothing.
LEMMA FreeIsFeasible ==
  ASSUME final \subseteq Hosts, NEW p \in FeasiblePlans,
         NEW h \in final, ServicesOnHost(h) = {}
  PROVE  p \cup {h} \in FeasiblePlans /\ Cost[p \cup {h}] = Cost[p]
<1>. DEFINE q == p \cup {h}
<1>1. p \in SUBSET final /\ Feasible(p) BY DEF FeasiblePlans
<1>2. \A s \in Services : h \notin Deps[s] BY DEF ServicesOnHost
<1>3. DownedServices(q) = DownedServices(p) BY <1>2 DEF DownedServices
<1>4. p \in SUBSET Hosts /\ q \in SUBSET Hosts BY <1>1
<1>5. Cost[q] = Cost[p] BY <1>3, <1>4, CostIs
<1>6. \A s \in Services : SpareOnline(s, p) => SpareOnline(s, q) BY <1>2 DEF SpareOnline
<1>7. Feasible(q)
  <2>1. WithinBudget(q) BY <1>1, <1>5 DEF Feasible, WithinBudget
  <2>2. \A s \in Services : Sla[s] = "gold" \/ MultiHost(s) => SpareOnline(s, q)
    BY <1>1, <1>6 DEF Feasible
  <2>. QED BY <1>1, <2>1, <2>2 DEF Feasible
<1>. QED BY <1>1, <1>5, <1>7 DEF FeasiblePlans

\* Without it a plan is not optimal: with it the objective is smaller.
LEMMA OptimumTakesFree ==
  ASSUME ctx \in Context, final \subseteq Hosts, NEW p \in OptimalPlans,
         NEW h \in final, ServicesOnHost(h) = {}, RiskWeight(h) > 0
  PROVE  h \in p
<1>. SUFFICES ASSUME h \notin p PROVE FALSE
  OBVIOUS
<1>. DEFINE q == p \cup {h}
            value == [r \in FeasiblePlans |-> Objective(r)]
            values == {value[r] : r \in FeasiblePlans}
<1>1. p \in FeasiblePlans /\ value[p] = Min(values)
  BY DEF OptimalPlans
<1>2. p \in SUBSET final BY <1>1 DEF FeasiblePlans
<1>3. q \in FeasiblePlans /\ Cost[q] = Cost[p] BY <1>1, FreeIsFeasible
<1>4. \A r \in FeasiblePlans : value[r] \in Nat
  <2>1. \A r \in FeasiblePlans : r \in SUBSET final /\ r \in SUBSET Hosts BY DEF FeasiblePlans
  <2>2. \A r \in FeasiblePlans : ResidualRisk(r) \in Nat /\ Cost[r] \in Nat
    BY <2>1, CostIs, ResidualType
  <2>. QED BY <2>2 DEF Objective
<1>5. value[q] < value[p]
  <2>1. p \in SUBSET Hosts /\ q \in SUBSET final BY <1>2
  <2>2. Cost[p] \in Nat BY <2>1, CostIs
  <2>3. RiskWeight(h) \in Nat BY RiskWeightType
  <2>4. ResidualRisk(p) = RiskWeight(h) + ResidualRisk(q) BY <1>2, ResidualStep
  <2>5. ResidualRisk(q) \in Nat BY <2>1, ResidualType
  <2>6. value[q] = ResidualRisk(q) + Cost[p] BY <1>3 DEF Objective
  <2>7. value[p] = ResidualRisk(p) + Cost[p] BY <1>1 DEF Objective
  <2>. HIDE DEF value, q
  <2>. QED BY <2>2, <2>3, <2>4, <2>5, <2>6, <2>7
<1>6. Min(values) <= value[q]
  <2>1. values \in SUBSET Nat BY <1>4
  <2>2. value[q] \in values BY <1>3
  <2>. HIDE DEF values
  <2>3. \E i \in values : \A j \in values : i <= j BY <2>1, <2>2, LeastOf
  <2>4. \A j \in values : Min(values) <= j BY <2>3 DEF Min
  <2>. QED BY <2>2, <2>4
<1>7. value[q] \in Nat /\ value[p] \in Nat BY <1>1, <1>3, <1>4
<1>. HIDE DEF value, values
<1>. QED BY <1>1, <1>5, <1>6, <1>7

\* An optimal answer is the last word, and it takes what is free.
FreeTaken ==
  status = "OPTIMAL" =>
    /\ phase = "DONE"
    /\ \A h \in final : ServicesOnHost(h) = {} /\ RiskWeight(h) > 0 => h \in plan

\* Only the optimal answer of the solver makes it true; nothing comes after it.
LEMMA StepFreeTaken == IInv /\ FreeTaken /\ [Next]_vars => FreeTaken'
<1>. SUFFICES ASSUME IInv, FreeTaken, [Next]_vars PROVE FreeTaken'
  OBVIOUS
<1>1. CASE SolveOptimal
  <2>1. PICK p \in OptimalPlans : Solved(p, "OPTIMAL") BY <1>1 DEF SolveOptimal
  <2>2. ctx \in Context /\ final \subseteq Hosts BY DEF IInv, TypeOK
  <2>3. \A h \in final : ServicesOnHost(h) = {} /\ RiskWeight(h) > 0 => h \in p
    BY <2>2, OptimumTakesFree
  <2>4. /\ ctx' = ctx /\ final' = final /\ plan' = p
        /\ phase' = "DONE" BY <2>1 DEF Solved
  <2>5. \A h : RiskWeight(h)' = RiskWeight(h) BY <2>4 DEF RiskWeight, RiskOf, ReachOf
  <2>. QED BY <2>3, <2>4, <2>5 DEF FreeTaken
<1>2. CASE UNCHANGED vars
  <2>1. \A h : RiskWeight(h)' = RiskWeight(h) BY <1>2 DEF vars, RiskWeight, RiskOf, ReachOf
  <2>. QED BY <1>2, <2>1 DEF FreeTaken, vars
<1>3. ASSUME status' = status, phase # "DONE" PROVE FreeTaken'
  BY <1>3 DEF FreeTaken
<1>4. ASSUME status' # "OPTIMAL" PROVE FreeTaken'
  BY <1>4 DEF FreeTaken
<1>5. CASE ProposePhase \/ CritiquePhase \/ CounterPhase \/ VetoPhase \/ ConsensusPhase
  BY <1>3, <1>5 DEF ProposePhase, CritiquePhase, CounterPhase, VetoPhase, ConsensusPhase
<1>6. CASE BudgetEnd \/ \E h \in Hosts : BudgetDrop(h) \/ BudgetSkip(h)
  BY <1>3, <1>6 DEF BudgetEnd, BudgetDrop, BudgetSkip
<1>7. CASE SolveEmpty \/ SolveFeasible \/ SolveFallback
  BY <1>4, <1>7 DEF SolveEmpty, SolveFeasible, SolveFallback, Solved
<1>. QED BY <1>1, <1>2, <1>5, <1>6, <1>7 DEF Next, Done

\* When the solver reports the optimum, no candidate that carries risk and hosts
\* no service stays online: nothing is gained by keeping it.
THEOREM FreeIsolated == Spec => []FreeCandidatesIsolated
<1>1. Init => FreeTaken BY DEF Init, FreeTaken
<1>2. IInv /\ FreeTaken /\ [Next]_vars => FreeTaken' BY StepFreeTaken
<1>3. FreeTaken => FreeCandidatesIsolated BY DEF FreeTaken, FreeCandidatesIsolated
<1>. QED BY <1>1, <1>2, <1>3, Inductive, PTL DEF Spec

-----------------------------------------------------------------------------
(* The replay of a decision. *)

\* What two sequences hold together.
LEMMA ConcatSet ==
  ASSUME NEW X, NEW s \in Seq(X), NEW u \in Seq(X)
  PROVE  s \o u \in Seq(X) /\ ToSet(s \o u) = ToSet(s) \cup ToSet(u)
<1>1. s \o u \in Seq(X) /\ Len(s \o u) = Len(s) + Len(u) OBVIOUS
<1>2. \A i \in 1..Len(s) : i \in 1..Len(s \o u) /\ (s \o u)[i] = s[i] BY <1>1
<1>3. \A i \in 1..Len(u) : i + Len(s) \in 1..Len(s \o u) /\ (s \o u)[i + Len(s)] = u[i] BY <1>1
<1>4. \A i \in 1..Len(s \o u) : i \in 1..Len(s) \/ (i - Len(s) \in 1..Len(u) /\ (s \o u)[i] = u[i - Len(s)])
  BY <1>1
<1>5. DOMAIN s = 1..Len(s) /\ DOMAIN u = 1..Len(u) /\ DOMAIN (s \o u) = 1..Len(s \o u) BY <1>1
<1>. DEFINE t == s \o u
<1>6. /\ \A i \in DOMAIN s : s[i] \in ToSet(t)
      /\ \A i \in DOMAIN u : u[i] \in ToSet(t)
  <2>. HIDE DEF t
  <2>1. \A i \in DOMAIN s : \E j \in DOMAIN t : t[j] = s[i] BY <1>2, <1>5 DEF t
  <2>2. \A i \in DOMAIN u : \E j \in DOMAIN t : t[j] = u[i] BY <1>3, <1>5 DEF t
  <2>. QED BY <2>1, <2>2 DEF ToSet
<1>7. \A i \in DOMAIN t : t[i] \in ToSet(s) \cup ToSet(u)
  <2>1. \A i \in DOMAIN t : (\E j \in DOMAIN s : t[i] = s[j]) \/ \E j \in DOMAIN u : t[i] = u[j]
    BY <1>2, <1>4, <1>5
  <2>. HIDE DEF t
  <2>. QED BY <2>1 DEF ToSet
<1>. HIDE DEF t
<1>8. ToSet(t) = ToSet(s) \cup ToSet(u) BY <1>6, <1>7 DEF ToSet
<1>. QED BY <1>1, <1>8 DEF t

\* g is the function FlattenSeq is computed with, up to its k-th sequence.
IsFlat(g, seqs, k) ==
  g = [i \in 1..k |-> IF i = 1 THEN seqs[i] ELSE g[i-1] \o seqs[i]]

\* There is such a function: if not, take the least k without one.
LEMMA FlatExists ==
  ASSUME NEW seqs, NEW n \in Nat
  PROVE  \E g : IsFlat(g, seqs, n)
<1>. DEFINE Bad == {k \in Nat : ~ \E g : IsFlat(g, seqs, k)}
<1>. SUFFICES ASSUME Bad # {} PROVE FALSE
  OBVIOUS
<1>1. PICK k \in Bad : \A j \in Bad : k <= j
  <2>1. Bad \in SUBSET Nat OBVIOUS
  <2>. HIDE DEF Bad
  <2>. QED BY <2>1, LeastOf
<1>2. k # 0
  <2>. DEFINE g == [i \in 1..0 |-> 0]
  <2>1. IsFlat(g, seqs, 0) BY DEF IsFlat
  <2>. QED BY <2>1
<1>3. k \in Nat /\ k - 1 \in Nat /\ ~ (k <= k - 1) BY <1>2
<1>4. PICK g : IsFlat(g, seqs, k - 1) BY <1>1, <1>3
<1>. DEFINE h == [i \in 1..k |-> IF i = 1 THEN seqs[i] ELSE g[i-1] \o seqs[i]]
<1>5. \A i \in 1..k : i # 1 => i - 1 \in 1..k /\ i - 1 \in 1..(k - 1) BY <1>3
<1>6. \A i \in 1..(k - 1) : h[i] = g[i]
  <2>1. \A i \in 1..(k - 1) : i \in 1..k BY <1>3
  <2>2. \A i \in 1..(k - 1) : g[i] = IF i = 1 THEN seqs[i] ELSE g[i-1] \o seqs[i]
    BY <1>4 DEF IsFlat
  <2>. QED BY <2>1, <2>2
<1>7. \A i \in 1..k : h[i] = IF i = 1 THEN seqs[i] ELSE h[i-1] \o seqs[i]
  <2>1. \A i \in 1..k : h[i] = IF i = 1 THEN seqs[i] ELSE g[i-1] \o seqs[i] OBVIOUS
  <2>. HIDE DEF h
  <2>. QED BY <1>5, <1>6, <2>1
<1>8. h = [i \in 1..k |-> h[i]] OBVIOUS
<1>9. IsFlat(h, seqs, k)
  <2>. HIDE DEF h
  <2>. QED BY <1>7, <1>8 DEF IsFlat
<1>. QED BY <1>1, <1>9

\* A flattened sequence holds what its sequences hold.
LEMMA Flattened ==
  ASSUME NEW X, NEW seqs \in Seq(Seq(X))
  PROVE  /\ FlattenSeq(seqs) \in Seq(X)
         /\ \A e : e \in ToSet(FlattenSeq(seqs)) <=> \E i \in DOMAIN seqs : e \in ToSet(seqs[i])
<1>. DEFINE n == Len(seqs)
            G == CHOOSE g : IsFlat(g, seqs, n)
<1>1. n \in Nat /\ DOMAIN seqs = 1..n OBVIOUS
<1>2. CASE n = 0
  <2>1. FlattenSeq(seqs) = seqs BY <1>2 DEF FlattenSeq
  <2>2. seqs = <<>> BY <1>2
  <2>3. seqs \in Seq(X) /\ ToSet(seqs) = {} BY <2>2 DEF ToSet
  <2>. QED BY <1>1, <1>2, <2>1, <2>3
<1>3. CASE n # 0
  <2>1. FlattenSeq(seqs) = G[n] BY <1>3 DEF FlattenSeq, IsFlat
  <2>2. IsFlat(G, seqs, n) BY <1>1, FlatExists
  <2>. HIDE DEF G, n
  <2>3. \A i \in 1..n : G[i] = IF i = 1 THEN seqs[i] ELSE G[i-1] \o seqs[i]
    BY <2>2 DEF IsFlat
  <2>. DEFINE Good(i) == /\ G[i] \in Seq(X)
                         /\ \A e : e \in ToSet(G[i]) <=> \E j \in 1..i : e \in ToSet(seqs[j])
              Bad == {i \in 1..n : ~Good(i)}
  <2>4. Good(1)
    <3>1. G[1] = seqs[1] /\ 1 \in 1..n BY <1>1, <1>3, <2>3
    <3>2. \A j \in 1..1 : j = 1 OBVIOUS
    <3>3. seqs[1] \in Seq(X) BY <1>1, <3>1
    <3>. QED BY <3>1, <3>2, <3>3
  <2>5. ASSUME NEW i \in 1..n, i # 1, Good(i - 1) PROVE Good(i)
    <3>1. G[i] = G[i-1] \o seqs[i] BY <2>3, <2>5
    <3>2. G[i-1] \in Seq(X) /\ seqs[i] \in Seq(X) BY <1>1, <2>5
    <3>3. \A s, u \in Seq(X) : s \o u \in Seq(X) /\ ToSet(s \o u) = ToSet(s) \cup ToSet(u)
      BY ConcatSet
    <3>4. ToSet(G[i]) = ToSet(G[i-1]) \cup ToSet(seqs[i]) /\ G[i] \in Seq(X) BY <3>1, <3>2, <3>3
    <3>5. \A j : j \in 1..i <=> j \in 1..(i - 1) \/ j = i BY <1>1
    <3>. QED BY <2>5, <3>4, <3>5
  <2>. HIDE DEF Good
  <2>6. CASE Bad # {}
    <3>1. PICK i \in Bad : \A j \in Bad : i <= j
      <4>1. Bad \in SUBSET Nat BY <1>1
      <4>. HIDE DEF Bad
      <4>. QED BY <2>6, <4>1, LeastOf
    <3>2. i # 1 BY <2>4
    <3>3. i - 1 \in 1..n /\ ~ (i <= i - 1) BY <1>1, <3>2
    <3>4. Good(i - 1) BY <3>1, <3>3
    <3>. QED BY <2>5, <3>2, <3>4
  <2>7. CASE Bad = {}
    <3>1. n \in 1..n BY <1>1, <1>3
    <3>2. Good(n) BY <2>7, <3>1
    <3>. QED BY <1>1, <2>1, <3>2 DEF Good
  <2>. QED BY <2>6, <2>7
<1>. QED BY <1>2, <1>3

\* One event for each of some, whatever the order.
LEMMA Emitted ==
  ASSUME NEW X, NEW D, NEW order \in Seq(D), NEW some, NEW event,
         \A x \in ToSet(order) : x \in some => event[x] \in X
  PROVE  /\ Emit(order, some, event) \in Seq(X)
         /\ \A e : e \in ToSet(Emit(order, some, event)) <=>
                     \E x \in ToSet(order) : x \in some /\ e = event[x]
<1>. DEFINE seqs == [i \in DOMAIN order |->
                       IF order[i] \in some THEN <<event[order[i]]>> ELSE <<>>]
<1>1. \A i \in DOMAIN order : order[i] \in ToSet(order) BY DEF ToSet
<1>2. \A x \in ToSet(order) : \E i \in DOMAIN order : x = order[i] BY DEF ToSet
<1>3. \A i \in DOMAIN order : seqs[i] \in Seq(X)
  <2>. TAKE i \in DOMAIN order
  <2>1. CASE order[i] \in some
    <3>1. event[order[i]] \in X BY <1>1, <2>1
    <3>. QED BY <2>1, <3>1
  <2>2. CASE order[i] \notin some BY <2>2
  <2>. QED BY <2>1, <2>2
<1>4. \A i \in DOMAIN order : \A e : e \in ToSet(seqs[i]) <=> order[i] \in some /\ e = event[order[i]]
  <2>. TAKE i \in DOMAIN order
  <2>1. CASE order[i] \in some
    <3>1. \A y : ToSet(<<y>>) = {y} BY DEF ToSet
    <3>. QED BY <2>1, <3>1
  <2>2. CASE order[i] \notin some
    <3>1. ToSet(<<>>) = {} BY DEF ToSet
    <3>. QED BY <2>2, <3>1
  <2>. QED BY <2>1, <2>2
<1>5. seqs \in Seq(Seq(X)) /\ DOMAIN seqs = DOMAIN order
  <2>1. DOMAIN order = 1..Len(order) /\ Len(order) \in Nat OBVIOUS
  <2>2. DOMAIN seqs = 1..Len(order) BY <2>1
  <2>3. \A i \in 1..Len(order) : seqs[i] \in Seq(X) BY <1>3, <2>1
  <2>4. seqs = [i \in 1..Len(order) |-> seqs[i]] BY <2>1
  <2>. HIDE DEF seqs
  <2>5. seqs \in [1..Len(order) -> Seq(X)] BY <2>3, <2>4
  <2>. QED BY <2>1, <2>2, <2>5
<1>6. Emit(order, some, event) = FlattenSeq(seqs) BY DEF Emit
<1>. HIDE DEF seqs
<1>7. FlattenSeq(seqs) \in Seq(X) BY <1>5, Flattened
<1>8. \A e : e \in ToSet(FlattenSeq(seqs)) <=> \E i \in DOMAIN order : e \in ToSet(seqs[i])
  BY <1>5, Flattened
<1>9. \A e : (\E i \in DOMAIN order : e \in ToSet(seqs[i])) <=>
               \E x \in ToSet(order) : x \in some /\ e = event[x]
  <2>1. \A e : (\E i \in DOMAIN order : e \in ToSet(seqs[i])) <=>
                 \E i \in DOMAIN order : order[i] \in some /\ e = event[order[i]]
    BY <1>4
  <2>. QED BY <1>1, <1>2, <2>1
<1>. QED BY <1>6, <1>7, <1>8, <1>9

\* Of some natural numbers that are finitely many one is the greatest.
LEMMA GreatestOf ==
  \A S : IsFiniteSet(S) /\ S # {} /\ S \subseteq Nat => \E m \in S : \A i \in S : m >= i
<1>. TAKE S
<1>. DEFINE above(m) == {i \in S : i > m}
            Bad == {t \in SUBSET S : \E m \in S : t = above(m)}
<1>1. \A m : above(m) \in SUBSET S OBVIOUS
<1>2. ASSUME IsFiniteSet(S), S # {}
      PROVE  \E t \in Bad : \A u \in Bad : u \subseteq t => u = t
  <2>1. Bad # {}
    <3>. HIDE DEF above
    <3>. QED BY <1>1, <1>2
  <2>2. Bad \in SUBSET SUBSET S OBVIOUS
  <2>3. IsFiniteSet(S) BY <1>2
  <2>. HIDE DEF Bad
  <2>. QED BY <2>1, <2>2, <2>3, SmallestOf
<1>3. ASSUME IsFiniteSet(S), S # {}, S \subseteq Nat
      PROVE  \E m \in S : \A i \in S : m >= i
  <2>1. PICK t \in Bad : \A u \in Bad : u \subseteq t => u = t BY <1>2, <1>3
  <2>2. PICK m \in S : t = above(m) OBVIOUS
  <2>3. ASSUME NEW i \in S, ~ (m >= i) PROVE FALSE
    <3>1. above(i) \in Bad
      <4>. HIDE DEF above
      <4>. QED BY <1>1
    <3>2. above(i) \subseteq above(m) /\ i \in above(m) /\ i \notin above(i)
      <4>1. \A j, k, l \in Nat : ~ (k >= j) /\ l > j => l > k OBVIOUS
      <4>2. i \in Nat /\ m \in Nat /\ \A l \in S : l \in Nat BY <1>3
      <4>3. i > m /\ ~ (i > i) BY <2>3, <4>2
      <4>. QED BY <2>3, <4>1, <4>2, <4>3
    <3>. HIDE DEF above, Bad
    <3>. QED BY <2>1, <2>2, <3>1, <3>2
  <2>. QED BY <2>3
<1>. QED BY <1>3

-----------------------------------------------------------------------------
(* What the replay shows. *)

\* Event i of R says what agent a holds.
About(R, i, a) == R[i].type \in {"AGENT_PROPOSAL", "AGENT_COUNTER"} /\ R[i].who = a

\* What the events of R at the places s say: a host is held that one event brings in
\* and no later one takes out.
HeldIn(R, s, a) ==
  {h \in UNION {R[i].in : i \in s} :
     \E i \in s : /\ About(R, i, a) /\ h \in R[i].in
                  /\ \A j \in s : j > i /\ About(R, j, a) => h \notin R[j].out}
LeftIn(R, s) ==
  UNION {R[i].out : i \in {j \in s : R[j].type \in {"BUSINESS_VETO", "CONSENSUS_VOTE", "SOLVER_RESULT"}}}
IsolatedIn(R, s) == UNION {R[i].in : i \in {j \in s : R[j].type = "HOST_ISOLATED"}}

SeenIn(R, s) ==
  [held |-> [a \in Team |-> HeldIn(R, s, a)], left |-> LeftIn(R, s), isolated |-> IsolatedIn(R, s)]

\* One event more is watched.
LEMMA WatchStep ==
  ASSUME NEW R, NEW s \in SUBSET Nat, NEW m \in s, \A i \in s : m >= i
  PROVE  SeenIn(R, s) = Watch(SeenIn(R, s \ {m}), R[m])
<1>. DEFINE r == s \ {m}
            seen == SeenIn(R, r)
            e == R[m]
<1>1. \A i \in r : i \in s /\ m > i /\ ~ (i > m)
  <2>1. \A i \in r : i \in Nat /\ i # m /\ m >= i OBVIOUS
  <2>2. m \in Nat OBVIOUS
  <2>. HIDE DEF r
  <2>3. \A i \in r : m > i /\ ~ (i > m) BY <2>1, <2>2
  <2>. QED BY <2>3 DEF r
<1>2. ~ (m > m) OBVIOUS
<1>3. \A i : i \in s <=> i \in r \/ i = m OBVIOUS
<1>. HIDE DEF r
<1>4. \A a \in Team : HeldIn(R, s, a) =
        IF About(R, m, a) THEN (HeldIn(R, r, a) \ e.out) \cup e.in ELSE HeldIn(R, r, a)
  <2>. TAKE a \in Team
  <2>1. CASE About(R, m, a)
    <3>1. ASSUME NEW h, h \in HeldIn(R, s, a) PROVE h \in (HeldIn(R, r, a) \ e.out) \cup e.in
      <4>1. PICK i \in s : /\ About(R, i, a) /\ h \in R[i].in
                           /\ \A j \in s : j > i /\ About(R, j, a) => h \notin R[j].out
        BY <3>1 DEF HeldIn
      <4>2. CASE i = m BY <4>1, <4>2
      <4>3. CASE i # m
        <5>1. i \in r /\ m > i BY <1>1, <1>3, <4>3
        <5>2. h \in HeldIn(R, r, a) BY <1>1, <4>1, <5>1 DEF HeldIn
        <5>. QED BY <2>1, <4>1, <5>1, <5>2
      <4>. QED BY <4>2, <4>3
    <3>2. ASSUME NEW h, h \in e.in PROVE h \in HeldIn(R, s, a)
      BY <1>1, <1>2, <1>3, <2>1, <3>2 DEF HeldIn
    <3>3. ASSUME NEW h, h \in HeldIn(R, r, a), h \notin e.out PROVE h \in HeldIn(R, s, a)
      <4>1. PICK i \in r : /\ About(R, i, a) /\ h \in R[i].in
                           /\ \A j \in r : j > i /\ About(R, j, a) => h \notin R[j].out
        BY <3>3 DEF HeldIn
      <4>. QED BY <1>3, <3>3, <4>1 DEF HeldIn
    <3>. HIDE DEF e
    <3>. QED BY <2>1, <3>1, <3>2, <3>3
  <2>2. CASE ~About(R, m, a)
    <3>1. ASSUME NEW h, h \in HeldIn(R, s, a) PROVE h \in HeldIn(R, r, a)
      BY <1>1, <1>3, <2>2, <3>1 DEF HeldIn
    <3>2. ASSUME NEW h, h \in HeldIn(R, r, a) PROVE h \in HeldIn(R, s, a)
      BY <1>1, <1>3, <2>2, <3>2 DEF HeldIn
    <3>. QED BY <2>2, <3>1, <3>2
  <2>. QED BY <2>1, <2>2
<1>5. LeftIn(R, s) = IF e.type \in {"BUSINESS_VETO", "CONSENSUS_VOTE", "SOLVER_RESULT"}
                     THEN LeftIn(R, r) \cup e.out ELSE LeftIn(R, r)
  BY <1>3 DEF LeftIn
<1>6. IsolatedIn(R, s) = IF e.type = "HOST_ISOLATED"
                         THEN IsolatedIn(R, r) \cup e.in ELSE IsolatedIn(R, r)
  BY <1>3 DEF IsolatedIn
<1>7. /\ seen.held = [a \in Team |-> HeldIn(R, r, a)]
      /\ seen.left = LeftIn(R, r) /\ seen.isolated = IsolatedIn(R, r)
      /\ seen = [held |-> seen.held, left |-> seen.left, isolated |-> seen.isolated]
  BY DEF SeenIn
<1>8. SeenIn(R, s) = [held |-> [a \in Team |-> HeldIn(R, s, a)], left |-> LeftIn(R, s),
                      isolated |-> IsolatedIn(R, s)]
  BY DEF SeenIn
<1>. HIDE DEF seen
<1>9. CASE e.type \in {"AGENT_PROPOSAL", "AGENT_COUNTER"}
  <2>1. Watch(seen, e) = [seen EXCEPT !.held[e.who] = (@ \ e.out) \cup e.in] BY <1>9 DEF Watch
  <2>2. \A a : About(R, m, a) <=> e.who = a BY <1>9 DEF About
  <2>3. [a \in Team |-> HeldIn(R, s, a)] = [seen.held EXCEPT ![e.who] = (@ \ e.out) \cup e.in]
    <3>. HIDE DEF e
    <3>. QED BY <1>4, <1>7, <2>2
  <2>4. LeftIn(R, s) = LeftIn(R, r) /\ IsolatedIn(R, s) = IsolatedIn(R, r) BY <1>5, <1>6, <1>9
  <2>5. SeenIn(R, s) = [held |-> [seen.held EXCEPT ![e.who] = (@ \ e.out) \cup e.in],
                        left |-> seen.left, isolated |-> seen.isolated]
    <3>. HIDE DEF e
    <3>. QED BY <1>7, <1>8, <2>3, <2>4
  <2>6. [seen EXCEPT !.held[e.who] = (@ \ e.out) \cup e.in]
          = [held |-> [seen.held EXCEPT ![e.who] = (@ \ e.out) \cup e.in],
             left |-> seen.left, isolated |-> seen.isolated]
    <3>. DEFINE now == [seen.held EXCEPT ![e.who] = (@ \ e.out) \cup e.in]
    <3>1. [seen EXCEPT !.held[e.who] = (@ \ e.out) \cup e.in] = [seen EXCEPT !.held = now]
      OBVIOUS
    <3>. HIDE DEF e, now
    <3>2. [seen EXCEPT !.held = now]
            = [held |-> now, left |-> seen.left, isolated |-> seen.isolated]
      BY <1>7
    <3>. QED BY <3>1, <3>2 DEF now
  <2>. QED BY <2>1, <2>5, <2>6 DEF seen, r
<1>10. ASSUME e.type \notin {"AGENT_PROPOSAL", "AGENT_COUNTER"}
       PROVE  [a \in Team |-> HeldIn(R, s, a)] = seen.held
  BY <1>4, <1>7, <1>10 DEF About
<1>11. CASE e.type \in {"BUSINESS_VETO", "CONSENSUS_VOTE", "SOLVER_RESULT"}
  <2>1. Watch(seen, e) = [seen EXCEPT !.left = @ \cup e.out] BY <1>11 DEF Watch
  <2>2. SeenIn(R, s) = [held |-> seen.held, left |-> seen.left \cup e.out, isolated |-> seen.isolated]
    BY <1>5, <1>6, <1>7, <1>8, <1>10, <1>11
  <2>3. [seen EXCEPT !.left = @ \cup e.out]
          = [held |-> seen.held, left |-> seen.left \cup e.out, isolated |-> seen.isolated]
    <3>. HIDE DEF e
    <3>. QED BY <1>7
  <2>. QED BY <2>1, <2>2, <2>3 DEF seen, r
<1>12. CASE e.type = "HOST_ISOLATED"
  <2>1. Watch(seen, e) = [seen EXCEPT !.isolated = @ \cup e.in] BY <1>12 DEF Watch
  <2>2. SeenIn(R, s) = [held |-> seen.held, left |-> seen.left, isolated |-> seen.isolated \cup e.in]
    BY <1>5, <1>6, <1>7, <1>8, <1>10, <1>12
  <2>3. [seen EXCEPT !.isolated = @ \cup e.in]
          = [held |-> seen.held, left |-> seen.left, isolated |-> seen.isolated \cup e.in]
    <3>1. \A x : [seen EXCEPT !.isolated = x]
                   = [held |-> seen.held, left |-> seen.left, isolated |-> x]
      BY <1>7
    <3>. QED BY <3>1
  <2>. QED BY <2>1, <2>2, <2>3 DEF seen, r
<1>13. CASE e.type \notin {"AGENT_PROPOSAL", "AGENT_COUNTER", "BUSINESS_VETO", "CONSENSUS_VOTE",
                           "SOLVER_RESULT", "HOST_ISOLATED"}
  <2>1. Watch(seen, e) = seen BY <1>13 DEF Watch
  <2>2. SeenIn(R, s) = [held |-> seen.held, left |-> seen.left, isolated |-> seen.isolated]
    BY <1>5, <1>6, <1>7, <1>8, <1>10, <1>13
  <2>. QED BY <1>7, <2>1, <2>2 DEF seen, r
<1>. QED BY <1>9, <1>11, <1>12, <1>13

\* Whoever watches a sequence of events to the end has seen what they say.
LEMMA WatchedAll ==
  ASSUME NEW X, NEW R \in Seq(X)
  PROVE  FoldLeft(Watch, Unseen, R) = SeenIn(R, DOMAIN R)
<1>. DEFINE D == DOMAIN R
            Is(g) == g = [s \in SUBSET D |->
                            IF s = {} THEN Unseen ELSE Watch(g[s \ {Max(s)}], R[Max(s)])]
            G == CHOOSE g : Is(g)
            F == [s \in SUBSET D |-> SeenIn(R, s)]
<1>1. FoldLeft(Watch, Unseen, R) = G[D] BY DEF FoldLeft, MapThenFoldSet
<1>2. D \in SUBSET Nat /\ IsFiniteSet(D)
  <2>1. D = 1..Len(R) /\ Len(R) \in Nat OBVIOUS
  <2>2. IsFiniteSet(1..Len(R)) BY <2>1, FS_Interval
  <2>. QED BY <2>1, <2>2
<1>. HIDE DEF D
<1>3. \A s \in SUBSET D : s # {} => Max(s) \in s /\ \A i \in s : Max(s) >= i
  <2>. TAKE s \in SUBSET D
  <2>. HAVE s # {}
  <2>1. s \in SUBSET Nat /\ IsFiniteSet(s) BY <1>2, FS_Subset
  <2>2. \E m \in s : \A i \in s : m >= i BY <2>1, GreatestOf
  <2>. QED BY <2>2 DEF Max
<1>4. F[{}] = Unseen
  <2>1. F[{}] = SeenIn(R, {}) OBVIOUS
  <2>2. \A a \in Team : HeldIn(R, {}, a) = {} BY DEF HeldIn
  <2>3. LeftIn(R, {}) = {} /\ IsolatedIn(R, {}) = {} BY DEF LeftIn, IsolatedIn
  <2>. QED BY <2>1, <2>2, <2>3 DEF SeenIn, Unseen, NoSets
<1>5. \A s \in SUBSET D : s # {} => F[s] = Watch(F[s \ {Max(s)}], R[Max(s)])
  <2>. TAKE s \in SUBSET D
  <2>. HAVE s # {}
  <2>1. Max(s) \in s /\ \A i \in s : Max(s) >= i BY <1>3
  <2>2. s \in SUBSET Nat BY <1>2
  <2>3. SeenIn(R, s) = Watch(SeenIn(R, s \ {Max(s)}), R[Max(s)]) BY <2>1, <2>2, WatchStep
  <2>. QED BY <2>3
<1>6. Is(F)
  <2>1. F = [s \in SUBSET D |-> F[s]] OBVIOUS
  <2>2. \A s \in SUBSET D : F[s] = IF s = {} THEN Unseen ELSE Watch(F[s \ {Max(s)}], R[Max(s)])
    <3>. HIDE DEF F
    <3>. QED BY <1>4, <1>5
  <2>. HIDE DEF F
  <2>. QED BY <2>1, <2>2
<1>7. Is(G)
  <2>. HIDE DEF F, Is
  <2>. QED BY <1>6
<1>. HIDE DEF F, G
<1>8. \A s \in SUBSET D :
        /\ s = {} => G[s] = Unseen
        /\ s # {} => G[s] = Watch(G[s \ {Max(s)}], R[Max(s)])
  BY <1>7
<1>. DEFINE Bad == {s \in SUBSET D : G[s] # F[s]}
<1>9. CASE Bad # {}
  <2>1. PICK s \in Bad : \A t \in Bad : t \subseteq s => t = s
    <3>1. Bad \in SUBSET SUBSET D OBVIOUS
    <3>2. IsFiniteSet(D) BY <1>2
    <3>. HIDE DEF Bad
    <3>. QED BY <1>9, <3>1, <3>2, SmallestOf
  <2>2. s \in SUBSET D /\ s # {} BY <1>4, <1>8
  <2>3. Max(s) \in s BY <1>3, <2>2
  <2>4. s \ {Max(s)} \in SUBSET D /\ s \ {Max(s)} \notin Bad BY <2>1, <2>2, <2>3
  <2>5. G[s \ {Max(s)}] = F[s \ {Max(s)}] BY <2>4
  <2>. QED BY <1>5, <1>8, <2>1, <2>2, <2>5
<1>10. CASE Bad = {}
  <2>1. D \in SUBSET D OBVIOUS
  <2>2. G[D] = F[D] BY <1>10, <2>1
  <2>3. F[D] = SeenIn(R, D) BY <2>1 DEF F
  <2>. QED BY <1>1, <2>2, <2>3 DEF D
<1>. QED BY <1>9, <1>10

-----------------------------------------------------------------------------
(* The parts of a replay. *)

\* Whom an event may be about, and the events.
Named == Hosts \cup AgentNames \cup {""}
AlarmTypes == {"ATTACK_DETECTED", "RISK_SCORED", "HOST_INFECTED", "HOST_SUSPECT"}
EventTypes ==
  AlarmTypes \cup {"AGENT_PROPOSAL", "AGENT_CRITIQUE", "AGENT_COUNTER", "BUSINESS_VETO",
                   "CONSENSUS_VOTE", "SOLVER_RUNNING", "SOLVER_RESULT", "HOST_ISOLATED",
                   "CONTAINMENT_COMPLETE"}
Event == [type : EventTypes, who : Named, in : SUBSET Hosts, out : SUBSET Hosts]

LEMMA ShowFields ==
  \A type, who, in, out :
     /\ Show(type, who, in, out).type = type /\ Show(type, who, in, out).who = who
     /\ Show(type, who, in, out).in = in /\ Show(type, who, in, out).out = out
BY DEF Show

LEMMA ShowIs ==
  \A type \in EventTypes : \A who \in Named : \A in, out \in SUBSET Hosts :
     Show(type, who, in, out) \in Event
BY DEF Show, Event

\* One event for each of some hosts or agents.
LEMMA HostsEmitted ==
  ASSUME NEW some \in SUBSET Hosts, NEW event, NEW X, \A h \in some : event[h] \in X
  PROVE  /\ Emit(HostOrder, some, event) \in Seq(X)
         /\ \A e : e \in ToSet(Emit(HostOrder, some, event)) <=> \E h \in some : e = event[h]
<1>1. HostOrder \in Seq(Hosts) /\ ToSet(HostOrder) = Hosts BY TopologyAssumption DEF Hosts
<1>2. \A x \in ToSet(HostOrder) : x \in some => event[x] \in X OBVIOUS
<1>3. /\ Emit(HostOrder, some, event) \in Seq(X)
      /\ \A e : e \in ToSet(Emit(HostOrder, some, event)) <=>
                  \E x \in ToSet(HostOrder) : x \in some /\ e = event[x]
  BY <1>1, <1>2, Emitted
<1>. QED BY <1>1, <1>3

LEMMA AgentsEmitted ==
  ASSUME NEW some \in SUBSET Team, NEW event, NEW X, \A a \in some : event[a] \in X
  PROVE  /\ Emit(AGENT_ORDER, some, event) \in Seq(X)
         /\ \A e : e \in ToSet(Emit(AGENT_ORDER, some, event)) <=> \E a \in some : e = event[a]
<1>1. AGENT_ORDER \in Seq(AgentNames) /\ ToSet(AGENT_ORDER) = AgentNames
  <2>1. AGENT_ORDER \in Seq(AgentNames) /\ DOMAIN AGENT_ORDER = 1..5
    BY DEF AGENT_ORDER, AgentNames
  <2>2. /\ AGENT_ORDER[1] = "Identity" /\ AGENT_ORDER[2] = "Network" /\ AGENT_ORDER[3] = "Data"
        /\ AGENT_ORDER[4] = "Endpoint" /\ AGENT_ORDER[5] = "BusinessImpact"
    BY DEF AGENT_ORDER
  <2>3. \A i : i \in 1..5 <=> i = 1 \/ i = 2 \/ i = 3 \/ i = 4 \/ i = 5 OBVIOUS
  <2>. HIDE DEF AGENT_ORDER
  <2>4. ToSet(AGENT_ORDER) = {AGENT_ORDER[i] : i \in 1..5} BY <2>1 DEF ToSet
  <2>5. \A x : x \in ToSet(AGENT_ORDER) <=>
          x \in {AGENT_ORDER[1], AGENT_ORDER[2], AGENT_ORDER[3], AGENT_ORDER[4], AGENT_ORDER[5]}
    BY <2>3, <2>4
  <2>6. \A x : x \in ToSet(AGENT_ORDER) <=> x \in AgentNames BY <2>2, <2>5 DEF AgentNames
  <2>. QED BY <2>1, <2>6
<1>2. \A x \in ToSet(AGENT_ORDER) : x \in some => event[x] \in X OBVIOUS
<1>3. /\ Emit(AGENT_ORDER, some, event) \in Seq(X)
      /\ \A e : e \in ToSet(Emit(AGENT_ORDER, some, event)) <=>
                  \E x \in ToSet(AGENT_ORDER) : x \in some /\ e = event[x]
  BY <1>1, <1>2, Emitted
<1>4. \A a \in some : a \in ToSet(AGENT_ORDER) BY <1>1, NegotiationAssumption
<1>. QED BY <1>3, <1>4

LEMMA ReviewsEmitted ==
  ASSUME NEW some \in SUBSET Team, NEW event, NEW X, \A a \in some : event[a] \in X
  PROVE  Emit(REVIEW_ORDER, some, event) \in Seq(X)
<1>1. REVIEW_ORDER \in Seq(AgentNames) BY DEF REVIEW_ORDER, AgentNames
<1>2. \A x \in ToSet(REVIEW_ORDER) : x \in some => event[x] \in X OBVIOUS
<1>. QED BY <1>1, <1>2, Emitted

\* One event, and two.
LEMMA Single ==
  \A e \in Event : <<e>> \in Seq(Event) /\ \A x : x \in ToSet(<<e>>) <=> x = e
<1>. TAKE e \in Event
<1>1. ToSet(<<e>>) = {e} BY DEF ToSet
<1>. QED BY <1>1

LEMMA Pair ==
  \A e, f \in Event : <<e, f>> \in Seq(Event) /\ \A x : x \in ToSet(<<e, f>>) <=> x = e \/ x = f
<1>. TAKE e, f \in Event
<1>1. <<e, f>> = <<e>> \o <<f>>
  <2>1. <<e, f>> = Append(<<e>>, f) OBVIOUS
  <2>2. <<e>> \in Seq(Event) OBVIOUS
  <2>3. \A t \in Seq(Event) : Append(t, f) = t \o <<f>> OBVIOUS
  <2>. QED BY <2>1, <2>2, <2>3
<1>2. ToSet(<<e>> \o <<f>>) = ToSet(<<e>>) \cup ToSet(<<f>>)
  <2>1. <<e>> \in Seq(Event) /\ <<f>> \in Seq(Event) OBVIOUS
  <2>. QED BY <2>1, ConcatSet
<1>3. \A x : x \in ToSet(<<e, f>>) <=> x = e \/ x = f
  <2>1. \A x : x \in ToSet(<<e>> \o <<f>>) <=> x \in ToSet(<<e>>) \/ x \in ToSet(<<f>>) BY <1>2
  <2>. QED BY <1>1, <2>1, Single
<1>. QED BY <1>3

LEMMA AlarmIs ==
  ASSUME TypeOK
  PROVE  Alarm \in Seq(Event) /\ \A e \in ToSet(Alarm) : e \in Event /\ e.type \in AlarmTypes
<1>. DEFINE first == <<Show("ATTACK_DETECTED", "", ctx.confirmed \cup ctx.suspected, {})>>
            second == IF Scored = {} THEN <<>> ELSE <<Show("RISK_SCORED", "", Scored, {})>>
            inf == [h \in Hosts |-> Show("HOST_INFECTED", h, {h}, {})]
            sus == [h \in Hosts |-> Show("HOST_SUSPECT", h, {h}, {})]
            third == Emit(HostOrder, ctx.confirmed, inf)
            fourth == Emit(HostOrder, ctx.suspected, sus)
            Right(s) == s \in Seq(Event) /\ \A e \in ToSet(s) : e \in Event /\ e.type \in AlarmTypes
<1>1. ctx.confirmed \in SUBSET Hosts /\ ctx.suspected \in SUBSET Hosts BY ContextSets
<1>2. \A h \in Hosts : h \in Named /\ {h} \in SUBSET Hosts BY DEF Named
<1>3. Right(first)
  <2>. DEFINE e == Show("ATTACK_DETECTED", "", ctx.confirmed \cup ctx.suspected, {})
  <2>1. e \in Event
    <3>1. "" \in Named /\ ctx.confirmed \cup ctx.suspected \in SUBSET Hosts /\ {} \in SUBSET Hosts
      BY <1>1 DEF Named
    <3>2. "ATTACK_DETECTED" \in EventTypes BY DEF EventTypes, AlarmTypes
    <3>. QED BY <3>1, <3>2, ShowIs
  <2>2. e.type = "ATTACK_DETECTED" BY DEF Show
  <2>. HIDE DEF e
  <2>3. first = <<e>> BY DEF e
  <2>. HIDE DEF first
  <2>. QED BY <2>1, <2>2, <2>3, Single DEF AlarmTypes
<1>4. Right(second)
  <2>. DEFINE e == Show("RISK_SCORED", "", Scored, {})
  <2>1. e \in Event
    <3>1. "" \in Named /\ Scored \in SUBSET Hosts /\ {} \in SUBSET Hosts BY DEF Named, Scored
    <3>2. "RISK_SCORED" \in EventTypes BY DEF EventTypes, AlarmTypes
    <3>. QED BY <3>1, <3>2, ShowIs
  <2>2. e.type = "RISK_SCORED" BY DEF Show
  <2>. HIDE DEF e
  <2>3. second = <<>> \/ second = <<e>> BY DEF e
  <2>4. Right(<<>>) BY DEF ToSet
  <2>5. Right(<<e>>) BY <2>1, <2>2, Single DEF AlarmTypes
  <2>. HIDE DEF second, Right
  <2>. QED BY <2>3, <2>4, <2>5
<1>5. Right(third)
  <2>. DEFINE X == {e \in Event : e.type \in AlarmTypes}
  <2>1. \A h \in ctx.confirmed : inf[h] \in X
    <3>1. \A h \in ctx.confirmed : h \in Hosts /\ inf[h] = Show("HOST_INFECTED", h, {h}, {}) BY <1>1
    <3>2. "HOST_INFECTED" \in EventTypes /\ "HOST_INFECTED" \in AlarmTypes /\ {} \in SUBSET Hosts
      BY DEF EventTypes, AlarmTypes
    <3>. HIDE DEF inf
    <3>3. \A h \in ctx.confirmed : inf[h] \in Event BY <1>2, <3>1, <3>2, ShowIs
    <3>4. \A h \in ctx.confirmed : inf[h].type \in AlarmTypes
      <4>. TAKE h \in ctx.confirmed
      <4>1. Show("HOST_INFECTED", h, {h}, {}).type = "HOST_INFECTED" BY DEF Show
      <4>. QED BY <3>1, <3>2, <4>1
    <3>. QED BY <3>3, <3>4
  <2>. HIDE DEF inf, X
  <2>2. third \in Seq(X) BY <1>1, <2>1, HostsEmitted
  <2>3. \A s \in Seq(X) : Right(s) BY DEF X, ToSet
  <2>. HIDE DEF third, Right
  <2>. QED BY <2>2, <2>3
<1>6. Right(fourth)
  <2>. DEFINE X == {e \in Event : e.type \in AlarmTypes}
  <2>1. \A h \in ctx.suspected : sus[h] \in X
    <3>1. \A h \in ctx.suspected : h \in Hosts /\ sus[h] = Show("HOST_SUSPECT", h, {h}, {}) BY <1>1
    <3>2. "HOST_SUSPECT" \in EventTypes /\ "HOST_SUSPECT" \in AlarmTypes /\ {} \in SUBSET Hosts
      BY DEF EventTypes, AlarmTypes
    <3>. HIDE DEF sus
    <3>3. \A h \in ctx.suspected : sus[h] \in Event BY <1>2, <3>1, <3>2, ShowIs
    <3>4. \A h \in ctx.suspected : sus[h].type \in AlarmTypes
      <4>. TAKE h \in ctx.suspected
      <4>1. Show("HOST_SUSPECT", h, {h}, {}).type = "HOST_SUSPECT" BY DEF Show
      <4>. QED BY <3>1, <3>2, <4>1
    <3>. QED BY <3>3, <3>4
  <2>. HIDE DEF sus, X
  <2>2. fourth \in Seq(X) BY <1>1, <2>1, HostsEmitted
  <2>3. \A s \in Seq(X) : Right(s) BY DEF X, ToSet
  <2>. HIDE DEF fourth, Right
  <2>. QED BY <2>2, <2>3
<1>7. ASSUME NEW s, NEW u, Right(s), Right(u) PROVE Right(s \o u)
  BY <1>7, ConcatSet
<1>8. Alarm = ((first \o second) \o third) \o fourth BY DEF Alarm
<1>. HIDE DEF first, second, third, fourth, Right
<1>9. Right(Alarm) BY <1>3, <1>4, <1>5, <1>6, <1>7, <1>8
<1>. QED BY <1>9 DEF Right

LEMMA ProposedIs ==
  ASSUME TypeOK
  PROVE  /\ Proposed \in Seq(Event)
         /\ \A e : e \in ToSet(Proposed) <=> \E a \in Team : e = Show("AGENT_PROPOSAL", a, proposals[a], {})
<1>. DEFINE event == [a \in Team |-> Show("AGENT_PROPOSAL", a, proposals[a], {})]
<1>1. \A a \in Team : a \in Named /\ proposals[a] \in SUBSET Hosts
  BY NegotiationAssumption DEF Named, TypeOK
<1>2. \A a \in Team : event[a] = Show("AGENT_PROPOSAL", a, proposals[a], {}) OBVIOUS
<1>3. Proposed = Emit(AGENT_ORDER, Team, event) BY DEF Proposed
<1>. HIDE DEF event
<1>4. \A a \in Team : event[a] \in Event
  <2>1. "AGENT_PROPOSAL" \in EventTypes /\ {} \in SUBSET Hosts BY DEF EventTypes, AlarmTypes
  <2>. QED BY <1>1, <1>2, <2>1, ShowIs
<1>5. /\ Emit(AGENT_ORDER, Team, event) \in Seq(Event)
      /\ \A e : e \in ToSet(Emit(AGENT_ORDER, Team, event)) <=> \E a \in Team : e = event[a]
  <2>1. Team \in SUBSET Team OBVIOUS
  <2>. QED BY <1>4, <2>1, AgentsEmitted
<1>. QED BY <1>2, <1>3, <1>5

LEMMA CritiquesIs ==
  ASSUME TypeOK
  PROVE  Critiques \in Seq(Event) /\ \A e \in ToSet(Critiques) : e \in Event /\ e.type = "AGENT_CRITIQUE"
<1>. DEFINE X == {e \in Event : e.type = "AGENT_CRITIQUE"}
<1>1. \A a \in Team : Reviews[a] \in Seq(X)
  <2>. TAKE a \in Team
  <2>. DEFINE some == {b \in Team : objections[a][b] \cup additions[a][b] # {}}
              event == [b \in Team |-> Show("AGENT_CRITIQUE", a, additions[a][b], objections[a][b])]
  <2>1. \A b \in Team : /\ event[b] = Show("AGENT_CRITIQUE", a, additions[a][b], objections[a][b])
                        /\ additions[a][b] \in SUBSET Hosts /\ objections[a][b] \in SUBSET Hosts
    BY DEF TypeOK
  <2>2. a \in Named BY NegotiationAssumption DEF Named
  <2>3. Reviews[a] = Emit(REVIEW_ORDER, some, event) BY DEF Reviews
  <2>4. some \in SUBSET Team OBVIOUS
  <2>. HIDE DEF event, some
  <2>5. \A b \in some : event[b] \in X
    <3>1. "AGENT_CRITIQUE" \in EventTypes BY DEF EventTypes, AlarmTypes
    <3>. QED BY <2>1, <2>2, <2>4, <3>1, ShowIs, ShowFields
  <2>. HIDE DEF X
  <2>6. Emit(REVIEW_ORDER, some, event) \in Seq(X) BY <2>4, <2>5, ReviewsEmitted
  <2>. QED BY <2>3, <2>6
<1>. DEFINE all == Emit(AGENT_ORDER, Team, Reviews)
<1>. HIDE DEF X
<1>2. all \in Seq(Seq(X))
  <2>1. Team \in SUBSET Team OBVIOUS
  <2>. QED BY <1>1, <2>1, AgentsEmitted
<1>3. Critiques = FlattenSeq(all) BY DEF Critiques
<1>. HIDE DEF all
<1>4. Critiques \in Seq(X) BY <1>2, <1>3, Flattened
<1>5. \A s \in Seq(X) : s \in Seq(Event) /\ \A e \in ToSet(s) : e \in Event /\ e.type = "AGENT_CRITIQUE"
  BY DEF X, ToSet
<1>. QED BY <1>4, <1>5

LEMMA CountersIs ==
  ASSUME TypeOK
  PROVE  /\ Counters \in Seq(Event)
         /\ \A e : e \in ToSet(Counters) <=>
                     \E a \in Team : Moved(a) /\ e = Show("AGENT_COUNTER", a, Gained(a), Given(a))
<1>. DEFINE some == {a \in Team : Moved(a)}
            event == [a \in Team |-> Show("AGENT_COUNTER", a, Gained(a), Given(a))]
<1>1. \A a \in Team : a \in Named /\ Gained(a) \in SUBSET Hosts /\ Given(a) \in SUBSET Hosts
  BY NegotiationAssumption DEF Named, TypeOK, Gained, Given
<1>2. \A a \in Team : event[a] = Show("AGENT_COUNTER", a, Gained(a), Given(a)) OBVIOUS
<1>3. Counters = Emit(AGENT_ORDER, some, event) BY DEF Counters
<1>4. some \in SUBSET Team OBVIOUS
<1>. HIDE DEF event
<1>5. \A a \in some : event[a] \in Event
  <2>1. "AGENT_COUNTER" \in EventTypes BY DEF EventTypes, AlarmTypes
  <2>2. \A a \in Team : event[a] \in Event BY <1>1, <1>2, <2>1, ShowIs
  <2>. QED BY <1>4, <2>2
<1>6. /\ Emit(AGENT_ORDER, some, event) \in Seq(Event)
      /\ \A e : e \in ToSet(Emit(AGENT_ORDER, some, event)) <=> \E a \in some : e = event[a]
  <2>. HIDE DEF some
  <2>. QED BY <1>4, <1>5, AgentsEmitted
<1>. QED BY <1>2, <1>3, <1>6

LEMMA VotesIs ==
  ASSUME TypeOK
  PROVE  /\ Votes \in Seq(Event)
         /\ \A e : e \in ToSet(Votes) <=>
                     \E h \in Contested : e = Show("CONSENSUS_VOTE", h, {h} \cap final, {h} \ final)
<1>. DEFINE event == [h \in Hosts |-> Show("CONSENSUS_VOTE", h, {h} \cap final, {h} \ final)]
<1>1. Contested \in SUBSET Hosts BY DEF TypeOK, Contested
<1>2. \A h \in Hosts : h \in Named /\ {h} \cap final \in SUBSET Hosts /\ {h} \ final \in SUBSET Hosts
  BY DEF Named
<1>3. \A h \in Contested : event[h] = Show("CONSENSUS_VOTE", h, {h} \cap final, {h} \ final) BY <1>1
<1>4. Votes = Emit(HostOrder, Contested, event) BY DEF Votes
<1>. HIDE DEF event
<1>5. \A h \in Contested : event[h] \in Event
  <2>. TAKE h \in Contested
  <2>. DEFINE kept == {h} \cap final
              lost == {h} \ final
  <2>1. "CONSENSUS_VOTE" \in EventTypes BY DEF EventTypes, AlarmTypes
  <2>2. h \in Named /\ kept \in SUBSET Hosts /\ lost \in SUBSET Hosts BY <1>1, <1>2
  <2>3. event[h] = Show("CONSENSUS_VOTE", h, kept, lost) BY <1>3
  <2>. HIDE DEF kept, lost
  <2>. QED BY <2>1, <2>2, <2>3, ShowIs
<1>6. /\ Emit(HostOrder, Contested, event) \in Seq(Event)
      /\ \A e : e \in ToSet(Emit(HostOrder, Contested, event)) <=> \E h \in Contested : e = event[h]
  BY <1>1, <1>5, HostsEmitted
<1>. QED BY <1>3, <1>4, <1>6

LEMMA IsolatedIs ==
  ASSUME TypeOK
  PROVE  /\ Isolated \in Seq(Event)
         /\ \A e : e \in ToSet(Isolated) <=> \E h \in plan : e = Show("HOST_ISOLATED", h, {h}, {})
<1>. DEFINE event == [h \in Hosts |-> Show("HOST_ISOLATED", h, {h}, {})]
<1>1. plan \in SUBSET Hosts BY DEF TypeOK
<1>2. \A h \in Hosts : h \in Named /\ {h} \in SUBSET Hosts BY DEF Named
<1>3. \A h \in plan : event[h] = Show("HOST_ISOLATED", h, {h}, {}) BY <1>1
<1>4. Isolated = Emit(HostOrder, plan, event) BY DEF Isolated
<1>. HIDE DEF event
<1>5. \A h \in plan : event[h] \in Event
  <2>1. "HOST_ISOLATED" \in EventTypes /\ {} \in SUBSET Hosts BY DEF EventTypes, AlarmTypes
  <2>. QED BY <1>1, <1>2, <1>3, <2>1, ShowIs
<1>6. /\ Emit(HostOrder, plan, event) \in Seq(Event)
      /\ \A e : e \in ToSet(Emit(HostOrder, plan, event)) <=> \E h \in plan : e = event[h]
  BY <1>1, <1>5, HostsEmitted
<1>. QED BY <1>3, <1>4, <1>6

-----------------------------------------------------------------------------
(* The whole of it. *)

\* The first k events of S hold no counter, the others no proposal.
Turns(S, k) ==
  \A i \in DOMAIN S : /\ i <= k => S[i].type # "AGENT_COUNTER"
                      /\ i > k => S[i].type # "AGENT_PROPOSAL"

LEMMA TurnsOn ==
  ASSUME NEW S \in Seq(Event), NEW u \in Seq(Event), NEW k \in Nat, Turns(S, k), k <= Len(S),
         \A e \in ToSet(u) : e.type # "AGENT_PROPOSAL"
  PROVE  Turns(S \o u, k) /\ k <= Len(S \o u)
<1>1. /\ Len(S) \in Nat /\ Len(u) \in Nat /\ Len(S \o u) = Len(S) + Len(u)
      /\ DOMAIN S = 1..Len(S) /\ DOMAIN u = 1..Len(u) /\ DOMAIN (S \o u) = 1..Len(S \o u)
  OBVIOUS
<1>2. \A i \in DOMAIN u : u[i] \in ToSet(u) BY DEF ToSet
<1>3. ASSUME NEW i \in DOMAIN (S \o u)
      PROVE  /\ i <= k => (S \o u)[i].type # "AGENT_COUNTER"
             /\ i > k => (S \o u)[i].type # "AGENT_PROPOSAL"
  <2>1. CASE i <= Len(S)
    <3>1. i \in DOMAIN S /\ (S \o u)[i] = S[i] BY <1>1, <2>1
    <3>. QED BY <3>1 DEF Turns
  <2>2. CASE i > Len(S)
    <3>1. i - Len(S) \in DOMAIN u /\ (S \o u)[i] = u[i - Len(S)] /\ ~ (i <= k) BY <1>1, <2>2
    <3>. QED BY <1>2, <3>1
  <2>. QED BY <1>1, <2>1, <2>2
<1>4. k <= Len(S \o u) BY <1>1
<1>. QED BY <1>3, <1>4 DEF Turns

\* The replay shows its nine parts, the proposals before the counters.
LEMMA ReplayIs ==
  ASSUME TypeOK
  PROVE  /\ Replay \in Seq(Event)
         /\ \E k \in Nat : Turns(Replay, k)
         /\ \A e : e \in ToSet(Replay) <=>
              \/ e \in ToSet(Alarm) \/ e \in ToSet(Proposed) \/ e \in ToSet(Critiques)
              \/ e \in ToSet(Counters)
              \/ e = Show("BUSINESS_VETO", "BusinessImpact", overridden, vetoed)
              \/ e \in ToSet(Votes)
              \/ e = Show("SOLVER_RUNNING", "", final, {})
              \/ e = Show("SOLVER_RESULT", "", plan, final \ plan)
              \/ e \in ToSet(Isolated)
              \/ e = Show("CONTAINMENT_COMPLETE", "", {}, {})
<1>. DEFINE veto == Show("BUSINESS_VETO", "BusinessImpact", overridden, vetoed)
            runs == Show("SOLVER_RUNNING", "", final, {})
            result == Show("SOLVER_RESULT", "", plan, final \ plan)
            complete == Show("CONTAINMENT_COMPLETE", "", {}, {})
            early == (Alarm \o Proposed) \o Critiques
            s4 == early \o Counters
            s5 == s4 \o Veto
            s6 == s5 \o Votes
            s7 == s6 \o Solver
            s8 == s7 \o Isolated
            s9 == s8 \o <<complete>>
<1>1. Replay = s9 BY DEF Replay
<1>2. /\ veto \in Event /\ runs \in Event /\ result \in Event /\ complete \in Event
      /\ veto.type = "BUSINESS_VETO" /\ runs.type = "SOLVER_RUNNING"
      /\ result.type = "SOLVER_RESULT" /\ complete.type = "CONTAINMENT_COMPLETE"
  <2>1. /\ overridden \in SUBSET Hosts /\ vetoed \in SUBSET Hosts /\ final \in SUBSET Hosts
        /\ plan \in SUBSET Hosts /\ final \ plan \in SUBSET Hosts /\ {} \in SUBSET Hosts
    BY DEF TypeOK
  <2>2. "BusinessImpact" \in Named /\ "" \in Named BY DEF Named, AgentNames
  <2>3. /\ "BUSINESS_VETO" \in EventTypes /\ "SOLVER_RUNNING" \in EventTypes
        /\ "SOLVER_RESULT" \in EventTypes /\ "CONTAINMENT_COMPLETE" \in EventTypes
    BY DEF EventTypes
  <2>4. veto \in Event BY <2>1, <2>2, <2>3, ShowIs
  <2>5. runs \in Event BY <2>1, <2>2, <2>3, ShowIs
  <2>6. result \in Event BY <2>1, <2>2, <2>3, ShowIs
  <2>7. complete \in Event BY <2>1, <2>2, <2>3, ShowIs
  <2>8. /\ veto.type = "BUSINESS_VETO" /\ runs.type = "SOLVER_RUNNING"
        /\ result.type = "SOLVER_RESULT" /\ complete.type = "CONTAINMENT_COMPLETE"
    BY DEF Show
  <2>. QED BY <2>4, <2>5, <2>6, <2>7, <2>8
<1>3. Veto = <<veto>> /\ Solver = <<runs, result>> BY DEF Veto, Solver
<1>. HIDE DEF veto, runs, result, complete
<1>4. /\ Veto \in Seq(Event) /\ \A e : e \in ToSet(Veto) <=> e = veto
      /\ Solver \in Seq(Event) /\ \A e : e \in ToSet(Solver) <=> e = runs \/ e = result
      /\ <<complete>> \in Seq(Event) /\ \A e : e \in ToSet(<<complete>>) <=> e = complete
  BY <1>2, <1>3, Single, Pair
<1>5. /\ Alarm \in Seq(Event) /\ \A e \in ToSet(Alarm) : e.type # "AGENT_COUNTER"
      /\ Proposed \in Seq(Event) /\ \A e \in ToSet(Proposed) : e.type # "AGENT_COUNTER"
      /\ Critiques \in Seq(Event) /\ \A e \in ToSet(Critiques) : e.type # "AGENT_COUNTER"
  <2>1. \A e \in ToSet(Alarm) : e.type # "AGENT_COUNTER" BY AlarmIs DEF AlarmTypes
  <2>2. \A e \in ToSet(Proposed) : e.type # "AGENT_COUNTER"
    <3>1. \A a : Show("AGENT_PROPOSAL", a, proposals[a], {}).type = "AGENT_PROPOSAL" BY DEF Show
    <3>. QED BY <3>1, ProposedIs
  <2>3. \A e \in ToSet(Critiques) : e.type # "AGENT_COUNTER" BY CritiquesIs
  <2>. QED BY <2>1, <2>2, <2>3, AlarmIs, ProposedIs, CritiquesIs
<1>6. /\ Counters \in Seq(Event) /\ \A e \in ToSet(Counters) : e.type # "AGENT_PROPOSAL"
      /\ Votes \in Seq(Event) /\ \A e \in ToSet(Votes) : e.type # "AGENT_PROPOSAL"
      /\ Isolated \in Seq(Event) /\ \A e \in ToSet(Isolated) : e.type # "AGENT_PROPOSAL"
  <2>1. /\ \A a : Show("AGENT_COUNTER", a, Gained(a), Given(a)).type = "AGENT_COUNTER"
        /\ \A h : Show("CONSENSUS_VOTE", h, {h} \cap final, {h} \ final).type = "CONSENSUS_VOTE"
        /\ \A h : Show("HOST_ISOLATED", h, {h}, {}).type = "HOST_ISOLATED"
    BY DEF Show
  <2>2. \A e \in ToSet(Counters) : e.type # "AGENT_PROPOSAL" BY <2>1, CountersIs
  <2>3. \A e \in ToSet(Votes) : e.type # "AGENT_PROPOSAL" BY <2>1, VotesIs
  <2>4. \A e \in ToSet(Isolated) : e.type # "AGENT_PROPOSAL" BY <2>1, IsolatedIs
  <2>. QED BY <2>2, <2>3, <2>4, CountersIs, VotesIs, IsolatedIs
<1>7. /\ early \in Seq(Event)
      /\ \A e : e \in ToSet(early) <=> e \in ToSet(Alarm) \/ e \in ToSet(Proposed) \/ e \in ToSet(Critiques)
  <2>. DEFINE opening == Alarm \o Proposed
  <2>1. opening \in Seq(Event) /\ ToSet(opening) = ToSet(Alarm) \cup ToSet(Proposed)
    BY <1>5, ConcatSet
  <2>2. early = opening \o Critiques OBVIOUS
  <2>. HIDE DEF early, opening
  <2>3. early \in Seq(Event) /\ ToSet(early) = ToSet(opening) \cup ToSet(Critiques)
    BY <1>5, <2>1, <2>2, ConcatSet
  <2>. QED BY <2>1, <2>3
<1>. DEFINE k == Len(early)
<1>8. k \in Nat /\ k <= Len(early) /\ Turns(early, k)
  <2>1. \A e \in ToSet(early) : e.type # "AGENT_COUNTER" BY <1>5, <1>7
  <2>. HIDE DEF early
  <2>2. DOMAIN early = 1..k /\ k \in Nat BY <1>7
  <2>3. \A i \in DOMAIN early : early[i] \in ToSet(early) BY DEF ToSet
  <2>4. \A i \in DOMAIN early : ~ (i > k) BY <2>2
  <2>5. k <= Len(early) BY <2>2
  <2>. HIDE DEF k
  <2>. QED BY <2>1, <2>2, <2>3, <2>4, <2>5 DEF Turns
<1>. DEFINE Fine(S) == S \in Seq(Event) /\ Turns(S, k) /\ k <= Len(S)
            Later(u) == u \in Seq(Event) /\ \A e \in ToSet(u) : e.type # "AGENT_PROPOSAL"
<1>9. Fine(early) BY <1>7, <1>8
<1>10. \A S, u : Fine(S) /\ Later(u) =>
                   Fine(S \o u) /\ ToSet(S \o u) = ToSet(S) \cup ToSet(u)
  <2>. HIDE DEF k
  <2>. TAKE S, u
  <2>. HAVE Fine(S) /\ Later(u)
  <2>1. S \o u \in Seq(Event) /\ ToSet(S \o u) = ToSet(S) \cup ToSet(u) BY ConcatSet
  <2>2. Turns(S \o u, k) /\ k <= Len(S \o u) BY <1>8, TurnsOn
  <2>. QED BY <2>1, <2>2
<1>11. Later(Counters) /\ Later(Votes) /\ Later(Isolated) BY <1>6
<1>12. Later(Veto) /\ Later(Solver) /\ Later(<<complete>>) BY <1>2, <1>4
<1>. HIDE DEF Fine, Later, early
<1>13. Fine(s4) /\ ToSet(s4) = ToSet(early) \cup ToSet(Counters) BY <1>9, <1>10, <1>11
<1>. HIDE DEF s4
<1>14. Fine(s5) /\ ToSet(s5) = ToSet(s4) \cup ToSet(Veto) BY <1>10, <1>12, <1>13
<1>. HIDE DEF s5
<1>15. Fine(s6) /\ ToSet(s6) = ToSet(s5) \cup ToSet(Votes) BY <1>10, <1>11, <1>14
<1>. HIDE DEF s6
<1>16. Fine(s7) /\ ToSet(s7) = ToSet(s6) \cup ToSet(Solver) BY <1>10, <1>12, <1>15
<1>. HIDE DEF s7
<1>17. Fine(s8) /\ ToSet(s8) = ToSet(s7) \cup ToSet(Isolated) BY <1>10, <1>11, <1>16
<1>. HIDE DEF s8
<1>18. Fine(s9) /\ ToSet(s9) = ToSet(s8) \cup ToSet(<<complete>>) BY <1>10, <1>12, <1>17
<1>. HIDE DEF s9
<1>19. Replay \in Seq(Event) /\ \E n \in Nat : Turns(Replay, n)
  <2>. HIDE DEF k
  <2>. QED BY <1>1, <1>8, <1>18 DEF Fine
<1>20. \A e : e \in ToSet(Replay) <=>
              \/ e \in ToSet(Alarm) \/ e \in ToSet(Proposed) \/ e \in ToSet(Critiques)
              \/ e \in ToSet(Counters) \/ e = veto \/ e \in ToSet(Votes) \/ e = runs \/ e = result
              \/ e \in ToSet(Isolated) \/ e = complete
  BY <1>1, <1>4, <1>7, <1>13, <1>14, <1>15, <1>16, <1>17, <1>18
<1>. QED BY <1>19, <1>20 DEF veto, runs, result, complete

\* What it shows of each kind that counts.
LEMMA ReplayShows ==
  ASSUME TypeOK
  PROVE  /\ \A e : e \in ToSet(Replay) /\ e.type = "AGENT_PROPOSAL" <=>
                     \E a \in Team : e = Show("AGENT_PROPOSAL", a, proposals[a], {})
         /\ \A e : e \in ToSet(Replay) /\ e.type = "AGENT_COUNTER" <=>
                     \E a \in Team : Moved(a) /\ e = Show("AGENT_COUNTER", a, Gained(a), Given(a))
         /\ \A e : e \in ToSet(Replay) /\ e.type \in {"BUSINESS_VETO", "CONSENSUS_VOTE", "SOLVER_RESULT"} <=>
                     \/ e = Show("BUSINESS_VETO", "BusinessImpact", overridden, vetoed)
                     \/ \E h \in Contested : e = Show("CONSENSUS_VOTE", h, {h} \cap final, {h} \ final)
                     \/ e = Show("SOLVER_RESULT", "", plan, final \ plan)
         /\ \A e : e \in ToSet(Replay) /\ e.type = "HOST_ISOLATED" <=>
                     \E h \in plan : e = Show("HOST_ISOLATED", h, {h}, {})
<1>. DEFINE Says(e, type) == e \in ToSet(Replay) /\ e.type = type
            veto == Show("BUSINESS_VETO", "BusinessImpact", overridden, vetoed)
            runs == Show("SOLVER_RUNNING", "", final, {})
            result == Show("SOLVER_RESULT", "", plan, final \ plan)
            complete == Show("CONTAINMENT_COMPLETE", "", {}, {})
<1>1. /\ \A e \in ToSet(Alarm) : e.type \in AlarmTypes
      /\ \A e \in ToSet(Proposed) : e.type = "AGENT_PROPOSAL"
      /\ \A e \in ToSet(Critiques) : e.type = "AGENT_CRITIQUE"
      /\ \A e \in ToSet(Counters) : e.type = "AGENT_COUNTER"
      /\ \A e \in ToSet(Votes) : e.type = "CONSENSUS_VOTE"
      /\ \A e \in ToSet(Isolated) : e.type = "HOST_ISOLATED"
  <2>1. /\ \A a : Show("AGENT_PROPOSAL", a, proposals[a], {}).type = "AGENT_PROPOSAL"
        /\ \A a : Show("AGENT_COUNTER", a, Gained(a), Given(a)).type = "AGENT_COUNTER"
        /\ \A h : Show("CONSENSUS_VOTE", h, {h} \cap final, {h} \ final).type = "CONSENSUS_VOTE"
        /\ \A h : Show("HOST_ISOLATED", h, {h}, {}).type = "HOST_ISOLATED"
    BY DEF Show
  <2>2. \A e \in ToSet(Proposed) : e.type = "AGENT_PROPOSAL" BY <2>1, ProposedIs
  <2>3. \A e \in ToSet(Counters) : e.type = "AGENT_COUNTER" BY <2>1, CountersIs
  <2>4. \A e \in ToSet(Votes) : e.type = "CONSENSUS_VOTE" BY <2>1, VotesIs
  <2>5. \A e \in ToSet(Isolated) : e.type = "HOST_ISOLATED" BY <2>1, IsolatedIs
  <2>6. \A e \in ToSet(Alarm) : e.type \in AlarmTypes BY AlarmIs
  <2>7. \A e \in ToSet(Critiques) : e.type = "AGENT_CRITIQUE" BY CritiquesIs
  <2>. QED BY <2>2, <2>3, <2>4, <2>5, <2>6, <2>7
<1>2. /\ veto.type = "BUSINESS_VETO" /\ runs.type = "SOLVER_RUNNING"
      /\ result.type = "SOLVER_RESULT" /\ complete.type = "CONTAINMENT_COMPLETE"
  BY DEF Show
<1>3. \A e : e \in ToSet(Replay) <=>
              \/ e \in ToSet(Alarm) \/ e \in ToSet(Proposed) \/ e \in ToSet(Critiques)
              \/ e \in ToSet(Counters) \/ e = veto \/ e \in ToSet(Votes) \/ e = runs \/ e = result
              \/ e \in ToSet(Isolated) \/ e = complete
  BY ReplayIs
<1>. HIDE DEF veto, runs, result, complete
<1>4. \A e : Says(e, "AGENT_PROPOSAL") <=> e \in ToSet(Proposed) BY <1>1, <1>2, <1>3 DEF AlarmTypes
<1>5. \A e : Says(e, "AGENT_COUNTER") <=> e \in ToSet(Counters) BY <1>1, <1>2, <1>3 DEF AlarmTypes
<1>6. \A e : Says(e, "BUSINESS_VETO") <=> e = veto BY <1>1, <1>2, <1>3 DEF AlarmTypes
<1>7. \A e : Says(e, "CONSENSUS_VOTE") <=> e \in ToSet(Votes) BY <1>1, <1>2, <1>3 DEF AlarmTypes
<1>8. \A e : Says(e, "SOLVER_RESULT") <=> e = result BY <1>1, <1>2, <1>3 DEF AlarmTypes
<1>9. \A e : Says(e, "HOST_ISOLATED") <=> e \in ToSet(Isolated) BY <1>1, <1>2, <1>3 DEF AlarmTypes
<1>10. \A e : e \in ToSet(Replay) /\ e.type \in {"BUSINESS_VETO", "CONSENSUS_VOTE", "SOLVER_RESULT"} <=>
                e = veto \/ e \in ToSet(Votes) \/ e = result
  BY <1>6, <1>7, <1>8
<1>. QED BY <1>4, <1>5, <1>9, <1>10, ProposedIs, CountersIs, VotesIs, IsolatedIs DEF veto, result

-----------------------------------------------------------------------------
(* The replay adds up. *)

\* At the end an agent is seen to hold what it holds: its proposal comes first, and
\* its counter, shown whenever it moved, takes out what it gave and adds what it gained.
LEMMA HeldIs ==
  ASSUME TypeOK, NEW a \in Team
  PROVE  HeldIn(Replay, DOMAIN Replay, a) = counters[a]
<1>. DEFINE R == Replay
            D == DOMAIN Replay
            mine == Show("AGENT_PROPOSAL", a, proposals[a], {})
            move == Show("AGENT_COUNTER", a, Gained(a), Given(a))
<1>1. /\ mine.type = "AGENT_PROPOSAL" /\ mine.who = a /\ mine.in = proposals[a] /\ mine.out = {}
      /\ move.type = "AGENT_COUNTER" /\ move.who = a /\ move.in = Gained(a) /\ move.out = Given(a)
  BY DEF Show
<1>2. \A i \in D : R[i] \in ToSet(R) BY DEF ToSet
<1>3. \A e \in ToSet(R) : \E i \in D : R[i] = e BY DEF ToSet
<1>4. /\ \A b : Show("AGENT_PROPOSAL", b, proposals[b], {}).who = b
      /\ \A b : Show("AGENT_COUNTER", b, Gained(b), Given(b)).who = b
  BY DEF Show
<1>. DEFINE proposing(b) == Show("AGENT_PROPOSAL", b, proposals[b], {})
            moving(b) == Show("AGENT_COUNTER", b, Gained(b), Given(b))
<1>5. /\ \A e : e \in ToSet(R) /\ e.type = "AGENT_PROPOSAL" => \E b \in Team : e = proposing(b)
      /\ \A e : e \in ToSet(R) /\ e.type = "AGENT_COUNTER" => \E b \in Team : Moved(b) /\ e = moving(b)
  BY ReplayShows
<1>6. /\ \A i \in D : R[i].type = "AGENT_PROPOSAL" /\ R[i].who = a => R[i] = mine
      /\ \A i \in D : R[i].type = "AGENT_COUNTER" /\ R[i].who = a => R[i] = move /\ Moved(a)
  <2>1. /\ \A b : proposing(b).who = b
        /\ \A b : moving(b).who = b
    BY <1>4
  <2>2. mine = proposing(a) /\ move = moving(a) OBVIOUS
  <2>. HIDE DEF R, D, mine, move, proposing, moving
  <2>3. ASSUME NEW i \in D, R[i].type = "AGENT_PROPOSAL", R[i].who = a PROVE R[i] = mine
    <3>1. PICK b \in Team : R[i] = proposing(b) BY <1>2, <1>5, <2>3
    <3>2. b = a BY <2>1, <2>3, <3>1
    <3>. QED BY <2>2, <3>1, <3>2
  <2>4. ASSUME NEW i \in D, R[i].type = "AGENT_COUNTER", R[i].who = a PROVE R[i] = move /\ Moved(a)
    <3>1. PICK b \in Team : Moved(b) /\ R[i] = moving(b) BY <1>2, <1>5, <2>4
    <3>2. b = a BY <2>1, <2>4, <3>1
    <3>. QED BY <2>2, <3>1, <3>2
  <2>. QED BY <2>3, <2>4
<1>7. \E i \in D : R[i] = mine
  <2>1. mine \in ToSet(R) BY ReplayShows
  <2>. HIDE DEF mine
  <2>. QED BY <1>3, <2>1
<1>8. Moved(a) => \E i \in D : R[i] = move
  <2>1. Moved(a) => move \in ToSet(R) BY ReplayShows
  <2>. HIDE DEF move
  <2>. QED BY <1>3, <2>1
<1>9. PICK k \in Nat : Turns(R, k) BY ReplayIs
<1>10. D = 1..Len(R) /\ Len(R) \in Nat
  <2>1. R \in Seq(Event) BY ReplayIs
  <2>. HIDE DEF R
  <2>2. DOMAIN R = 1..Len(R) /\ Len(R) \in Nat BY <2>1
  <2>. QED BY <2>2 DEF R
<1>. HIDE DEF R, D, mine, move
<1>11. D = DOMAIN R BY DEF R, D
<1>12. ASSUME NEW i \in D, NEW j \in D, R[i] = mine, R[j] = move PROVE j > i
  <2>1. ~ (i > k) /\ ~ (j <= k) BY <1>1, <1>9, <1>11, <1>12 DEF Turns
  <2>2. i \in Nat /\ j \in Nat BY <1>10
  <2>. QED BY <2>1, <2>2
<1>13. \A i \in D : About(R, i, a) <=> R[i] = mine \/ (R[i] = move /\ Moved(a))
  BY <1>1, <1>6, <1>8 DEF About
<1>14. \A h : h \in HeldIn(R, D, a) <=>
          \E i \in D : /\ About(R, i, a) /\ h \in R[i].in
                       /\ \A j \in D : j > i /\ About(R, j, a) => h \notin R[j].out
  BY DEF HeldIn
<1>15. Gained(a) = counters[a] \ proposals[a] /\ Given(a) = proposals[a] \ counters[a]
       /\ (Moved(a) <=> Gained(a) # {} \/ Given(a) # {})
  BY DEF Gained, Given, Moved
<1>16. ASSUME NEW h \in counters[a] PROVE h \in HeldIn(R, D, a)
  <2>1. CASE h \in proposals[a]
    <3>1. PICK i \in D : R[i] = mine BY <1>7
    <3>2. About(R, i, a) /\ h \in R[i].in BY <1>1, <1>13, <2>1, <3>1
    <3>3. \A j \in D : About(R, j, a) => h \notin R[j].out BY <1>1, <1>13, <1>15, <1>16
    <3>. QED BY <1>14, <3>2, <3>3
  <2>2. CASE h \notin proposals[a]
    <3>1. h \in Gained(a) /\ Moved(a) BY <1>15, <1>16, <2>2
    <3>2. PICK i \in D : R[i] = move BY <1>8, <3>1
    <3>3. About(R, i, a) /\ h \in R[i].in BY <1>1, <1>13, <3>1, <3>2
    <3>4. \A j \in D : About(R, j, a) => h \notin R[j].out BY <1>1, <1>13, <1>15, <1>16
    <3>. QED BY <1>14, <3>3, <3>4
  <2>. QED BY <2>1, <2>2
<1>17. ASSUME NEW h, h \in HeldIn(R, D, a), h \notin counters[a] PROVE FALSE
  <2>1. PICK i \in D : /\ About(R, i, a) /\ h \in R[i].in
                       /\ \A j \in D : j > i /\ About(R, j, a) => h \notin R[j].out
    BY <1>14, <1>17
  <2>2. R[i] = mine /\ h \in proposals[a]
    <3>1. R[i] # move BY <1>1, <1>15, <1>17, <2>1
    <3>. QED BY <1>1, <1>13, <2>1, <3>1
  <2>3. h \in Given(a) /\ Moved(a) BY <1>15, <1>17, <2>2
  <2>4. PICK j \in D : R[j] = move BY <1>8, <2>3
  <2>5. j > i /\ About(R, j, a) /\ h \in R[j].out BY <1>1, <1>12, <1>13, <2>2, <2>3, <2>4
  <2>. QED BY <2>1, <2>5
<1>18. HeldIn(R, D, a) = counters[a] BY <1>16, <1>17
<1>. QED BY <1>18 DEF R, D

\* The hosts seen to leave the table were vetoed, voted out or dropped by the solver.
LEMMA LeftIs ==
  ASSUME TypeOK
  PROVE  /\ LeftIn(Replay, DOMAIN Replay) = vetoed \cup (Contested \ final) \cup (final \ plan)
         /\ IsolatedIn(Replay, DOMAIN Replay) = plan
<1>. DEFINE R == Replay
            Out == {"BUSINESS_VETO", "CONSENSUS_VOTE", "SOLVER_RESULT"}
<1>1. \A i \in DOMAIN R : R[i] \in ToSet(R) BY DEF ToSet
<1>2. \A e \in ToSet(R) : \E i \in DOMAIN R : R[i] = e BY DEF ToSet
<1>3. /\ \A h : h \in LeftIn(R, DOMAIN R) <=> \E i \in DOMAIN R : R[i].type \in Out /\ h \in R[i].out
      /\ \A h : h \in IsolatedIn(R, DOMAIN R) <=>
                  \E i \in DOMAIN R : R[i].type = "HOST_ISOLATED" /\ h \in R[i].in
  BY DEF LeftIn, IsolatedIn
<1>. HIDE DEF R
<1>4. \A h : h \in LeftIn(R, DOMAIN R) <=> \E e \in ToSet(R) : e.type \in Out /\ h \in e.out
  <2>. HIDE DEF Out
  <2>. QED BY <1>1, <1>2, <1>3
<1>5. \A h : h \in IsolatedIn(R, DOMAIN R) <=> \E e \in ToSet(R) : e.type = "HOST_ISOLATED" /\ h \in e.in
  BY <1>1, <1>2, <1>3
<1>. DEFINE veto == Show("BUSINESS_VETO", "BusinessImpact", overridden, vetoed)
            vote(h) == Show("CONSENSUS_VOTE", h, {h} \cap final, {h} \ final)
            result == Show("SOLVER_RESULT", "", plan, final \ plan)
            iso(h) == Show("HOST_ISOLATED", h, {h}, {})
<1>6. /\ veto.out = vetoed /\ result.out = final \ plan
      /\ \A h : vote(h).out = {h} \ final
      /\ \A h : iso(h).in = {h}
  BY DEF Show
<1>7. /\ \A e : e \in ToSet(R) /\ e.type \in Out <=>
                  e = veto \/ (\E h \in Contested : e = vote(h)) \/ e = result
      /\ \A e : e \in ToSet(R) /\ e.type = "HOST_ISOLATED" <=> \E h \in plan : e = iso(h)
  BY ReplayShows DEF R
<1>. HIDE DEF veto, vote, result, iso, Out
<1>8. \A h : h \in LeftIn(R, DOMAIN R) <=> h \in vetoed \cup (Contested \ final) \cup (final \ plan)
  <2>. TAKE h
  <2>1. h \in LeftIn(R, DOMAIN R) <=>
          h \in veto.out \/ (\E g \in Contested : h \in vote(g).out) \/ h \in result.out
    BY <1>4, <1>7
  <2>2. (\E g \in Contested : h \in vote(g).out) <=> h \in Contested \ final BY <1>6
  <2>. QED BY <1>6, <2>1, <2>2
<1>9. \A h : h \in IsolatedIn(R, DOMAIN R) <=> h \in plan
  <2>. TAKE h
  <2>1. h \in IsolatedIn(R, DOMAIN R) <=> \E g \in plan : h \in iso(g).in BY <1>5, <1>7
  <2>. QED BY <1>6, <2>1
<1>. QED BY <1>8, <1>9 DEF R

\* What is seen at the end, in the terms of the decision.
LEMMA SeenIs ==
  ASSUME TypeOK
  PROVE  /\ Seen.isolated = plan
         /\ UNION {Seen.held[a] : a \in Team} = Pooled
         /\ Seen.left = vetoed \cup (Contested \ final) \cup (final \ plan)
<1>1. Replay \in Seq(Event) BY ReplayIs
<1>2. Seen = SeenIn(Replay, DOMAIN Replay)
  <2>1. FoldLeft(Watch, Unseen, Replay) = SeenIn(Replay, DOMAIN Replay) BY <1>1, WatchedAll
  <2>. QED BY <2>1 DEF Seen
<1>3. /\ \A a \in Team : Seen.held[a] = HeldIn(Replay, DOMAIN Replay, a)
      /\ Seen.left = LeftIn(Replay, DOMAIN Replay) /\ Seen.isolated = IsolatedIn(Replay, DOMAIN Replay)
  BY <1>2 DEF SeenIn
<1>4. \A a \in Team : Seen.held[a] = counters[a] BY <1>3, HeldIs
<1>5. {Seen.held[a] : a \in Team} = {counters[a] : a \in Team} BY <1>4
<1>. QED BY <1>3, <1>5, LeftIs DEF Pooled

\* The veto lets through only what was pooled.
FromThePool ==
  phase \in {"BUDGET", "CONSENSUS", "SOLVE", "DONE"} => surviving \subseteq Pooled

LEMMA StepFromThePool == FromThePool /\ [Next]_vars => FromThePool'
<1> SUFFICES ASSUME FromThePool, [Next]_vars PROVE FromThePool'
  OBVIOUS
<1>1. CASE ProposePhase \/ CritiquePhase \/ CounterPhase
  BY <1>1 DEF ProposePhase, CritiquePhase, CounterPhase, FromThePool
<1>2. CASE VetoPhase
  <2>1. Pooled' = Pooled BY <1>2, SameVote DEF VetoPhase
  <2>. QED BY <1>2, <2>1 DEF VetoPhase, RoundStart, FromThePool
<1>3. ASSUME UNCHANGED <<ctx, counters, objections>>, surviving' \subseteq surviving,
             phase \in {"BUDGET", "CONSENSUS", "SOLVE", "DONE"} \/ phase' = phase
      PROVE  FromThePool'
  <2>1. Pooled' = Pooled BY <1>3, SameVote
  <2>. QED BY <1>3, <2>1 DEF FromThePool
<1>4. ASSUME NEW h \in Hosts, BudgetDrop(h) \/ BudgetSkip(h) PROVE FromThePool'
  BY <1>3, <1>4 DEF BudgetDrop, BudgetSkip
<1>5. CASE BudgetEnd \/ ConsensusPhase
  BY <1>3, <1>5 DEF BudgetEnd, ConsensusPhase
<1>6. CASE SolveEmpty \/ SolveOptimal \/ SolveFeasible \/ SolveFallback
  BY <1>3, <1>6 DEF SolveEmpty, SolveOptimal, SolveFeasible, SolveFallback, Solved
<1>7. CASE UNCHANGED vars
  BY <1>3, <1>7 DEF vars
<1>. QED BY <1>1, <1>2, <1>4, <1>5, <1>6, <1>7 DEF Next, Done

\* Nothing that decides the fate of a host is left out of the replay: a pooled host
\* that is not in the plan was vetoed, was dropped by the solver, or lost a vote, and
\* a lost vote was contested and is shown.
THEOREM ReplayTellsAll == Spec => []ReplayAddsUp
<1>1. Init => FromThePool BY DEF Init, FromThePool
<1>2. FromThePool /\ [Next]_vars => FromThePool' BY StepFromThePool
<1>3. VInv /\ FromThePool => ReplayAddsUp
  <2>. SUFFICES ASSUME VInv, FromThePool, phase = "DONE"
                PROVE  /\ Seen.isolated = plan
                       /\ (UNION {Seen.held[a] : a \in Team}) \ Seen.left = plan
    BY DEF ReplayAddsUp
  <2>1. /\ TypeOK /\ plan \subseteq final /\ final \subseteq surviving
        /\ surviving \cap vetoed = {} /\ surviving \subseteq Pooled
        /\ Pooled \subseteq surviving \cup vetoed
        /\ \A h \in surviving \ final : ~Kept(h)
    BY DEF VInv, IInv, VetoSound, VoteSound, PlanSound, NothingSlipsOut, FromThePool
  <2>. DEFINE held == UNION {Seen.held[a] : a \in Team}
  <2>2. /\ Seen.isolated = plan /\ held = Pooled
        /\ Seen.left = vetoed \cup (Contested \ final) \cup (final \ plan)
    BY <2>1, SeenIs
  <2>3. \A h \in surviving \ final : h \in Contested
    <3>. TAKE h \in surviving \ final
    <3>1. Supporters(h) # {} BY <2>1 DEF Pooled, Supporters
    <3>2. Objectors(h) # {} BY <2>1, UnopposedKept
    <3>. QED BY <3>1, <3>2 DEF Contested
  <2>. HIDE DEF held
  <2>4. Pooled \ (vetoed \cup (Contested \ final) \cup (final \ plan)) = plan
    <3>1. ASSUME NEW h \in Pooled, h \notin vetoed, h \notin Contested \ final, h \notin final \ plan
          PROVE  h \in plan
      BY <2>1, <2>3, <3>1
    <3>2. \A h \in plan : /\ h \in Pooled /\ h \notin vetoed
                          /\ h \notin Contested \ final /\ h \notin final \ plan
      BY <2>1
    <3>. QED BY <3>1, <3>2
  <2>5. held \ Seen.left = plan BY <2>2, <2>4
  <2>. QED BY <2>2, <2>5 DEF held
<1>. QED BY <1>1, <1>2, <1>3, VoteIsAccounted, PTL DEF Spec
-----------------------------------------------------------------------------
(* A decision comes nearer with every step. *)

\* How many steps a negotiation may still take: the budget loop visits each pending
\* host once, every other phase is one step.
StepsLeft ==
  CASE phase = "PROPOSE"   -> Cardinality(Hosts) + 7
    [] phase = "CRITIQUE"  -> Cardinality(Hosts) + 6
    [] phase = "COUNTER"   -> Cardinality(Hosts) + 5
    [] phase = "VETO"      -> Cardinality(Hosts) + 4
    [] phase = "BUDGET"    -> Cardinality(pending) + 3
    [] phase = "CONSENSUS" -> 2
    [] phase = "SOLVE"     -> 1
    [] OTHER               -> 0

\* Whenever the loop has not reached its end, it knows which host to visit next.
LoopGoesOn ==
  phase = "BUDGET" =>
     \/ ~OverBudget(surviving) \/ pending = {}
     \/ \E h \in Hosts : IsNext(h)

\* Of some hosts one comes first in the order of their names.
LEMMA FirstInOrder ==
  ASSUME NEW S \in SUBSET Hosts, S # {}
  PROVE  \E h \in S : \A g \in S \ {h} : Before(h, g)
<1>. DEFINE places == {i \in DOMAIN HostOrder : HostOrder[i] \in S}
<1>1. DOMAIN HostOrder \subseteq Nat /\ \A h \in Hosts : \E i \in DOMAIN HostOrder : HostOrder[i] = h
  <2>1. DOMAIN HostOrder = 1..Len(HostOrder) /\ Len(HostOrder) \in Nat BY TopologyAssumption
  <2>. QED BY <2>1 DEF Hosts, ToSet
<1>2. places \in SUBSET Nat /\ places # {} BY <1>1
<1>3. PICK i \in places : \A j \in places : i <= j
  <2>. HIDE DEF places
  <2>. QED BY <1>2, LeastOf
<1>4. ASSUME NEW g \in S \ {HostOrder[i]} PROVE Before(HostOrder[i], g)
  <2>1. PICK j \in DOMAIN HostOrder : HostOrder[j] = g BY <1>1
  <2>2. j \in places /\ j # i BY <2>1
  <2>3. i < j
    <3>1. i \in Nat /\ j \in Nat /\ i <= j BY <1>2, <1>3, <2>2
    <3>. QED BY <2>2, <3>1
  <2>. QED BY <2>1, <2>3 DEF Before
<1>. QED BY <1>4

\* So one of those with the least value comes before all others.
LEMMA FirstOf ==
  ASSUME NEW S \in SUBSET Hosts, S # {}, NEW f \in [S -> Nat]
  PROVE  \E h \in S : \A g \in S \ {h} : f[h] < f[g] \/ (f[h] = f[g] /\ Before(h, g))
<1>. DEFINE values == {f[h] : h \in S}
<1>1. PICK n \in values : \A m \in values : n <= m
  <2>1. values \in SUBSET Nat /\ values # {} OBVIOUS
  <2>. HIDE DEF values
  <2>. QED BY <2>1, LeastOf
<1>. DEFINE least == {h \in S : f[h] = n}
<1>2. least \in SUBSET Hosts /\ least # {} BY <1>1
<1>3. PICK h \in least : \A g \in least \ {h} : Before(h, g)
  <2>. HIDE DEF least
  <2>. QED BY <1>2, FirstInOrder
<1>4. ASSUME NEW g \in S \ {h} PROVE f[h] < f[g] \/ (f[h] = f[g] /\ Before(h, g))
  <2>1. f[h] = n /\ n \in Nat /\ f[g] \in Nat /\ n <= f[g] BY <1>1, <1>3
  <2>2. CASE f[g] = n BY <1>3, <2>1, <2>2
  <2>3. CASE f[g] # n BY <2>1, <2>3
  <2>. QED BY <2>2, <2>3
<1>. QED BY <1>3, <1>4

\* The hosts whose loss saves most are visited first: what stays to be paid without
\* them is least, and ties are broken by the order of the names.
LEMMA SomeIsNext == TypeOK /\ pending # {} => \E h \in Hosts : IsNext(h)
<1>. SUFFICES ASSUME TypeOK, pending # {} PROVE \E h \in Hosts : IsNext(h)
  OBVIOUS
<1>1. pending \in SUBSET Hosts BY DEF TypeOK
<1>2. RoundStart \in SUBSET Hosts BY DEF TypeOK, RoundStart, Pooled
<1>. DEFINE rest == [h \in pending |-> Cost[RoundStart \ {h}]]
<1>3. Cost[RoundStart] \in Nat /\ rest \in [pending -> Nat]
  <2>1. \A h : RoundStart \ {h} \in SUBSET Hosts BY <1>2
  <2>. QED BY <1>2, <2>1, CostIs
<1>4. \A h \in pending : MarginalCost(RoundStart, h) = Cost[RoundStart] - rest[h]
  BY DEF MarginalCost
<1>. HIDE DEF rest
<1>5. PICK h \in pending : \A g \in pending \ {h} :
         rest[h] < rest[g] \/ (rest[h] = rest[g] /\ Before(h, g))
  BY <1>1, <1>3, FirstOf
<1>6. \A g \in pending \ {h} :
         \/ MarginalCost(RoundStart, h) > MarginalCost(RoundStart, g)
         \/ MarginalCost(RoundStart, h) = MarginalCost(RoundStart, g) /\ Before(h, g)
  <2>. TAKE g \in pending \ {h}
  <2>1. rest[h] \in Nat /\ rest[g] \in Nat BY <1>3
  <2>2. \A c, x, y \in Nat : x < y => c - x > c - y OBVIOUS
  <2>. QED BY <1>3, <1>4, <1>5, <2>1, <2>2
<1>. QED BY <1>1, <1>6 DEF IsNext

\* The order of a round is total: the budget loop never stops before it is under the
\* ceiling or has visited every host that may be dropped.
THEOREM LoopNeverStuck == Spec => []LoopGoesOn
<1>1. TypeOK => LoopGoesOn BY SomeIsNext DEF LoopGoesOn
<1>. QED BY <1>1, TypeCorrect, PTL

\* A negotiation neither loops nor lingers: every step leaves fewer to take, so that of
\* n hosts it takes at most n + 7 steps, whatever agents, budget and solver do.
THEOREM EveryStepCounts ==
  Spec => [](StepsLeft \in Nat) /\ [][StepsLeft' < StepsLeft]_vars
<1>1. Cardinality(Hosts) \in Nat BY HostsFinite, FS_CardinalityType
<1>2. TypeOK => /\ IsFiniteSet(pending) /\ Cardinality(pending) \in Nat
                /\ Cardinality(pending) <= Cardinality(Hosts)
  <2>. SUFFICES ASSUME TypeOK
                PROVE  /\ IsFiniteSet(pending) /\ Cardinality(pending) \in Nat
                       /\ Cardinality(pending) <= Cardinality(Hosts)
    OBVIOUS
  <2>1. pending \subseteq Hosts BY DEF TypeOK
  <2>. QED BY <2>1, HostsFinite, FS_Subset, FS_CardinalityType
<1>3. TypeOK => StepsLeft \in Nat BY <1>1, <1>2 DEF StepsLeft
<1>4. TypeOK /\ TypeOK' /\ [Next]_vars => [StepsLeft' < StepsLeft]_vars
  <2>. SUFFICES ASSUME TypeOK, TypeOK', Next, ~ (vars' = vars) PROVE StepsLeft' < StepsLeft
    OBVIOUS
  <2>0. /\ Cardinality(pending) \in Nat /\ IsFiniteSet(pending)
        /\ Cardinality(pending)' \in Nat /\ Cardinality(pending)' <= Cardinality(Hosts)
    <3>1. pending' \subseteq Hosts BY DEF TypeOK
    <3>2. Cardinality(pending') \in Nat /\ Cardinality(pending') <= Cardinality(Hosts)
      BY <3>1, HostsFinite, FS_Subset, FS_CardinalityType
    <3>. QED BY <1>2, <3>2
  <2>1. CASE ProposePhase BY <1>1, <2>1 DEF ProposePhase, StepsLeft
  <2>2. CASE CritiquePhase BY <1>1, <2>2 DEF CritiquePhase, StepsLeft
  <2>3. CASE CounterPhase BY <1>1, <2>3 DEF CounterPhase, StepsLeft
  <2>4. CASE VetoPhase
    <3>1. phase = "VETO" /\ phase' \in {"BUDGET", "CONSENSUS"} BY <2>4 DEF VetoPhase
    <3>2. StepsLeft = Cardinality(Hosts) + 4 BY <3>1 DEF StepsLeft
    <3>3. StepsLeft' \in {Cardinality(pending') + 3, 2} BY <3>1 DEF StepsLeft
    <3>. QED BY <1>1, <2>0, <3>2, <3>3
  <2>5. ASSUME NEW h \in Hosts, BudgetDrop(h) \/ BudgetSkip(h) PROVE StepsLeft' < StepsLeft
    <3>1. /\ phase = "BUDGET" /\ phase' = "BUDGET"
          /\ h \in pending /\ pending' = pending \ {h}
      BY <2>5 DEF BudgetDrop, BudgetSkip, IsNext, Visit
    <3>2. Cardinality(pending') = Cardinality(pending) - 1
      BY <2>0, <3>1, FS_RemoveElement
    <3>3. StepsLeft = Cardinality(pending) + 3 /\ StepsLeft' = Cardinality(pending') + 3
      BY <3>1 DEF StepsLeft
    <3>. QED BY <2>0, <3>2, <3>3
  <2>6. CASE BudgetEnd
    <3>1. StepsLeft = Cardinality(pending) + 3 /\ StepsLeft' = 2
      BY <2>6 DEF BudgetEnd, StepsLeft
    <3>. QED BY <2>0, <3>1
  <2>7. CASE ConsensusPhase BY <2>7 DEF ConsensusPhase, StepsLeft
  <2>8. CASE SolveEmpty \/ SolveOptimal \/ SolveFeasible \/ SolveFallback
    <3>1. phase = "SOLVE" /\ phase' = "DONE"
      BY <2>8 DEF SolveEmpty, SolveOptimal, SolveFeasible, SolveFallback, Solved
    <3>. QED BY <3>1 DEF StepsLeft
  <2>9. CASE Done BY <2>9 DEF Done
  <2>. QED BY <2>1, <2>2, <2>3, <2>4, <2>5, <2>6, <2>7, <2>8, <2>9 DEF Next
<1>. QED BY <1>3, <1>4, TypeCorrect, PTL DEF Spec
-----------------------------------------------------------------------------
(* Folds over finite sets, whatever they compute. *)

\* g is the function a fold over S is computed with: pick[s] is what it takes from
\* the set s last, w[<<x, acc>>] what x makes of acc.
IsFold(g, base, pick, w, S) ==
  g = [s \in SUBSET S |-> IF s = {} THEN base ELSE w[<<pick[s], g[s \ {pick[s]}]>>]]

\* What the equation says of one set, the empty and a nonempty one.
LEMMA FoldStep ==
  \A S, base, pick, w, g :
     IsFold(g, base, pick, w, S) =>
       /\ g[{}] = base
       /\ \A u \in SUBSET S : u # {} => g[u] = w[<<pick[u], g[u \ {pick[u]}]>>]
<1>. TAKE S, base, pick, w, g
<1>1. {} \in SUBSET S OBVIOUS
<1>. QED BY <1>1 DEF IsFold

\* Two such functions agree where both are defined.
LEMMA FoldUnique ==
  ASSUME NEW base, NEW pick, NEW w, NEW S, NEW T, NEW g, NEW h,
         IsFold(g, base, pick, w, S), IsFold(h, base, pick, w, T), T \subseteq S,
         IsFiniteSet(T), \A s \in SUBSET T : s # {} => pick[s] \in s
  PROVE  \A U \in SUBSET T : g[U] = h[U]
<1>. DEFINE Bad == {u \in SUBSET T : g[u] # h[u]}
<1>1. /\ g[{}] = base /\ h[{}] = base
      /\ \A u \in SUBSET T :
           u # {} => /\ g[u] = w[<<pick[u], g[u \ {pick[u]}]>>]
                     /\ h[u] = w[<<pick[u], h[u \ {pick[u]}]>>]
  <2>. HIDE DEF Bad
  <2>1. /\ h[{}] = base
        /\ \A u \in SUBSET T : u # {} => h[u] = w[<<pick[u], h[u \ {pick[u]}]>>]
    BY FoldStep
  <2>2. g[{}] = base BY FoldStep
  <2>3. ASSUME NEW u \in SUBSET T, u # {}
        PROVE  g[u] = w[<<pick[u], g[u \ {pick[u]}]>>]
    <3>1. u \in SUBSET S OBVIOUS
    <3>. QED BY <2>3, <3>1, FoldStep
  <2>. QED BY <2>1, <2>2, <2>3
<1>2. CASE Bad # {}
  <2>1. PICK u \in Bad : \A t \in Bad : t \subseteq u => t = u
    <3>1. Bad \in SUBSET SUBSET T OBVIOUS
    <3>. HIDE DEF Bad
    <3>. QED BY <1>2, <3>1, SmallestOf
  <2>2. u # {} BY <1>1
  <2>3. pick[u] \in u BY <2>2
  <2>4. u \ {pick[u]} \notin Bad BY <2>1, <2>3
  <2>5. u \ {pick[u]} \in SUBSET T OBVIOUS
  <2>6. g[u \ {pick[u]}] = h[u \ {pick[u]}] BY <2>4, <2>5
  <2>. QED BY <1>1, <2>2, <2>6
<1>. QED BY <1>2

\* A fold over a finite set is defined.
LEMMA FoldExists ==
  ASSUME NEW S, IsFiniteSet(S), NEW base, NEW pick, NEW w,
         \A s \in SUBSET S : s # {} => pick[s] \in s
  PROVE  \E g : IsFold(g, base, pick, w, S)
<1>. DEFINE Bad == {s \in SUBSET S : ~ \E g : IsFold(g, base, pick, w, s)}
<1>1. CASE Bad = {}
  BY <1>1
<1>2. CASE Bad # {}
  <2>1. PICK s \in Bad : \A t \in Bad : t \subseteq s => t = s
    <3>1. Bad \in SUBSET SUBSET S OBVIOUS
    <3>. HIDE DEF Bad
    <3>. QED BY <1>2, <3>1, SmallestOf
  <2>. DEFINE Of(t) == CHOOSE g : IsFold(g, base, pick, w, t)
              below == [t \in SUBSET s |-> IF t = s THEN 0 ELSE Of(t)[t]]
              h == [t \in SUBSET s |->
                      IF t = {} THEN base ELSE w[<<pick[t], below[t \ {pick[t]}]>>]]
  <2>2. \A t \in SUBSET s : t # s => IsFold(Of(t), base, pick, w, t)
    <3>1. \A t \in SUBSET s : t # s => \E g : IsFold(g, base, pick, w, t) BY <2>1
    <3>. QED BY <3>1
  <2>. HIDE DEF Of
  <2>3. \A t \in SUBSET s : t # {} =>
          /\ pick[t] \in t
          /\ t \ {pick[t]} \in SUBSET s /\ t \ {pick[t]} # s
          /\ t \ {pick[t]} \subseteq t /\ IsFiniteSet(t \ {pick[t]})
    <3>1. \A t \in SUBSET s : t \in SUBSET S /\ IsFiniteSet(t) BY FS_Subset
    <3>2. \A t \in SUBSET s : t # {} => pick[t] \in t BY <3>1
    <3>3. \A t \in SUBSET s : IsFiniteSet(t \ {pick[t]}) BY <3>1, FS_Subset
    <3>. QED BY <3>2, <3>3
  <2>4. ASSUME NEW t \in SUBSET s, t # s PROVE h[t] = below[t]
    <3>1. IsFold(Of(t), base, pick, w, t) BY <2>2, <2>4
    <3>2. CASE t = {} BY <3>1, <3>2, <2>4, FoldStep
    <3>3. CASE t # {}
      <4>1. Of(t)[t] = w[<<pick[t], Of(t)[t \ {pick[t]}]>>]
        BY <3>1, <3>3, FoldStep
      <4>2. IsFold(Of(t \ {pick[t]}), base, pick, w, t \ {pick[t]}) BY <2>2, <2>3, <3>3
      <4>3. Of(t)[t \ {pick[t]}] = Of(t \ {pick[t]})[t \ {pick[t]}]
        <5>. DEFINE u == t \ {pick[t]}
        <5>1. IsFiniteSet(u) /\ u \in SUBSET t /\ u \in SUBSET u BY <2>3, <3>3
        <5>2. IsFold(Of(u), base, pick, w, u) BY <4>2
        <5>3. \A v \in SUBSET u : v # {} => pick[v] \in v
          <6>1. \A v \in SUBSET u : v \in SUBSET S OBVIOUS
          <6>. HIDE DEF u
          <6>. QED BY <6>1
        <5>. HIDE DEF u
        <5>4. Of(t)[u] = Of(u)[u] BY <3>1, <5>1, <5>2, <5>3, FoldUnique
        <5>. QED BY <5>4 DEF u
      <4>4. below[t] = Of(t)[t] BY <2>4
      <4>5. below[t \ {pick[t]}] = Of(t \ {pick[t]})[t \ {pick[t]}] BY <2>3, <3>3
      <4>6. h[t] = w[<<pick[t], below[t \ {pick[t]}]>>] BY <3>3
      <4>. HIDE DEF h, below
      <4>. QED BY <4>1, <4>3, <4>4, <4>5, <4>6
    <3>. QED BY <3>2, <3>3
  <2>5. \A t \in SUBSET s : t # {} => h[t \ {pick[t]}] = below[t \ {pick[t]}]
    <3>. HIDE DEF h, below
    <3>. QED BY <2>3, <2>4
  <2>6. h = [t \in SUBSET s |-> IF t = {} THEN base ELSE w[<<pick[t], h[t \ {pick[t]}]>>]]
    <3>1. \A t \in SUBSET s :
            h[t] = IF t = {} THEN base ELSE w[<<pick[t], h[t \ {pick[t]}]>>]
      <4>1. \A t \in SUBSET s :
              h[t] = IF t = {} THEN base ELSE w[<<pick[t], below[t \ {pick[t]}]>>]
        OBVIOUS
      <4>. HIDE DEF h, below
      <4>. QED BY <2>5, <4>1
    <3>2. h = [t \in SUBSET s |-> h[t]] OBVIOUS
    <3>. HIDE DEF h
    <3>. QED BY <3>1, <3>2
  <2>7. IsFold(h, base, pick, w, s) BY <2>6 DEF IsFold
  <2>. QED BY <2>1, <2>7
<1>. QED BY <1>1, <1>2

\* What base is and every step keeps, the fold is.
LEMMA FoldRange ==
  \A S, base, pick, w, g, P :
     /\ IsFiniteSet(S) /\ IsFold(g, base, pick, w, S)
     /\ \A s \in SUBSET S : s # {} => pick[s] \in s
     /\ base \in P /\ \A x \in S, acc \in P : w[<<x, acc>>] \in P
     => \A s \in SUBSET S : g[s] \in P
<1>. SUFFICES ASSUME NEW S, NEW base, NEW pick, NEW w, NEW g, NEW P,
                     IsFiniteSet(S), IsFold(g, base, pick, w, S),
                     \A s \in SUBSET S : s # {} => pick[s] \in s,
                     base \in P, \A x \in S, acc \in P : w[<<x, acc>>] \in P
              PROVE  \A s \in SUBSET S : g[s] \in P
  OBVIOUS
<1>. DEFINE Bad == {s \in SUBSET S : g[s] \notin P}
<1>1. /\ g[{}] = base
      /\ \A s \in SUBSET S : s # {} => g[s] = w[<<pick[s], g[s \ {pick[s]}]>>]
  BY FoldStep
<1>2. CASE Bad # {}
  <2>1. PICK s \in Bad : \A t \in Bad : t \subseteq s => t = s
    <3>1. Bad \in SUBSET SUBSET S OBVIOUS
    <3>. HIDE DEF Bad
    <3>. QED BY <1>2, <3>1, SmallestOf
  <2>2. s \in SUBSET S /\ s # {} BY <1>1
  <2>3. pick[s] \in s /\ s \ {pick[s]} \in SUBSET S BY <2>2
  <2>4. g[s \ {pick[s]}] \in P BY <2>1, <2>3
  <2>5. pick[s] \in S BY <2>2, <2>3
  <2>6. w[<<pick[s], g[s \ {pick[s]}]>>] \in P BY <2>4, <2>5
  <2>7. g[s] \in P BY <1>1, <2>2, <2>6
  <2>. QED BY <2>1, <2>7
<1>. QED BY <1>2

-----------------------------------------------------------------------------
(* The doubt a ledger leaves is a number. *)

\* There are eight types of evidence.
LEMMA TypesFinite == IsFiniteSet(EvidenceType)
<1>2. IsFiniteSet(HighFidelity)
  <2>1. IsFiniteSet({"ransomware_canary"}) BY FS_Singleton
  <2>2. IsFiniteSet({"ransomware_canary"} \cup {"edr_malicious_process"}) BY <2>1, FS_AddElement
  <2>3. IsFiniteSet({"ransomware_canary", "edr_malicious_process"} \cup {"credential_dump"})
    BY <2>2, FS_AddElement
  <2>4. IsFiniteSet({"ransomware_canary", "edr_malicious_process", "credential_dump"} \cup {"c2_beacon"})
    BY <2>3, FS_AddElement
  <2>. QED BY <2>4 DEF HighFidelity
<1>3. IsFiniteSet(HighFidelity \cup {"auth_anomaly"}) BY <1>2, FS_AddElement
<1>4. IsFiniteSet((HighFidelity \cup {"auth_anomaly"}) \cup {"lateral_connection"}) BY <1>3, FS_AddElement
<1>5. IsFiniteSet((HighFidelity \cup {"auth_anomaly", "lateral_connection"}) \cup {"data_exfil_volume"})
  BY <1>4, FS_AddElement
<1>6. IsFiniteSet(SensorTypes) BY <1>5 DEF SensorTypes, MediumFidelity
<1>7. IsFiniteSet(SensorTypes \cup {"ml_anomaly"}) BY <1>6, FS_AddElement
<1>. QED BY <1>7 DEF EvidenceType

\* There are finitely many items.
LEMMA ItemsFinite == \A items \in SUBSET Item : IsFiniteSet(items)
<1>1. IsFiniteSet(Percent)
  <2>. DEFINE lo == 0
              hi == 100
  <2>1. lo \in Int /\ hi \in Int BY SMT
  <2>2. Percent = lo..hi BY SMT DEF Percent
  <2>. HIDE DEF lo, hi
  <2>. QED BY <2>1, <2>2, FS_Interval
<1>2. IsFiniteSet(EvidenceType \X Percent) BY <1>1, TypesFinite, FS_Product
<1>. DEFINE f == [p \in EvidenceType \X Percent |-> [type |-> p[1], conf |-> p[2]]]
<1>3. \A e \in Item : \E p \in EvidenceType \X Percent : e = f[p]
  <2>. TAKE e \in Item
  <2>1. <<e.type, e.conf>> \in EvidenceType \X Percent /\ f[<<e.type, e.conf>>] = e BY DEF Item
  <2>. HIDE DEF f
  <2>. QED BY <2>1
<1>. HIDE DEF f
<1>4. IsFiniteSet(Item) BY <1>2, <1>3, ImageFinite
<1>. QED BY <1>4, FS_Subset

\* Of some items one is the weakest.
LEMMA WeakestIn == \A items \in SUBSET Item : items # {} => Weakest(items) \in items
<1>. SUFFICES ASSUME NEW items \in SUBSET Item, items # {}
              PROVE  \E e \in items : \A f \in items : e.conf <= f.conf
  BY DEF Weakest
<1>. DEFINE confs == {e.conf : e \in items}
<1>1. confs \in SUBSET Nat /\ confs # {}
  <2>1. \A e \in Item : e.conf \in Nat BY SMT DEF Item, Percent
  <2>. QED BY <2>1
<1>2. PICK c \in confs : \A d \in confs : c <= d
  <2>. HIDE DEF confs
  <2>. QED BY <1>1, LeastOf
<1>. QED BY <1>2

\* What one item more leaves of the doubt acc, and what there is before any.
After(acc, conf) == (acc * (100 - conf)) \div 100
AllDoubt == 1000000

LEMMA AfterType == \A acc \in Nat, conf \in Percent : After(acc, conf) \in Nat
<1>. TAKE acc \in Nat, conf \in Percent
<1>1. 100 - conf \in Nat BY SMT DEF Percent
<1>2. \A m, n \in Nat : m * n \in Nat BY SMT
<1>3. acc * (100 - conf) \in Nat BY <1>1, <1>2
<1>4. \A x \in Nat : x \div 100 \in Nat BY SMT
<1>. QED BY <1>3, <1>4 DEF After

LEMMA SurvivalType == \A items \in SUBSET Item : Survival(items) \in Nat
<1>. TAKE items \in SUBSET Item
<1>. DEFINE one == AllDoubt
            pick == [s \in SUBSET items |-> Weakest(s)]
            w == [p \in Item \X Nat |-> After(p[2], p[1].conf)]
            Is(g) == g = [s \in SUBSET items |->
                       IF s = {} THEN one ELSE After(g[s \ {Weakest(s)}], Weakest(s).conf)]
            G == CHOOSE g : Is(g)
<1>1. Survival(items) = G[items]
  BY SMT DEF Survival, MapThenFoldSet, After, AllDoubt
<1>2. one \in Nat BY SMT DEF AllDoubt
<1>3. \A s \in SUBSET items : s # {} => pick[s] \in s /\ pick[s] = Weakest(s)
  BY WeakestIn
<1>4. \A e \in items, acc \in Nat : w[<<e, acc>>] = After(acc, e.conf) /\ After(acc, e.conf) \in Nat
  <2>1. \A e \in Item : e.conf \in Percent BY DEF Item
  <2>. QED BY <2>1, AfterType
<1>5. IsFiniteSet(items) BY ItemsFinite
<1>. HIDE DEF one, pick, w
<1>6. PICK g : IsFold(g, one, pick, w, items) BY <1>3, <1>5, FoldExists
<1>7. /\ g[{}] = one
      /\ \A s \in SUBSET items : s # {} => g[s] = w[<<pick[s], g[s \ {pick[s]}]>>]
  BY <1>6, FoldStep
<1>8. \A s \in SUBSET items : g[s] \in Nat
  <2>1. \A s \in SUBSET items : s # {} => pick[s] \in s BY <1>3
  <2>2. \A e \in items, acc \in Nat : w[<<e, acc>>] \in Nat BY <1>4
  <2>. QED BY <1>2, <1>5, <1>6, <2>1, <2>2, FoldRange
<1>9. Is(g)
  <2>1. g = [s \in SUBSET items |-> g[s]] BY <1>6 DEF IsFold
  <2>2. ASSUME NEW s \in SUBSET items, s # {}
        PROVE  g[s] = After(g[s \ {Weakest(s)}], Weakest(s).conf)
    <3>1. pick[s] \in items /\ pick[s] = Weakest(s) BY <1>3, <2>2
    <3>2. g[s \ {Weakest(s)}] \in Nat BY <1>8
    <3>. QED BY <1>4, <1>7, <2>2, <3>1, <3>2
  <2>3. \A s \in SUBSET items :
          g[s] = IF s = {} THEN one ELSE After(g[s \ {Weakest(s)}], Weakest(s).conf)
    BY <1>7, <2>2
  <2>. QED BY <2>1, <2>3
<1>10. Is(G)
  <2>. HIDE DEF Is
  <2>. QED BY <1>9
<1>. HIDE DEF G
<1>11. /\ G[{}] = one
       /\ \A s \in SUBSET items : s # {} => G[s] = After(G[s \ {Weakest(s)}], Weakest(s).conf)
  <2>1. \A s \in SUBSET items :
          G[s] = IF s = {} THEN one ELSE After(G[s \ {Weakest(s)}], Weakest(s).conf)
    BY <1>10
  <2>2. {} \in SUBSET items OBVIOUS
  <2>. QED BY <2>1, <2>2
<1>. DEFINE Bad == {s \in SUBSET items : G[s] \notin Nat}
<1>12. CASE Bad # {}
  <2>1. PICK s \in Bad : \A t \in Bad : t \subseteq s => t = s
    <3>1. Bad \in SUBSET SUBSET items OBVIOUS
    <3>. HIDE DEF Bad
    <3>. QED BY <1>5, <1>12, <3>1, SmallestOf
  <2>2. s \in SUBSET items /\ s # {} BY <1>2, <1>11
  <2>3. Weakest(s) \in s /\ Weakest(s) \in items BY <1>3, <2>2
  <2>4. G[s \ {Weakest(s)}] \in Nat BY <2>1, <2>2, <2>3
  <2>5. Weakest(s).conf \in Percent BY <2>3 DEF Item
  <2>6. G[s] \in Nat BY <1>11, <2>2, <2>4, <2>5, AfterType
  <2>. QED BY <2>1, <2>6
<1>13. CASE Bad = {}
  <2>1. items \in SUBSET items OBVIOUS
  <2>. QED BY <1>1, <1>13, <2>1
<1>. QED BY <1>12, <1>13

-----------------------------------------------------------------------------
(* The data agent leaves every service a host. *)

\* Of the unproven hosts of a service one is the least suspicious: the keys the agent
\* compares, confidence, risk and name, are totally ordered.
LEMMA LeastSuspiciousIn ==
  ASSUME NEW c \in Context, NEW s \in Services, Deps[s] \ c.confirmed # {}
  PROVE  LeastSuspicious(c, s) \in Deps[s] \ c.confirmed
<1>. DEFINE spare == Deps[s] \ c.confirmed
            doubt == [h \in Hosts |-> Survival(CorroboratingItems(Evidence(c, h)))]
            risk == [h \in Hosts |-> IF RiskOf(c, h) = NoRisk THEN 0 ELSE RiskOf(c, h)]
            conf(h) == InfectionConfidence(Evidence(c, h))
<1>1. spare \in SUBSET Hosts /\ IsFiniteSet(spare)
  <2>1. spare \in SUBSET Hosts BY TopologyAssumption
  <2>. QED BY <2>1, HostsFinite, FS_Subset
<1>2. doubt \in [Hosts -> Nat]
  <2>1. ASSUME NEW h \in Hosts PROVE CorroboratingItems(Evidence(c, h)) \in SUBSET Item
    <3>1. c.assessment[h] \in Assessment BY DEF Context
    <3>. QED BY <3>1 DEF Assessment, Evidence, CorroboratingItems
  <2>. QED BY <2>1, SurvivalType
<1>3. risk \in [Hosts -> Nat]
  <2>1. \A h \in Hosts : c.assessment[h].risk \in RiskType BY DEF Context, Assessment
  <2>2. \A r \in RiskType : r # NoRisk => r \in Nat BY SMT DEF RiskType, Percent
  <2>. QED BY <2>1, <2>2 DEF RiskOf
<1>4. \A h \in Hosts : conf(h) = AllDoubt - doubt[h] BY SMT DEF InfectionConfidence, AllDoubt
<1>. HIDE DEF doubt, risk, conf
<1>. DEFINE doubts == {doubt[h] : h \in spare}
<1>5. PICK n \in doubts : n \in Nat /\ \A m \in doubts : m \in Nat /\ m <= n
  <2>1. doubts \subseteq Nat /\ doubts # {} BY <1>1, <1>2
  <2>2. IsFiniteSet(doubts)
    <3>1. \A y \in doubts : \E h \in spare : y = doubt[h] OBVIOUS
    <3>. HIDE DEF doubts
    <3>. QED BY <1>1, <3>1, ImageFinite
  <2>. HIDE DEF doubts
  <2>3. Best(doubts) \in doubts /\ \A m \in doubts : m <= Best(doubts) BY <2>1, <2>2, BestIs
  <2>. QED BY <2>1, <2>3
<1>. DEFINE most == {h \in spare : doubt[h] = n}
<1>6. most \in SUBSET Hosts /\ most # {} BY <1>1, <1>5
<1>7. PICK h \in most : \A g \in most \ {h} :
         risk[h] < risk[g] \/ (risk[h] = risk[g] /\ Before(h, g))
  <2>. DEFINE f == [g \in most |-> risk[g]]
  <2>1. f \in [most -> Nat] BY <1>3, <1>6
  <2>2. \A g \in most : f[g] = risk[g] OBVIOUS
  <2>. HIDE DEF most, f
  <2>3. PICK h \in most : \A g \in most \ {h} : f[h] < f[g] \/ (f[h] = f[g] /\ Before(h, g))
    BY <1>6, <2>1, FirstOf
  <2>. QED BY <2>2, <2>3
<1>8. AllDoubt \in Nat BY SMT DEF AllDoubt
<1>9. ASSUME NEW g \in spare \ {h}
      PROVE  \/ conf(h) < conf(g)
             \/ conf(h) = conf(g) /\ risk[h] < risk[g]
             \/ conf(h) = conf(g) /\ risk[h] = risk[g] /\ Before(h, g)
  <2>1. g \in Hosts /\ h \in Hosts BY <1>1
  <2>2. doubt[h] = n /\ doubt[g] \in Nat /\ doubt[g] <= n /\ n \in Nat BY <1>5
  <2>3. conf(h) = AllDoubt - n /\ conf(g) = AllDoubt - doubt[g] BY <1>4, <2>1, <2>2
  <2>4. CASE doubt[g] = n BY <1>7, <2>3, <2>4
  <2>5. CASE doubt[g] # n
    <3>1. \A a, x, y \in Nat : x <= y /\ x # y => a - y < a - x OBVIOUS
    <3>. QED BY <1>8, <2>2, <2>3, <2>5, <3>1
  <2>. QED BY <2>4, <2>5
<1>10. /\ h \in Deps[s] \ c.confirmed
       /\ \A g \in Deps[s] \ (c.confirmed \cup {h}) :
            \/ conf(h) < conf(g)
            \/ conf(h) = conf(g) /\ risk[h] < risk[g]
            \/ conf(h) = conf(g) /\ risk[h] = risk[g] /\ Before(h, g)
  BY <1>9
<1>11. /\ \A g \in Deps[s] : risk[g] = IF RiskOf(c, g) = NoRisk THEN 0 ELSE RiskOf(c, g)
       /\ \A g : conf(g) = InfectionConfidence(Evidence(c, g))
  <2>1. Deps[s] \subseteq Hosts BY TopologyAssumption
  <2>. QED BY <2>1 DEF risk, conf
<1>12. /\ h \in Deps[s] \ c.confirmed
       /\ \A g \in Deps[s] \ (c.confirmed \cup {h}) :
            \/ InfectionConfidence(Evidence(c, h)) < InfectionConfidence(Evidence(c, g))
            \/ /\ InfectionConfidence(Evidence(c, h)) = InfectionConfidence(Evidence(c, g))
               /\ (IF RiskOf(c, h) = NoRisk THEN 0 ELSE RiskOf(c, h))
                    < (IF RiskOf(c, g) = NoRisk THEN 0 ELSE RiskOf(c, g))
            \/ /\ InfectionConfidence(Evidence(c, h)) = InfectionConfidence(Evidence(c, g))
               /\ (IF RiskOf(c, h) = NoRisk THEN 0 ELSE RiskOf(c, h))
                    = (IF RiskOf(c, g) = NoRisk THEN 0 ELSE RiskOf(c, g))
               /\ Before(h, g)
  BY <1>10, <1>11
<1>. HIDE DEF spare
<1>. QED BY <1>12 DEF LeastSuspicious

\* What the agent takes of a proposal for one service: at most a host, and never a
\* proven one.
Spared(c, s, S) == IF LosesEveryReplica(c, s, S) THEN S \ {LeastSuspicious(c, s)} ELSE S

\* What is left of the proposal W when the services in some places of the list were
\* looked at: it holds every proven host of W, and takes none of them down completely.
SparedIn(c, W, T) ==
  {S \in SUBSET W :
     /\ c.confirmed \subseteq S
     /\ \A i \in T : ~LosesEveryReplica(c, ServiceOrder[i], S)}

\* One service more: its spare host is given back, and those before keep theirs.
LEMMA SpareOne ==
  ASSUME NEW c \in Context, NEW W \in SUBSET Hosts, NEW T, NEW i \in DOMAIN ServiceOrder,
         NEW S \in SparedIn(c, W, T)
  PROVE  Spared(c, ServiceOrder[i], S) \in SparedIn(c, W, T \cup {i})
<1>. DEFINE s == ServiceOrder[i]
<1>1. s \in Services BY DEF Services, ToSet
<1>2. S \in SUBSET W /\ c.confirmed \subseteq S /\ \A j \in T : ~LosesEveryReplica(c, ServiceOrder[j], S)
  BY DEF SparedIn
<1>. HIDE DEF s
<1>3. CASE ~LosesEveryReplica(c, s, S)
  BY <1>2, <1>3 DEF Spared, SparedIn, s
<1>4. CASE LosesEveryReplica(c, s, S)
  <2>1. Deps[s] \ c.confirmed # {} BY <1>4 DEF LosesEveryReplica
  <2>2. PICK h \in Deps[s] \ c.confirmed : h = LeastSuspicious(c, s)
    BY <1>1, <2>1, LeastSuspiciousIn
  <2>3. Spared(c, s, S) = S \ {h} BY <1>4, <2>2 DEF Spared
  <2>4. ~LosesEveryReplica(c, s, S \ {h}) BY <2>2 DEF LosesEveryReplica
  <2>5. \A j \in T : ~LosesEveryReplica(c, ServiceOrder[j], S \ {h})
    BY <1>2 DEF LosesEveryReplica
  <2>6. S \ {h} \in SUBSET W /\ c.confirmed \subseteq S \ {h} BY <1>2, <2>2
  <2>7. \A j \in T \cup {i} : ~LosesEveryReplica(c, ServiceOrder[j], S \ {h})
    BY <2>4, <2>5 DEF s
  <2>. QED BY <2>3, <2>6, <2>7 DEF SparedIn, s
<1>. QED BY <1>3, <1>4

\* So when all services were looked at, each of them has a host to spare.
LEMMA AllSpared ==
  ASSUME NEW c \in Context, NEW W \in SUBSET Hosts, c.confirmed \subseteq W
  PROVE  PreserveReplicas(c, W) \in SparedIn(c, W, DOMAIN ServiceOrder)
<1>. DEFINE D == DOMAIN ServiceOrder
            pick == [t \in SUBSET D |-> Max(t)]
            w == [p \in D \X SUBSET Hosts |-> Spared(c, ServiceOrder[p[1]], p[2])]
            Is(g) == g = [t \in SUBSET D |->
                            IF t = {} THEN W ELSE Spared(c, ServiceOrder[Max(t)], g[t \ {Max(t)}])]
            G == CHOOSE g : Is(g)
<1>1. PreserveReplicas(c, W) = G[D]
  BY DEF PreserveReplicas, FoldLeft, MapThenFoldSet, Spared
<1>2. D \in SUBSET Nat /\ IsFiniteSet(D)
  <2>1. D = 1..Len(ServiceOrder) /\ Len(ServiceOrder) \in Nat BY TopologyAssumption
  <2>2. IsFiniteSet(1..Len(ServiceOrder)) BY <2>1, FS_Interval
  <2>. QED BY <2>1, <2>2
<1>3. \A i \in D, S \in SUBSET Hosts :
        w[<<i, S>>] = Spared(c, ServiceOrder[i], S) /\ Spared(c, ServiceOrder[i], S) \in SUBSET Hosts
  BY DEF Spared
<1>. HIDE DEF D, w
<1>4. \A t \in SUBSET D : t # {} => pick[t] \in t /\ pick[t] = Max(t)
  <2>. TAKE t \in SUBSET D
  <2>. HAVE t # {}
  <2>1. t \in SUBSET Nat /\ IsFiniteSet(t) BY <1>2, FS_Subset
  <2>2. \E m \in t : \A i \in t : m >= i BY <2>1, GreatestOf
  <2>. QED BY <2>2 DEF Max
<1>. HIDE DEF pick
<1>5. PICK g : IsFold(g, W, pick, w, D) BY <1>2, <1>4, FoldExists
<1>6. /\ g[{}] = W
      /\ \A t \in SUBSET D : t # {} => g[t] = w[<<pick[t], g[t \ {pick[t]}]>>]
  BY <1>5, FoldStep
<1>7. \A t \in SUBSET D : g[t] \in SUBSET Hosts
  <2>1. \A t \in SUBSET D : t # {} => pick[t] \in t BY <1>4
  <2>. DEFINE sets == SUBSET Hosts
  <2>2. W \in sets /\ \A i \in D, S \in sets : w[<<i, S>>] \in sets BY <1>3
  <2>3. IsFiniteSet(D) BY <1>2
  <2>. HIDE DEF sets
  <2>4. \A t \in SUBSET D : g[t] \in sets BY <1>5, <2>1, <2>2, <2>3, FoldRange
  <2>. QED BY <2>4 DEF sets
<1>8. Is(g)
  <2>1. g = [t \in SUBSET D |-> g[t]] BY <1>5 DEF IsFold
  <2>2. ASSUME NEW t \in SUBSET D, t # {}
        PROVE  g[t] = Spared(c, ServiceOrder[Max(t)], g[t \ {Max(t)}])
    <3>1. pick[t] \in D /\ pick[t] = Max(t) BY <1>4, <2>2
    <3>2. g[t \ {Max(t)}] \in SUBSET Hosts BY <1>7
    <3>. QED BY <1>3, <1>6, <2>2, <3>1, <3>2
  <2>3. \A t \in SUBSET D :
          g[t] = IF t = {} THEN W ELSE Spared(c, ServiceOrder[Max(t)], g[t \ {Max(t)}])
    BY <1>6, <2>2
  <2>. QED BY <2>1, <2>3
<1>9. Is(G)
  <2>. HIDE DEF Is
  <2>. QED BY <1>8
<1>. HIDE DEF G
<1>10. /\ G[{}] = W
       /\ \A t \in SUBSET D : t # {} => G[t] = Spared(c, ServiceOrder[Max(t)], G[t \ {Max(t)}])
  <2>1. \A t \in SUBSET D :
          G[t] = IF t = {} THEN W ELSE Spared(c, ServiceOrder[Max(t)], G[t \ {Max(t)}])
    BY <1>9
  <2>2. {} \in SUBSET D OBVIOUS
  <2>. QED BY <2>1, <2>2
<1>. DEFINE Bad == {t \in SUBSET D : G[t] \notin SparedIn(c, W, t)}
<1>11. CASE Bad # {}
  <2>1. PICK t \in Bad : \A u \in Bad : u \subseteq t => u = t
    <3>1. Bad \in SUBSET SUBSET D OBVIOUS
    <3>2. IsFiniteSet(D) BY <1>2
    <3>. HIDE DEF Bad
    <3>. QED BY <1>11, <3>1, <3>2, SmallestOf
  <2>2. t \in SUBSET D /\ t # {}
    <3>1. W \in SparedIn(c, W, {}) BY DEF SparedIn
    <3>. QED BY <1>10, <3>1
  <2>3. Max(t) \in t /\ Max(t) \in D BY <1>4, <2>2
  <2>4. G[t \ {Max(t)}] \in SparedIn(c, W, t \ {Max(t)}) BY <2>1, <2>2, <2>3
  <2>5. Spared(c, ServiceOrder[Max(t)], G[t \ {Max(t)}])
          \in SparedIn(c, W, (t \ {Max(t)}) \cup {Max(t)})
    <3>1. Max(t) \in DOMAIN ServiceOrder BY <2>3 DEF D
    <3>. HIDE DEF Bad
    <3>. QED BY <2>4, <3>1, SpareOne
  <2>6. (t \ {Max(t)}) \cup {Max(t)} = t BY <2>3
  <2>7. G[t] \in SparedIn(c, W, t) BY <1>10, <2>2, <2>5, <2>6
  <2>. QED BY <2>1, <2>7
<1>12. CASE Bad = {}
  <2>1. D \in SUBSET D OBVIOUS
  <2>2. G[D] \in SparedIn(c, W, D) BY <1>12, <2>1
  <2>. QED BY <1>1, <2>2 DEF D
<1>. QED BY <1>11, <1>12

\* What the data agent proposes leaves of every service on several hosts one host that
\* is not proven, if there is one.
LEMMA DataProposeSpares ==
  ASSUME NEW c \in Context, NEW s \in Services
  PROVE  ~LosesEveryReplica(c, s, DataPropose(c))
<1>. DEFINE W == c.confirmed \cup DataTargets(c)
            S == PreserveReplicas(c, W)
<1>1. W \in SUBSET Hosts /\ c.confirmed \subseteq W
  <2>1. c.confirmed \subseteq Hosts BY DEF Context
  <2>2. DataTargets(c) \subseteq Hosts BY TopologyAssumption DEF DataTargets
  <2>. QED BY <2>1, <2>2
<1>2. DataPropose(c) = c.confirmed \cup (DataTargets(c) \cap S) BY DEF DataPropose
<1>3. S \in SparedIn(c, W, DOMAIN ServiceOrder)
  <2>. HIDE DEF W
  <2>. QED BY <1>1, AllSpared
<1>. HIDE DEF S
<1>4. DataPropose(c) = S BY <1>2, <1>3 DEF SparedIn
<1>5. \E i \in DOMAIN ServiceOrder : ServiceOrder[i] = s BY DEF Services, ToSet
<1>. QED BY <1>3, <1>4, <1>5 DEF SparedIn

\* On no network and no evidence does the data agent propose to take every host of a
\* service offline while one of them is unproven, in whatever order its services are
\* looked at and however they share hosts (test_never_proposes_isolating_every_replica).
THEOREM DataAgentSpares ==
  Spec => [](phase # "PROPOSE" /\ "Data" \in Team =>
               \A s \in Services :
                  Cardinality(Deps[s]) >= 2 /\ Deps[s] \subseteq proposals["Data"]
                    => Deps[s] \subseteq ctx.confirmed)
<1>. DEFINE Proposes == phase # "PROPOSE" => proposals = [a \in Team |-> Propose(a, ctx)]
<1>1. Init => Proposes BY DEF Init
<1>2. Proposes /\ [Next]_vars => Proposes'
  <2>. SUFFICES ASSUME Proposes, [Next]_vars PROVE Proposes'
    OBVIOUS
  <2>1. CASE ProposePhase BY <2>1 DEF ProposePhase
  <2>2. ASSUME UNCHANGED <<ctx, proposals>>, phase = "PROPOSE" => phase' = "PROPOSE" PROVE Proposes'
    BY <2>2
  <2>3. CASE CritiquePhase \/ CounterPhase \/ VetoPhase
    BY <2>2, <2>3 DEF CritiquePhase, CounterPhase, VetoPhase
  <2>4. ASSUME NEW h \in Hosts, BudgetDrop(h) \/ BudgetSkip(h) PROVE Proposes'
    BY <2>2, <2>4 DEF BudgetDrop, BudgetSkip
  <2>5. CASE BudgetEnd \/ ConsensusPhase
    BY <2>2, <2>5 DEF BudgetEnd, ConsensusPhase
  <2>6. CASE SolveEmpty \/ SolveOptimal \/ SolveFeasible \/ SolveFallback
    BY <2>2, <2>6 DEF SolveEmpty, SolveOptimal, SolveFeasible, SolveFallback, Solved
  <2>7. CASE UNCHANGED vars BY <2>2, <2>7 DEF vars
  <2>. QED BY <2>1, <2>3, <2>4, <2>5, <2>6, <2>7 DEF Next, Done
<1>3. TypeOK /\ Proposes =>
        (phase # "PROPOSE" /\ "Data" \in Team =>
           \A s \in Services :
              Cardinality(Deps[s]) >= 2 /\ Deps[s] \subseteq proposals["Data"]
                => Deps[s] \subseteq ctx.confirmed)
  <2>. SUFFICES ASSUME TypeOK, Proposes, phase # "PROPOSE", "Data" \in Team, NEW s \in Services,
                       Cardinality(Deps[s]) >= 2, Deps[s] \subseteq proposals["Data"]
                PROVE  Deps[s] \subseteq ctx.confirmed
    OBVIOUS
  <2>1. proposals["Data"] = DataPropose(ctx) BY DEF Propose
  <2>2. ctx \in Context BY DEF TypeOK
  <2>3. ~LosesEveryReplica(ctx, s, DataPropose(ctx)) BY <2>2, DataProposeSpares
  <2>. QED BY <2>1, <2>3 DEF LosesEveryReplica
<1>. QED BY <1>1, <1>2, <1>3, TypeCorrect, PTL DEF Spec
=============================================================================
