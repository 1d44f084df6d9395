------------------------------ MODULE Timeline ------------------------------
(***************************************************************************)
(* build_timeline: the events the dashboard replays for one decision.  It  *)
(* leaves out what it holds to be uninteresting: critiques without an      *)
(* objection or addition, agents that did not move, votes nobody contests. *)
(* Times, phase titles and reasons are left out.                           *)
(***************************************************************************)
EXTENDS Negotiation

\* One event: whom it is about, the hosts it brings in or names, and the hosts it
\* takes out.
Show(type, who, in, out) == [type |-> type, who |-> who, in |-> in, out |-> out]

AGENT_ORDER  == <<"Identity", "Network", "Data", "Endpoint", "BusinessImpact">>

\* Each agent reviews the others by name: sorted(proposals).
REVIEW_ORDER == <<"BusinessImpact", "Data", "Endpoint", "Identity", "Network">>

\* "for x in order: if x is one of some: emit(event[x])".
Emit(order, some, event) ==
  FlattenSeq([i \in DOMAIN order |->
                IF order[i] \in some THEN <<event[order[i]]>> ELSE <<>>])

\* ------------------------------------------------------------ 0. to 2. alarm
Scored == {h \in Hosts : RiskOf(ctx, h) # NoRisk}

Alarm ==
  <<Show("ATTACK_DETECTED", "", ctx.confirmed \cup ctx.suspected, {})>>
  \o (IF Scored = {} THEN <<>> ELSE <<Show("RISK_SCORED", "", Scored, {})>>)
  \o Emit(HostOrder, ctx.confirmed, [h \in Hosts |-> Show("HOST_INFECTED", h, {h}, {})])
  \o Emit(HostOrder, ctx.suspected, [h \in Hosts |-> Show("HOST_SUSPECT", h, {h}, {})])

\* ----------------------------------------------------- 3. to 5. negotiation
Proposed ==
  Emit(AGENT_ORDER, Team, [a \in Team |-> Show("AGENT_PROPOSAL", a, proposals[a], {})])

\* The critiques of one agent that say anything.
Reviews ==
  [a \in Team |->
     Emit(REVIEW_ORDER, {b \in Team : objections[a][b] \cup additions[a][b] # {}},
          [b \in Team |-> Show("AGENT_CRITIQUE", a, additions[a][b], objections[a][b])])]

Critiques == FlattenSeq(Emit(AGENT_ORDER, Team, Reviews))

Gained(a) == counters[a] \ proposals[a]
Given(a)  == proposals[a] \ counters[a]

\* The agents shown to move, and the fault of showing concessions only.
Conceding(a) == Given(a) # {}
Moved(a)     == Given(a) # {} \/ Gained(a) # {}

Counters ==
  Emit(AGENT_ORDER, {a \in Team : Moved(a)},
       [a \in Team |-> Show("AGENT_COUNTER", a, Gained(a), Given(a))])

\* ------------------------------------------------------- 6. to 9. decision
Veto == <<Show("BUSINESS_VETO", "BusinessImpact", overridden, vetoed)>>

Contested == {h \in surviving : Supporters(h) # {} /\ Objectors(h) # {}}

Votes ==
  Emit(HostOrder, Contested,
       [h \in Hosts |-> Show("CONSENSUS_VOTE", h, {h} \cap final, {h} \ final)])

Solver ==
  <<Show("SOLVER_RUNNING", "", final, {}), Show("SOLVER_RESULT", "", plan, final \ plan)>>

Isolated == Emit(HostOrder, plan, [h \in Hosts |-> Show("HOST_ISOLATED", h, {h}, {})])

Replay ==
  Alarm \o Proposed \o Critiques \o Counters \o Veto \o Votes \o Solver \o Isolated
  \o <<Show("CONTAINMENT_COMPLETE", "", {}, {})>>

-----------------------------------------------------------------------------
\* What one who only watches the replay takes away: the hosts each agent holds,
\* the hosts that left the table, and the hosts isolated.
Watch(seen, e) ==
  CASE e.type \in {"AGENT_PROPOSAL", "AGENT_COUNTER"} ->
         [seen EXCEPT !.held[e.who] = (@ \ e.out) \cup e.in]
    [] e.type \in {"BUSINESS_VETO", "CONSENSUS_VOTE", "SOLVER_RESULT"} ->
         [seen EXCEPT !.left = @ \cup e.out]
    [] e.type = "HOST_ISOLATED" -> [seen EXCEPT !.isolated = @ \cup e.in]
    [] OTHER -> seen

Unseen == [held |-> NoSets, left |-> {}, isolated |-> {}]

Seen == FoldLeft(Watch, Unseen, Replay)

\* Nothing that decides the fate of a host is left out of the replay: the hosts the
\* agents were seen to hold, less those seen to leave the table, are exactly the
\* hosts seen isolated, and these are the plan.
ReplayAddsUp ==
  phase = "DONE" =>
     \E seen \in {Seen} :
        /\ seen.isolated = plan
        /\ (UNION {seen.held[a] : a \in Team}) \ seen.left = plan
=============================================================================
