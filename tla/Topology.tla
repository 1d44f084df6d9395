------------------------------ MODULE Topology ------------------------------
(***************************************************************************)
(* network/topology.py as the negotiation reads it: a finalized network,   *)
(* its service dependencies and the queries the agents and the solver ask. *)
(* Trusts are whole percents, path trusts are in 1/10000 (a product of     *)
(* trusts that are multiples of ten is exact for four hops), revenue is in *)
(* units of OBJECTIVE_SCALE = INR 1000 per hour.                           *)
(***************************************************************************)
EXTENDS Evidence, Sequences, SequencesExt

CONSTANTS
  HostOrder,     \* host_ids(): the hosts, sorted
  ServiceOrder,  \* sorted(service_deps)
  Trust,         \* Trust[g][h]: edge trust in percent, 0 where there is no edge
  HostType,      \* host_type of each host
  Pii,           \* hosts with contains_pii
  Criticality,   \* 1..5
  Deps,          \* service_deps: service -> hosts
  Revenue,       \* service_revenue
  Sla,           \* service_sla
  Central        \* hosts whose betweenness centrality is at least 0.05

Hosts    == ToSet(HostOrder)
Services == ToSet(ServiceOrder)

\* Both orders are sorted lists of names.  add_edge and add_service reject unknown
\* hosts; validate() rejects a host without edges and a service without hosts;
\* trusts are at most 1.
ASSUME TopologyAssumption ==
  /\ HostOrder \in Seq(Hosts) /\ ServiceOrder \in Seq(Services)
  /\ Trust \in [Hosts -> [Hosts -> Percent]]
  /\ \A g, h \in Hosts : Trust[g][h] = Trust[h][g]
  /\ \A h \in Hosts : \E g \in Hosts \ {h} : Trust[g][h] > 0
  /\ DOMAIN HostType = Hosts
  /\ Pii \subseteq Hosts /\ Central \subseteq Hosts
  /\ Criticality \in [Hosts -> 1..5]
  /\ Deps \in [Services -> (SUBSET Hosts) \ {{}}]
  /\ Revenue \in [Services -> Nat]
  /\ Sla \in [Services -> {"gold", "silver", "bronze"}]

\* The function f itself; the comparison makes TLC compute its values once for all.
Table(f) == CHOOSE g \in {f} : g = f

FULL_TRUST     == 10000
MIN_PATH_TRUST == 500

\* The order host ids sort in.
Before(g, h) ==
  \E i, j \in DOMAIN HostOrder : HostOrder[i] = g /\ HostOrder[j] = h /\ i < j

-----------------------------------------------------------------------------
ServicesOnHost(h) == {s \in Services : h \in Deps[s]}

GoldServices     == {s \in Services : Sla[s] = "gold"}
GoldServicesOn(h) == ServicesOnHost(h) \cap GoldServices

\* A service is down when any host it depends on is offline.
DownedServices(S) == {s \in Services : Deps[s] \cap S # {}}

SlaBreaches(S) == DownedServices(S) \cap GoldServices

\* revenue_impact_of_isolating: each downed service is paid for once.
Cost ==
  Table([S \in SUBSET Hosts |->
           MapThenSumSet(LAMBDA s : Revenue[s], DownedServices(S))])

\* _marginal_cost: what comes back online if h is dropped from the plan.
MarginalCost(S, h) == Cost[S] - Cost[S \ {h}]

-----------------------------------------------------------------------------
Neighbors(h) == {g \in Hosts : Trust[g][h] > 0}

\* within_hops(sources, 2)
Within2(S) ==
  LET one == S \cup UNION {Neighbors(h) : h \in S}
  IN  one \cup UNION {Neighbors(h) : h \in one}

Best(trusts) == CHOOSE t \in trusts : \A u \in trusts : u <= t

\* The trust of the hop from g to h; staying put costs nothing.
Hop(g, h) == IF g = h THEN 100 ELSE Trust[g][h]

\* One relaxation of the best path trusts, a set of pairs <<host, trust>>.
Relax(paths, cut) ==
  {<<h, Best({(p[2] * Hop(p[1], h)) \div 100 : p \in paths})>> : h \in Hosts \ cut}

\* The most probable paths from S in the subgraph without the cut hosts.
BestPaths(S, cut) ==
  LET paths[k \in 1..Cardinality(Hosts)] ==
        IF k = 1 THEN {<<h, IF h \in S THEN FULL_TRUST ELSE 0>> : h \in Hosts \ cut}
        ELSE Relax(paths[k - 1], cut)
  IN  paths[Cardinality(Hosts)]

\* attack_path_probabilities of every set of sources.
Reach ==
  Table([S \in SUBSET Hosts |->
           LET paths == BestPaths(S, {})
           IN  Table([h \in Hosts |-> Best({p[2] : p \in {q \in paths : q[1] = h}})])])

\* plausible_attack_surface of S, of the hosts that are left when cut is taken
\* offline (_surface_after_isolation).
AttackSurface(S, cut) ==
  {p[1] : p \in {q \in BestPaths(S \ cut, cut) : q[2] >= MIN_PATH_TRUST}}

\* containment_value([h], S)["hosts_protected"], for one host h.
HostsProtected ==
  Table([S \in SUBSET Hosts |->
           Table([h \in Hosts |->
                    (AttackSurface(S, {}) \ AttackSurface(S, {h})) \ {h}])])
=============================================================================
