--------------------------- MODULE NetworkBuilder ---------------------------
(***************************************************************************)
(* NetworkTopology while it is built: add_host, add_edge, add_service,     *)
(* finalize, and centrality() with its cache, called in any order, as the  *)
(* builder, the tests and the agents call them.  What a service depends on *)
(* is kept three times (service_deps, the dependency graph, the host's own *)
(* list), its tier twice; nothing ever removes an edge.  A call that       *)
(* raises before it changed anything is no step.                           *)
(***************************************************************************)
EXTENDS Integers

CONSTANTS
  HostIds, ServiceIds,
  Trusts,      \* trusts given to add_edge, clamped
  Tiers        \* tiers in use, of "gold", "silver" and "bronze"

ASSUME NetworkBuilderAssumption == Tiers \subseteq {"gold", "silver", "bronze"}

VARIABLES
  hosts,       \* host -> its sla_tier and its services
  edges,       \* graph: the one or two ends of an edge -> trust
  deps,        \* service_deps
  sla,         \* service_sla
  depGraph,    \* dep_graph: pairs <<service, host>>
  cache,       \* _centrality_cache: the graph it was computed from, if any
  ready,       \* history: finalize() returned and nothing changed since
  moved        \* history: services added again, and those of hosts added again

vars == <<hosts, edges, deps, sla, depGraph, cache, ready, moved>>

Init ==
  /\ hosts = <<>> /\ edges = <<>> /\ deps = <<>> /\ sla = <<>>
  /\ depGraph = {} /\ cache = {}
  /\ ready = FALSE /\ moved = {}

-----------------------------------------------------------------------------
Graph == [nodes |-> DOMAIN hosts, edges |-> edges]

ServicesOnHost(h) == {s \in ServiceIds : <<s, h>> \in depGraph}

\* What a call that changes the graph leaves of the cache, and the fault of
\* forgetting it.
KeptCache    == cache
DroppedCache == {}

Put(f, x, y) == [z \in {x} \cup DOMAIN f |-> IF z = x THEN y ELSE f[z]]

\* A host that is added again is a new object with the same edges.
AddHost(h, tier) ==
  /\ hosts' = Put(hosts, h, [tier |-> tier, services |-> {}])
  /\ moved' = IF h \in DOMAIN hosts THEN moved \cup hosts[h].services ELSE moved
  /\ cache' = DroppedCache
  /\ ready' = FALSE
  /\ UNCHANGED <<edges, deps, sla, depGraph>>

AddEdge(g, h, trust) ==
  /\ {g, h} \subseteq DOMAIN hosts
  /\ edges' = Put(edges, {g, h}, trust)
  /\ cache' = DroppedCache
  /\ ready' = FALSE
  /\ UNCHANGED <<hosts, deps, sla, depGraph, moved>>

\* What add_service writes to the dependency graph, and the fault of leaving out
\* a host that already has a service.
LinkedIfFree(s, H) == depGraph \cup {<<s, h>> : h \in {g \in H : hosts[g].services = {}}}
Linked(s, H)       == depGraph \cup {<<s, h>> : h \in H}

AddService(s, H, tier) ==
  /\ H \subseteq DOMAIN hosts
  /\ deps' = Put(deps, s, H) /\ sla' = Put(sla, s, tier)
  /\ depGraph' = Linked(s, H)
  /\ hosts' = [h \in DOMAIN hosts |->
                 IF h \in H THEN [hosts[h] EXCEPT !.services = @ \cup {s}] ELSE hosts[h]]
  /\ moved' = IF s \in DOMAIN deps THEN moved \cup {s} ELSE moved
  /\ ready' = FALSE
  /\ UNCHANGED <<edges, cache>>

-----------------------------------------------------------------------------
Rank == [gold |-> 0, silver |-> 1, bronze |-> 2]

Strictest(tiers) == CHOOSE t \in tiers : \A u \in tiers : Rank[t] <= Rank[u]

\* finalize() leaves the tier of a host without services as it is.
StricterOnly(h) ==
  Strictest({sla[s] : s \in ServicesOnHost(h)} \cup {hosts[h].tier})
Derived(h) ==
  IF ServicesOnHost(h) = {} THEN hosts[h].tier
  ELSE Strictest({sla[s] : s \in ServicesOnHost(h)})

Orphans == {h \in DOMAIN hosts : \A e \in DOMAIN edges : h \notin e}
Valid   == DOMAIN hosts # {} /\ Orphans = {} /\ \A s \in DOMAIN deps : deps[s] # {}

\* The tiers are written before validate() has its say.
Finalize ==
  /\ hosts' = [h \in DOMAIN hosts |-> [hosts[h] EXCEPT !.tier = Derived(h)]]
  /\ ready' = Valid
  /\ UNCHANGED <<edges, deps, sla, depGraph, cache, moved>>

Centrality ==
  /\ cache' = IF cache = {} THEN {Graph} ELSE cache
  /\ UNCHANGED <<hosts, edges, deps, sla, depGraph, ready, moved>>

Next ==
  \/ \E h \in HostIds, t \in Tiers : AddHost(h, t)
  \/ \E g, h \in HostIds, t \in Trusts : AddEdge(g, h, t)
  \/ \E s \in ServiceIds, H \in SUBSET HostIds, t \in Tiers : AddService(s, H, t)
  \/ Finalize
  \/ Centrality

Spec == Init /\ [][Next]_vars

-----------------------------------------------------------------------------
\* The centrality the Network agent and the risk model read is that of the graph
\* as it is, whatever was asked and changed before.
CentralityIsFresh == cache \subseteq {Graph}

\* The copies of what a service depends on agree: the veto asks the dependency
\* graph, the solver's constraints ask service_deps, the report the host.
DependenciesAgree ==
  \A s \in DOMAIN deps \ moved :
     /\ {h \in DOMAIN hosts : s \in ServicesOnHost(h)} = deps[s]
     /\ {h \in DOMAIN hosts : s \in hosts[h].services} = deps[s]

GoldTierHosts == UNION {deps[s] : s \in {r \in DOMAIN sla : sla[r] = "gold"}}

\* In a finished network a host that carries services is gold exactly if the
\* Business agent finds it among gold_tier_hosts(), also after a change of mind.
TiersAgree ==
  ready /\ moved = {} =>
     \A h \in DOMAIN hosts :
        ServicesOnHost(h) # {} => (hosts[h].tier = "gold" <=> h \in GoldTierHosts)
=============================================================================
