------------------------ MODULE NetworkBuilderProofs ------------------------
(***************************************************************************)
(* The copies and the cache of a topology agree for every set of hosts,    *)
(* services and tiers, after every sequence of calls.  What agrees is not  *)
(* inductive alone: that adding a service finds no trace of one before, or *)
(* adding a host no edge to it, is what Recorded says.                     *)
(***************************************************************************)
EXTENDS NetworkBuilder, TLAPS

\* What each call leaves well formed.
Shaped ==
  /\ hosts = [h \in DOMAIN hosts |-> hosts[h]]
  /\ \A h \in DOMAIN hosts :
        hosts[h] \in [tier : {"gold", "silver", "bronze"}, services : SUBSET DOMAIN deps]
  /\ DOMAIN sla = DOMAIN deps /\ DOMAIN deps \subseteq ServiceIds
  /\ \A s \in DOMAIN sla : sla[s] \in {"gold", "silver", "bronze"}

\* The dependency graph names services and hosts that were added, no others.
Recorded == depGraph \subseteq (DOMAIN deps) \X (DOMAIN hosts)

IInv == Shaped /\ Recorded /\ CentralityIsFresh /\ DependenciesAgree /\ TiersAgree

-----------------------------------------------------------------------------
\* The strictest of some tiers is gold exactly if one of them is.
LEMMA StrictestGold ==
  ASSUME NEW tiers \in SUBSET {"gold", "silver", "bronze"}, tiers # {}
  PROVE  /\ Strictest(tiers) \in tiers
         /\ Strictest(tiers) = "gold" <=> "gold" \in tiers
<1>1. \E t \in tiers : \A u \in tiers : Rank[t] <= Rank[u]
  <2>1. CASE "gold" \in tiers
    <3>1. \A u \in tiers : Rank["gold"] <= Rank[u] BY DEF Rank
    <3>. QED BY <2>1, <3>1
  <2>2. CASE "gold" \notin tiers /\ "silver" \in tiers
    <3>1. \A u \in tiers : Rank["silver"] <= Rank[u] BY <2>2 DEF Rank
    <3>. QED BY <2>2, <3>1
  <2>3. CASE "gold" \notin tiers /\ "silver" \notin tiers
    <3>1. "bronze" \in tiers BY <2>3
    <3>2. \A u \in tiers : Rank["bronze"] <= Rank[u] BY <2>3 DEF Rank
    <3>. QED BY <3>1, <3>2
  <2>. QED BY <2>1, <2>2, <2>3
<1>2. PICK t \in tiers : t = Strictest(tiers) /\ \A u \in tiers : Rank[t] <= Rank[u]
  BY <1>1 DEF Strictest
<1>3. t # "gold" => "gold" \notin tiers BY <1>2 DEF Rank
<1>. QED BY <1>2, <1>3

-----------------------------------------------------------------------------
LEMMA InitHolds == Init => IInv
BY DEF Init, IInv, Shaped, Recorded, CentralityIsFresh, DependenciesAgree, TiersAgree

LEMMA AddHostKeeps ==
  ASSUME IInv, NEW h \in HostIds, NEW t \in Tiers, AddHost(h, t)
  PROVE  IInv'
<1>. USE DEF AddHost, IInv
<1>1. /\ DOMAIN hosts' = {h} \cup DOMAIN hosts
      /\ hosts' = [g \in DOMAIN hosts' |-> hosts'[g]]
      /\ hosts'[h] = [tier |-> t, services |-> {}]
      /\ \A g \in DOMAIN hosts \ {h} : hosts'[g] = hosts[g]
  BY DEF Put
<1>2. Shaped'
  <2>1. \A g \in DOMAIN hosts' :
          hosts'[g] \in [tier : {"gold", "silver", "bronze"}, services : SUBSET DOMAIN deps]
    <3>1. t \in {"gold", "silver", "bronze"} BY NetworkBuilderAssumption
    <3>2. hosts'[h] \in [tier : {"gold", "silver", "bronze"}, services : SUBSET DOMAIN deps]
      BY <1>1, <3>1
    <3>. QED BY <1>1, <3>2 DEF Shaped
  <2>. QED BY <1>1, <2>1 DEF Shaped
<1>3. Recorded' BY <1>1 DEF Recorded
<1>4. CentralityIsFresh' BY DEF CentralityIsFresh, DroppedCache
<1>5. DependenciesAgree'
  <2>. SUFFICES ASSUME NEW s \in DOMAIN deps, s \notin moved'
       PROVE  /\ {g \in DOMAIN hosts' : s \in ServicesOnHost(g)'} = deps[s]
              /\ {g \in DOMAIN hosts' : s \in hosts'[g].services} = deps[s]
    BY DEF DependenciesAgree
  <2>1. /\ {g \in DOMAIN hosts : s \in ServicesOnHost(g)} = deps[s]
        /\ {g \in DOMAIN hosts : s \in hosts[g].services} = deps[s]
    BY DEF DependenciesAgree
  <2>2. \A g \in DOMAIN hosts' : s \in hosts'[g].services <=>
                                 g \in DOMAIN hosts /\ s \in hosts[g].services
    BY <1>1
  <2>3. \A g \in DOMAIN hosts' : s \in ServicesOnHost(g)' <=>
                                 g \in DOMAIN hosts /\ s \in ServicesOnHost(g)
    BY DEF ServicesOnHost, Recorded
  <2>. QED BY <1>1, <2>1, <2>2, <2>3
<1>6. TiersAgree' BY DEF TiersAgree
<1>. QED BY <1>2, <1>3, <1>4, <1>5, <1>6

LEMMA AddEdgeKeeps ==
  ASSUME IInv, NEW g \in HostIds, NEW h \in HostIds, NEW t \in Trusts, AddEdge(g, h, t)
  PROVE  IInv'
BY DEF AddEdge, IInv, Shaped, Recorded, CentralityIsFresh, DroppedCache,
       DependenciesAgree, ServicesOnHost, TiersAgree

LEMMA AddServiceKeeps ==
  ASSUME IInv, NEW s \in ServiceIds, NEW H \in SUBSET HostIds, NEW t \in Tiers,
         AddService(s, H, t)
  PROVE  IInv'
<1>. USE DEF AddService, IInv
<1>1. /\ DOMAIN deps' = {s} \cup DOMAIN deps /\ deps'[s] = H
      /\ \A r \in DOMAIN deps \ {s} : deps'[r] = deps[r]
  BY DEF Put
<1>2. /\ DOMAIN sla' = {s} \cup DOMAIN sla /\ sla'[s] = t
      /\ \A r \in DOMAIN sla \ {s} : sla'[r] = sla[r]
  BY DEF Put
<1>3. /\ DOMAIN hosts' = DOMAIN hosts
      /\ hosts' = [g \in DOMAIN hosts' |-> hosts'[g]]
      /\ \A g \in DOMAIN hosts :
           hosts'[g] = IF g \in H THEN [hosts[g] EXCEPT !.services = @ \cup {s}]
                       ELSE hosts[g]
  OBVIOUS
<1>4. \A g \in DOMAIN hosts :
        hosts'[g].services = IF g \in H THEN hosts[g].services \cup {s}
                             ELSE hosts[g].services
  BY <1>3 DEF Shaped
<1>5. Shaped'
  <2>1. \A g \in DOMAIN hosts :
          hosts'[g] \in [tier : {"gold", "silver", "bronze"}, services : SUBSET DOMAIN deps']
    BY <1>1, <1>3 DEF Shaped
  <2>. QED BY <1>1, <1>2, <1>3, <2>1, NetworkBuilderAssumption DEF Shaped
<1>6. Recorded' BY <1>1, <1>3 DEF Recorded, Linked
<1>7. CentralityIsFresh' BY <1>3 DEF CentralityIsFresh, Graph
<1>8. DependenciesAgree'
  <2>. SUFFICES ASSUME NEW r \in DOMAIN deps', r \notin moved'
       PROVE  /\ {g \in DOMAIN hosts' : r \in ServicesOnHost(g)'} = deps'[r]
              /\ {g \in DOMAIN hosts' : r \in hosts'[g].services} = deps'[r]
    BY DEF DependenciesAgree
  <2>1. CASE r = s
    <3>1. s \notin DOMAIN deps BY <2>1
    <3>2. \A g \in DOMAIN hosts : s \notin hosts[g].services BY <3>1 DEF Shaped
    <3>3. \A g : <<s, g>> \notin depGraph BY <3>1 DEF Recorded
    <3>4. \A g \in DOMAIN hosts : s \in hosts'[g].services <=> g \in H BY <1>4, <3>2
    <3>5. \A g \in DOMAIN hosts : s \in ServicesOnHost(g)' <=> g \in H
      BY <3>3 DEF ServicesOnHost, Linked
    <3>. QED BY <1>1, <1>3, <2>1, <3>4, <3>5
  <2>2. CASE r # s
    <3>1. r \in DOMAIN deps \ moved /\ deps'[r] = deps[r] BY <1>1, <2>2
    <3>2. /\ {g \in DOMAIN hosts : r \in ServicesOnHost(g)} = deps[r]
          /\ {g \in DOMAIN hosts : r \in hosts[g].services} = deps[r]
      BY <3>1 DEF DependenciesAgree
    <3>3. \A g \in DOMAIN hosts : r \in hosts'[g].services <=> r \in hosts[g].services
      BY <1>4, <2>2
    <3>4. \A g \in DOMAIN hosts : r \in ServicesOnHost(g)' <=> r \in ServicesOnHost(g)
      BY <2>2 DEF ServicesOnHost, Linked
    <3>. QED BY <1>3, <3>1, <3>2, <3>3, <3>4
  <2>. QED BY <2>1, <2>2
<1>9. TiersAgree' BY DEF TiersAgree
<1>. QED BY <1>5, <1>6, <1>7, <1>8, <1>9

LEMMA FinalizeKeeps ==
  ASSUME IInv, Finalize
  PROVE  IInv'
<1>. USE DEF Finalize, IInv
<1>1. \A h \in DOMAIN hosts : ServicesOnHost(h) \subseteq DOMAIN sla
  BY DEF ServicesOnHost, Recorded, Shaped
<1>2. \A h \in DOMAIN hosts : ServicesOnHost(h) # {} =>
         /\ Derived(h) \in {"gold", "silver", "bronze"}
         /\ Derived(h) = "gold" <=> \E s \in ServicesOnHost(h) : sla[s] = "gold"
  <2>. SUFFICES ASSUME NEW h \in DOMAIN hosts, ServicesOnHost(h) # {}
       PROVE  /\ Derived(h) \in {"gold", "silver", "bronze"}
              /\ Derived(h) = "gold" <=> \E s \in ServicesOnHost(h) : sla[s] = "gold"
    OBVIOUS
  <2>. DEFINE tiers == {sla[s] : s \in ServicesOnHost(h)}
  <2>1. tiers \in SUBSET {"gold", "silver", "bronze"} /\ tiers # {}
    BY <1>1 DEF Shaped
  <2>2. Derived(h) = Strictest(tiers) BY DEF Derived
  <2>3. "gold" \in tiers <=> \E s \in ServicesOnHost(h) : sla[s] = "gold" OBVIOUS
  <2>. HIDE DEF tiers
  <2>. QED BY <2>1, <2>2, <2>3, StrictestGold
<1>3. \A h \in DOMAIN hosts : Derived(h) \in {"gold", "silver", "bronze"}
  BY <1>2 DEF Derived, Shaped
<1>4. /\ DOMAIN hosts' = DOMAIN hosts
      /\ hosts' = [h \in DOMAIN hosts' |-> hosts'[h]]
      /\ \A h \in DOMAIN hosts : hosts'[h] = [hosts[h] EXCEPT !.tier = Derived(h)]
  OBVIOUS
<1>5. \A h \in DOMAIN hosts : /\ hosts'[h].tier = Derived(h)
                              /\ hosts'[h].services = hosts[h].services
  BY <1>4 DEF Shaped
<1>6. Shaped' BY <1>3, <1>4 DEF Shaped
<1>7. Recorded' BY <1>4 DEF Recorded
<1>8. CentralityIsFresh' BY <1>4 DEF CentralityIsFresh, Graph
<1>9. DependenciesAgree' BY <1>4, <1>5 DEF DependenciesAgree, ServicesOnHost
<1>10. TiersAgree'
  <2>. SUFFICES ASSUME moved = {}, NEW h \in DOMAIN hosts, ServicesOnHost(h) # {}
       PROVE  Derived(h) = "gold" <=> h \in GoldTierHosts
    BY <1>4, <1>5 DEF TiersAgree, ServicesOnHost, GoldTierHosts
  <2>1. \A s \in DOMAIN sla : s \in ServicesOnHost(h) <=> h \in deps[s]
    BY DEF DependenciesAgree, Shaped
  <2>2. h \in GoldTierHosts <=> \E s \in DOMAIN sla : sla[s] = "gold" /\ h \in deps[s]
    BY DEF GoldTierHosts
  <2>3. h \in GoldTierHosts <=> \E s \in ServicesOnHost(h) : sla[s] = "gold"
    BY <1>1, <2>1, <2>2
  <2>. QED BY <1>2, <2>3
<1>. QED BY <1>6, <1>7, <1>8, <1>9, <1>10

LEMMA CentralityKeeps ==
  ASSUME IInv, Centrality
  PROVE  IInv'
BY DEF Centrality, IInv, Shaped, Recorded, CentralityIsFresh, Graph, DependenciesAgree,
       ServicesOnHost, TiersAgree, GoldTierHosts

-----------------------------------------------------------------------------
\* The inductive invariant, for every network that can be built.
THEOREM BuilderInvariant == Spec => []IInv
<1>1. IInv /\ [Next]_vars => IInv'
  <2>. SUFFICES ASSUME IInv, [Next]_vars PROVE IInv'
    OBVIOUS
  <2>1. CASE \E h \in HostIds, t \in Tiers : AddHost(h, t)
    BY <2>1, AddHostKeeps
  <2>2. CASE \E g, h \in HostIds, t \in Trusts : AddEdge(g, h, t)
    BY <2>2, AddEdgeKeeps
  <2>3. CASE \E s \in ServiceIds, H \in SUBSET HostIds, t \in Tiers : AddService(s, H, t)
    BY <2>3, AddServiceKeeps
  <2>4. CASE Finalize BY <2>4, FinalizeKeeps
  <2>5. CASE Centrality BY <2>5, CentralityKeeps
  <2>6. CASE UNCHANGED vars
    <3>. USE <2>6 DEF vars, IInv
    <3>1. Shaped' /\ Recorded' BY DEF Shaped, Recorded
    <3>2. CentralityIsFresh' BY DEF CentralityIsFresh, Graph
    <3>3. DependenciesAgree' BY DEF DependenciesAgree, ServicesOnHost
    <3>4. TiersAgree' BY DEF TiersAgree, ServicesOnHost, GoldTierHosts
    <3>. QED BY <3>1, <3>2, <3>3, <3>4
  <2>. QED BY <2>1, <2>2, <2>3, <2>4, <2>5, <2>6 DEF Next
<1>. QED BY InitHolds, <1>1, PTL DEF Spec

\* The centrality an agent reads is that of the graph as it is.
THEOREM CentralityFresh == Spec => []CentralityIsFresh
BY BuilderInvariant, PTL DEF IInv

\* What veto, solver and report read of the hosts of a service is the same.
THEOREM CopiesAgree == Spec => []DependenciesAgree
BY BuilderInvariant, PTL DEF IInv

\* In a finished network the derived tier of a host says what gold_tier_hosts() says.
THEOREM FinishedTiersAgree == Spec => []TiersAgree
BY BuilderInvariant, PTL DEF IInv
=============================================================================
