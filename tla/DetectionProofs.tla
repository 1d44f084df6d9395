--------------------------- MODULE DetectionProofs ---------------------------
(***************************************************************************)
(* Theorems about the detection layer for every set of hosts, sensors,     *)
(* strengths and risks and any number of alerts, checked by TLAPS: what    *)
(* the detectors can report (DInv) bounds what the evidence rule can make  *)
(* of it.                                                                  *)
(***************************************************************************)
EXTENDS Detection, FiniteSetTheorems, WellFoundedInduction, TLAPS

\* What the detectors can put on a ledger: no medium sensor reaches more than 60 %
\* and the model never more than 75 %.
Detected ==
  {e \in Item : /\ e.type \in MediumFidelity => e.conf <= 60
                /\ e.type = "ml_anomaly" => e.conf <= 75}

\* The fidelity of a sensor bounds every alert of it.
LEMMA AlertDetected ==
  ASSUME NEW t \in SensorTypes, NEW strength \in Strength
  PROVE  AlertItem(t, strength) \in Detected
<1>1. Fidelity[t] \in 0..97 /\ (t \in MediumFidelity => Fidelity[t] <= 60)
  BY DEF SensorTypes, HighFidelity, MediumFidelity, Fidelity
<1>2. strength \in 50..100 BY DEF Strength
<1>. DEFINE conf == (Fidelity[t] * strength) \div 100
<1>3. \A f \in 0..97 : \A s \in 50..100 : (f * s) \div 100 \in 0..f
  <2>. TAKE f \in 0..97
  <2>. TAKE s \in 50..100
  <2>1. f * s \in Nat /\ f * s <= f * 100
    <3>1. f * s \in Nat OBVIOUS
    <3>2. f * (100 - s) \in Nat OBVIOUS
    <3>3. f * (100 - s) = f * 100 - f * s OBVIOUS
    <3>. QED BY <3>1, <3>2, <3>3
  <2>2. \A x \in Nat : x <= f * 100 => x \div 100 \in 0..f OBVIOUS
  <2>. QED BY <2>1, <2>2
<1>4. conf \in 0..Fidelity[t] BY <1>1, <1>2, <1>3
<1>5. conf \in Percent /\ (t \in MediumFidelity => conf <= 60)
  BY <1>1, <1>4 DEF Percent
<1>6. t # "ml_anomaly" BY DEF SensorTypes, HighFidelity, MediumFidelity
<1>7. t \in EvidenceType BY DEF EvidenceType
<1>8. AlertItem(t, strength) = [type |-> t, conf |-> conf] BY DEF AlertItem
<1>. HIDE DEF conf
<1>. QED BY <1>5, <1>6, <1>7, <1>8 DEF Detected, Item

\* The model adds at most one item, and none above 75 %.
LEMMA MlDetected ==
  ASSUME NEW r \in Percent
  PROVE  MlItems(r) \subseteq Detected /\ SetToSeq(MlItems(r)) \in Seq(Detected)
<1>1. MlFidelity(r) \in 0..75
  BY DEF Percent, MlFidelity, ML_SUSPICIOUS_THRESHOLD
<1>2. CASE MlItems(r) = {}
  <2>1. Cardinality(MlItems(r)) = 0 BY <1>2, FS_EmptySet
  <2>2. SetToSeq(MlItems(r)) \in [1..0 -> {}]
    <3>. DEFINE f == [i \in 1..0 |-> 1]
    <3>1. f \in [1..0 -> {}] /\ IsInjective(f) BY DEF IsInjective
    <3>. HIDE DEF f
    <3>. QED BY <1>2, <2>1, <3>1 DEF SetToSeq
  <2>3. SetToSeq(MlItems(r)) \in Seq(Detected) BY <2>2
  <2>. QED BY <1>2, <2>3
<1>3. CASE MlItems(r) = {[type |-> "ml_anomaly", conf |-> MlFidelity(r)]}
  <2>. DEFINE e == [type |-> "ml_anomaly", conf |-> MlFidelity(r)]
  <2>1. e \in Detected
    BY <1>1 DEF Detected, Item, EvidenceType, Percent, MediumFidelity
  <2>. HIDE DEF e
  <2>2. MlItems(r) = {e} BY <1>3 DEF e
  <2>3. Cardinality(MlItems(r)) = 1 BY <2>2, FS_Singleton
  <2>4. SetToSeq(MlItems(r)) \in [1..1 -> {e}]
    <3>. DEFINE f == [i \in 1..1 |-> e]
    <3>1. f \in [1..1 -> {e}] /\ IsInjective(f) BY DEF IsInjective
    <3>. HIDE DEF f
    <3>. QED BY <2>2, <2>3, <3>1 DEF SetToSeq
  <2>5. \A s \in [1..1 -> {e}] : s \in Seq(Detected)
    <3>. TAKE s \in [1..1 -> {e}]
    <3>1. DOMAIN s = 1..1 /\ \A i \in 1..1 : s[i] \in Detected BY <2>1
    <3>2. s = [i \in 1..1 |-> s[i]] OBVIOUS
    <3>. QED BY <3>1, <3>2
  <2>6. SetToSeq(MlItems(r)) \in Seq(Detected) BY <2>4, <2>5
  <2>. QED BY <2>1, <2>2, <2>6
<1>. QED BY <1>2, <1>3 DEF MlItems

\* The ledgers hold what the detectors can report, at most once per arrival.
DInv ==
  /\ stage \in {"ALERTS", "ML", "DONE"}
  /\ ledger \in [Hosts -> Seq(Detected)]
  /\ risk \in [Hosts -> RiskType]
  /\ unscored \subseteq Hosts

\* Only alerts and the model extend a ledger.
LEMMA StepDInv == DInv /\ [Next]_vars => DInv'
<1>. SUFFICES ASSUME DInv, [Next]_vars PROVE DInv'
  OBVIOUS
<1>. USE DEF DInv
<1>1. ASSUME NEW h \in Hosts, NEW t \in AlertTypes, NEW s \in Strengths, AddAlert(h, t, s)
      PROVE  DInv'
  <2>1. AlertItem(t, s) \in Detected BY AlertDetected, DetectionAssumption
  <2>2. Append(ledger[h], AlertItem(t, s)) \in Seq(Detected) BY <2>1
  <2>. QED BY <1>1, <2>2 DEF AddAlert
<1>2. ASSUME NEW useMl \in BOOLEAN, EndAlerts(useMl) PROVE DInv'
  BY <1>2 DEF EndAlerts
<1>3. ASSUME NEW h \in Hosts, NEW r \in Risks, ScoreHost(h, r) PROVE DInv'
  <2>1. r \in Percent BY DetectionAssumption
  <2>2. SetToSeq(MlItems(r)) \in Seq(Detected) BY <2>1, MlDetected
  <2>3. ledger[h] \o SetToSeq(MlItems(r)) \in Seq(Detected) BY <2>2
  <2>4. ledger' = [ledger EXCEPT ![h] = @ \o SetToSeq(MlItems(r))] BY <1>3 DEF ScoreHost
  <2>5. ledger' \in [Hosts -> Seq(Detected)] BY <2>3, <2>4
  <2>6. risk' \in [Hosts -> RiskType] BY <1>3, <2>1 DEF ScoreHost, RiskType
  <2>. QED BY <1>3, <2>5, <2>6 DEF ScoreHost
<1>4. ASSUME NEW h \in Hosts, SkipHost(h) PROVE DInv'
  BY <1>4 DEF SkipHost
<1>5. CASE UNCHANGED vars
  BY <1>5 DEF vars
<1>. QED BY <1>1, <1>2, <1>3, <1>4, <1>5 DEF Next, Done

\* Nothing but what a detector reports is ever on a ledger.
THEOREM OnlyDetections == Spec => []DInv
<1>1. Init => DInv BY DEF Init, DInv, RiskType, NoRisk
<1>2. DInv /\ [Next]_vars => DInv' BY StepDInv
<1>. QED BY <1>1, <1>2, PTL DEF Spec

\* Type correctness.
THEOREM TypeCorrect == Spec => []TypeOK
<1>1. Detected \subseteq Item BY DEF Detected
<1>2. DInv => TypeOK BY <1>1 DEF DInv, TypeOK
<1>. QED BY <1>2, OnlyDetections, PTL

-----------------------------------------------------------------------------
(* The evidence rule. *)

\* A detector counts once: of one type there is one corroborating item.
LEMMA OnePerType ==
  ASSUME NEW items \in SUBSET Item,
         NEW e \in CorroboratingItems(items), NEW f \in CorroboratingItems(items), e.type = f.type
  PROVE  e = f
<1>1. e \in Item /\ f \in Item BY DEF CorroboratingItems
<1>2. e.conf <= f.conf /\ f.conf <= e.conf BY DEF CorroboratingItems
<1>3. e.conf \in Int /\ f.conf \in Int BY <1>1 DEF Item, Percent
<1>4. e.conf = f.conf BY <1>2, <1>3
<1>. QED BY <1>1, <1>4 DEF Item

\* Without a hard item a host is confirmed by two corroborating items of two types.
LEMMA TwoTypes ==
  ASSUME NEW items \in SUBSET Item, HasHardEvidence(items), HardItems(items) = {}
  PROVE  \E e, f \in CorroboratingItems(items) : e.type # f.type
<1>. DEFINE C == CorroboratingItems(items)
<1>1. Cardinality(C) >= 2 BY DEF HasHardEvidence, CORROBORATION_MIN_SIGNALS
<1>2. C # {} /\ \A e : C # {e}
  <2>. HIDE DEF C
  <2>1. C # {}
    <3>1. Cardinality({}) = 0 BY FS_EmptySet
    <3>. QED BY <1>1, <3>1
  <2>2. ASSUME NEW e, C = {e} PROVE FALSE
    <3>1. Cardinality({e}) = 1 BY FS_Singleton
    <3>. QED BY <1>1, <2>2, <3>1
  <2>. QED BY <2>1, <2>2
<1>3. PICK e \in C : TRUE BY <1>2
<1>4. PICK f \in C : f # e BY <1>2, <1>3
<1>. QED BY <1>4, OnePerType

\* There are eight types of evidence.
LEMMA TypesFinite == IsFiniteSet(EvidenceType)
<1>2. IsFiniteSet(HighFidelity)
  <2>1. IsFiniteSet({"ransomware_canary"}) BY FS_Singleton
  <2>2. IsFiniteSet({"ransomware_canary"} \cup {"edr_malicious_process"}) BY <2>1, FS_AddElement
  <2>3. IsFiniteSet({"ransomware_canary", "edr_malicious_process"} \cup {"credential_dump"})
    BY <2>2, FS_AddElement
  <2>4. IsFiniteSet({"ransomware_canary", "edr_malicious_process", "credential_dump"} \cup {"c2_beacon"})
    BY <2>3, FS_AddElement
  <2>. QED BY <2>4 DEF HighFidelity
<1>3. IsFiniteSet(HighFidelity \cup {"auth_anomaly"}) BY <1>2, FS_AddElement
<1>4. IsFiniteSet((HighFidelity \cup {"auth_anomaly"}) \cup {"lateral_connection"}) BY <1>3, FS_AddElement
<1>5. IsFiniteSet((HighFidelity \cup {"auth_anomaly", "lateral_connection"}) \cup {"data_exfil_volume"})
  BY <1>4, FS_AddElement
<1>6. IsFiniteSet(SensorTypes) BY <1>5 DEF SensorTypes, MediumFidelity
<1>7. IsFiniteSet(SensorTypes \cup {"ml_anomaly"}) BY <1>6, FS_AddElement
<1>. QED BY <1>7 DEF EvidenceType

\* Two things are two.
LEMMA PairCardinality == \A x, y : x # y => Cardinality({x, y}) = 2
<1>. TAKE x, y
<1>1. IsFiniteSet({x}) /\ Cardinality({x}) = 1 BY FS_Singleton
<1>2. x # y => Cardinality({x} \cup {y}) = 2
  BY <1>1, FS_AddElement
<1>3. {x} \cup {y} = {x, y} OBVIOUS
<1>. QED BY <1>2, <1>3

\* A ledger of detections is a set of items.
LEMMA LedgerItems ==
  ASSUME DInv
  PROVE  \A h \in Hosts : Items(h) \subseteq Detected /\ Items(h) \in SUBSET Item
<1>. TAKE h \in Hosts
<1>1. ledger[h] \in Seq(Detected) BY DEF DInv
<1>. QED BY <1>1 DEF Items, ToSet, Detected

\* The model has the last word on no host: a confirmed one has an alert.
THEOREM MlNeverAlone == Spec => []MlNeverConfirmsAlone
<1>1. DInv => MlNeverConfirmsAlone
  <2>. SUFFICES ASSUME DInv, NEW h \in Hosts, HasHardEvidence(Items(h)), Alerts(h) = {}
                PROVE  FALSE
    BY DEF MlNeverConfirmsAlone, Confirmed
  <2>1. Items(h) \subseteq Detected /\ Items(h) \in SUBSET Item BY LedgerItems
  <2>2. \A e \in Items(h) : e.type = "ml_anomaly" BY DEF Alerts
  <2>3. HardItems(Items(h)) = {}
    BY <2>1, <2>2 DEF HardItems, Detected, Item, Percent, HARD_EVIDENCE_FIDELITY
  <2>4. PICK e, f \in CorroboratingItems(Items(h)) : e.type # f.type
    BY <2>1, <2>3, TwoTypes
  <2>. QED BY <2>2, <2>4 DEF CorroboratingItems
<1>. QED BY <1>1, OnlyDetections, PTL

-----------------------------------------------------------------------------
(* Folds over finite sets. *)

\* g is the function a fold over S is computed with: pick[s] is what it takes from
\* the set s last, w[<<x, acc>>] what x makes of acc.
IsFold(g, base, pick, w, S) ==
  g = [s \in SUBSET S |-> IF s = {} THEN base ELSE w[<<pick[s], g[s \ {pick[s]}]>>]]

\* Of some finite sets one is smallest: no other of them is inside it.
LEMMA SmallestOf ==
  ASSUME NEW S, IsFiniteSet(S), NEW B \in SUBSET SUBSET S, B # {}
  PROVE  \E s \in B : \A t \in B : t \subseteq s => t = s
<1>1. B \subseteq FiniteSubsetsOf(S)
  <2>1. \A s \in B : s \subseteq S /\ IsFiniteSet(s) BY FS_Subset
  <2>. QED BY <2>1 DEF FiniteSubsetsOf
<1>2. PICK s \in B : \A t \in B : <<t, s>> \notin StrictSubsetOrdering(S)
  BY <1>1, WFMin, FS_StrictSubsetOrderingWellFounded
<1>3. \A t \in B : t \subseteq s /\ t # s => <<t, s>> \in StrictSubsetOrdering(S)
  BY DEF StrictSubsetOrdering
<1>4. \A t \in B : t \subseteq s => t = s BY <1>2, <1>3
<1>. QED BY <1>4

\* What the equation says of one set, the empty and a nonempty one.
LEMMA FoldStep ==
  \A S, base, pick, w, g :
     IsFold(g, base, pick, w, S) =>
       /\ g[{}] = base
       /\ \A u \in SUBSET S : u # {} => g[u] = w[<<pick[u], g[u \ {pick[u]}]>>]
<1>. TAKE S, base, pick, w, g
<1>1. {} \in SUBSET S OBVIOUS
<1>. QED BY <1>1 DEF IsFold

\* Two such functions agree where both are defined.
LEMMA FoldUnique ==
  ASSUME NEW base, NEW pick, NEW w, NEW S, NEW T, NEW g, NEW h,
         IsFold(g, base, pick, w, S), IsFold(h, base, pick, w, T), T \subseteq S,
         IsFiniteSet(T), \A s \in SUBSET T : s # {} => pick[s] \in s
  PROVE  \A U \in SUBSET T : g[U] = h[U]
<1>. DEFINE Bad == {u \in SUBSET T : g[u] # h[u]}
<1>1. /\ g[{}] = base /\ h[{}] = base
      /\ \A u \in SUBSET T :
           u # {} => /\ g[u] = w[<<pick[u], g[u \ {pick[u]}]>>]
                     /\ h[u] = w[<<pick[u], h[u \ {pick[u]}]>>]
  <2>. HIDE DEF Bad
  <2>1. /\ h[{}] = base
        /\ \A u \in SUBSET T : u # {} => h[u] = w[<<pick[u], h[u \ {pick[u]}]>>]
    BY FoldStep
  <2>2. g[{}] = base BY FoldStep
  <2>3. ASSUME NEW u \in SUBSET T, u # {}
        PROVE  g[u] = w[<<pick[u], g[u \ {pick[u]}]>>]
    <3>1. u \in SUBSET S OBVIOUS
    <3>. QED BY <2>3, <3>1, FoldStep
  <2>. QED BY <2>1, <2>2, <2>3
<1>2. CASE Bad # {}
  <2>1. PICK u \in Bad : \A t \in Bad : t \subseteq u => t = u
    <3>1. Bad \in SUBSET SUBSET T OBVIOUS
    <3>. HIDE DEF Bad
    <3>. QED BY <1>2, <3>1, SmallestOf
  <2>2. u # {} BY <1>1
  <2>3. pick[u] \in u BY <2>2
  <2>4. u \ {pick[u]} \notin Bad BY <2>1, <2>3
  <2>5. u \ {pick[u]} \in SUBSET T OBVIOUS
  <2>6. g[u \ {pick[u]}] = h[u \ {pick[u]}] BY <2>4, <2>5
  <2>. QED BY <1>1, <2>2, <2>6
<1>. QED BY <1>2

\* A fold over a finite set is defined.
LEMMA FoldExists ==
  ASSUME NEW S, IsFiniteSet(S), NEW base, NEW pick, NEW w,
         \A s \in SUBSET S : s # {} => pick[s] \in s
  PROVE  \E g : IsFold(g, base, pick, w, S)
<1>. DEFINE Bad == {s \in SUBSET S : ~ \E g : IsFold(g, base, pick, w, s)}
<1>1. CASE Bad = {}
  BY <1>1
<1>2. CASE Bad # {}
  <2>1. PICK s \in Bad : \A t \in Bad : t \subseteq s => t = s
    <3>1. Bad \in SUBSET SUBSET S OBVIOUS
    <3>. HIDE DEF Bad
    <3>. QED BY <1>2, <3>1, SmallestOf
  <2>. DEFINE Of(t) == CHOOSE g : IsFold(g, base, pick, w, t)
              below == [t \in SUBSET s |-> IF t = s THEN 0 ELSE Of(t)[t]]
              h == [t \in SUBSET s |->
                      IF t = {} THEN base ELSE w[<<pick[t], below[t \ {pick[t]}]>>]]
  <2>2. \A t \in SUBSET s : t # s => IsFold(Of(t), base, pick, w, t)
    <3>1. \A t \in SUBSET s : t # s => \E g : IsFold(g, base, pick, w, t) BY <2>1
    <3>. QED BY <3>1
  <2>. HIDE DEF Of
  <2>3. \A t \in SUBSET s : t # {} =>
          /\ pick[t] \in t
          /\ t \ {pick[t]} \in SUBSET s /\ t \ {pick[t]} # s
          /\ t \ {pick[t]} \subseteq t /\ IsFiniteSet(t \ {pick[t]})
    <3>1. \A t \in SUBSET s : t \in SUBSET S /\ IsFiniteSet(t) BY FS_Subset
    <3>2. \A t \in SUBSET s : t # {} => pick[t] \in t BY <3>1
    <3>3. \A t \in SUBSET s : IsFiniteSet(t \ {pick[t]}) BY <3>1, FS_Subset
    <3>. QED BY <3>2, <3>3
  <2>4. ASSUME NEW t \in SUBSET s, t # s PROVE h[t] = below[t]
    <3>1. IsFold(Of(t), base, pick, w, t) BY <2>2, <2>4
    <3>2. CASE t = {} BY <3>1, <3>2, <2>4, FoldStep
    <3>3. CASE t # {}
      <4>1. Of(t)[t] = w[<<pick[t], Of(t)[t \ {pick[t]}]>>]
        BY <3>1, <3>3, FoldStep
      <4>2. IsFold(Of(t \ {pick[t]}), base, pick, w, t \ {pick[t]}) BY <2>2, <2>3, <3>3
      <4>3. Of(t)[t \ {pick[t]}] = Of(t \ {pick[t]})[t \ {pick[t]}]
        <5>. DEFINE u == t \ {pick[t]}
        <5>1. IsFiniteSet(u) /\ u \in SUBSET t /\ u \in SUBSET u BY <2>3, <3>3
        <5>2. IsFold(Of(u), base, pick, w, u) BY <4>2
        <5>3. \A v \in SUBSET u : v # {} => pick[v] \in v
          <6>1. \A v \in SUBSET u : v \in SUBSET S OBVIOUS
          <6>. HIDE DEF u
          <6>. QED BY <6>1
        <5>. HIDE DEF u
        <5>4. Of(t)[u] = Of(u)[u] BY <3>1, <5>1, <5>2, <5>3, FoldUnique
        <5>. QED BY <5>4 DEF u
      <4>4. below[t] = Of(t)[t] BY <2>4
      <4>5. below[t \ {pick[t]}] = Of(t \ {pick[t]})[t \ {pick[t]}] BY <2>3, <3>3
      <4>6. h[t] = w[<<pick[t], below[t \ {pick[t]}]>>] BY <3>3
      <4>. HIDE DEF h, below
      <4>. QED BY <4>1, <4>3, <4>4, <4>5, <4>6
    <3>. QED BY <3>2, <3>3
  <2>5. \A t \in SUBSET s : t # {} => h[t \ {pick[t]}] = below[t \ {pick[t]}]
    <3>. HIDE DEF h, below
    <3>. QED BY <2>3, <2>4
  <2>6. h = [t \in SUBSET s |-> IF t = {} THEN base ELSE w[<<pick[t], h[t \ {pick[t]}]>>]]
    <3>1. \A t \in SUBSET s :
            h[t] = IF t = {} THEN base ELSE w[<<pick[t], h[t \ {pick[t]}]>>]
      <4>1. \A t \in SUBSET s :
              h[t] = IF t = {} THEN base ELSE w[<<pick[t], below[t \ {pick[t]}]>>]
        OBVIOUS
      <4>. HIDE DEF h, below
      <4>. QED BY <2>5, <4>1
    <3>2. h = [t \in SUBSET s |-> h[t]] OBVIOUS
    <3>. HIDE DEF h
    <3>. QED BY <3>1, <3>2
  <2>7. IsFold(h, base, pick, w, s) BY <2>6 DEF IsFold
  <2>. QED BY <2>1, <2>7
<1>. QED BY <1>1, <1>2

-----------------------------------------------------------------------------
(* What is left of doubt after some items. *)

LEMMA PercentsFinite == IsFiniteSet(Percent)
<1>. DEFINE lo == 0
            hi == 100
<1>1. lo \in Int /\ hi \in Int BY SMT
<1>2. Percent = lo..hi BY SMT DEF Percent
<1>. HIDE DEF lo, hi
<1>. QED BY <1>1, <1>2, FS_Interval

\* There are finitely many items.
LEMMA ItemsFinite == \A items \in SUBSET Item : IsFiniteSet(items)
<1>1. IsFiniteSet(Percent) BY PercentsFinite
<1>2. IsFiniteSet(EvidenceType \X Percent) BY <1>1, TypesFinite, FS_Product
<1>. DEFINE f == [p \in EvidenceType \X Percent |-> [type |-> p[1], conf |-> p[2]]]
<1>3. f \in Surjection(EvidenceType \X Percent, Item)
  <2>1. \A e \in Item : <<e.type, e.conf>> \in EvidenceType \X Percent /\ f[<<e.type, e.conf>>] = e
    BY DEF Item
  <2>2. f \in [EvidenceType \X Percent -> Item] BY DEF Item
  <2>. HIDE DEF f
  <2>. QED BY <2>1, <2>2 DEF Surjection
<1>4. IsFiniteSet(Item) BY <1>2, <1>3, FS_Surjection
<1>. QED BY <1>4, FS_Subset

\* Of some items one is the weakest.
LEMMA WeakestIs ==
  \A items \in SUBSET Item :
     items # {} => Weakest(items) \in items /\ \A f \in items : Weakest(items).conf <= f.conf
<1>. SUFFICES ASSUME NEW items \in SUBSET Item, items # {}
              PROVE  \E e \in items : \A f \in items : e.conf <= f.conf
  BY DEF Weakest
<1>. DEFINE upTo(n) == {k \in Percent : k <= n}
            Bad == {t \in SUBSET Percent : \E e \in items : t = upTo(e.conf)}
<1>1. \A e \in items : e.conf \in Percent BY DEF Item
<1>2. Bad \in SUBSET SUBSET Percent /\ Bad # {}
  <2>1. \A n : upTo(n) \in SUBSET Percent OBVIOUS
  <2>. HIDE DEF upTo
  <2>. QED BY <2>1
<1>3. PICK t \in Bad : \A u \in Bad : u \subseteq t => u = t
  <2>. HIDE DEF Bad
  <2>. QED BY <1>2, PercentsFinite, SmallestOf
<1>4. PICK e \in items : t = upTo(e.conf) BY <1>3
<1>5. ASSUME NEW f \in items, ~ (e.conf <= f.conf) PROVE FALSE
  <2>1. upTo(f.conf) \in Bad
    <3>1. upTo(f.conf) \in SUBSET Percent OBVIOUS
    <3>. HIDE DEF upTo
    <3>. QED BY <3>1
  <2>2. \A m, n \in Percent : ~ (n <= m) => upTo(m) \subseteq upTo(n) /\ n \in upTo(n) /\ n \notin upTo(m)
    BY SMT DEF Percent
  <2>. HIDE DEF upTo, Bad
  <2>3. upTo(f.conf) \subseteq t /\ upTo(f.conf) # t BY <1>1, <1>4, <1>5, <2>2
  <2>. QED BY <1>3, <2>1, <2>3
<1>. QED BY <1>5

\* What one item more leaves of the doubt acc.
After(acc, conf) == (acc * (100 - conf)) \div 100

LEMMA AfterType ==
  \A acc \in Nat, conf \in 0..100 : After(acc, conf) \in Nat /\ After(acc, conf) <= acc
<1>. TAKE acc \in Nat, conf \in 0..100
<1>1. 100 - conf \in Nat BY SMT
<1>. DEFINE r == 100 - conf
<1>2. acc * r \in Nat /\ acc * r <= acc * 100
  <2>1. acc * r \in Nat BY <1>1, SMT
  <2>2. acc * conf \in Nat BY SMT
  <2>3. acc * r = acc * 100 - acc * conf BY SMT
  <2>. QED BY <2>1, <2>2, <2>3, SMT
<1>. HIDE DEF r
<1>3. \A x \in Nat : x <= acc * 100 => x \div 100 \in Nat /\ x \div 100 <= acc BY SMT
<1>4. After(acc, conf) = (acc * r) \div 100 BY DEF After, r
<1>. QED BY <1>2, <1>3, <1>4

\* Less doubt before and a stronger item leave less doubt, rounded or not.
LEMMA AfterMonotone ==
  \A a, b \in Nat, c, d \in 0..100 : a <= b /\ d <= c => After(a, c) <= After(b, d)
<1>. TAKE a, b \in Nat, c, d \in 0..100
<1>. HAVE a <= b /\ d <= c
<1>. DEFINE r == 100 - c
            s == 100 - d
<1>1. r \in Nat /\ s \in Nat /\ r <= s BY SMT
<1>. HIDE DEF r, s
<1>2. a * r \in Nat /\ b * s \in Nat /\ a * r <= b * s
  <2>1. PICK i \in Nat : b = a + i
    <3>1. b - a \in Nat /\ b = a + (b - a) BY SMT
    <3>. QED BY <3>1
  <2>2. PICK j \in Nat : s = r + j
    <3>1. s - r \in Nat /\ s = r + (s - r) BY <1>1, SMT
    <3>. QED BY <3>1
  <2>3. b * s = a * r + a * j + i * r + i * j BY <1>1, <2>1, <2>2, SMT
  <2>4. a * r \in Nat /\ a * j \in Nat /\ i * r \in Nat /\ i * j \in Nat BY <1>1, <2>1, <2>2, SMT
  <2>5. \A w, x, y, z \in Nat : w <= w + x + y + z /\ w + x + y + z \in Nat BY SMT
  <2>6. a * r <= a * r + a * j + i * r + i * j /\ a * r + a * j + i * r + i * j \in Nat
    <3>. DEFINE p == a * r
                q == a * j
                u == i * r
                v == i * j
    <3>1. p \in Nat /\ q \in Nat /\ u \in Nat /\ v \in Nat BY <2>4
    <3>. HIDE DEF p, q, u, v
    <3>2. p <= p + q + u + v /\ p + q + u + v \in Nat BY <2>5, <3>1
    <3>. QED BY <3>2 DEF p, q, u, v
  <2>. QED BY <2>3, <2>4, <2>6
<1>3. \A x, y \in Nat : x <= y => x \div 100 <= y \div 100 BY SMT
<1>4. After(a, c) = (a * r) \div 100 /\ After(b, d) = (b * s) \div 100 BY DEF After, r, s
<1>. QED BY <1>2, <1>3, <1>4

\* Before any item, a million millionths of doubt.
AllDoubt == 1000000

\* Survival is computed from the strongest item to the weakest.
LEMMA SurvivalStep ==
  ASSUME NEW items \in SUBSET Item
  PROVE  /\ Survival(items) \in Nat
         /\ items = {} => Survival(items) = AllDoubt
         /\ items # {} =>
              Survival(items) = After(Survival(items \ {Weakest(items)}), Weakest(items).conf)
<1>. DEFINE one == AllDoubt
            pick == [s \in SUBSET items |-> Weakest(s)]
            w == [p \in Item \X Nat |-> After(p[2], p[1].conf)]
            Is(g, T) == g = [s \in SUBSET T |->
                          IF s = {} THEN one ELSE After(g[s \ {Weakest(s)}], Weakest(s).conf)]
            G(T) == CHOOSE g : Is(g, T)
<1>1. \A T : Survival(T) = G(T)[T]
  BY SMT DEF Survival, MapThenFoldSet, After, AllDoubt
<1>2. one \in Nat BY SMT DEF AllDoubt
<1>3. \A s \in SUBSET items : s # {} => /\ pick[s] = Weakest(s)
                                        /\ Weakest(s) \in s /\ Weakest(s) \in Item
                                        /\ Weakest(s).conf \in 0..100
  <2>1. \A s \in SUBSET items : s # {} => Weakest(s) \in s /\ s \in SUBSET Item BY WeakestIs
  <2>2. \A e \in Item : e.conf \in 0..100 BY DEF Item, Percent
  <2>. QED BY <2>1, <2>2
<1>4. \A e \in Item, acc \in Nat : w[<<e, acc>>] = After(acc, e.conf) /\ After(acc, e.conf) \in Nat
  <2>1. \A e \in Item : e.conf \in 0..100 BY DEF Item, Percent
  <2>. QED BY <2>1, AfterType
<1>. HIDE DEF one, pick, w
\* Whatever is a fold by w and pick is one by the definition, and the converse.
<1>5. ASSUME NEW T \in SUBSET items, NEW g, Is(g, T)
      PROVE  IsFold(g, one, pick, w, T) /\ \A s \in SUBSET T : g[s] \in Nat
  <2>0. /\ g[{}] = one
        /\ \A s \in SUBSET T : s # {} => g[s] = After(g[s \ {Weakest(s)}], Weakest(s).conf)
    <3>1. \A s \in SUBSET T :
            g[s] = IF s = {} THEN one ELSE After(g[s \ {Weakest(s)}], Weakest(s).conf)
      BY <1>5
    <3>2. {} \in SUBSET T OBVIOUS
    <3>. QED BY <3>1, <3>2
  <2>. DEFINE Bad == {s \in SUBSET T : g[s] \notin Nat}
  <2>1. CASE Bad # {}
    <3>1. PICK s \in Bad : \A t \in Bad : t \subseteq s => t = s
      <4>1. Bad \in SUBSET SUBSET T /\ IsFiniteSet(T) BY ItemsFinite
      <4>. HIDE DEF Bad
      <4>. QED BY <2>1, <4>1, SmallestOf
    <3>2. s # {} BY <1>2, <2>0
    <3>3. s \in SUBSET T /\ s \in SUBSET items OBVIOUS
    <3>4. Weakest(s) \in s /\ Weakest(s).conf \in 0..100 BY <1>3, <3>2, <3>3
    <3>5. g[s \ {Weakest(s)}] \in Nat BY <3>1, <3>4
    <3>6. g[s] = After(g[s \ {Weakest(s)}], Weakest(s).conf) BY <2>0, <3>2, <3>3
    <3>7. g[s] \in Nat BY <3>4, <3>5, <3>6, AfterType
    <3>. QED BY <3>7
  <2>2. CASE Bad = {}
    <3>1. \A s \in SUBSET T : g[s] \in Nat BY <2>2
    <3>. HIDE DEF Bad
    <3>2. \A s \in SUBSET T :
            s # {} => g[s] = w[<<pick[s], g[s \ {pick[s]}]>>]
      <4>. TAKE s \in SUBSET T
      <4>. HAVE s # {}
      <4>1. s \in SUBSET items OBVIOUS
      <4>2. pick[s] = Weakest(s) /\ Weakest(s) \in Item BY <1>3, <4>1
      <4>3. s \ {Weakest(s)} \in SUBSET T OBVIOUS
      <4>4. g[s \ {Weakest(s)}] \in Nat BY <3>1, <4>3
      <4>. QED BY <1>4, <2>0, <4>2, <4>4
    <3>3. g = [s \in SUBSET T |-> g[s]] BY <1>5
    <3>4. g = [s \in SUBSET T |-> IF s = {} THEN one ELSE w[<<pick[s], g[s \ {pick[s]}]>>]]
      <4>1. \A s \in SUBSET T :
              g[s] = IF s = {} THEN one ELSE w[<<pick[s], g[s \ {pick[s]}]>>]
        BY <2>0, <3>2
      <4>. QED BY <3>3, <4>1
    <3>. QED BY <3>1, <3>4 DEF IsFold
  <2>. QED BY <2>1, <2>2
<1>6. ASSUME NEW T \in SUBSET items
      PROVE  Is(G(T), T)
  <2>1. IsFiniteSet(T) /\ \A s \in SUBSET T : s # {} => pick[s] \in s
    <3>1. IsFiniteSet(T) BY ItemsFinite
    <3>2. \A s \in SUBSET T : s \in SUBSET items OBVIOUS
    <3>. QED BY <1>3, <3>1, <3>2
  <2>2. PICK g : IsFold(g, one, pick, w, T) BY <2>1, FoldExists
  <2>3. /\ g[{}] = one
        /\ \A s \in SUBSET T : s # {} => g[s] = w[<<pick[s], g[s \ {pick[s]}]>>]
    BY <2>2, FoldStep
  <2>. DEFINE Bad == {s \in SUBSET T : g[s] \notin Nat}
  <2>4. CASE Bad # {}
    <3>1. PICK s \in Bad : \A t \in Bad : t \subseteq s => t = s
      <4>1. Bad \in SUBSET SUBSET T OBVIOUS
      <4>. HIDE DEF Bad
      <4>. QED BY <2>1, <2>4, <4>1, SmallestOf
    <3>2. s # {} BY <1>2, <2>3
    <3>3. s \in SUBSET T /\ s \in SUBSET items OBVIOUS
    <3>4. pick[s] \in s /\ pick[s] \in Item BY <1>3, <3>2, <3>3
    <3>5. g[s \ {pick[s]}] \in Nat BY <3>1, <3>4
    <3>6. g[s] = w[<<pick[s], g[s \ {pick[s]}]>>] BY <2>3, <3>2, <3>3
    <3>7. g[s] \in Nat BY <1>4, <3>4, <3>5, <3>6
    <3>. QED BY <3>7
  <2>5. CASE Bad = {}
    <3>1. \A s \in SUBSET T : g[s] \in Nat BY <2>5
    <3>. HIDE DEF Bad
    <3>2. \A s \in SUBSET T : s # {} => g[s] = After(g[s \ {Weakest(s)}], Weakest(s).conf)
      <4>. TAKE s \in SUBSET T
      <4>. HAVE s # {}
      <4>1. s \in SUBSET items OBVIOUS
      <4>2. pick[s] = Weakest(s) /\ Weakest(s) \in Item BY <1>3, <4>1
      <4>3. s \ {Weakest(s)} \in SUBSET T OBVIOUS
      <4>4. g[s \ {Weakest(s)}] \in Nat BY <3>1, <4>3
      <4>. QED BY <1>4, <2>3, <4>2, <4>4
    <3>3. g = [s \in SUBSET T |-> g[s]] BY <2>2 DEF IsFold
    <3>4. Is(g, T)
      <4>1. \A s \in SUBSET T :
              g[s] = IF s = {} THEN one ELSE After(g[s \ {Weakest(s)}], Weakest(s).conf)
        BY <2>3, <3>2
      <4>. QED BY <3>3, <4>1
    <3>. QED BY <3>4
  <2>. QED BY <2>4, <2>5
<1>7. ASSUME NEW T \in SUBSET items
      PROVE  IsFold(G(T), one, pick, w, T) /\ \A s \in SUBSET T : G(T)[s] \in Nat
  <2>1. Is(G(T), T) BY <1>6
  <2>. HIDE DEF G, Is
  <2>. QED BY <1>5, <2>1
<1>8. Survival(items) \in Nat BY <1>1, <1>7
<1>9. items = {} => Survival(items) = one
  <2>. HIDE DEF G
  <2>1. items \in SUBSET items OBVIOUS
  <2>2. IsFold(G(items), one, pick, w, items) BY <1>7, <2>1
  <2>3. G(items)[{}] = one BY <2>2, FoldStep
  <2>. QED BY <1>1, <2>3
<1>10. ASSUME items # {}
       PROVE  Survival(items) = After(Survival(items \ {Weakest(items)}), Weakest(items).conf)
  <2>. DEFINE rest == items \ {Weakest(items)}
  <2>1. rest \in SUBSET items /\ items \in SUBSET items OBVIOUS
  <2>2. pick[items] = Weakest(items) /\ Weakest(items) \in Item BY <1>3, <1>10, <2>1
  <2>3. G(items)[items] = w[<<pick[items], G(items)[items \ {pick[items]}]>>]
    <3>. HIDE DEF G, rest
    <3>1. IsFold(G(items), one, pick, w, items) BY <1>7, <2>1
    <3>. QED BY <1>10, <2>1, <3>1, FoldStep
  <2>4. IsFiniteSet(rest) /\ \A s \in SUBSET rest : s # {} => pick[s] \in s
    <3>1. \A s \in SUBSET rest : s \in SUBSET items OBVIOUS
    <3>2. rest \in SUBSET Item OBVIOUS
    <3>. HIDE DEF rest
    <3>. QED BY <1>3, <3>1, <3>2, ItemsFinite
  <2>. HIDE DEF rest, G
  <2>5. rest \in SUBSET rest /\ G(rest)[rest] \in Nat BY <1>7, <2>1
  <2>6. G(items)[rest] = G(rest)[rest] BY <1>7, <2>1, <2>4, <2>5, FoldUnique
  <2>7. items \ {pick[items]} = rest BY <2>2 DEF rest
  <2>8. G(items)[items] = After(G(rest)[rest], Weakest(items).conf)
    BY <1>4, <2>2, <2>3, <2>5, <2>6, <2>7
  <2>. QED BY <1>1, <2>8 DEF rest
<1>. QED BY <1>8, <1>9, <1>10 DEF one

\* What two signals of confidence i and j leave of doubt, in millionths.
Left(i, j) == (((1000000 * (100 - i)) \div 100) * (100 - j)) \div 100

LEMMA LeftBound ==
  ASSUME NEW i \in 0..60, NEW j \in 0..60
  PROVE  Left(i, j) \in Int /\ Left(i, j) >= 160000
<1>1. (1000000 * (100 - i)) \div 100 = 10000 * (100 - i) BY SMT
<1>. DEFINE a == 100 - i
            b == 100 - j
<1>2. a \in 40..100 /\ b \in 40..100 BY SMT
<1>. HIDE DEF a, b
<1>3. a * b >= 1600 /\ a * b \in Nat
  <2>1. (a - 40) * (b - 40) \in Nat BY <1>2, SMT
  <2>2. (a - 40) * (b - 40) = a * b - 40 * a - 40 * b + 1600 BY <1>2, SMT
  <2>3. a * b \in Nat BY <1>2, SMT
  <2>. QED BY <1>2, <2>1, <2>2, <2>3, SMT
<1>4. (10000 * a) * b = 10000 * (a * b) BY <1>2, SMT
<1>5. (10000 * (a * b)) \div 100 = 100 * (a * b) BY <1>3, SMT
<1>6. ((10000 * a) * b) \div 100 >= 160000 /\ ((10000 * a) * b) \div 100 \in Int
  BY <1>3, <1>4, <1>5, SMT
<1>7. Left(i, j) = ((10000 * a) * b) \div 100 BY <1>1, SMTT(30) DEF a, b, Left
<1>. QED BY <1>6, <1>7, SMTT(30)

\* At 60 % each they leave 16 % of doubt, more than the 10 % the rule accepts.
LEMMA TwoWeakSignals ==
  ASSUME NEW e \in Item, NEW f \in Item, e # f, e.conf \in 0..60, f.conf \in 0..60
  PROVE  /\ Survival({e, f}) \in Int
         /\ 1000000 - Survival({e, f}) < CORROBORATION_CONFIDENCE * 10000
<1>1. PICK x, y \in {e, f} : Survival({e, f}) = Left(x.conf, y.conf)
  <2>. DEFINE S == {e, f}
              y == Weakest(S)
  <2>1. S \in SUBSET Item /\ S # {} OBVIOUS
  <2>. HIDE DEF S
  <2>2. y \in S BY <2>1, WeakestIs
  <2>3. PICK x \in S : S \ {y} = {x} BY <2>2 DEF S
  <2>4. Weakest({x}) = x
    <3>1. {x} \in SUBSET Item /\ {x} # {} BY <2>1
    <3>2. Weakest({x}) \in {x} BY <3>1, WeakestIs
    <3>. QED BY <3>2
  <2>5. Survival({}) = AllDoubt BY SurvivalStep
  <2>6. Survival({x}) = After(AllDoubt, x.conf)
    <3>1. {x} \in SUBSET Item /\ {x} # {} /\ {x} \ {x} = {} BY <2>1
    <3>2. Survival({x}) = After(Survival({x} \ {x}), x.conf) BY <2>4, <3>1, SurvivalStep
    <3>3. Survival({x} \ {x}) = AllDoubt BY <2>5, <3>1
    <3>. QED BY <3>2, <3>3
  <2>7. Survival(S) = After(Survival({x}), y.conf) BY <2>1, <2>3, SurvivalStep
  <2>8. Survival(S) = After(After(AllDoubt, x.conf), y.conf) BY <2>6, <2>7
  <2>9. Survival(S) = Left(x.conf, y.conf) BY <2>8, SMT DEF Left, After, AllDoubt
  <2>. QED BY <2>2, <2>9, SMT DEF S
<1>2. x.conf \in 0..60 /\ y.conf \in 0..60
  <2>1. (x = e \/ x = f) /\ (y = e \/ y = f) OBVIOUS
  <2>2. x.conf \in 0..60 BY <2>1
  <2>3. y.conf \in 0..60 BY <2>1
  <2>. QED BY <2>2, <2>3
<1>3. Survival({e, f}) \in Int /\ Survival({e, f}) >= 160000
  <2>. DEFINE m == x.conf
              n == y.conf
  <2>1. m \in 0..60 /\ n \in 0..60 BY <1>2
  <2>2. Survival({e, f}) = Left(m, n) BY <1>1
  <2>. HIDE DEF m, n
  <2>3. Left(m, n) \in Int /\ Left(m, n) >= 160000 BY <2>1, LeftBound
  <2>. QED BY <2>2, <2>3, SMT
<1>. QED BY <1>3, SMT DEF CORROBORATION_CONFIDENCE

\* Repeats of one alert and two medium sensors never confirm a host.
THEOREM IndependentSignals == Spec => []CorroborationIsIndependent
<1>1. DInv => CorroborationIsIndependent
  <2>. SUFFICES ASSUME DInv, NEW h \in Hosts, HasHardEvidence(Items(h)), HardItems(Items(h)) = {}
                PROVE  LET types == {e.type : e \in Items(h)}
                       IN  \/ Cardinality(types) >= 3
                           \/ /\ Cardinality(types) = 2
                              /\ types \cap (HighFidelity \cup {"ml_anomaly"}) # {}
    BY DEF CorroborationIsIndependent, Confirmed
  <2>. DEFINE types == {e.type : e \in Items(h)}
              C == CorroboratingItems(Items(h))
  <2>1. Items(h) \subseteq Detected /\ Items(h) \in SUBSET Item BY LedgerItems
  <2>2. PICK e, f \in C : e.type # f.type BY <2>1, TwoTypes
  <2>3. C \subseteq Items(h) BY DEF CorroboratingItems
  <2>4. types \subseteq EvidenceType BY <2>1 DEF Item
  <2>5. IsFiniteSet(types) BY <2>4, TypesFinite, FS_Subset
  <2>6. Cardinality(types) \in Nat BY <2>5, FS_CardinalityType
  <2>7. {e.type, f.type} \subseteq types BY <2>2, <2>3
  <2>8. Cardinality({e.type, f.type}) = 2 BY <2>2, PairCardinality
  <2>9. Cardinality(types) >= 2 BY <2>5, <2>7, <2>8, FS_Subset
  <2>10. CASE types = {e.type, f.type}
    <3>1. CASE types \cap (HighFidelity \cup {"ml_anomaly"}) # {}
      BY <2>8, <2>10, <3>1
    <3>2. CASE types \cap (HighFidelity \cup {"ml_anomaly"}) = {}
      <4>1. types \subseteq MediumFidelity
        BY <2>4, <3>2 DEF EvidenceType, SensorTypes
      <4>2. e \in Detected /\ f \in Detected BY <2>1, <2>3
      <4>3. e.conf \in 0..60 /\ f.conf \in 0..60
        BY <4>1, <4>2, <2>7 DEF Detected, Item, Percent
      <4>4. C = {e, f}
        <5>1. \A g \in C : g.type = e.type \/ g.type = f.type BY <2>3, <2>10
        <5>2. \A g \in C : g = e \/ g = f BY <2>1, <2>2, <5>1, OnePerType
        <5>. QED BY <2>2, <5>2
      <4>. e \in Item /\ f \in Item BY <2>1, <2>3
      <4>5. 1000000 - Survival(C) < CORROBORATION_CONFIDENCE * 10000
        BY <2>2, <4>3, <4>4, TwoWeakSignals, SMT
      <4>6. Survival(C) \in Int
        BY <2>2, <4>3, <4>4, TwoWeakSignals, SMT
      <4>7. 1000000 - Survival(C) >= CORROBORATION_CONFIDENCE * 10000
        BY SMT DEF HasHardEvidence, InfectionConfidence
      <4>. QED BY <4>5, <4>6, <4>7, SMT DEF CORROBORATION_CONFIDENCE
    <3>. QED BY <3>1, <3>2
  <2>11. CASE types # {e.type, f.type}
    <3>1. Cardinality(types) # 2 BY <2>5, <2>7, <2>8, <2>11, FS_Subset
    <3>. QED BY <2>6, <2>9, <3>1
  <2>. QED BY <2>10, <2>11
<1>. QED BY <1>1, OnlyDetections, PTL

-----------------------------------------------------------------------------
(* More evidence never clears a host. *)

\* Every item of S has one of T of its own that is at least as strong.
Dominates(T, S) ==
  \E m \in [S -> T] : /\ \A x, y \in S : m[x] = m[y] => x = y
                      /\ \A x \in S : x.conf <= m[x].conf

\* Stronger items, one for each and perhaps more, leave less doubt.
LEMMA DominatedDoubt ==
  \A S, T \in SUBSET Item : Dominates(T, S) => Survival(T) <= Survival(S)
<1>. DEFINE Bad == {T \in SUBSET Item :
                      \E S \in SUBSET Item : Dominates(T, S) /\ ~ (Survival(T) <= Survival(S))}
<1>. SUFFICES ASSUME Bad # {} PROVE FALSE
  OBVIOUS
<1>1. PICK T \in Bad : \A u \in Bad : u \subseteq T => u = T
  <2>1. Bad \in SUBSET SUBSET Item /\ IsFiniteSet(Item) BY ItemsFinite
  <2>. HIDE DEF Bad
  <2>. QED BY <2>1, SmallestOf
<1>2. PICK S \in SUBSET Item : Dominates(T, S) /\ ~ (Survival(T) <= Survival(S))
  OBVIOUS
<1>3. PICK m \in [S -> T] : /\ \A x, y \in S : m[x] = m[y] => x = y
                            /\ \A x \in S : x.conf <= m[x].conf
  BY <1>2 DEF Dominates
<1>4. T \in SUBSET Item /\ Survival(T) \in Nat /\ Survival(S) \in Nat
  BY SurvivalStep
<1>. DEFINE w == Weakest(T)
            less == T \ {w}
<1>5. T # {}
  <2>1. T = {} => S = {} BY <1>3
  <2>. QED BY <1>2, <1>4, <2>1
<1>6. w \in T /\ \A f \in T : w.conf <= f.conf BY <1>4, <1>5, WeakestIs
<1>7. less \in SUBSET Item /\ \A R \in SUBSET Item : Dominates(less, R) => Survival(less) <= Survival(R)
  BY <1>1, <1>4, <1>6
<1>8. Survival(T) = After(Survival(less), w.conf) BY <1>4, <1>5, SurvivalStep
<1>9. Survival(less) \in Nat BY <1>7, SurvivalStep
<1>10. \A x \in Item : x.conf \in 0..100 BY DEF Item, Percent
<1>11. w \in Item BY <1>4, <1>6
<1>12. \A x \in T : x.conf \in 0..100 BY <1>4, <1>10
<1>. HIDE DEF w, Bad
<1>13. CASE \A x \in S : m[x] # w
  <2>1. m \in [S -> less] BY <1>13
  <2>2. Dominates(less, S) BY <1>3, <2>1 DEF Dominates
  <2>. HIDE DEF less
  <2>3. Survival(less) <= Survival(S) BY <1>7, <2>2
  <2>4. Survival(T) <= Survival(less) BY <1>8, <1>9, <1>10, <1>11, AfterType
  <2>. QED BY <1>2, <1>4, <1>9, <2>3, <2>4
<1>14. CASE \E x \in S : m[x] = w
  <2>1. PICK e \in S : m[e] = w BY <1>14
  <2>. DEFINE v == Weakest(S)
              fewer == S \ {v}
              n == [x \in fewer |-> IF x = e THEN m[v] ELSE m[x]]
  <2>2. v \in S /\ v.conf <= e.conf BY <2>1, WeakestIs
  <2>3. Survival(S) = After(Survival(fewer), v.conf) BY <2>1, SurvivalStep
  <2>. HIDE DEF v
  <2>4. n \in [fewer -> less] BY <1>3, <2>1, <2>2
  <2>5. \A x, y \in fewer : n[x] = n[y] => x = y BY <1>3, <2>1, <2>2
  <2>6. \A x \in fewer : x.conf <= n[x].conf
    <3>. TAKE x \in fewer
    <3>1. CASE x = e
      <4>1. e.conf <= w.conf BY <1>3, <2>1
      <4>2. m[v] \in T /\ w.conf <= m[v].conf BY <1>6, <2>2
      <4>3. e \in Item /\ e.conf \in Int /\ w.conf \in Int /\ m[v].conf \in Int
        BY <1>10, <1>11, <1>12, <4>2
      <4>4. e.conf <= m[v].conf
        <5>1. \A i, j, k \in Int : i <= j /\ j <= k => i <= k BY SMT
        <5>. QED BY <4>1, <4>2, <4>3, <5>1
      <4>5. n[x] = m[v] BY <3>1
      <4>. QED BY <3>1, <4>4, <4>5
    <3>2. CASE x # e
      BY <1>3, <3>2
    <3>. QED BY <3>1, <3>2
  <2>. HIDE DEF n
  <2>7. Dominates(less, fewer) BY <2>4, <2>5, <2>6 DEF Dominates
  <2>8. fewer \in SUBSET Item /\ v \in Item BY <2>2
  <2>. HIDE DEF fewer, less
  <2>9. Survival(less) <= Survival(fewer) BY <1>7, <2>7, <2>8
  <2>10. Survival(fewer) \in Nat BY <2>8, SurvivalStep
  <2>11. v.conf <= w.conf
    <3>1. e.conf <= w.conf BY <1>3, <2>1
    <3>2. e.conf \in Int /\ v.conf \in Int /\ w.conf \in Int BY <1>10, <1>11, <2>8
    <3>3. \A i, j, k \in Int : i <= j /\ j <= k => i <= k BY SMT
    <3>. QED BY <2>2, <3>1, <3>2, <3>3
  <2>12. v.conf \in 0..100 /\ w.conf \in 0..100 BY <1>10, <1>11, <2>8
  <2>13. Survival(T) <= Survival(S)
    BY <1>8, <1>9, <2>3, <2>9, <2>10, <2>11, <2>12, AfterMonotone
  <2>. QED BY <1>2, <2>13
<1>. QED BY <1>13, <1>14

\* Of some items one is the strongest.
LEMMA StrongestIs ==
  ASSUME NEW items \in SUBSET Item, items # {}
  PROVE  \E e \in items : \A f \in items : f.conf <= e.conf
<1>. DEFINE flip(e) == [type |-> e.type, conf |-> 100 - e.conf]
            mirror == {x \in Item : \E e \in items : x = flip(e)}
<1>1. \A e \in items : flip(e) \in mirror
  <2>1. \A e \in items : e.type \in EvidenceType /\ e.conf \in 0..100 BY DEF Item, Percent
  <2>2. \A k \in 0..100 : 100 - k \in 0..100 BY SMT
  <2>3. \A e \in items : flip(e) \in Item BY <2>1, <2>2 DEF Item, Percent
  <2>. QED BY <2>3
<1>2. mirror \in SUBSET Item /\ mirror # {} BY <1>1
<1>. DEFINE x == Weakest(mirror)
<1>3. x \in mirror /\ \A y \in mirror : x.conf <= y.conf
  <2>. HIDE DEF mirror
  <2>. QED BY <1>2, WeakestIs
<1>. HIDE DEF x
<1>4. PICK e \in items : x = flip(e) BY <1>3
<1>5. \A f \in items : 100 - e.conf <= 100 - f.conf BY <1>1, <1>3, <1>4
<1>6. \A f \in items : f.conf \in 0..100 BY DEF Item, Percent
<1>7. \A i, j \in 0..100 : 100 - i <= 100 - j => j <= i BY SMT
<1>. QED BY <1>5, <1>6, <1>7

\* A corroborating item keeps its place, or a stronger one of its type takes it.
LEMMA CorroborationDominates ==
  ASSUME NEW B \in SUBSET Item, NEW A \in SUBSET B
  PROVE  Dominates(CorroboratingItems(B), CorroboratingItems(A))
<1>. DEFINE Heir(e) == CHOOSE f \in CorroboratingItems(B) : f.type = e.type /\ e.conf <= f.conf
            m == [e \in CorroboratingItems(A) |-> Heir(e)]
<1>1. \A e \in CorroboratingItems(A) :
         \E f \in CorroboratingItems(B) : f.type = e.type /\ e.conf <= f.conf
  <2>. TAKE e \in CorroboratingItems(A)
  <2>1. e \in B /\ e.conf >= WEAK_EVIDENCE_FIDELITY BY DEF CorroboratingItems
  <2>. DEFINE kind == {f \in B : f.type = e.type}
  <2>2. kind \in SUBSET Item /\ kind # {} /\ e \in kind BY <2>1
  <2>3. PICK f \in kind : \A g \in kind : g.conf <= f.conf BY <2>2, StrongestIs
  <2>4. f \in B /\ f.type = e.type /\ e.conf <= f.conf BY <2>2, <2>3
  <2>5. e.conf \in Int /\ f.conf \in Int BY <2>2, <2>4 DEF Item, Percent
  <2>6. f.conf >= WEAK_EVIDENCE_FIDELITY
    BY <2>1, <2>4, <2>5 DEF WEAK_EVIDENCE_FIDELITY
  <2>7. f \in CorroboratingItems(B) BY <2>3, <2>4, <2>6 DEF CorroboratingItems
  <2>. QED BY <2>4, <2>7
<1>2. \A e \in CorroboratingItems(A) :
        /\ Heir(e) \in CorroboratingItems(B)
        /\ Heir(e).type = e.type /\ e.conf <= Heir(e).conf
  BY <1>1
<1>. HIDE DEF Heir
<1>3. m \in [CorroboratingItems(A) -> CorroboratingItems(B)] BY <1>2
<1>4. \A x, y \in CorroboratingItems(A) : m[x] = m[y] => x = y
  <2>1. A \in SUBSET Item OBVIOUS
  <2>2. \A x, y \in CorroboratingItems(A) : m[x] = m[y] => x.type = y.type BY <1>2
  <2>. HIDE DEF m
  <2>. QED BY <2>1, <2>2, OnePerType
<1>5. \A x \in CorroboratingItems(A) : x.conf <= m[x].conf BY <1>2
<1>. HIDE DEF m
<1>. QED BY <1>3, <1>4, <1>5 DEF Dominates

\* A larger ledger is at least as sure, and confirms what a smaller one does.
LEMMA MoreEvidence ==
  ASSUME NEW B \in SUBSET Item, NEW A \in SUBSET B
  PROVE  /\ HasHardEvidence(A) => HasHardEvidence(B)
         /\ InfectionConfidence(A) <= InfectionConfidence(B)
<1>. DEFINE CA == CorroboratingItems(A)
            CB == CorroboratingItems(B)
<1>1. CA \in SUBSET Item /\ CB \in SUBSET Item BY DEF CorroboratingItems
<1>2. Dominates(CB, CA) BY CorroborationDominates
<1>3. InfectionConfidence(A) = AllDoubt - Survival(CA) /\ InfectionConfidence(B) = AllDoubt - Survival(CB)
  BY SMT DEF InfectionConfidence, AllDoubt
<1>4. HardItems(A) \subseteq HardItems(B) BY DEF HardItems
<1>5. HasHardEvidence(A) <=> \/ HardItems(A) # {}
                             \/ /\ Cardinality(CA) >= 2
                                /\ InfectionConfidence(A) >= CORROBORATION_CONFIDENCE * 10000
  BY SMT DEF HasHardEvidence, CORROBORATION_MIN_SIGNALS
<1>6. HasHardEvidence(B) <=> \/ HardItems(B) # {}
                             \/ /\ Cardinality(CB) >= 2
                                /\ InfectionConfidence(B) >= CORROBORATION_CONFIDENCE * 10000
  BY SMT DEF HasHardEvidence, CORROBORATION_MIN_SIGNALS
<1>. HIDE DEF CA, CB
<1>7. Survival(CB) <= Survival(CA) /\ Survival(CA) \in Nat /\ Survival(CB) \in Nat
  BY <1>1, <1>2, DominatedDoubt, SurvivalStep
<1>8. Cardinality(CA) <= Cardinality(CB) /\ Cardinality(CA) \in Nat /\ Cardinality(CB) \in Nat
  <2>1. IsFiniteSet(CA) /\ IsFiniteSet(CB) BY <1>1, ItemsFinite
  <2>2. PICK m \in [CA -> CB] : \A x, y \in CA : m[x] = m[y] => x = y BY <1>2 DEF Dominates
  <2>3. m \in Injection(CA, CB) BY <2>2 DEF Injection, IsInjective
  <2>. QED BY <2>1, <2>3, FS_Injection, FS_CardinalityType
<1>9. InfectionConfidence(A) <= InfectionConfidence(B)
      /\ InfectionConfidence(A) \in Int /\ InfectionConfidence(B) \in Int
  BY <1>3, <1>7, SMT DEF AllDoubt
<1>10. HasHardEvidence(A) => HasHardEvidence(B)
  BY <1>4, <1>5, <1>6, <1>8, <1>9, SMT DEF CORROBORATION_CONFIDENCE
<1>. QED BY <1>9, <1>10

\* Detection only adds to a ledger.
LEMMA LedgersGrow ==
  ASSUME DInv, [Next]_vars, NEW h \in Hosts
  PROVE  Items(h) \subseteq Items(h)'
<1>1. \A g \in Hosts : ledger[g] \in Seq(Detected) BY DEF DInv
<1>2. \A s \in Seq(Detected) : \A e : ToSet(s) \subseteq ToSet(Append(s, e))
  BY DEF ToSet
<1>3. \A s, u \in Seq(Detected) : ToSet(s) \subseteq ToSet(s \o u)
  <2>. TAKE s, u \in Seq(Detected)
  <2>1. \A i \in 1..Len(s) : i \in 1..Len(s \o u) /\ (s \o u)[i] = s[i] OBVIOUS
  <2>. QED BY <2>1 DEF ToSet
<1>4. ledger'[h] = ledger[h] \/ \E e : ledger'[h] = Append(ledger[h], e)
      \/ \E u \in Seq(Detected) : ledger'[h] = ledger[h] \o u
  <2>1. ASSUME NEW g \in Hosts, NEW t \in AlertTypes, NEW s \in Strengths, AddAlert(g, t, s)
        PROVE  ledger'[h] = ledger[h] \/ \E e : ledger'[h] = Append(ledger[h], e)
    BY <2>1 DEF AddAlert, DInv
  <2>2. ASSUME NEW useMl \in BOOLEAN, EndAlerts(useMl) PROVE ledger'[h] = ledger[h]
    BY <2>2 DEF EndAlerts
  <2>3. ASSUME NEW g \in Hosts, NEW r \in Risks, ScoreHost(g, r)
        PROVE  ledger'[h] = ledger[h] \/ \E u \in Seq(Detected) : ledger'[h] = ledger[h] \o u
    <3>1. SetToSeq(MlItems(r)) \in Seq(Detected) BY DetectionAssumption, MlDetected
    <3>2. ledger' = [ledger EXCEPT ![g] = ledger[g] \o SetToSeq(MlItems(r))]
      BY <2>3 DEF ScoreHost
    <3>. QED BY <3>1, <3>2 DEF DInv
  <2>4. ASSUME NEW g \in Hosts, SkipHost(g) PROVE ledger'[h] = ledger[h]
    BY <2>4 DEF SkipHost
  <2>5. CASE UNCHANGED vars BY <2>5 DEF vars
  <2>. QED BY <2>1, <2>2, <2>3, <2>4, <2>5 DEF Next, Done
<1>. QED BY <1>1, <1>2, <1>3, <1>4 DEF Items

\* More evidence never clears a host: whatever arrives, in any order, a
\* confirmed host stays confirmed and no confidence falls, rounding included.
THEOREM EvidenceOnlyGrows == Spec => EvidenceIsMonotone
<1>1. DInv /\ DInv' /\ [Next]_vars =>
        [\A h \in Hosts :
           /\ HasHardEvidence(Items(h)) => HasHardEvidence(Items(h)')
           /\ InfectionConfidence(Items(h)) <= InfectionConfidence(Items(h)')]_vars
  <2>. SUFFICES ASSUME DInv, DInv', [Next]_vars, NEW h \in Hosts
                PROVE  /\ HasHardEvidence(Items(h)) => HasHardEvidence(Items(h)')
                       /\ InfectionConfidence(Items(h)) <= InfectionConfidence(Items(h)')
    OBVIOUS
  <2>1. Items(h) \subseteq Items(h)' BY LedgersGrow
  <2>2. Items(h)' \in SUBSET Item
    <3>1. ledger'[h] \in Seq(Detected) BY DEF DInv
    <3>. QED BY <3>1 DEF Items, ToSet, Detected
  <2>. DEFINE A == Items(h)
              B == Items(h)'
  <2>3. B \in SUBSET Item /\ A \in SUBSET B BY <2>1, <2>2
  <2>. HIDE DEF A, B
  <2>4. /\ HasHardEvidence(A) => HasHardEvidence(B)
        /\ InfectionConfidence(A) <= InfectionConfidence(B)
    BY <2>3, MoreEvidence
  <2>. QED BY <2>4 DEF A, B
<1>2. DInv /\ [Next]_vars => DInv' BY StepDInv
<1>. QED BY <1>1, <1>2, OnlyDetections, PTL DEF Spec, EvidenceIsMonotone
-----------------------------------------------------------------------------
(* What detection hands over. *)

\* The assessment of a host, as the negotiation reads it.
Handover == [h \in Hosts |-> [evidence |-> Items(h), risk |-> risk[h]]]

ModelSpoke(h) == \E e \in Items(h) : e.type = "ml_anomaly"

\* The model speaks on the ledger of a host exactly when it gave it a score above
\* the threshold, which it does at most once and after the last alert.
ScoresMatch ==
  /\ stage = "ALERTS" => unscored = Hosts
  /\ \A h \in unscored : risk[h] = NoRisk
  /\ \A h \in Hosts : ModelSpoke(h) <=> risk[h] >= ML_SUSPICIOUS_THRESHOLD

\* A score below the threshold adds nothing, one above it adds one item.
LEMMA MlSequence ==
  ASSUME NEW r \in Percent
  PROVE  /\ r < ML_SUSPICIOUS_THRESHOLD => SetToSeq(MlItems(r)) = <<>>
         /\ r >= ML_SUSPICIOUS_THRESHOLD =>
              \E e \in Detected : e.type = "ml_anomaly" /\ SetToSeq(MlItems(r)) = <<e>>
<1>1. ASSUME r < ML_SUSPICIOUS_THRESHOLD PROVE SetToSeq(MlItems(r)) = <<>>
  <2>1. MlItems(r) = {} BY <1>1 DEF MlItems, MlFidelity
  <2>2. Cardinality(MlItems(r)) = 0 BY <2>1, FS_EmptySet
  <2>3. SetToSeq(MlItems(r)) \in [1..0 -> {}]
    <3>. DEFINE f == [i \in 1..0 |-> 1]
    <3>1. f \in [1..0 -> {}] /\ IsInjective(f) BY DEF IsInjective
    <3>. HIDE DEF f
    <3>. QED BY <2>1, <2>2, <3>1 DEF SetToSeq
  <2>. QED BY <2>3
<1>2. ASSUME r >= ML_SUSPICIOUS_THRESHOLD
      PROVE  \E e \in Detected : e.type = "ml_anomaly" /\ SetToSeq(MlItems(r)) = <<e>>
  <2>. DEFINE e == [type |-> "ml_anomaly", conf |-> MlFidelity(r)]
  <2>1. MlFidelity(r) # 0 BY <1>2 DEF Percent, MlFidelity, ML_SUSPICIOUS_THRESHOLD
  <2>2. e.type = "ml_anomaly" OBVIOUS
  <2>3. MlItems(r) = {e} BY <2>1 DEF MlItems
  <2>. HIDE DEF e
  <2>4. e \in Detected BY <2>3, MlDetected
  <2>5. Cardinality(MlItems(r)) = 1 BY <2>3, FS_Singleton
  <2>6. SetToSeq(MlItems(r)) \in [1..1 -> {e}]
    <3>. DEFINE f == [i \in 1..1 |-> e]
    <3>1. f \in [1..1 -> {e}] /\ IsInjective(f) BY DEF IsInjective
    <3>. HIDE DEF f
    <3>. QED BY <2>3, <2>5, <3>1 DEF SetToSeq
  <2>7. SetToSeq(MlItems(r)) = <<e>> BY <2>6
  <2>. QED BY <2>2, <2>4, <2>7
<1>. QED BY <1>1, <1>2

\* One item more on a ledger.
LEMMA OneMore ==
  ASSUME NEW s \in Seq(Detected), NEW e \in Detected
  PROVE  ToSet(Append(s, e)) = ToSet(s) \cup {e} /\ s \o <<e>> = Append(s, e)
<1>1. /\ DOMAIN s = 1..Len(s) /\ DOMAIN Append(s, e) = 1..(Len(s) + 1)
      /\ \A i \in 1..Len(s) : Append(s, e)[i] = s[i]
      /\ Append(s, e)[Len(s) + 1] = e
      /\ Len(s) \in Nat
  OBVIOUS
<1>2. 1..(Len(s) + 1) = 1..Len(s) \cup {Len(s) + 1} BY <1>1
<1>3. ToSet(Append(s, e)) = ToSet(s) \cup {e} BY <1>1, <1>2 DEF ToSet
<1>4. s \o <<e>> = Append(s, e) OBVIOUS
<1>. QED BY <1>3, <1>4

\* An alert is no word of the model, and a score is given where none was.
LEMMA StepScoresMatch == DInv /\ ScoresMatch /\ [Next]_vars => ScoresMatch'
<1>. SUFFICES ASSUME DInv, ScoresMatch, [Next]_vars PROVE ScoresMatch'
  OBVIOUS
<1>0. /\ ledger \in [Hosts -> Seq(Detected)] /\ risk \in [Hosts -> RiskType]
      /\ unscored \subseteq Hosts
      /\ \A h \in Hosts : ledger[h] \in Seq(Detected)
  BY DEF DInv
<1>1. ASSUME NEW h \in Hosts, NEW t \in AlertTypes, NEW s \in Strengths, AddAlert(h, t, s)
      PROVE  ScoresMatch'
  <2>. DEFINE e == AlertItem(t, s)
  <2>1. e \in Detected BY AlertDetected, DetectionAssumption
  <2>2. e.type # "ml_anomaly"
    BY DetectionAssumption DEF AlertItem, SensorTypes, HighFidelity, MediumFidelity
  <2>3. ledger' = [ledger EXCEPT ![h] = Append(ledger[h], e)] BY <1>1 DEF AddAlert
  <2>. HIDE DEF e
  <2>4. Items(h)' = Items(h) \cup {e} BY <1>0, <2>1, <2>3, OneMore DEF Items
  <2>5. \A g \in Hosts \ {h} : Items(g)' = Items(g) BY <1>0, <2>3 DEF Items
  <2>6. \A g \in Hosts : ModelSpoke(g)' <=> ModelSpoke(g) BY <2>2, <2>4, <2>5 DEF ModelSpoke
  <2>. QED BY <1>1, <2>6 DEF AddAlert, ScoresMatch
<1>2. ASSUME UNCHANGED <<ledger, risk>>, unscored' \subseteq unscored,
             stage' = "ALERTS" => stage = "ALERTS" /\ unscored' = unscored
      PROVE  ScoresMatch'
  <2>1. \A g \in Hosts : ModelSpoke(g)' <=> ModelSpoke(g) BY <1>2 DEF ModelSpoke, Items
  <2>. QED BY <1>2, <2>1 DEF ScoresMatch
<1>3. ASSUME NEW useMl \in BOOLEAN, EndAlerts(useMl) PROVE ScoresMatch'
  BY <1>2, <1>3 DEF EndAlerts
<1>4. ASSUME NEW h \in Hosts, NEW r \in Risks, ScoreHost(h, r) PROVE ScoresMatch'
  <2>1. r \in Percent BY DetectionAssumption
  <2>2. ~ModelSpoke(h)
    BY <1>4 DEF ScoreHost, ScoresMatch, NoRisk, ML_SUSPICIOUS_THRESHOLD
  <2>3. /\ ledger' = [ledger EXCEPT ![h] = ledger[h] \o SetToSeq(MlItems(r))]
        /\ risk' = [risk EXCEPT ![h] = r] /\ unscored' = unscored \ {h}
        /\ stage' \in {"ML", "DONE"}
    BY <1>4 DEF ScoreHost
  <2>4. \A g \in Hosts \ {h} : (ModelSpoke(g)' <=> ModelSpoke(g)) /\ risk'[g] = risk[g]
    BY <1>0, <2>3 DEF ModelSpoke, Items
  <2>5. risk'[h] = r BY <1>0, <2>3
  <2>6. ModelSpoke(h)' <=> r >= ML_SUSPICIOUS_THRESHOLD
    <3>1. CASE r < ML_SUSPICIOUS_THRESHOLD
      <4>1. ledger'[h] = ledger[h] BY <1>0, <2>1, <2>3, <3>1, MlSequence
      <4>2. ~ModelSpoke(h)' BY <2>2, <4>1 DEF ModelSpoke, Items
      <4>. QED BY <2>1, <3>1, <4>2 DEF Percent, ML_SUSPICIOUS_THRESHOLD
    <3>2. CASE r >= ML_SUSPICIOUS_THRESHOLD
      <4>1. PICK e \in Detected : e.type = "ml_anomaly" /\ SetToSeq(MlItems(r)) = <<e>>
        BY <2>1, <3>2, MlSequence
      <4>2. ledger'[h] = Append(ledger[h], e) BY <1>0, <2>3, <4>1, OneMore
      <4>3. e \in Items(h)' BY <1>0, <4>2, OneMore DEF Items
      <4>. QED BY <3>2, <4>1, <4>3 DEF ModelSpoke
    <3>. QED BY <2>1, <3>1, <3>2 DEF Percent, ML_SUSPICIOUS_THRESHOLD
  <2>. QED BY <1>0, <2>3, <2>4, <2>5, <2>6 DEF ScoresMatch
<1>5. ASSUME NEW h \in Hosts, SkipHost(h) PROVE ScoresMatch'
  BY <1>2, <1>5 DEF SkipHost
<1>6. CASE UNCHANGED vars
  BY <1>2, <1>6 DEF vars
<1>. QED BY <1>1, <1>3, <1>4, <1>5, <1>6 DEF Next, Done

\* The model's item and its score tell the same story: it is on a ledger exactly when
\* the host scored above the threshold (build_assessment adds it in the same turn).
THEOREM ScoresAgree == Spec => []ScoresMatch
<1>1. Init => ScoresMatch
  <2>. SUFFICES ASSUME Init PROVE ScoresMatch OBVIOUS
  <2>1. \A h \in Hosts : Items(h) = {} BY DEF Init, Items, ToSet
  <2>. QED BY <2>1 DEF Init, ScoresMatch, ModelSpoke, NoRisk, ML_SUSPICIOUS_THRESHOLD
<1>2. DInv /\ ScoresMatch /\ [Next]_vars => ScoresMatch' BY StepScoresMatch
<1>. QED BY <1>1, <1>2, OnlyDetections, PTL DEF Spec

\* What the negotiation assumes of the assessments it is given (NegotiationAssumption)
\* is what detection delivers.
THEOREM DetectionHandsOver ==
  Spec => [](/\ Handover \in [Hosts -> Assessment]
             /\ \A h \in Hosts : \A e \in Handover[h].evidence :
                  e.type = "ml_anomaly" => Handover[h].risk >= ML_SUSPICIOUS_THRESHOLD)
<1>1. DInv /\ ScoresMatch =>
        /\ Handover \in [Hosts -> Assessment]
        /\ \A h \in Hosts : \A e \in Handover[h].evidence :
             e.type = "ml_anomaly" => Handover[h].risk >= ML_SUSPICIOUS_THRESHOLD
  <2>. SUFFICES ASSUME DInv, ScoresMatch
                PROVE  /\ Handover \in [Hosts -> Assessment]
                       /\ \A h \in Hosts : \A e \in Handover[h].evidence :
                            e.type = "ml_anomaly" => Handover[h].risk >= ML_SUSPICIOUS_THRESHOLD
    OBVIOUS
  <2>1. \A h \in Hosts : Items(h) \in SUBSET Item /\ risk[h] \in RiskType
    BY LedgerItems DEF DInv
  <2>2. Handover \in [Hosts -> Assessment] BY <2>1 DEF Handover, Assessment
  <2>3. \A h \in Hosts : Handover[h].evidence = Items(h) /\ Handover[h].risk = risk[h]
    BY DEF Handover
  <2>. QED BY <2>2, <2>3 DEF ScoresMatch, ModelSpoke
<1>. QED BY <1>1, OnlyDetections, ScoresAgree, PTL
=============================================================================
