------------------------- MODULE CoordinatorProofs -------------------------
(***************************************************************************)
(* What the alert path keeps for every set of alerts and monitors, every   *)
(* arrival order and any number of crashes, second sendings and failed     *)
(* deliveries: no classified message is counted twice, an alert is lost    *)
(* only to a crash or a failed delivery, every incident hangs together,    *)
(* and each step of the path is one the contract of an alert allows.  The  *)
(* messages under way make these inductive: who may have written a         *)
(* message, who may be given it, and that it is in one place with a number *)
(* of its own.                                                             *)
(***************************************************************************)
EXTENDS Coordinator, FiniteSetTheorems, SequenceTheorems, WellFoundedInduction, TLAPS

\* The process whose producer writes a message.
Writer(m) ==
  IF m.kind \in {"raw", "strategy"} THEN Source[m.alert]
  ELSE IF m.kind = "classified" THEN "classifier" ELSE "coordinator"

\* A message is with a process that reads its kind, or in its writer's buffer.
Routed ==
  \A p \in Processes :
     /\ \A m \in queue[p] \cup taken[p] : m.alert \in raised /\ <<p, m.kind>> \in Subscribed
     /\ \A m \in buffer[p] : m.alert \in raised /\ Writer(m) = p

\* Its number was given, and it is not both on its way and at its reader's.
Known ==
  \A p \in Processes : \A m \in queue[p] \cup taken[p] \cup buffer[p] :
     m.copy <= sent[m.kind][m.alert]
Single == \A p, q \in Processes : buffer[p] \cap (queue[q] \cup taken[q]) = {}

\* An incident is opened with an alert and never loses it.
Opened == \A i \in DOMAIN incidents : incidents[i] # <<>>

Shaped == TypeOK /\ Routed /\ Known /\ Single /\ Opened

-----------------------------------------------------------------------------
\* Who reads what.
LEMMA SubscribedIs ==
  \A p, k : <<p, k>> \in Subscribed <=>
     \/ p = "classifier" /\ k = "raw"
     \/ p = "coordinator" /\ (k = "classified" \/ k = "strategy")
BY DEF Subscribed

LEMMA ProcessesAre ==
  "classifier" \in Processes /\ "coordinator" \in Processes
BY DEF Processes, Consumers

\* Of some natural numbers one is the least: of the intervals up to them, one
\* contains no other.
LEMMA LeastOf ==
  ASSUME NEW S \in SUBSET Nat, S # {}
  PROVE  \E i \in S : \A j \in S : i <= j
<1>. DEFINE upTo == {1..i : i \in S}
<1>1. upTo \subseteq FiniteSubsetsOf(Nat) /\ upTo # {}
  <2>1. \A i \in S : 1..i \subseteq Nat /\ IsFiniteSet(1..i) BY FS_Interval
  <2>. QED BY <2>1 DEF FiniteSubsetsOf
<1>2. PICK t \in upTo : \A u \in upTo : <<u, t>> \notin StrictSubsetOrdering(Nat)
  BY <1>1, WFMin, FS_StrictSubsetOrderingWellFounded
<1>3. PICK i \in S : t = 1..i OBVIOUS
<1>4. ASSUME NEW j \in S, j < i PROVE FALSE
  <2>1. 1..j \subseteq 1..i /\ i \in 1..i /\ i \notin 1..j BY <1>4
  <2>2. 1..i \subseteq Nat OBVIOUS
  <2>3. <<1..j, 1..i>> \in StrictSubsetOrdering(Nat) BY <2>1, <2>2 DEF StrictSubsetOrdering
  <2>. QED BY <1>2, <1>3, <2>3
<1>. QED BY <1>4

\* What correlate does to the incidents: the first that the alert matches gets it at
\* its end, or a new one is opened for it.
LEMMA CorrelatedIs ==
  ASSUME Shaped, NEW a \in Alerts
  PROVE  \/ /\ Correlated(a) = Append(incidents, <<a>>)
            /\ \A j \in DOMAIN incidents : ~Matches(a, incidents[j])
         \/ \E i \in DOMAIN incidents :
               /\ Matches(a, incidents[i])
               /\ Correlated(a) = [incidents EXCEPT ![i] = Append(@, a)]
               /\ \A j \in DOMAIN incidents : j < i => ~Matches(a, incidents[j])
<1>. DEFINE hits == {i \in DOMAIN incidents : Matches(a, incidents[i])}
<1>1. incidents \in Seq(Seq(Alerts)) BY DEF Shaped, TypeOK
<1>2. CASE hits = {}
  <2>1. IncidentOf(a) = Len(incidents) + 1 BY <1>2 DEF IncidentOf
  <2>2. \A j \in DOMAIN incidents : ~Matches(a, incidents[j]) BY <1>2
  <2>. QED BY <1>1, <2>1, <2>2 DEF Correlated
<1>3. CASE hits # {}
  <2>1. \E i \in hits : \A j \in hits : i <= j
    <3>1. hits \subseteq Nat BY <1>1
    <3>. QED BY <1>3, <3>1, LeastOf
  <2>2. IncidentOf(a) \in hits /\ \A j \in hits : IncidentOf(a) <= j
    BY <1>3, <2>1 DEF IncidentOf
  <2>3. Correlated(a) = [incidents EXCEPT ![IncidentOf(a)] = Append(@, a)]
    BY <1>1, <2>2 DEF Correlated
  <2>4. \A j \in DOMAIN incidents : j < IncidentOf(a) => ~Matches(a, incidents[j])
    <3>1. \A j \in hits : ~(j < IncidentOf(a)) BY <1>1, <2>2
    <3>. QED BY <3>1
  <2>. QED BY <2>2, <2>3, <2>4
<1>. QED BY <1>2, <1>3

\* The incidents stay sequences of alerts, none of them empty.
LEMMA CorrelatedType ==
  ASSUME Shaped, NEW a \in Alerts
  PROVE  /\ Correlated(a) \in Seq(Seq(Alerts))
         /\ \A i \in DOMAIN Correlated(a) : Correlated(a)[i] # <<>>
<1>1. /\ incidents \in Seq(Seq(Alerts))
      /\ \A i \in DOMAIN incidents : incidents[i] # <<>>
  BY DEF Shaped, TypeOK, Opened
<1>2. CASE Correlated(a) = Append(incidents, <<a>>)
  <2>1. <<a>> \in Seq(Alerts) /\ <<a>> # <<>> OBVIOUS
  <2>. QED BY <1>1, <1>2, <2>1
<1>3. ASSUME NEW i \in DOMAIN incidents,
             Correlated(a) = [incidents EXCEPT ![i] = Append(@, a)]
      PROVE  /\ Correlated(a) \in Seq(Seq(Alerts))
             /\ \A j \in DOMAIN Correlated(a) : Correlated(a)[j] # <<>>
  <2>1. Append(incidents[i], a) \in Seq(Alerts) /\ Append(incidents[i], a) # <<>>
    BY <1>1
  <2>. QED BY <1>1, <1>3, <2>1
<1>. QED BY <1>2, <1>3, CorrelatedIs

-----------------------------------------------------------------------------
\* A message is given to one process, and is then no longer queued for it.
LEMMA TakeShape ==
  ASSUME Shaped, NEW p \in Processes, NEW m, Take(p, m)
  PROVE  /\ queue' \in [Processes -> SUBSET Message]
         /\ taken' \in [Processes -> SUBSET Message]
         /\ m \in Message /\ m.alert \in raised /\ m.alert \in Alerts
         /\ \A q \in Processes : /\ queue'[q] \cap taken'[q] = {}
                                 /\ queue'[q] \cup taken'[q] = queue[q] \cup taken[q]
<1>1. m \in queue[p] /\ m \in Message BY DEF Shaped, TypeOK, Take
<1>2. m.alert \in raised /\ m.alert \in Alerts BY <1>1 DEF Shaped, Routed, Message
<1>. QED BY <1>1, <1>2 DEF Shaped, TypeOK, Take, Remaining

\* A new message has a number that none before it has.
LEMMA FreshIs ==
  ASSUME Shaped, NEW k \in Kinds, NEW a \in Alerts
  PROVE  /\ Fresh(k, a) \in Message /\ Fresh(k, a) = Msg(k, a, sent[k][a] + 1)
         /\ Fresh(k, a).kind = k /\ Fresh(k, a).alert = a
         /\ Fresh(k, a).copy = sent[k][a] + 1
         /\ \A p \in Processes : Fresh(k, a) \notin queue[p] \cup taken[p] \cup buffer[p]
<1>1. sent[k][a] \in Nat BY DEF Shaped, TypeOK
<1>2. /\ Fresh(k, a) \in Message /\ Fresh(k, a) = Msg(k, a, sent[k][a] + 1)
      /\ Fresh(k, a).kind = k /\ Fresh(k, a).alert = a
      /\ Fresh(k, a).copy = sent[k][a] + 1
  BY <1>1 DEF Fresh, Msg, Message
<1>3. \A p \in Processes : \A m \in queue[p] \cup taken[p] \cup buffer[p] :
        m.copy <= sent[m.kind][m.alert]
  BY DEF Shaped, Known
<1>4. ASSUME NEW p \in Processes, Fresh(k, a) \in queue[p] \cup taken[p] \cup buffer[p]
      PROVE  FALSE
  <2>1. Fresh(k, a).copy <= sent[Fresh(k, a).kind][Fresh(k, a).alert] BY <1>3, <1>4
  <2>. QED BY <1>1, <1>2, <2>1
<1>. QED BY <1>2, <1>4

\* The numbers only grow, by one for each new message.
LEMMA NumberedIs ==
  ASSUME Shaped, NEW messages
  PROVE  /\ Numbered(messages) \in [Kinds -> [Alerts -> Nat]]
         /\ \A k \in Kinds, a \in Alerts :
              /\ sent[k][a] \in Nat /\ sent[k][a] <= Numbered(messages)[k][a]
              /\ Fresh(k, a) \in messages => Numbered(messages)[k][a] = sent[k][a] + 1
              /\ Fresh(k, a) \notin messages => Numbered(messages)[k][a] = sent[k][a]
<1>1. sent \in [Kinds -> [Alerts -> Nat]] BY DEF Shaped, TypeOK
<1>2. \A k \in Kinds, a \in Alerts : sent[k][a] \in Nat BY <1>1
<1>3. Numbered(messages) \in [Kinds -> [Alerts -> Nat]] BY <1>2 DEF Numbered
<1>4. \A k \in Kinds, a \in Alerts :
        Numbered(messages)[k][a] = IF Fresh(k, a) \in messages THEN sent[k][a] + 1 ELSE sent[k][a]
  BY DEF Numbered
<1>. QED BY <1>2, <1>3, <1>4

\* New messages of its own go into the buffer of a process.
LEMMA ProduceShape ==
  ASSUME Shaped, NEW p \in Processes, NEW messages \in SUBSET Message, Produce(p, messages)
  PROVE  /\ buffer' \in [Processes -> SUBSET Message]
         /\ buffer'[p] = buffer[p] \cup messages
         /\ \A q \in Processes \ {p} : buffer'[q] = buffer[q]
         /\ sent' \in [Kinds -> [Alerts -> Nat]]
         /\ \A k \in Kinds, a \in Alerts :
              /\ sent[k][a] <= sent'[k][a]
              /\ Fresh(k, a) \in messages => sent'[k][a] = sent[k][a] + 1
              /\ Fresh(k, a) \notin messages => sent'[k][a] = sent[k][a]
<1>1. buffer \in [Processes -> SUBSET Message] BY DEF Shaped, TypeOK
<1>2. buffer' = [buffer EXCEPT ![p] = @ \cup messages] /\ sent' = Numbered(messages)
  BY DEF Produce
<1>3. /\ buffer' \in [Processes -> SUBSET Message]
      /\ buffer'[p] = buffer[p] \cup messages
      /\ \A q \in Processes \ {p} : buffer'[q] = buffer[q]
  BY <1>1, <1>2
<1>. QED BY <1>2, <1>3, NumberedIs

\* What keeps the messages in shape: a process is given only what left the buffer of
\* its writer, and a buffer gets only new messages of its process.
LEMMA StaysShaped ==
  ASSUME Shaped, TypeOK', Opened', raised \subseteq raised',
         \A k \in Kinds, a \in Alerts : sent[k][a] <= sent'[k][a],
         \A p \in Processes : \A m \in queue'[p] \cup taken'[p] :
            \/ m \in queue[p] \cup taken[p]
            \/ \E q \in Processes : m \in buffer[q] \ buffer'[q] /\ <<p, m.kind>> \in Subscribed,
         \A p \in Processes : \A m \in buffer'[p] :
            \/ m \in buffer[p]
            \/ /\ m = Fresh(m.kind, m.alert) /\ m.copy <= sent'[m.kind][m.alert]
               /\ m.alert \in raised' /\ Writer(m) = p
  PROVE  Shaped'
<1>1. /\ queue \in [Processes -> SUBSET Message] /\ taken \in [Processes -> SUBSET Message]
      /\ buffer \in [Processes -> SUBSET Message]
      /\ queue' \in [Processes -> SUBSET Message] /\ taken' \in [Processes -> SUBSET Message]
      /\ buffer' \in [Processes -> SUBSET Message]
      /\ sent \in [Kinds -> [Alerts -> Nat]] /\ sent' \in [Kinds -> [Alerts -> Nat]]
  BY DEF Shaped, TypeOK
<1>2. \A m \in Message : /\ m.kind \in Kinds /\ m.alert \in Alerts /\ m.copy \in Nat
                         /\ sent[m.kind][m.alert] \in Nat /\ sent'[m.kind][m.alert] \in Nat
                         /\ sent[m.kind][m.alert] <= sent'[m.kind][m.alert]
  BY <1>1 DEF Message
<1>3. Routed' BY DEF Shaped, Routed, Writer
<1>4. \A p \in Processes : \A m \in queue[p] \cup taken[p] \cup buffer[p] :
        m \in Message /\ m.copy <= sent[m.kind][m.alert] /\ m.copy <= sent'[m.kind][m.alert]
  <2>. SUFFICES ASSUME NEW p \in Processes, NEW m \in queue[p] \cup taken[p] \cup buffer[p]
       PROVE  m \in Message /\ m.copy <= sent[m.kind][m.alert] /\ m.copy <= sent'[m.kind][m.alert]
    OBVIOUS
  <2>1. m \in Message BY <1>1
  <2>2. m.copy <= sent[m.kind][m.alert] BY DEF Shaped, Known
  <2>. QED BY <1>2, <2>1, <2>2
<1>5. Known' BY <1>4 DEF Known
<1>6. Single'
  <2>. SUFFICES ASSUME NEW p \in Processes, NEW q \in Processes, NEW m \in buffer'[p],
                       m \in queue'[q] \cup taken'[q]
       PROVE  FALSE
    BY DEF Single
  <2>1. PICK r \in Processes : \/ m \in queue[r] \cup taken[r]
                              \/ m \in buffer[r] \ buffer'[r]
    OBVIOUS
  <2>2. m # Fresh(m.kind, m.alert) BY <1>2, <1>4, <2>1, FreshIs
  <2>3. m \in buffer[p] BY <2>2
  <2>4. m \notin queue[r] \cup taken[r] BY <2>3 DEF Shaped, Single
  <2>5. Writer(m) = p /\ (m \in buffer[r] => Writer(m) = r) BY <2>3 DEF Shaped, Routed
  <2>. QED BY <2>1, <2>4, <2>5
<1>. QED BY <1>3, <1>5, <1>6 DEF Shaped

LEMMA InitShaped == Init => Shaped
<1>. SUFFICES ASSUME Init PROVE Shaped
  OBVIOUS
<1>1. /\ Empty \in [Processes -> SUBSET Message]
      /\ \A p \in Processes : Empty[p] = {}
  BY DEF Empty
<1>2. incidents \in Seq(Seq(Alerts)) /\ DOMAIN incidents = {} BY DEF Init
<1>3. TypeOK BY <1>1, <1>2, CoordinatorAssumption DEF Init, TypeOK
<1>. QED BY <1>1, <1>2, <1>3 DEF Shaped, Init, Routed, Known, Single, Opened

LEMMA RaiseShaped ==
  ASSUME Shaped, NEW a \in Alerts, Raise(a)
  PROVE  Shaped'
<1>. DEFINE raw  == Fresh("raw", a)
            plan == {Fresh("strategy", b) : b \in {a} \cap Proposes}
            p    == Source[a]
<1>1. /\ raised' = raised \cup {a} /\ a \notin raised
      /\ Produce(p, {raw} \cup plan)
      /\ UNCHANGED <<queue, taken, memory, reported, faults>>
  BY DEF Raise
<1>2. p \in Processes /\ "raw" \in Kinds /\ "strategy" \in Kinds
  BY CoordinatorAssumption DEF Processes, Kinds
<1>3. /\ raw \in Message /\ raw.kind = "raw" /\ raw.alert = a /\ raw.copy = sent["raw"][a] + 1
      /\ \A m \in plan : /\ m \in Message /\ m = Fresh("strategy", a)
                         /\ m.kind = "strategy" /\ m.alert = a
                         /\ m.copy = sent["strategy"][a] + 1
  BY <1>2, FreshIs
<1>. HIDE DEF raw, plan, p
<1>4. /\ buffer' \in [Processes -> SUBSET Message]
      /\ buffer'[p] = buffer[p] \cup ({raw} \cup plan)
      /\ \A q \in Processes \ {p} : buffer'[q] = buffer[q]
      /\ sent' \in [Kinds -> [Alerts -> Nat]]
      /\ \A k \in Kinds, b \in Alerts :
           /\ sent[k][b] <= sent'[k][b]
           /\ Fresh(k, b) \in {raw} \cup plan => sent'[k][b] = sent[k][b] + 1
  <2>1. {raw} \cup plan \in SUBSET Message BY <1>3
  <2>. QED BY <1>1, <1>2, <2>1, ProduceShape
<1>5. TypeOK' BY <1>1, <1>4 DEF Shaped, TypeOK, memory, faults
<1>6. Opened' BY <1>1 DEF Shaped, Opened, memory
<1>7. \A m \in {raw} \cup plan :
        /\ m = Fresh(m.kind, m.alert) /\ m.copy <= sent'[m.kind][m.alert]
        /\ m.alert \in raised' /\ Writer(m) = p
  <2>. SUFFICES ASSUME NEW m \in {raw} \cup plan
       PROVE  /\ m = Fresh(m.kind, m.alert) /\ m.copy <= sent'[m.kind][m.alert]
              /\ m.alert \in raised' /\ Writer(m) = p
    OBVIOUS
  <2>1. /\ m.alert = a /\ (m.kind = "raw" \/ m.kind = "strategy")
        /\ m = Fresh(m.kind, m.alert) /\ m.copy = sent[m.kind][m.alert] + 1
    BY <1>3 DEF raw
  <2>2. sent'[m.kind][m.alert] = sent[m.kind][m.alert] + 1 /\ sent[m.kind][m.alert] \in Nat
    BY <1>2, <1>4, <2>1 DEF Shaped, TypeOK
  <2>3. Writer(m) = p BY <2>1 DEF Writer, p
  <2>. QED BY <1>1, <2>1, <2>2, <2>3
<1>. QED BY <1>1, <1>4, <1>5, <1>6, <1>7, StaysShaped

LEMMA ClassifyShaped ==
  ASSUME Shaped, NEW m \in queue["classifier"], Classify(m)
  PROVE  Shaped'
<1>. DEFINE out == Fresh("classified", m.alert)
<1>1. /\ Take("classifier", m) /\ Produce("classifier", {out})
      /\ UNCHANGED <<raised, memory, reported, faults>>
  BY DEF Classify
<1>2. /\ queue' \in [Processes -> SUBSET Message]
      /\ taken' \in [Processes -> SUBSET Message]
      /\ m.alert \in raised /\ m.alert \in Alerts
      /\ \A q \in Processes : /\ queue'[q] \cap taken'[q] = {}
                              /\ queue'[q] \cup taken'[q] = queue[q] \cup taken[q]
  BY <1>1, TakeShape, ProcessesAre
<1>3. /\ out \in Message /\ out.kind = "classified" /\ out.alert = m.alert
      /\ out = Fresh(out.kind, out.alert) /\ out.copy = sent["classified"][m.alert] + 1
      /\ "classified" \in Kinds
  BY <1>2, FreshIs DEF Kinds
<1>. HIDE DEF out
<1>4. /\ buffer' \in [Processes -> SUBSET Message]
      /\ buffer'["classifier"] = buffer["classifier"] \cup {out}
      /\ \A q \in Processes \ {"classifier"} : buffer'[q] = buffer[q]
      /\ sent' \in [Kinds -> [Alerts -> Nat]]
      /\ \A k \in Kinds, b \in Alerts : sent[k][b] <= sent'[k][b]
      /\ sent'["classified"][m.alert] = sent["classified"][m.alert] + 1
  <2>1. {out} \in SUBSET Message /\ Fresh("classified", m.alert) \in {out} BY <1>3 DEF out
  <2>. QED BY <1>1, <1>2, <1>3, <2>1, ProduceShape, ProcessesAre
<1>5. TypeOK' BY <1>1, <1>2, <1>4 DEF Shaped, TypeOK, memory, faults
<1>6. Opened' BY <1>1 DEF Shaped, Opened, memory
<1>7. /\ out.copy <= sent'[out.kind][out.alert] /\ out.alert \in raised'
      /\ Writer(out) = "classifier"
  <2>1. Writer(out) = "classifier" BY <1>3 DEF Writer
  <2>2. sent["classified"][m.alert] \in Nat BY <1>2, <1>3 DEF Shaped, TypeOK
  <2>. QED BY <1>1, <1>2, <1>3, <1>4, <2>1, <2>2
<1>. QED BY <1>1, <1>2, <1>3, <1>4, <1>5, <1>6, <1>7, StaysShaped

LEMMA HandleAlertShaped ==
  ASSUME Shaped, NEW m \in queue["coordinator"], HandleAlert(m)
  PROVE  Shaped'
<1>. DEFINE out == Fresh("incident", m.alert)
<1>1. /\ Take("coordinator", m) /\ Produce("coordinator", {out})
      /\ incidents' = Correlated(m.alert)
      /\ decided' = decided \cup
           {i \in {IncidentOf(m.alert)} : Cardinality(ProposalsOf(IncidentId(i))) >= 2}
      /\ UNCHANGED <<raised, filed, reported, faults>>
  BY DEF HandleAlert, Report
<1>2. /\ queue' \in [Processes -> SUBSET Message]
      /\ taken' \in [Processes -> SUBSET Message]
      /\ m.alert \in raised /\ m.alert \in Alerts
      /\ \A q \in Processes : /\ queue'[q] \cap taken'[q] = {}
                              /\ queue'[q] \cup taken'[q] = queue[q] \cup taken[q]
  BY <1>1, TakeShape, ProcessesAre
<1>3. /\ out \in Message /\ out.kind = "incident" /\ out.alert = m.alert
      /\ out = Fresh(out.kind, out.alert) /\ out.copy = sent["incident"][m.alert] + 1
      /\ "incident" \in Kinds
  BY <1>2, FreshIs DEF Kinds
<1>. HIDE DEF out
<1>4. /\ buffer' \in [Processes -> SUBSET Message]
      /\ buffer'["coordinator"] = buffer["coordinator"] \cup {out}
      /\ \A q \in Processes \ {"coordinator"} : buffer'[q] = buffer[q]
      /\ sent' \in [Kinds -> [Alerts -> Nat]]
      /\ \A k \in Kinds, b \in Alerts : sent[k][b] <= sent'[k][b]
      /\ sent'["incident"][m.alert] = sent["incident"][m.alert] + 1
  <2>1. {out} \in SUBSET Message /\ Fresh("incident", m.alert) \in {out} BY <1>3 DEF out
  <2>. QED BY <1>1, <1>2, <1>3, <2>1, ProduceShape, ProcessesAre
<1>5. /\ incidents' \in Seq(Seq(Alerts))
      /\ \A i \in DOMAIN incidents' : incidents'[i] # <<>>
  BY <1>1, <1>2, CorrelatedType
<1>6. decided' \subseteq Nat
  <2>1. IncidentOf(m.alert) \in Nat
    <3>1. /\ incidents \in Seq(Seq(Alerts)) /\ DOMAIN incidents \subseteq Nat
      BY DEF Shaped, TypeOK
    <3>. DEFINE hits == {i \in DOMAIN incidents : Matches(m.alert, incidents[i])}
    <3>2. CASE hits = {} BY <3>1, <3>2 DEF IncidentOf
    <3>3. CASE hits # {}
      <4>1. \E i \in hits : \A j \in hits : i <= j BY <3>1, <3>3, LeastOf
      <4>2. IncidentOf(m.alert) = CHOOSE i \in hits : \A j \in hits : i <= j
        BY <3>3 DEF IncidentOf
      <4>. QED BY <3>1, <4>1, <4>2
    <3>. QED BY <3>2, <3>3
  <2>. QED BY <1>1, <2>1 DEF Shaped, TypeOK
<1>7. TypeOK' BY <1>1, <1>2, <1>4, <1>5, <1>6 DEF Shaped, TypeOK, faults
<1>8. Opened' BY <1>5 DEF Opened
<1>9. /\ out.copy <= sent'[out.kind][out.alert] /\ out.alert \in raised'
      /\ Writer(out) = "coordinator"
  <2>1. Writer(out) = "coordinator" BY <1>3 DEF Writer
  <2>2. sent["incident"][m.alert] \in Nat BY <1>2, <1>3 DEF Shaped, TypeOK
  <2>. QED BY <1>1, <1>2, <1>3, <1>4, <2>1, <2>2
<1>. QED BY <1>1, <1>2, <1>3, <1>4, <1>7, <1>8, <1>9, StaysShaped

\* Steps that give no number keep the numbers.
LEMMA SentStays ==
  ASSUME Shaped, sent' = sent
  PROVE  \A k \in Kinds, a \in Alerts : sent[k][a] <= sent'[k][a]
BY DEF Shaped, TypeOK

LEMMA HandleStrategyShaped ==
  ASSUME Shaped, NEW m \in queue["coordinator"], HandleStrategy(m)
  PROVE  Shaped'
<1>1. /\ Take("coordinator", m)
      /\ filed' = filed \cup {[incident_id |-> m.alert, strategy |-> m.alert, copy |-> m.copy]}
      /\ UNCHANGED <<raised, buffer, sent, incidents, decided, reported, faults>>
  BY DEF HandleStrategy
<1>2. /\ queue' \in [Processes -> SUBSET Message]
      /\ taken' \in [Processes -> SUBSET Message]
      /\ m \in Message /\ m.alert \in Alerts
      /\ \A q \in Processes : /\ queue'[q] \cap taken'[q] = {}
                              /\ queue'[q] \cup taken'[q] = queue[q] \cup taken[q]
  BY <1>1, TakeShape, ProcessesAre
<1>3. m.copy \in Nat \ {0} BY <1>2 DEF Message
<1>4. TypeOK' BY <1>1, <1>2, <1>3 DEF Shaped, TypeOK, faults
<1>5. Opened' BY <1>1 DEF Shaped, Opened
<1>. QED BY <1>1, <1>2, <1>4, <1>5, SentStays, StaysShaped

-----------------------------------------------------------------------------
\* A message that lands is queued for the process that reads its kind.
LEMMA LandShape ==
  ASSUME Shaped, NEW p \in Processes, NEW m \in buffer[p], Land(m)
  PROVE  /\ queue' \in [Processes -> SUBSET Message]
         /\ m \in Message /\ m.alert \in raised /\ m.alert \in Alerts /\ Writer(m) = p
         /\ m.kind \in Kinds /\ m.copy \in Nat
         /\ reported' \subseteq raised
         /\ \A q \in Processes :
              /\ queue[q] \subseteq queue'[q]
              /\ \A x \in queue'[q] : x \in queue[q] \/ (x = m /\ <<q, m.kind>> \in Subscribed)
              /\ <<q, m.kind>> \in Subscribed => m \in queue'[q]
              /\ m \notin queue[q] \cup taken[q]
         /\ reported \subseteq reported'
         /\ m.kind = "incident" => reported' = reported \cup {m.alert}
         /\ m.kind # "incident" => reported' = reported
<1>1. m \in Message BY DEF Shaped, TypeOK
<1>2. /\ m.alert \in raised /\ Writer(m) = p
      /\ \A q \in Processes : m \notin queue[q] \cup taken[q]
  BY DEF Shaped, Routed, Single
<1>3. m.alert \in Alerts /\ m.kind \in Kinds /\ m.copy \in Nat BY <1>1 DEF Message
<1>4. /\ queue \in [Processes -> SUBSET Message] /\ reported \subseteq raised
      /\ queue' = [q \in Processes |-> queue[q] \cup {n \in {m} : <<q, n.kind>> \in Subscribed}]
      /\ reported' = reported \cup {a \in {m.alert} : m.kind = "incident"}
  BY DEF Shaped, TypeOK, Land
<1>5. \A q \in Processes : queue'[q] = queue[q] \cup {n \in {m} : <<q, n.kind>> \in Subscribed}
  BY <1>4
<1>6. queue' \in [Processes -> SUBSET Message] BY <1>1, <1>4
<1>. QED BY <1>1, <1>2, <1>3, <1>4, <1>5, <1>6

LEMMA DeliverShaped ==
  ASSUME Shaped, NEW p \in Processes, NEW m \in buffer[p], Deliver(p, m)
  PROVE  Shaped'
<1>1. /\ Land(m) /\ buffer' = [buffer EXCEPT ![p] = @ \ {m}]
      /\ UNCHANGED <<raised, taken, sent, memory, faults>>
  BY DEF Deliver
<1>2. /\ queue' \in [Processes -> SUBSET Message] /\ reported' \subseteq raised
      /\ \A q \in Processes :
           /\ \A x \in queue'[q] : x \in queue[q] \/ (x = m /\ <<q, m.kind>> \in Subscribed)
           /\ m \notin queue[q] \cup taken[q]
  BY <1>1, LandShape
<1>3. /\ buffer' \in [Processes -> SUBSET Message]
      /\ buffer'[p] = buffer[p] \ {m}
      /\ \A q \in Processes : buffer'[q] \subseteq buffer[q]
  BY <1>1 DEF Shaped, TypeOK
<1>4. TypeOK'
  <2>1. \A q \in Processes : queue'[q] \cap taken'[q] = {}
    BY <1>1, <1>2 DEF Shaped, TypeOK
  <2>. QED BY <1>1, <1>2, <1>3, <2>1 DEF Shaped, TypeOK, memory, faults
<1>5. Opened' BY <1>1 DEF Shaped, Opened, memory
<1>6. ASSUME NEW q \in Processes, NEW x \in queue'[q] \cup taken'[q]
      PROVE  \/ x \in queue[q] \cup taken[q]
             \/ \E r \in Processes : x \in buffer[r] \ buffer'[r] /\ <<q, x.kind>> \in Subscribed
  BY <1>1, <1>2, <1>3, <1>6
<1>. QED BY <1>1, <1>3, <1>4, <1>5, <1>6, SentStays, StaysShaped

LEMMA ResendShaped ==
  ASSUME Shaped, NEW p \in Processes, NEW m \in buffer[p], Resend(p, m)
  PROVE  Shaped'
<1>. DEFINE again == Fresh(m.kind, m.alert)
<1>1. /\ Land(m) /\ buffer' = [buffer EXCEPT ![p] = (@ \ {m}) \cup {again}]
      /\ sent' = Numbered({again}) /\ resends' = resends + 1 /\ FaultsLeft
      /\ UNCHANGED <<raised, taken, memory, crashes, failures>>
  BY DEF Resend
<1>2. /\ queue' \in [Processes -> SUBSET Message] /\ reported' \subseteq raised
      /\ m.alert \in raised /\ m.alert \in Alerts /\ Writer(m) = p /\ m.kind \in Kinds
      /\ \A q \in Processes :
           /\ \A x \in queue'[q] : x \in queue[q] \/ (x = m /\ <<q, m.kind>> \in Subscribed)
           /\ m \notin queue[q] \cup taken[q]
  BY <1>1, LandShape
<1>3. /\ again \in Message /\ again.kind = m.kind /\ again.alert = m.alert
      /\ again.copy = sent[m.kind][m.alert] + 1
      /\ again # m /\ again = Fresh(again.kind, again.alert)
  BY <1>2, FreshIs
<1>. HIDE DEF again
<1>4. /\ buffer' \in [Processes -> SUBSET Message]
      /\ buffer'[p] = (buffer[p] \ {m}) \cup {again}
      /\ \A q \in Processes \ {p} : buffer'[q] = buffer[q]
  BY <1>1, <1>3 DEF Shaped, TypeOK
<1>5. /\ sent' \in [Kinds -> [Alerts -> Nat]]
      /\ \A k \in Kinds, b \in Alerts : sent[k][b] <= sent'[k][b]
      /\ sent'[m.kind][m.alert] = sent[m.kind][m.alert] + 1
      /\ sent[m.kind][m.alert] \in Nat
  <2>1. Fresh(m.kind, m.alert) \in {again} BY DEF again
  <2>. QED BY <1>1, <1>2, <2>1, NumberedIs
<1>6. TypeOK'
  <2>1. \A q \in Processes : queue'[q] \cap taken'[q] = {}
    BY <1>1, <1>2 DEF Shaped, TypeOK
  <2>2. resends' \in Nat /\ crashes' + resends' + failures' <= MaxFaults
    BY <1>1, CoordinatorAssumption DEF Shaped, TypeOK, FaultsLeft
  <2>. QED BY <1>1, <1>2, <1>4, <1>5, <2>1, <2>2 DEF Shaped, TypeOK, memory
<1>7. Opened' BY <1>1 DEF Shaped, Opened, memory
<1>8. ASSUME NEW q \in Processes, NEW x \in queue'[q] \cup taken'[q]
      PROVE  \/ x \in queue[q] \cup taken[q]
             \/ \E r \in Processes : x \in buffer[r] \ buffer'[r] /\ <<q, x.kind>> \in Subscribed
  BY <1>1, <1>2, <1>3, <1>4, <1>8
<1>9. Writer(again) = p BY <1>2, <1>3 DEF Writer
<1>10. again.copy <= sent'[again.kind][again.alert] /\ again.alert \in raised'
  <2>1. sent'[again.kind][again.alert] = sent[m.kind][m.alert] + 1
    <3>1. sent'[again.kind][again.alert] = sent'[m.kind][m.alert] BY <1>3
    <3>. QED BY <1>5, <3>1
  <2>2. again.copy \in Nat /\ again.copy = sent[m.kind][m.alert] + 1 BY <1>3, <1>5
  <2>. QED BY <1>1, <1>2, <1>3, <2>1, <2>2
<1>11. ASSUME NEW q \in Processes, NEW x \in buffer'[q]
       PROVE  \/ x \in buffer[q]
              \/ /\ x = Fresh(x.kind, x.alert) /\ x.copy <= sent'[x.kind][x.alert]
                 /\ x.alert \in raised' /\ Writer(x) = q
  <2>1. CASE x = again
    <3>1. q = p \/ x \in buffer[q] BY <1>4
    <3>. QED BY <1>3, <1>9, <1>10, <2>1, <3>1
  <2>2. CASE x # again BY <1>4, <2>2
  <2>. QED BY <2>1, <2>2
<1>. QED BY <1>1, <1>5, <1>6, <1>7, <1>8, <1>11, StaysShaped

LEMMA ExpireShaped ==
  ASSUME Shaped, NEW p \in Processes, NEW m \in buffer[p], Expire(p, m)
  PROVE  Shaped'
<1>1. /\ buffer' = [buffer EXCEPT ![p] = @ \ {m}] /\ failures' = failures + 1 /\ FaultsLeft
      /\ UNCHANGED <<raised, queue, taken, sent, memory, reported, crashes, resends>>
  BY DEF Expire
<1>2. /\ buffer' \in [Processes -> SUBSET Message]
      /\ \A q \in Processes : buffer'[q] \subseteq buffer[q]
  BY <1>1 DEF Shaped, TypeOK
<1>3. failures' \in Nat /\ crashes' + resends' + failures' <= MaxFaults
  BY <1>1, CoordinatorAssumption DEF Shaped, TypeOK, FaultsLeft
<1>4. TypeOK' BY <1>1, <1>2, <1>3 DEF Shaped, TypeOK, memory
<1>5. Opened' BY <1>1 DEF Shaped, Opened, memory
<1>. QED BY <1>1, <1>2, <1>4, <1>5, SentStays, StaysShaped

LEMMA AutoCommitShaped ==
  ASSUME Shaped, NEW p \in Processes, AutoCommit(p)
  PROVE  Shaped'
<1>1. /\ taken' = [taken EXCEPT ![p] = {}]
      /\ UNCHANGED <<raised, queue, buffer, sent, memory, reported, faults>>
  BY DEF AutoCommit
<1>2. /\ taken' \in [Processes -> SUBSET Message]
      /\ \A q \in Processes : taken'[q] \subseteq taken[q]
  BY <1>1 DEF Shaped, TypeOK
<1>3. TypeOK' BY <1>1, <1>2 DEF Shaped, TypeOK, memory, faults
<1>4. Opened' BY <1>1 DEF Shaped, Opened, memory
<1>. QED BY <1>1, <1>2, <1>3, <1>4, SentStays, StaysShaped

LEMMA CrashShaped ==
  ASSUME Shaped, NEW p \in Processes, Crash(p)
  PROVE  Shaped'
<1>1. /\ FaultsLeft /\ crashes' = crashes + 1
      /\ queue' = [queue EXCEPT ![p] = queue[p] \cup taken[p]]
      /\ taken' = [taken EXCEPT ![p] = {}]
      /\ buffer' = [buffer EXCEPT ![p] = {}]
      /\ UNCHANGED <<raised, sent, reported, resends, failures>>
  BY DEF Crash, FromCommitted
<1>2. /\ incidents' = incidents \/ incidents' = <<>>
      /\ filed' \subseteq filed /\ decided' \subseteq decided
  BY DEF Crash, memory
<1>3. /\ queue' \in [Processes -> SUBSET Message]
      /\ taken' \in [Processes -> SUBSET Message]
      /\ buffer' \in [Processes -> SUBSET Message]
      /\ \A q \in Processes :
           /\ queue'[q] \cap taken'[q] = {}
           /\ queue'[q] \cup taken'[q] = queue[q] \cup taken[q]
           /\ buffer'[q] \subseteq buffer[q]
  BY <1>1 DEF Shaped, TypeOK
<1>4. incidents' \in Seq(Seq(Alerts)) /\ \A i \in DOMAIN incidents' : incidents'[i] # <<>>
  <2>1. CASE incidents' = incidents BY <2>1 DEF Shaped, TypeOK, Opened
  <2>2. CASE incidents' = <<>>
    <3>1. <<>> \in Seq(Seq(Alerts)) /\ DOMAIN <<>> = {} OBVIOUS
    <3>. QED BY <2>2, <3>1
  <2>. QED BY <1>2, <2>1, <2>2
<1>5. crashes' \in Nat /\ crashes' + resends' + failures' <= MaxFaults
  BY <1>1, CoordinatorAssumption DEF Shaped, TypeOK, FaultsLeft
<1>6. TypeOK' BY <1>1, <1>2, <1>3, <1>4, <1>5 DEF Shaped, TypeOK
<1>7. Opened' BY <1>4 DEF Opened
<1>. QED BY <1>1, <1>3, <1>6, <1>7, SentStays, StaysShaped

LEMMA NextShaped == Shaped /\ [Next]_vars => Shaped'
<1>. SUFFICES ASSUME Shaped, [Next]_vars PROVE Shaped'
  OBVIOUS
<1>1. CASE \E a \in Alerts : Raise(a) BY <1>1, RaiseShaped
<1>2. CASE \E m \in queue["classifier"] : Classify(m) BY <1>2, ClassifyShaped
<1>3. CASE \E m \in queue["coordinator"] : HandleAlert(m) BY <1>3, HandleAlertShaped
<1>4. CASE \E m \in queue["coordinator"] : HandleStrategy(m) BY <1>4, HandleStrategyShaped
<1>5. CASE \E p \in Processes : \E m \in buffer[p] : Deliver(p, m) BY <1>5, DeliverShaped
<1>6. CASE \E p \in Processes : \E m \in buffer[p] : Resend(p, m) BY <1>6, ResendShaped
<1>7. CASE \E p \in Processes : \E m \in buffer[p] : Expire(p, m) BY <1>7, ExpireShaped
<1>8. CASE \E p \in Processes : AutoCommit(p) BY <1>8, AutoCommitShaped
<1>9. CASE \E p \in Processes : Crash(p) BY <1>9, CrashShaped
<1>10. CASE UNCHANGED vars
  BY <1>10 DEF vars, memory, faults, Shaped, TypeOK, Routed, Known, Single, Opened, Writer
<1>. QED BY <1>1, <1>2, <1>3, <1>4, <1>5, <1>6, <1>7, <1>8, <1>9, <1>10 DEF Next

\* Every state has its shape, however many alerts, copies, replays and crashes.
THEOREM PathShape == Spec => [](TypeOK /\ Shaped)
<1>1. Shaped => TypeOK BY DEF Shaped
<1>. QED BY <1>1, InitShaped, NextShaped, PTL DEF Spec

-----------------------------------------------------------------------------
\* An alert is alive while one of its messages is under way, or once reported.
LEMMA AliveIs ==
  \A a : Alive(a) <=> \/ a \in reported
                      \/ \E p \in Processes : \E m \in queue[p] \cup buffer[p] :
                            m.alert = a /\ m.kind # "strategy"
BY DEF Alive, AlertsIn

\* The step that takes a message puts another one about its alert in a buffer.
LEMMA HandedOn ==
  ASSUME Shaped, NEW p \in Processes, NEW m \in queue[p], NEW k \in Kinds \ {"strategy"},
         Take(p, m), Produce(p, {Fresh(k, m.alert)}), reported' = reported, NEW a, Alive(a)
  PROVE  Alive(a)'
<1>. DEFINE out == Fresh(k, m.alert)
<1>1. m.alert \in Alerts BY TakeShape
<1>2. out.kind # "strategy" /\ out.alert = m.alert /\ out \in Message
  BY <1>1, FreshIs
<1>3. /\ buffer'[p] = buffer[p] \cup {out}
      /\ \A q \in Processes \ {p} : buffer'[q] = buffer[q]
  BY <1>2, ProduceShape
<1>4. \A q \in Processes : \A x \in queue[q] : x \in queue'[q] \/ (q = p /\ x = m)
  BY DEF Take, Remaining, Shaped, TypeOK
<1>. HIDE DEF out
<1>5. \/ a \in reported
      \/ \E q \in Processes : \E x \in queue[q] \cup buffer[q] :
            x.alert = a /\ x.kind # "strategy"
  BY AliveIs
<1>6. CASE a \in reported BY <1>6 DEF Alive
<1>7. ASSUME NEW q \in Processes, NEW x \in queue[q] \cup buffer[q],
             x.alert = a, x.kind # "strategy"
      PROVE  \E r \in Processes : \E y \in queue'[r] \cup buffer'[r] :
                y.alert = a /\ y.kind # "strategy"
  <2>1. CASE x \in buffer[q] BY <1>3, <1>7, <2>1
  <2>2. CASE x \in queue[q]
    <3>1. CASE q = p /\ x = m BY <1>2, <1>3, <1>7, <3>1
    <3>2. CASE x \in queue'[q] BY <1>7, <3>2
    <3>. QED BY <1>4, <2>2, <3>1, <3>2
  <2>. QED BY <1>7, <2>1, <2>2
<1>. QED BY <1>5, <1>6, <1>7 DEF Alive, AlertsIn

\* A message that lands, other than a strategy, is queued or a report.
LEMMA LandedLives ==
  ASSUME Shaped, NEW p \in Processes, NEW m \in buffer[p], Land(m), m.kind # "strategy"
  PROVE  \/ m.alert \in reported'
         \/ \E q \in Processes : m \in queue'[q]
<1>1. m.kind \in {"raw", "classified", "incident"} BY LandShape DEF Kinds
<1>2. CASE m.kind = "incident" BY <1>2, LandShape
<1>3. CASE m.kind = "raw"
  <2>1. <<"classifier", m.kind>> \in Subscribed BY <1>3, SubscribedIs
  <2>. QED BY <2>1, ProcessesAre, LandShape
<1>4. CASE m.kind = "classified"
  <2>1. <<"coordinator", m.kind>> \in Subscribed BY <1>4, SubscribedIs
  <2>. QED BY <2>1, ProcessesAre, LandShape
<1>. QED BY <1>1, <1>2, <1>3, <1>4

\* A step that lands a message of p and keeps the rest of the buffers ends no life.
LEMMA LandKeepsAlive ==
  ASSUME Shaped, NEW p \in Processes, NEW m \in buffer[p], Land(m),
         \A q \in Processes : buffer[q] \ {m} \subseteq buffer'[q], NEW a, Alive(a)
  PROVE  Alive(a)'
<1>1. \/ a \in reported
      \/ \E q \in Processes : \E x \in queue[q] \cup buffer[q] :
            x.alert = a /\ x.kind # "strategy"
  BY AliveIs
<1>2. /\ \A q \in Processes : queue[q] \subseteq queue'[q]
      /\ reported \subseteq reported'
  BY LandShape
<1>3. CASE a \in reported BY <1>2, <1>3 DEF Alive
<1>4. ASSUME NEW q \in Processes, NEW x \in queue[q] \cup buffer[q],
             x.alert = a, x.kind # "strategy"
      PROVE  \/ a \in reported'
             \/ \E r \in Processes : \E y \in queue'[r] \cup buffer'[r] :
                   y.alert = a /\ y.kind # "strategy"
  <2>1. CASE x = m BY <1>4, <2>1, LandedLives
  <2>2. CASE x # m BY <1>2, <1>4, <2>2
  <2>. QED BY <2>1, <2>2
<1>. QED BY <1>1, <1>3, <1>4 DEF Alive, AlertsIn

\* Two steps end the life of an alert: a crash of p that takes its last result with p's
\* buffer and whose input p has committed, and the giving up of its last message.
LEMMA LifeEnds ==
  ASSUME Shaped, Shaped', [Next]_vars, NEW a, Alive(a), ~Alive(a)'
  PROVE  \/ \E p \in Processes : Crash(p) /\ crashes' > crashes /\ a \in Exposed(p)
         \/ \E p \in Processes : \E m \in buffer[p] :
              /\ Expire(p, m) /\ failures' > failures
              /\ m.alert = a /\ a \in AlertsIn(buffer[p] \ buffer'[p])
<1>1. \/ a \in reported
      \/ \E p \in Processes : \E m \in queue[p] \cup buffer[p] :
            m.alert = a /\ m.kind # "strategy"
  BY AliveIs
<1>2. /\ a \notin reported'
      /\ \A p \in Processes : \A m \in queue'[p] \cup buffer'[p] :
            ~(m.alert = a /\ m.kind # "strategy")
  BY DEF Alive, AlertsIn
<1>3. /\ queue \in [Processes -> SUBSET Message] /\ taken \in [Processes -> SUBSET Message]
      /\ buffer \in [Processes -> SUBSET Message]
  BY DEF Shaped, TypeOK
<1>4. ASSUME NEW b \in Alerts, Raise(b) PROVE FALSE
  <2>1. /\ queue' = queue /\ reported' = reported
        /\ \A q \in Processes : buffer[q] \subseteq buffer'[q]
    BY <1>3, <1>4 DEF Raise, Produce
  <2>. QED BY <1>1, <1>2, <2>1
<1>5. ASSUME NEW m \in queue["classifier"], Classify(m) PROVE FALSE
  BY <1>5, HandedOn, ProcessesAre DEF Classify, Kinds
<1>6. ASSUME NEW m \in queue["coordinator"], HandleAlert(m) PROVE FALSE
  BY <1>6, HandedOn, ProcessesAre DEF HandleAlert, Report, Kinds
<1>7. ASSUME NEW m \in queue["coordinator"], HandleStrategy(m) PROVE FALSE
  <2>1. /\ \A q \in Processes : \A x \in queue[q] : x \in queue'[q] \/ x = m
        /\ buffer' = buffer /\ reported' = reported /\ m.kind = "strategy"
    BY <1>3, <1>7 DEF HandleStrategy, Take, Remaining
  <2>. QED BY <1>1, <1>2, <2>1
<1>8. ASSUME NEW p \in Processes, NEW m \in buffer[p], Deliver(p, m) PROVE FALSE
  <2>1. /\ Land(m)
        /\ \A q \in Processes : buffer[q] \ {m} \subseteq buffer'[q]
    BY <1>3, <1>8 DEF Deliver
  <2>. QED BY <2>1, LandKeepsAlive
<1>9. ASSUME NEW p \in Processes, NEW m \in buffer[p], Resend(p, m) PROVE FALSE
  <2>1. /\ Land(m)
        /\ \A q \in Processes : buffer[q] \ {m} \subseteq buffer'[q]
    BY <1>3, <1>9 DEF Resend
  <2>. QED BY <2>1, LandKeepsAlive
<1>10. ASSUME NEW p \in Processes, NEW m \in buffer[p], Expire(p, m)
       PROVE  failures' > failures /\ m.alert = a /\ a \in AlertsIn(buffer[p] \ buffer'[p])
  <2>1. /\ queue' = queue /\ reported' = reported /\ failures' = failures + 1
        /\ buffer' = [buffer EXCEPT ![p] = @ \ {m}]
    BY <1>10 DEF Expire
  <2>2. /\ buffer'[p] = buffer[p] \ {m}
        /\ \A q \in Processes : buffer[q] \ {m} \subseteq buffer'[q]
    BY <1>3, <2>1
  <2>3. m.alert = a /\ m.kind # "strategy" BY <1>1, <1>2, <2>1, <2>2
  <2>4. failures' > failures BY <2>1 DEF Shaped, TypeOK
  <2>. QED BY <2>2, <2>3, <2>4 DEF AlertsIn
<1>11. ASSUME NEW p \in Processes, AutoCommit(p) PROVE FALSE
  BY <1>1, <1>2, <1>11 DEF AutoCommit
<1>12. ASSUME NEW p \in Processes, Crash(p)
       PROVE  crashes' > crashes /\ a \in Exposed(p)
  <2>1. /\ queue' = [queue EXCEPT ![p] = queue[p] \cup taken[p]]
        /\ buffer' = [buffer EXCEPT ![p] = {}]
        /\ crashes' = crashes + 1 /\ reported' = reported
    BY <1>12 DEF Crash, FromCommitted
  <2>2. \E m \in buffer[p] : m.alert = a /\ m.kind # "strategy"
    BY <1>1, <1>2, <1>3, <2>1
  <2>3. \A m \in taken[p] : ~(m.alert = a /\ m.kind # "strategy") BY <1>2, <1>3, <2>1
  <2>4. crashes' > crashes BY <2>1 DEF Shaped, TypeOK
  <2>. QED BY <2>2, <2>3, <2>4 DEF Exposed, AlertsIn
<1>13. CASE UNCHANGED vars BY <1>1, <1>2, <1>13 DEF vars
<1>. QED BY <1>4, <1>5, <1>6, <1>7, <1>8, <1>9, <1>10, <1>11, <1>12, <1>13 DEF Next

\* An alert is lost in two ways only, whatever is raised, sent again and replayed: a
\* crash with its input committed and its result not delivered, or a failed delivery.
THEOREM LossHasItsCause == Spec => LossHasACause
<1>1. Shaped /\ Shaped' /\ [Next]_vars =>
        [\A a \in Alerts : Alive(a) /\ ~Alive(a)' =>
           \/ crashes' > crashes /\ \E p \in Processes : a \in Exposed(p)
           \/ failures' > failures /\ \E p \in Processes : a \in AlertsIn(buffer[p] \ buffer'[p])]_vars
  BY LifeEnds
<1>. QED BY <1>1, InitShaped, NextShaped, PTL DEF Spec, LossHasACause

-----------------------------------------------------------------------------
\* The alerts that wait and that are lost, as the contract has them.
Waiting == {a \in raised \ reported : Alive(a)}
Lost    == {a \in raised : ~Alive(a)}

LEMMA InitContract == Init => Contract!Init
<1>. SUFFICES ASSUME Init PROVE Contract!Init
  OBVIOUS
<1>. QED BY DEF Init, Contract!Init

\* A life begins with Raise, or again with the replay of a crash.
LEMMA LifeBegins ==
  ASSUME Shaped, [Next]_vars, NEW a, ~Alive(a), Alive(a)'
  PROVE  \/ a \in Alerts /\ a \notin raised /\ Raise(a)
         \/ \E p \in Processes : Crash(p)
<1>1. /\ a \notin reported
      /\ \A p \in Processes : \A m \in queue[p] \cup buffer[p] :
            ~(m.alert = a /\ m.kind # "strategy")
  BY AliveIs
<1>2. \/ a \in reported'
      \/ \E p \in Processes : \E m \in queue'[p] \cup buffer'[p] :
            m.alert = a /\ m.kind # "strategy"
  BY DEF Alive, AlertsIn
<1>3. /\ queue \in [Processes -> SUBSET Message] /\ taken \in [Processes -> SUBSET Message]
      /\ buffer \in [Processes -> SUBSET Message]
  BY DEF Shaped, TypeOK
<1>4. ASSUME NEW b \in Alerts, Raise(b) PROVE a = b /\ a \notin raised
  <2>. DEFINE new == {Fresh("raw", b)} \cup {Fresh("strategy", d) : d \in {b} \cap Proposes}
  <2>1. \A m \in new : m.alert = b BY DEF Fresh, Msg
  <2>2. /\ buffer' = [buffer EXCEPT ![Source[b]] = @ \cup new]
        /\ queue' = queue /\ reported' = reported /\ b \notin raised
    BY <1>4 DEF Raise, Produce
  <2>. HIDE DEF new
  <2>3. \A q \in Processes : buffer'[q] \subseteq buffer[q] \cup new BY <1>3, <2>2
  <2>. QED BY <1>1, <1>2, <2>1, <2>2, <2>3
<1>5. ASSUME NEW p \in Processes, NEW m \in queue[p], NEW k, k # "strategy",
             m.kind # "strategy", Take(p, m), Produce(p, {Fresh(k, m.alert)}),
             reported' = reported
      PROVE  FALSE
  <2>. DEFINE out == Fresh(k, m.alert)
  <2>1. out.alert = m.alert BY DEF Fresh, Msg
  <2>2. buffer' = [buffer EXCEPT ![p] = @ \cup {out}] BY <1>5 DEF Produce
  <2>3. \A q \in Processes : queue'[q] \subseteq queue[q] BY <1>3, <1>5 DEF Take, Remaining
  <2>. HIDE DEF out
  <2>4. \A q \in Processes : buffer'[q] \subseteq buffer[q] \cup {out} BY <1>3, <2>2
  <2>. QED BY <1>1, <1>2, <1>5, <2>1, <2>3, <2>4
<1>6. ASSUME NEW m \in queue["classifier"], Classify(m) PROVE FALSE
  <2>1. m.kind = "raw"
    <3>1. Routed BY DEF Shaped
    <3>2. <<"classifier", m.kind>> \in Subscribed BY <3>1, ProcessesAre DEF Routed
    <3>. QED BY <3>2, SubscribedIs
  <2>. QED BY <1>5, <1>6, <2>1, ProcessesAre DEF Classify
<1>7. ASSUME NEW m \in queue["coordinator"], HandleAlert(m) PROVE FALSE
  BY <1>5, <1>7, ProcessesAre DEF HandleAlert, Report
<1>8. ASSUME NEW m \in queue["coordinator"], HandleStrategy(m) PROVE FALSE
  <2>1. /\ \A q \in Processes : queue'[q] \subseteq queue[q]
        /\ buffer' = buffer /\ reported' = reported
    BY <1>3, <1>8 DEF HandleStrategy, Take, Remaining
  <2>. QED BY <1>1, <1>2, <2>1
<1>9. ASSUME NEW p \in Processes, NEW m \in buffer[p], Land(m),
             \A q \in Processes : \A x \in buffer'[q] : x \in buffer[q] \/
                /\ x.alert = m.alert /\ x.kind = m.kind
      PROVE  FALSE
  <2>1. \A q \in Processes : \A x \in queue'[q] : x \in queue[q] \/ x = m
    <3>1. queue' = [q \in Processes |-> queue[q] \cup {n \in {m} : <<q, n.kind>> \in Subscribed}]
      BY <1>9 DEF Land
    <3>. QED BY <3>1
  <2>2. reported' = reported \/ (m.kind = "incident" /\ reported' = reported \cup {m.alert})
    BY <1>9, LandShape
  <2>3. ~(m.alert = a /\ m.kind # "strategy") BY <1>1
  <2>. QED BY <1>1, <1>2, <1>9, <2>1, <2>2, <2>3
<1>10. ASSUME NEW p \in Processes, NEW m \in buffer[p], Deliver(p, m) PROVE FALSE
  <2>1. Land(m) /\ \A q \in Processes : buffer'[q] \subseteq buffer[q]
    BY <1>3, <1>10 DEF Deliver
  <2>. QED BY <1>9, <2>1
<1>11. ASSUME NEW p \in Processes, NEW m \in buffer[p], Resend(p, m) PROVE FALSE
  <2>. DEFINE again == Fresh(m.kind, m.alert)
  <2>1. again.alert = m.alert /\ again.kind = m.kind BY DEF Fresh, Msg
  <2>2. Land(m) /\ buffer' = [buffer EXCEPT ![p] = (@ \ {m}) \cup {again}]
    BY <1>11 DEF Resend
  <2>. HIDE DEF again
  <2>3. \A q \in Processes : buffer'[q] \subseteq buffer[q] \cup {again} BY <1>3, <2>2
  <2>. QED BY <1>9, <2>1, <2>2, <2>3
<1>12. ASSUME NEW p \in Processes, NEW m \in buffer[p], Expire(p, m) PROVE FALSE
  <2>1. /\ queue' = queue /\ reported' = reported
        /\ \A q \in Processes : buffer'[q] \subseteq buffer[q]
    BY <1>3, <1>12 DEF Expire
  <2>. QED BY <1>1, <1>2, <2>1
<1>13. ASSUME NEW p \in Processes, AutoCommit(p) PROVE FALSE
  BY <1>1, <1>2, <1>13 DEF AutoCommit
<1>14. CASE UNCHANGED vars BY <1>1, <1>2, <1>14 DEF vars
<1>. QED BY <1>4, <1>6, <1>7, <1>8, <1>10, <1>11, <1>12, <1>13, <1>14 DEF Next

\* Without a new alert and without a crash no life begins.
LEMMA NoNewLife ==
  ASSUME Shaped, [Next]_vars, raised' = raised, crashes' = crashes, NEW a, ~Alive(a), Alive(a)'
  PROVE  FALSE
<1>1. crashes \in Nat BY DEF Shaped, TypeOK
<1>2. CASE a \in Alerts /\ a \notin raised /\ Raise(a) BY <1>2 DEF Raise
<1>3. CASE \E p \in Processes : Crash(p)
  <2>1. crashes' = crashes + 1 BY <1>3 DEF Crash
  <2>. QED BY <1>1, <2>1
<1>. QED BY <1>2, <1>3, LifeBegins

\* Short of a new alert, a crash and a failed delivery, lives neither begin nor end.
LEMMA LifeGoesOn ==
  ASSUME Shaped, Shaped', [Next]_vars, NEW a, a \notin Alerts \/ a \in raised \/ raised' = raised,
         crashes' = crashes, failures' = failures
  PROVE  Alive(a)' <=> Alive(a)
<1>1. crashes \in Nat /\ failures \in Nat BY DEF Shaped, TypeOK
<1>2. Alive(a) => Alive(a)'
  <2>. SUFFICES ASSUME Alive(a), ~Alive(a)' PROVE FALSE
    OBVIOUS
  <2>1. crashes' > crashes \/ failures' > failures BY LifeEnds
  <2>. QED BY <1>1, <2>1
<1>3. Alive(a)' => Alive(a)
  <2>. SUFFICES ASSUME ~Alive(a), Alive(a)' PROVE FALSE
    OBVIOUS
  <2>1. \/ a \in Alerts /\ a \notin raised /\ Raise(a)
        \/ \E p \in Processes : Crash(p)
    BY LifeBegins
  <2>2. CASE a \in Alerts /\ a \notin raised /\ Raise(a) BY <2>2 DEF Raise
  <2>3. CASE \E p \in Processes : Crash(p)
    <3>1. crashes' = crashes + 1 BY <2>3 DEF Crash
    <3>. QED BY <1>1, <3>1
  <2>. QED BY <2>1, <2>2, <2>3
<1>. QED BY <1>2, <1>3

\* A message that lands, once or again, is the step Report of the contract if it is
\* the first report of its alert, and else invisible.
LEMMA LandIsReport ==
  ASSUME Shaped, Shaped', [Next]_vars, NEW p \in Processes, NEW m \in buffer[p], Land(m),
         raised' = raised, crashes' = crashes, failures' = failures
  PROVE  [Contract!Next]_(Contract!vars)
<1>. DEFINE a == m.alert
<1>1. \A b : Alive(b)' <=> Alive(b) BY LifeGoesOn
<1>2. reported \subseteq raised /\ a \in raised /\ a \in Alerts BY LandShape DEF Shaped, TypeOK
<1>3. CASE m.kind # "incident" \/ a \in reported
  <2>1. reported' = reported BY <1>3, LandShape DEF Kinds
  <2>2. UNCHANGED <<Waiting, reported, Lost, crashes, failures>>
    BY <1>1, <2>1 DEF Waiting, Lost
  <2>. QED BY <2>2 DEF Contract!vars, Waiting, Lost
<1>4. CASE m.kind = "incident" /\ a \notin reported
  <2>1. reported' = reported \cup {a} BY <1>4, LandShape
  <2>2. Alive(a) BY <1>4, AliveIs
  <2>3. Waiting' = Waiting \ {a} /\ Lost' = Lost /\ a \in Waiting
    BY <1>1, <1>2, <1>4, <2>1, <2>2 DEF Waiting, Lost
  <2>4. Contract!Report(a) BY <2>1, <2>3 DEF Contract!Report, Waiting, Lost
  <2>. QED BY <1>2, <2>4 DEF Contract!Next
<1>. QED BY <1>3, <1>4

\* A message given up is the step Fail of the contract.
LEMMA ExpireIsFail ==
  ASSUME Shaped, Shaped', [Next]_vars, NEW p \in Processes, NEW m \in buffer[p], Expire(p, m)
  PROVE  Contract!Fail(m.alert) /\ m.alert \in Alerts
<1>. DEFINE a == m.alert
<1>1. /\ raised' = raised /\ reported' = reported /\ failures' = failures + 1
      /\ crashes' = crashes /\ crashes \in Nat
      /\ buffer' = [buffer EXCEPT ![p] = @ \ {m}]
  BY DEF Expire, Shaped, TypeOK
<1>2. a \in Alerts BY DEF Shaped, TypeOK, Message
<1>3. buffer[p] \ buffer'[p] \subseteq {m} /\ \A q \in Processes \ {p} : buffer'[q] = buffer[q]
  BY <1>1 DEF Shaped, TypeOK
<1>4. \A b : b # a => (Alive(b)' <=> Alive(b))
  <2>. TAKE b
  <2>. HAVE b # a
  <2>1. Alive(b) => Alive(b)'
    <3>. SUFFICES ASSUME Alive(b), ~Alive(b)' PROVE FALSE
      OBVIOUS
    <3>1. PICK q \in Processes : b \in AlertsIn(buffer[q] \ buffer'[q])
      BY <1>1, LifeEnds
    <3>. QED BY <1>3, <3>1 DEF AlertsIn
  <2>2. Alive(b)' => Alive(b)
    <3>. SUFFICES ASSUME ~Alive(b), Alive(b)' PROVE FALSE
      OBVIOUS
    <3>. QED BY <1>1, NoNewLife
  <2>. QED BY <2>1, <2>2
<1>5. Alive(a)' => Alive(a)
  <2>. SUFFICES ASSUME ~Alive(a), Alive(a)' PROVE FALSE
    OBVIOUS
  <2>. QED BY <1>1, NoNewLife
<1>6. \E gone \in SUBSET (Waiting \cap {a}) :
         Waiting' = Waiting \ gone /\ Lost' = Lost \cup gone
  <2>. WITNESS (Waiting \cap {a}) \ Waiting' \in SUBSET (Waiting \cap {a})
  <2>1. Waiting' = Waiting \ ((Waiting \cap {a}) \ Waiting')
    BY <1>1, <1>4, <1>5 DEF Waiting
  <2>2. Lost' = Lost \cup ((Waiting \cap {a}) \ Waiting')
    <3>1. a \in reported => Alive(a) /\ Alive(a)' BY <1>1 DEF Alive
    <3>. QED BY <1>1, <1>4, <1>5, <3>1 DEF Waiting, Lost
  <2>. QED BY <2>1, <2>2
<1>. QED BY <1>1, <1>2, <1>6 DEF Contract!Fail, Waiting, Lost

\* Each step of the path is one of the contract, or changes nothing of it.
LEMMA StepContract ==
  ASSUME Shaped, Shaped', [Next]_vars
  PROVE  [Contract!Next]_(Contract!vars)
<1>1. reported \subseteq raised /\ raised \subseteq Alerts /\ crashes \in Nat
  BY DEF Shaped, TypeOK
<1>2. ASSUME NEW a \in Alerts, Raise(a) PROVE Contract!Raise(a)
  <2>1. /\ a \notin raised /\ raised' = raised \cup {a}
        /\ reported' = reported /\ crashes' = crashes /\ failures' = failures
    BY <1>2 DEF Raise, faults
  <2>2. \A b \in raised : Alive(b)' <=> Alive(b) BY <2>1, LifeGoesOn
  <2>3. Alive(a)'
    <3>. DEFINE raw == Fresh("raw", a)
    <3>1. raw.alert = a /\ raw.kind # "strategy" BY DEF Fresh, Msg
    <3>2. Source[a] \in Processes BY CoordinatorAssumption DEF Processes
    <3>3. raw \in buffer'[Source[a]]
      BY <1>2, <3>2 DEF Raise, Produce, Shaped, TypeOK
    <3>. QED BY <3>1, <3>2, <3>3 DEF Alive, AlertsIn
  <2>4. Waiting' = Waiting \cup {a} /\ Lost' = Lost
    BY <1>1, <2>1, <2>2, <2>3 DEF Waiting, Lost
  <2>5. a \notin Waiting \cup reported \cup Lost BY <1>1, <2>1 DEF Waiting, Lost
  <2>. QED BY <2>1, <2>4, <2>5 DEF Contract!Raise, Waiting, Lost
<1>3. ASSUME NEW p \in Processes, Crash(p) PROVE Contract!Crash
  <2>1. /\ raised' = raised /\ reported' = reported /\ crashes' = crashes + 1
        /\ failures' = failures
    BY <1>3 DEF Crash
  <2>2. /\ Waiting \cup Lost = raised \ reported /\ Waiting \cap Lost = {}
        /\ Waiting' \cup Lost' = raised' \ reported' /\ Waiting' \cap Lost' = {}
    <3>1. \A a \in reported : Alive(a) /\ (a \in reported' => Alive(a)') BY DEF Alive
    <3>. QED BY <2>1, <3>1 DEF Waiting, Lost
  <2>3. \E gone \in SUBSET Waiting, found \in SUBSET Lost :
           /\ Waiting' = (Waiting \ gone) \cup found
           /\ Lost' = (Lost \ found) \cup gone
    <3>. WITNESS Waiting \cap Lost' \in SUBSET Waiting, Lost \cap Waiting' \in SUBSET Lost
    <3>. QED BY <2>1, <2>2
  <2>. QED BY <2>1, <2>3 DEF Contract!Crash, Waiting, Lost
<1>4. ASSUME NEW p \in Processes, NEW m \in buffer[p], Deliver(p, m) \/ Resend(p, m)
      PROVE  [Contract!Next]_(Contract!vars)
  BY <1>4, LandIsReport DEF Deliver, Resend, faults
<1>5. ASSUME NEW p \in Processes, NEW m \in buffer[p], Expire(p, m) PROVE Contract!Next
  BY <1>5, ExpireIsFail DEF Contract!Next
<1>6. ASSUME raised' = raised, reported' = reported, crashes' = crashes, failures' = failures
      PROVE  UNCHANGED Contract!vars
  <2>1. \A b \in Alerts : Alive(b)' <=> Alive(b) BY <1>6, LifeGoesOn
  <2>. QED BY <1>1, <1>6, <2>1 DEF Contract!vars
<1>7. \/ \E a \in Alerts : Raise(a)
      \/ \E p \in Processes : Crash(p)
      \/ \E p \in Processes : \E m \in buffer[p] : Deliver(p, m) \/ Resend(p, m)
      \/ \E p \in Processes : \E m \in buffer[p] : Expire(p, m)
      \/ raised' = raised /\ reported' = reported /\ crashes' = crashes /\ failures' = failures
  BY DEF Next, Classify, HandleAlert, HandleStrategy, AutoCommit, vars, faults
<1>. QED BY <1>2, <1>3, <1>4, <1>5, <1>6, <1>7 DEF Contract!Next

\* The path keeps the contract of an alert, for every set of alerts and any number of
\* faults: a report is for good, only a crash or a failed delivery takes an alert, and
\* only a crash finds it again.
THEOREM AlertsAreAccounted == Spec => Contract!Init /\ [][Contract!Next]_(Contract!vars)
<1>1. Shaped /\ Shaped' /\ [Next]_vars => [Contract!Next]_(Contract!vars)
  BY StepContract
<1>. QED BY <1>1, InitContract, InitShaped, NextShaped, PTL DEF Spec

-----------------------------------------------------------------------------
\* The classifications of an alert that are still under way to an incident, and
\* the places it has in the incidents: together no more than there were.
Pending(a) ==
  {n \in 1..sent["classified"][a] :
     Msg("classified", a, n) \in queue["coordinator"] \cup buffer["classifier"]}
Counted ==
  \A a \in Alerts :
     /\ IsFiniteSet(Places(a))
     /\ Cardinality(Places(a)) + Cardinality(Pending(a)) <= sent["classified"][a]

LEMMA NumbersUpTo ==
  ASSUME NEW n \in Nat
  PROVE  IsFiniteSet(1..n) /\ Cardinality(1..n) = n
<1>1. IsFiniteSet(1..n) /\ Cardinality(1..n) = IF 1 > n THEN 0 ELSE n - 1 + 1
  BY FS_Interval
<1>2. (IF 1 > n THEN 0 ELSE n - 1 + 1) = n OBVIOUS
<1>. QED BY <1>1, <1>2

\* A classification under way is counted by its number.
LEMMA PendingIs ==
  ASSUME Shaped, NEW a \in Alerts
  PROVE  /\ IsFiniteSet(Pending(a)) /\ Cardinality(Pending(a)) \in Nat
         /\ sent["classified"][a] \in Nat
         /\ Cardinality(Pending(a)) <= sent["classified"][a]
         /\ \A m \in queue["coordinator"] \cup buffer["classifier"] :
              m.kind = "classified" /\ m.alert = a =>
                 m = Msg("classified", a, m.copy) /\ m.copy \in Pending(a)
<1>1. sent["classified"][a] \in Nat BY DEF Shaped, TypeOK, Kinds
<1>2. /\ IsFiniteSet(1..sent["classified"][a])
      /\ Cardinality(1..sent["classified"][a]) = sent["classified"][a]
  BY <1>1, NumbersUpTo
<1>3. Pending(a) \in SUBSET (1..sent["classified"][a]) BY DEF Pending
<1>4. /\ IsFiniteSet(Pending(a)) /\ Cardinality(Pending(a)) \in Nat
      /\ Cardinality(Pending(a)) <= sent["classified"][a]
  BY <1>2, <1>3, FS_Subset, FS_CardinalityType
<1>5. ASSUME NEW m \in queue["coordinator"] \cup buffer["classifier"],
             m.kind = "classified", m.alert = a
      PROVE  m = Msg("classified", a, m.copy) /\ m.copy \in Pending(a)
  <2>1. m \in Message BY ProcessesAre DEF Shaped, TypeOK
  <2>2. m = Msg("classified", a, m.copy) BY <1>5, <2>1 DEF Message, Msg
  <2>3. m.copy <= sent["classified"][a] BY <1>5, ProcessesAre DEF Shaped, Known
  <2>4. m.copy \in 1..sent["classified"][a]
    <3>1. m.copy \in Nat /\ m.copy >= 1 BY <2>1 DEF Message
    <3>. QED BY <1>1, <2>3, <3>1
  <2>. QED BY <2>2, <2>4 DEF Pending
<1>. QED BY <1>1, <1>4, <1>5

LEMMA InitCounted == Init => Counted
<1>. SUFFICES ASSUME Init, NEW a \in Alerts
     PROVE  /\ IsFiniteSet(Places(a))
            /\ Cardinality(Places(a)) + Cardinality(Pending(a)) <= sent["classified"][a]
  BY DEF Counted
<1>1. Places(a) = {} BY DEF Init, Places
<1>2. sent["classified"][a] = 0 BY DEF Init, Kinds
<1>3. Pending(a) = {} BY <1>2 DEF Pending
<1>. QED BY <1>1, <1>2, <1>3, FS_EmptySet

\* A place is an incident and a place in it.
LEMMA PlacesAre ==
  \A a, s : s \in Places(a) <=>
     \E i \in DOMAIN incidents : \E k \in DOMAIN incidents[i] :
        s = <<i, k>> /\ incidents[i][k] = a
BY DEF Places

\* Correlating an alert gives it one place more, and no other alert any.
LEMMA CorrelatedPlaces ==
  ASSUME Shaped, NEW a \in Alerts, incidents' = Correlated(a)
  PROVE  /\ \E p : Places(a)' \subseteq Places(a) \cup {p}
         /\ \A b \in Alerts \ {a} : Places(b)' \subseteq Places(b)
<1>1. incidents \in Seq(Seq(Alerts)) BY DEF Shaped, TypeOK
<1>2. \A b, s : s \in Places(b)' <=>
        \E i \in DOMAIN incidents' : \E k \in DOMAIN incidents'[i] :
           s = <<i, k>> /\ incidents'[i][k] = b
  BY DEF Places
<1>3. ASSUME Correlated(a) = Append(incidents, <<a>>)
      PROVE  \A b, s : s \in Places(b)' =>
               s \in Places(b) \/ (b = a /\ s = <<Len(incidents) + 1, 1>>)
  <2>1. \A i \in DOMAIN incidents' :
          \/ i \in DOMAIN incidents /\ incidents'[i] = incidents[i]
          \/ i = Len(incidents) + 1 /\ incidents'[i] = <<a>>
    BY <1>1, <1>3
  <2>2. DOMAIN <<a>> = {1} /\ <<a>>[1] = a OBVIOUS
  <2>. QED BY <1>2, <2>1, <2>2, PlacesAre
<1>4. ASSUME NEW i \in DOMAIN incidents,
             Correlated(a) = [incidents EXCEPT ![i] = Append(@, a)]
      PROVE  \A b, s : s \in Places(b)' =>
               s \in Places(b) \/ (b = a /\ s = <<i, Len(incidents[i]) + 1>>)
  <2>1. /\ DOMAIN incidents' = DOMAIN incidents
        /\ incidents'[i] = Append(incidents[i], a) /\ incidents[i] \in Seq(Alerts)
        /\ \A j \in DOMAIN incidents : j # i => incidents'[j] = incidents[j]
    BY <1>1, <1>4
  <2>2. \A k \in DOMAIN incidents'[i] :
          \/ k \in DOMAIN incidents[i] /\ incidents'[i][k] = incidents[i][k]
          \/ k = Len(incidents[i]) + 1 /\ incidents'[i][k] = a
    BY <2>1
  <2>. QED BY <1>2, <2>1, <2>2, PlacesAre
<1>5. \/ \A b, s : s \in Places(b)' =>
            s \in Places(b) \/ (b = a /\ s = <<Len(incidents) + 1, 1>>)
      \/ \E i \in DOMAIN incidents : \A b, s : s \in Places(b)' =>
            s \in Places(b) \/ (b = a /\ s = <<i, Len(incidents[i]) + 1>>)
  BY <1>3, <1>4, CorrelatedIs
<1>6. \E p : \A b, s : s \in Places(b)' => s \in Places(b) \/ (b = a /\ s = p)
  BY <1>5
<1>. QED BY <1>6

\* As many classifications, no place more and none more on its way.
LEMMA FewerCounted ==
  ASSUME Shaped, Counted, NEW a \in Alerts, sent'["classified"][a] = sent["classified"][a],
         Places(a)' \subseteq Places(a), Pending(a)' \subseteq Pending(a)
  PROVE  /\ IsFiniteSet(Places(a)')
         /\ Cardinality(Places(a)') + Cardinality(Pending(a)') <= sent'["classified"][a]
<1>1. /\ IsFiniteSet(Places(a)) /\ IsFiniteSet(Pending(a)) /\ sent["classified"][a] \in Nat
      /\ Cardinality(Places(a)) + Cardinality(Pending(a)) <= sent["classified"][a]
  BY PendingIs DEF Counted
<1>2. Cardinality(Places(a)') <= Cardinality(Places(a)) /\ IsFiniteSet(Places(a)')
  BY <1>1, FS_Subset
<1>3. Cardinality(Pending(a)') <= Cardinality(Pending(a)) /\ IsFiniteSet(Pending(a)')
  BY <1>1, FS_Subset
<1>4. /\ Cardinality(Places(a)') \in Nat /\ Cardinality(Pending(a)') \in Nat
      /\ Cardinality(Places(a)) \in Nat /\ Cardinality(Pending(a)) \in Nat
  BY <1>1, <1>2, <1>3, FS_CardinalityType
<1>. QED BY <1>1, <1>2, <1>3, <1>4

\* One classification more, and no more than that on its way.
LEMMA MoreCounted ==
  ASSUME Shaped, Counted, NEW a \in Alerts, sent'["classified"][a] = sent["classified"][a] + 1,
         Places(a)' \subseteq Places(a), NEW n, Pending(a)' \subseteq Pending(a) \cup {n}
  PROVE  /\ IsFiniteSet(Places(a)')
         /\ Cardinality(Places(a)') + Cardinality(Pending(a)') <= sent'["classified"][a]
<1>1. /\ IsFiniteSet(Places(a)) /\ IsFiniteSet(Pending(a)) /\ sent["classified"][a] \in Nat
      /\ Cardinality(Places(a)) + Cardinality(Pending(a)) <= sent["classified"][a]
  BY PendingIs DEF Counted
<1>2. Cardinality(Places(a)') <= Cardinality(Places(a)) /\ IsFiniteSet(Places(a)')
  BY <1>1, FS_Subset
<1>3. /\ IsFiniteSet(Pending(a) \cup {n})
      /\ Cardinality(Pending(a) \cup {n}) <= Cardinality(Pending(a)) + 1
  <2>1. Cardinality(Pending(a)) \in Nat BY <1>1, FS_CardinalityType
  <2>2. /\ IsFiniteSet(Pending(a) \cup {n})
        /\ Cardinality(Pending(a) \cup {n}) =
             IF n \in Pending(a) THEN Cardinality(Pending(a)) ELSE Cardinality(Pending(a)) + 1
    BY <1>1, FS_AddElement
  <2>. QED BY <2>1, <2>2
<1>4. Cardinality(Pending(a)') <= Cardinality(Pending(a) \cup {n}) /\ IsFiniteSet(Pending(a)')
  BY <1>3, FS_Subset
<1>5. /\ Cardinality(Places(a)') \in Nat /\ Cardinality(Pending(a)') \in Nat
      /\ Cardinality(Places(a)) \in Nat /\ Cardinality(Pending(a)) \in Nat
      /\ Cardinality(Pending(a) \cup {n}) \in Nat
  BY <1>1, <1>2, <1>3, <1>4, FS_CardinalityType
<1>. QED BY <1>1, <1>2, <1>3, <1>4, <1>5

\* A step that gives their numbers to some messages and leaves the incidents alone,
\* and after which no other classification is under way than before.
LEMMA NumberedCounted ==
  ASSUME Shaped, Counted, incidents' = incidents, NEW messages, sent' = Numbered(messages),
         \A x \in messages : x = Fresh(x.kind, x.alert),
         \A x \in queue'["coordinator"] \cup buffer'["classifier"] : x.kind = "classified" =>
            x \in queue["coordinator"] \cup buffer["classifier"] \cup messages,
         NEW a \in Alerts
  PROVE  /\ IsFiniteSet(Places(a)')
         /\ Cardinality(Places(a)') + Cardinality(Pending(a)') <= sent'["classified"][a]
<1>. DEFINE n == sent["classified"][a] + 1
<1>1. Places(a)' \subseteq Places(a) BY DEF Places
<1>2. "classified" \in Kinds BY DEF Kinds
<1>3. /\ sent["classified"][a] \in Nat
      /\ Fresh("classified", a) = Msg("classified", a, n)
  BY <1>2, FreshIs, NumberedIs
<1>4. \A k : Msg("classified", a, k) \in messages => k = n /\ Fresh("classified", a) \in messages
  <2>. TAKE k
  <2>. HAVE Msg("classified", a, k) \in messages
  <2>1. Msg("classified", a, k).kind = "classified" /\ Msg("classified", a, k).alert = a
    BY DEF Msg
  <2>2. Msg("classified", a, k) = Fresh("classified", a) BY <2>1
  <2>. QED BY <1>3, <2>2 DEF Msg
<1>5. \A k \in Pending(a)' :
        /\ k \in 1..sent'["classified"][a]
        /\ Msg("classified", a, k) \in queue["coordinator"] \cup buffer["classifier"] \cup messages
  <2>1. \A k : Msg("classified", a, k).kind = "classified" BY DEF Msg
  <2>. QED BY <2>1 DEF Pending
<1>6. CASE Fresh("classified", a) \in messages
  <2>1. sent'["classified"][a] = sent["classified"][a] + 1 BY <1>2, <1>6, NumberedIs
  <2>2. \A k \in 1..sent'["classified"][a] : k \in 1..sent["classified"][a] \/ k = n
    BY <1>3, <2>1
  <2>3. Pending(a)' \subseteq Pending(a) \cup {n} BY <1>4, <1>5, <2>2 DEF Pending
  <2>. QED BY <1>1, <2>1, <2>3, MoreCounted
<1>7. CASE Fresh("classified", a) \notin messages
  <2>1. sent'["classified"][a] = sent["classified"][a] BY <1>2, <1>7, NumberedIs
  <2>2. Pending(a)' \subseteq Pending(a) BY <1>4, <1>5, <1>7, <2>1 DEF Pending
  <2>. QED BY <1>1, <2>1, <2>2, FewerCounted
<1>. QED BY <1>6, <1>7

\* A classified message goes from the queue to the incidents: a place for it there,
\* and one less that is under way.
LEMMA HandleAlertCounted ==
  ASSUME Shaped, Counted, NEW m \in queue["coordinator"], HandleAlert(m), NEW a \in Alerts
  PROVE  /\ IsFiniteSet(Places(a)')
         /\ Cardinality(Places(a)') + Cardinality(Pending(a)') <= sent'["classified"][a]
<1>1. /\ queue' = [queue EXCEPT !["coordinator"] = @ \ {m}] /\ m.kind = "classified"
      /\ Produce("coordinator", {Fresh("incident", m.alert)})
      /\ incidents' = Correlated(m.alert) /\ Take("coordinator", m)
  BY DEF HandleAlert, Take, Remaining, Report
<1>2. m.alert \in Alerts BY <1>1, TakeShape, ProcessesAre
<1>3. /\ queue'["coordinator"] = queue["coordinator"] \ {m}
      /\ buffer'["classifier"] = buffer["classifier"]
  BY <1>1, ProcessesAre DEF Shaped, TypeOK, Produce
<1>4. sent'["classified"][a] = sent["classified"][a]
  <2>1. "classified" \in Kinds /\ "incident" \in Kinds BY DEF Kinds
  <2>2. Fresh("classified", a) \notin {Fresh("incident", m.alert)} BY DEF Fresh, Msg
  <2>. QED BY <1>1, <2>1, <2>2, NumberedIs DEF Produce
<1>5. Pending(a)' \subseteq Pending(a) BY <1>3, <1>4 DEF Pending
<1>6. CASE a # m.alert
  <2>1. Places(a)' \subseteq Places(a) BY <1>1, <1>2, <1>6, CorrelatedPlaces
  <2>. QED BY <1>4, <1>5, <2>1, FewerCounted
<1>7. CASE a = m.alert
  <2>1. m = Msg("classified", a, m.copy) /\ m.copy \in Pending(a) BY <1>1, <1>7, PendingIs
  <2>2. m \notin buffer["classifier"] BY ProcessesAre DEF Shaped, Single
  <2>3. Pending(a)' \subseteq Pending(a) \ {m.copy}
    BY <1>3, <1>4, <2>1, <2>2 DEF Pending
  <2>4. PICK p : Places(a)' \subseteq Places(a) \cup {p} BY <1>1, <1>2, <1>7, CorrelatedPlaces
  <2>5. /\ IsFiniteSet(Places(a)) /\ IsFiniteSet(Pending(a)) /\ sent["classified"][a] \in Nat
        /\ Cardinality(Places(a)) + Cardinality(Pending(a)) <= sent["classified"][a]
    BY PendingIs DEF Counted
  <2>6. /\ Cardinality(Places(a)) \in Nat /\ Cardinality(Pending(a)) \in Nat
    BY <2>5, FS_CardinalityType
  <2>7. /\ IsFiniteSet(Places(a) \cup {p})
        /\ Cardinality(Places(a) \cup {p}) =
             IF p \in Places(a) THEN Cardinality(Places(a)) ELSE Cardinality(Places(a)) + 1
    BY <2>5, FS_AddElement
  <2>8. /\ IsFiniteSet(Pending(a) \ {m.copy})
        /\ Cardinality(Pending(a) \ {m.copy}) = Cardinality(Pending(a)) - 1
    BY <2>1, <2>5, FS_RemoveElement
  <2>9. /\ Cardinality(Places(a)') <= Cardinality(Places(a) \cup {p}) /\ IsFiniteSet(Places(a)')
    BY <2>4, <2>7, FS_Subset
  <2>10. /\ Cardinality(Pending(a)') <= Cardinality(Pending(a) \ {m.copy})
         /\ IsFiniteSet(Pending(a)')
    BY <2>3, <2>8, FS_Subset
  <2>11. /\ Cardinality(Places(a)') \in Nat /\ Cardinality(Pending(a)') \in Nat
    BY <2>9, <2>10, FS_CardinalityType
  <2>12. /\ Cardinality(Places(a)') <= Cardinality(Places(a)) + 1
         /\ Cardinality(Pending(a)') <= Cardinality(Pending(a)) - 1
    <3>1. Cardinality(Places(a) \cup {p}) <= Cardinality(Places(a)) + 1
      BY <2>6, <2>7
    <3>2. Cardinality(Places(a) \cup {p}) \in Nat BY <2>7, FS_CardinalityType
    <3>. QED BY <2>6, <2>8, <2>9, <2>10, <2>11, <3>1, <3>2
  <2>. QED BY <1>4, <2>5, <2>6, <2>9, <2>11, <2>12
<1>. QED BY <1>6, <1>7

\* A crash puts nothing new on its way: what the coordinator was given is in the
\* incidents, and they go with it.
LEMMA CrashCounted ==
  ASSUME Shaped, Counted, Shaped', NEW p \in Processes, Crash(p), NEW a \in Alerts
  PROVE  /\ IsFiniteSet(Places(a)')
         /\ Cardinality(Places(a)') + Cardinality(Pending(a)') <= sent'["classified"][a]
<1>1. sent' = sent BY DEF Crash
<1>2. CASE p = "coordinator"
  <2>1. Places(a)' = {} BY <1>2 DEF Crash, Places
  <2>2. sent'["classified"][a] \in Nat BY DEF Shaped, TypeOK, Kinds
  <2>3. /\ IsFiniteSet(1..sent'["classified"][a])
        /\ Cardinality(1..sent'["classified"][a]) = sent'["classified"][a]
    BY <1>1, <2>2, NumbersUpTo
  <2>4. Pending(a)' \in SUBSET (1..sent'["classified"][a]) BY DEF Pending
  <2>5. /\ Cardinality(Pending(a)') \in Nat
        /\ Cardinality(Pending(a)') <= sent'["classified"][a]
    BY <2>3, <2>4, FS_Subset, FS_CardinalityType
  <2>6. IsFiniteSet(Places(a)') /\ Cardinality(Places(a)') = 0 BY <2>1, FS_EmptySet
  <2>. QED BY <2>2, <2>5, <2>6
<1>3. CASE p # "coordinator"
  <2>1. incidents' = incidents BY <1>3 DEF Crash, memory
  <2>2. /\ queue'["coordinator"] = queue["coordinator"]
        /\ buffer'["classifier"] \subseteq buffer["classifier"]
    BY <1>3, ProcessesAre DEF Crash, Shaped, TypeOK
  <2>3. Places(a)' \subseteq Places(a) BY <2>1 DEF Places
  <2>4. Pending(a)' \subseteq Pending(a) BY <1>1, <2>2 DEF Pending
  <2>. QED BY <1>1, <2>3, <2>4, FewerCounted
<1>. QED BY <1>2, <1>3

\* The steps that hand a message on without a new one.
LEMMA OthersCounted ==
  ASSUME Shaped, Counted, NEW a \in Alerts,
         \/ \E m \in queue["coordinator"] : HandleStrategy(m)
         \/ \E p \in Processes : \E m \in buffer[p] : Deliver(p, m) \/ Expire(p, m)
         \/ \E p \in Processes : AutoCommit(p)
         \/ UNCHANGED vars
  PROVE  /\ IsFiniteSet(Places(a)')
         /\ Cardinality(Places(a)') + Cardinality(Pending(a)') <= sent'["classified"][a]
<1>1. incidents' = incidents /\ sent' = sent
  BY DEF HandleStrategy, Deliver, Expire, AutoCommit, vars, memory
<1>2. /\ queue \in [Processes -> SUBSET Message] /\ buffer \in [Processes -> SUBSET Message]
  BY DEF Shaped, TypeOK
<1>3. \A n : Msg("classified", a, n) \in queue'["coordinator"] \cup buffer'["classifier"] =>
             Msg("classified", a, n) \in queue["coordinator"] \cup buffer["classifier"]
  <2>1. CASE \E m \in queue["coordinator"] : HandleStrategy(m)
    BY <1>2, <2>1, ProcessesAre DEF HandleStrategy, Take, Remaining
  <2>2. ASSUME NEW p \in Processes, NEW m \in buffer[p], Deliver(p, m)
        PROVE  \A n : Msg("classified", a, n) \in queue'["coordinator"] \cup buffer'["classifier"] =>
                      Msg("classified", a, n) \in queue["coordinator"] \cup buffer["classifier"]
    <3>1. /\ \A x \in queue'["coordinator"] : x \in queue["coordinator"] \/ x = m
          /\ buffer'["classifier"] \subseteq buffer["classifier"]
      <4>1. Land(m) /\ buffer' = [buffer EXCEPT ![p] = @ \ {m}] BY <2>2 DEF Deliver
      <4>2. \A x \in queue'["coordinator"] : x \in queue["coordinator"] \/ x = m
        BY <4>1, ProcessesAre, LandShape
      <4>. QED BY <1>2, <4>1, <4>2, ProcessesAre
    <3>2. \A n : Msg("classified", a, n) = m => p = "classifier"
      <4>1. Writer(m) = p BY DEF Shaped, Routed
      <4>2. \A n : Msg("classified", a, n).kind = "classified" BY DEF Msg
      <4>. QED BY <4>1, <4>2 DEF Writer
    <3>. QED BY <3>1, <3>2
  <2>3. CASE \E p \in Processes : \E m \in buffer[p] : Expire(p, m)
    BY <1>2, <2>3, ProcessesAre DEF Expire
  <2>4. CASE \/ \E p \in Processes : AutoCommit(p)
             \/ UNCHANGED vars
    BY <2>4 DEF AutoCommit, vars
  <2>. QED BY <2>1, <2>2, <2>3, <2>4
<1>4. Places(a)' \subseteq Places(a) BY <1>1 DEF Places
<1>5. Pending(a)' \subseteq Pending(a) BY <1>1, <1>3 DEF Pending
<1>. QED BY <1>1, <1>4, <1>5, FewerCounted

\* The steps that bring a new message on its way.
LEMMA NewCounted ==
  ASSUME Shaped, Counted, NEW a \in Alerts,
         \/ \E b \in Alerts : Raise(b)
         \/ \E m \in queue["classifier"] : Classify(m)
         \/ \E p \in Processes : \E m \in buffer[p] : Resend(p, m)
  PROVE  /\ IsFiniteSet(Places(a)')
         /\ Cardinality(Places(a)') + Cardinality(Pending(a)') <= sent'["classified"][a]
<1>1. /\ queue \in [Processes -> SUBSET Message] /\ buffer \in [Processes -> SUBSET Message]
  BY DEF Shaped, TypeOK
<1>2. incidents' = incidents BY DEF Raise, Classify, Resend, memory
<1>3. \A k, b : Fresh(k, b).kind = k /\ Fresh(k, b).alert = b BY DEF Fresh, Msg
<1>. DEFINE Small(messages) ==
       /\ sent' = Numbered(messages)
       /\ \A x \in messages : x = Fresh(x.kind, x.alert)
       /\ \A x \in queue'["coordinator"] \cup buffer'["classifier"] : x.kind = "classified" =>
             x \in queue["coordinator"] \cup buffer["classifier"] \cup messages
<1>4. ASSUME NEW b \in Alerts, Raise(b)
      PROVE  Small({Fresh("raw", b)} \cup {Fresh("strategy", c) : c \in {b} \cap Proposes})
  <2>. DEFINE new == {Fresh("raw", b)} \cup {Fresh("strategy", c) : c \in {b} \cap Proposes}
  <2>1. \A x \in new : x = Fresh(x.kind, x.alert) BY <1>3
  <2>2. /\ buffer' = [buffer EXCEPT ![Source[b]] = @ \cup new]
        /\ queue' = queue /\ sent' = Numbered(new)
    BY <1>4 DEF Raise, Produce
  <2>. HIDE DEF new
  <2>3. \A q \in Processes : buffer'[q] \subseteq buffer[q] \cup new BY <1>1, <2>2
  <2>4. Small(new) BY <2>1, <2>2, <2>3, ProcessesAre
  <2>. QED BY <2>4 DEF new
<1>5. ASSUME NEW m \in queue["classifier"], Classify(m)
      PROVE  Small({Fresh("classified", m.alert)})
  <2>. DEFINE out == Fresh("classified", m.alert)
  <2>1. out = Fresh(out.kind, out.alert) BY <1>3
  <2>2. /\ buffer' = [buffer EXCEPT !["classifier"] = @ \cup {out}]
        /\ queue' = [queue EXCEPT !["classifier"] = @ \ {m}] /\ sent' = Numbered({out})
    BY <1>5 DEF Classify, Take, Remaining, Produce
  <2>. HIDE DEF out
  <2>3. Small({out}) BY <1>1, <2>1, <2>2, ProcessesAre
  <2>. QED BY <2>3 DEF out
<1>6. ASSUME NEW p \in Processes, NEW m \in buffer[p], Resend(p, m)
      PROVE  Small({Fresh(m.kind, m.alert)})
  <2>. DEFINE again == Fresh(m.kind, m.alert)
  <2>1. again = Fresh(again.kind, again.alert) BY <1>3
  <2>2. /\ buffer' = [buffer EXCEPT ![p] = (@ \ {m}) \cup {again}]
        /\ Land(m) /\ sent' = Numbered({again})
    BY <1>6 DEF Resend
  <2>. HIDE DEF again
  <2>3. \A q \in Processes : buffer'[q] \subseteq buffer[q] \cup {again} BY <1>1, <2>2
  <2>4. \A x \in queue'["coordinator"] :
          x \in queue["coordinator"] \/ (x = m /\ <<"coordinator", m.kind>> \in Subscribed)
    BY <2>2, ProcessesAre, LandShape
  <2>5. Small({again})
    <3>1. m.kind = "classified" => m \in buffer["classifier"]
      BY DEF Shaped, Routed, Writer
    <3>. QED BY <2>1, <2>2, <2>3, <2>4, <3>1
  <2>. QED BY <2>5 DEF again
<1>7. ASSUME NEW messages, Small(messages)
      PROVE  /\ IsFiniteSet(Places(a)')
             /\ Cardinality(Places(a)') + Cardinality(Pending(a)') <= sent'["classified"][a]
  BY <1>2, <1>7, NumberedCounted
<1>. HIDE DEF Small
<1>. QED BY <1>4, <1>5, <1>6, <1>7

LEMMA NextCounted == Shaped /\ Counted /\ Shaped' /\ [Next]_vars => Counted'
<1>. SUFFICES ASSUME Shaped, Counted, Shaped', [Next]_vars, NEW a \in Alerts
     PROVE  /\ IsFiniteSet(Places(a)')
            /\ Cardinality(Places(a)') + Cardinality(Pending(a)') <= sent'["classified"][a]
  BY DEF Counted
<1>1. CASE \E m \in queue["coordinator"] : HandleAlert(m) BY <1>1, HandleAlertCounted
<1>2. CASE \E p \in Processes : Crash(p) BY <1>2, CrashCounted
<1>. QED BY <1>1, <1>2, OthersCounted, NewCounted DEF Next

-----------------------------------------------------------------------------
\* Until a process crashes or a message is sent again, an alert has one raw message,
\* and it is classified once: after that no raw message of it is under way.
Once ==
  crashes = 0 /\ resends = 0 =>
     \A a \in Alerts :
        /\ sent["raw"][a] <= 1 /\ sent["classified"][a] <= 1
        /\ a \notin raised => sent["raw"][a] = 0 /\ sent["classified"][a] = 0
        /\ \A p \in Processes : \A m \in queue[p] \cup buffer[p] :
             m.kind = "raw" /\ m.alert = a => sent["classified"][a] = 0

LEMMA InitOnce == Init => Once
<1>. SUFFICES ASSUME Init PROVE Once
  OBVIOUS
<1>. QED BY DEF Init, Once, Empty, Kinds

\* A raw message that is the only one of its alert.
LEMMA OnlyRaw ==
  ASSUME Shaped, NEW a \in Alerts, sent["raw"][a] <= 1,
         NEW p \in Processes, NEW m \in queue[p] \cup buffer[p],
         m.kind = "raw", m.alert = a
  PROVE  m = Msg("raw", a, 1)
<1>1. m \in Message /\ sent["raw"][a] \in Nat BY DEF Shaped, TypeOK, Kinds
<1>2. m.copy <= sent["raw"][a] BY DEF Shaped, Known
<1>3. m.copy \in Nat /\ m.copy # 0 BY <1>1 DEF Message
<1>4. m.copy = 1 BY <1>1, <1>2, <1>3
<1>. QED BY <1>1, <1>4 DEF Message, Msg

LEMMA NextOnce == Shaped /\ Once /\ [Next]_vars => Once'
<1>. SUFFICES ASSUME Shaped, Once, [Next]_vars, crashes' = 0, resends' = 0, NEW a \in Alerts
     PROVE  /\ sent'["raw"][a] <= 1 /\ sent'["classified"][a] <= 1
            /\ a \notin raised' => sent'["raw"][a] = 0 /\ sent'["classified"][a] = 0
            /\ \A p \in Processes : \A m \in queue'[p] \cup buffer'[p] :
                 m.kind = "raw" /\ m.alert = a => sent'["classified"][a] = 0
  BY DEF Once
<1>1. /\ queue \in [Processes -> SUBSET Message] /\ buffer \in [Processes -> SUBSET Message]
      /\ crashes \in Nat /\ resends \in Nat
      /\ "raw" \in Kinds /\ "classified" \in Kinds
  BY DEF Shaped, TypeOK, Kinds
<1>2. \A k \in Kinds, b \in Alerts : sent[k][b] \in Nat BY DEF Shaped, TypeOK
<1>3. \A p \in Processes : ~Crash(p) BY <1>1 DEF Crash
<1>4. \A p, m : ~Resend(p, m) BY <1>1 DEF Resend
<1>5. crashes = 0 /\ resends = 0
  BY <1>3, <1>4
     DEF Next, vars, faults, Raise, Classify, HandleAlert, HandleStrategy, Deliver, Expire, AutoCommit
<1>6. /\ sent["raw"][a] <= 1 /\ sent["classified"][a] <= 1
      /\ a \notin raised => sent["raw"][a] = 0 /\ sent["classified"][a] = 0
      /\ \A p \in Processes : \A m \in queue[p] \cup buffer[p] :
           m.kind = "raw" /\ m.alert = a => sent["classified"][a] = 0
  BY <1>5 DEF Once
<1>7. \A k, b : Fresh(k, b).kind = k /\ Fresh(k, b).alert = b
  BY DEF Fresh, Msg
<1>8. ASSUME raised' = raised, sent'["raw"][a] = sent["raw"][a],
             sent'["classified"][a] = sent["classified"][a],
             \A p \in Processes : \A m \in queue'[p] \cup buffer'[p] : m.kind = "raw" =>
                \E q \in Processes : m \in queue[q] \cup buffer[q]
      PROVE  /\ sent'["raw"][a] <= 1 /\ sent'["classified"][a] <= 1
             /\ a \notin raised' => sent'["raw"][a] = 0 /\ sent'["classified"][a] = 0
             /\ \A p \in Processes : \A m \in queue'[p] \cup buffer'[p] :
                  m.kind = "raw" /\ m.alert = a => sent'["classified"][a] = 0
  BY <1>6, <1>8
<1>9. ASSUME NEW b \in Alerts, Raise(b)
      PROVE  /\ sent'["raw"][a] <= 1 /\ sent'["classified"][a] <= 1
             /\ a \notin raised' => sent'["raw"][a] = 0 /\ sent'["classified"][a] = 0
             /\ \A p \in Processes : \A m \in queue'[p] \cup buffer'[p] :
                  m.kind = "raw" /\ m.alert = a => sent'["classified"][a] = 0
  <2>. DEFINE new == {Fresh("raw", b)} \cup {Fresh("strategy", c) : c \in {b} \cap Proposes}
  <2>1. \A x \in new : x.alert = b /\ x.kind # "classified" BY <1>7
  <2>2. Fresh("classified", a) \notin new /\ (a # b => Fresh("raw", a) \notin new)
    BY <1>7, <2>1
  <2>3. Fresh("raw", b) \in new OBVIOUS
  <2>4. /\ buffer' = [buffer EXCEPT ![Source[b]] = @ \cup new] /\ b \notin raised
        /\ queue' = queue /\ sent' = Numbered(new) /\ raised' = raised \cup {b}
    BY <1>9 DEF Raise, Produce
  <2>. HIDE DEF new
  <2>5. \A q \in Processes : buffer'[q] \subseteq buffer[q] \cup new BY <1>1, <2>4
  <2>6. sent'["classified"][a] = sent["classified"][a] BY <1>1, <2>2, <2>4, NumberedIs
  <2>7. CASE a = b
    <3>1. sent'["raw"][a] = sent["raw"][a] + 1 BY <1>1, <2>3, <2>4, <2>7, NumberedIs
    <3>2. sent["raw"][a] = 0 /\ sent["classified"][a] = 0 BY <1>6, <2>4, <2>7
    <3>. QED BY <2>4, <2>6, <2>7, <3>1, <3>2
  <2>8. CASE a # b
    <3>1. sent'["raw"][a] = sent["raw"][a] BY <1>1, <2>2, <2>4, <2>8, NumberedIs
    <3>. QED BY <1>6, <2>1, <2>4, <2>5, <2>6, <2>8, <3>1
  <2>. QED BY <2>7, <2>8
<1>10. ASSUME NEW m \in queue["classifier"], Classify(m)
       PROVE  /\ sent'["raw"][a] <= 1 /\ sent'["classified"][a] <= 1
              /\ a \notin raised' => sent'["raw"][a] = 0 /\ sent'["classified"][a] = 0
              /\ \A p \in Processes : \A x \in queue'[p] \cup buffer'[p] :
                   x.kind = "raw" /\ x.alert = a => sent'["classified"][a] = 0
  <2>. DEFINE b   == m.alert
              out == Fresh("classified", b)
  <2>1. m.kind = "raw"
    <3>1. Routed BY DEF Shaped
    <3>2. <<"classifier", m.kind>> \in Subscribed BY <3>1, ProcessesAre DEF Routed
    <3>. QED BY <3>2, SubscribedIs
  <2>2. b \in Alerts /\ b \in raised
    BY <1>10, TakeShape, ProcessesAre DEF Classify
  <2>3. /\ buffer' = [buffer EXCEPT !["classifier"] = @ \cup {out}]
        /\ queue' = [queue EXCEPT !["classifier"] = @ \ {m}]
        /\ sent' = Numbered({out}) /\ raised' = raised
    BY <1>10 DEF Classify, Take, Remaining, Produce
  <2>4. out.kind = "classified" /\ out.alert = b BY <1>7
  <2>5. Fresh("raw", a) # out /\ (a # b => Fresh("classified", a) # out)
    BY <1>7, <2>4
  <2>6. sent'["raw"][a] = sent["raw"][a] BY <1>1, <2>3, <2>5, NumberedIs
  <2>7. \A q \in Processes : \A x \in queue'[q] \cup buffer'[q] : x.kind = "raw" =>
          x \in queue[q] \cup buffer[q] /\ ~(q = "classifier" /\ x = m /\ x \in queue'[q])
    <3>. HIDE DEF out
    <3>1. \A q \in Processes : buffer'[q] \subseteq buffer[q] \cup {out} BY <1>1, <2>3
    <3>2. /\ \A q \in Processes : queue'[q] \subseteq queue[q]
          /\ m \notin queue'["classifier"]
      BY <1>1, <2>3, ProcessesAre
    <3>. QED BY <2>4, <3>1, <3>2
  <2>8. CASE a # b
    <3>1. sent'["classified"][a] = sent["classified"][a] BY <1>1, <2>3, <2>5, <2>8, NumberedIs
    <3>. QED BY <1>8, <2>3, <2>6, <2>7, <3>1
  <2>9. CASE a = b
    <3>1. sent["classified"][a] = 0 BY <1>6, <2>1, <2>9, ProcessesAre
    <3>2. sent'["classified"][a] = sent["classified"][a] + 1
      BY <1>1, <2>2, <2>3, <2>9, NumberedIs
    <3>3. m = Msg("raw", a, 1) BY <1>6, <2>1, <2>9, ProcessesAre, OnlyRaw
    <3>4. ASSUME NEW q \in Processes, NEW x \in queue'[q] \cup buffer'[q],
                 x.kind = "raw", x.alert = a
          PROVE  FALSE
      <4>1. x \in queue[q] \cup buffer[q] BY <2>7, <3>4
      <4>2. x = m BY <1>6, <3>3, <3>4, <4>1, OnlyRaw
      <4>3. x \notin buffer[q] BY <4>2, ProcessesAre DEF Shaped, Single
      <4>4. q = "classifier"
        <5>1. <<q, "raw">> \in Subscribed BY <3>4, <4>1, <4>3 DEF Shaped, Routed
        <5>. QED BY <5>1, SubscribedIs
      <4>5. x \notin buffer'[q]
        <5>. HIDE DEF out
        <5>1. buffer'[q] = buffer[q] \cup {out} BY <1>1, <2>3, <4>4
        <5>. QED BY <2>4, <3>4, <4>3, <5>1
      <4>. QED BY <2>7, <3>4, <4>2, <4>4, <4>5
    <3>5. sent'["raw"][a] <= 1 /\ sent'["classified"][a] <= 1
      BY <1>6, <2>6, <3>1, <3>2
    <3>6. a \in raised' BY <2>2, <2>3, <2>9
    <3>. QED BY <3>4, <3>5, <3>6
  <2>. QED BY <2>8, <2>9
<1>11. ASSUME NEW m \in queue["coordinator"], HandleAlert(m)
       PROVE  /\ raised' = raised /\ sent'["raw"][a] = sent["raw"][a]
              /\ sent'["classified"][a] = sent["classified"][a]
              /\ \A p \in Processes : \A x \in queue'[p] \cup buffer'[p] : x.kind = "raw" =>
                   \E q \in Processes : x \in queue[q] \cup buffer[q]
  <2>. DEFINE out == Fresh("incident", m.alert)
  <2>1. out.kind = "incident" BY <1>7
  <2>2. /\ buffer' = [buffer EXCEPT !["coordinator"] = @ \cup {out}]
        /\ queue' = [queue EXCEPT !["coordinator"] = @ \ {m}]
        /\ sent' = Numbered({out}) /\ raised' = raised
    BY <1>11 DEF HandleAlert, Take, Remaining, Produce, Report
  <2>3. Fresh("raw", a) # out /\ Fresh("classified", a) # out BY <1>7, <2>1
  <2>4. sent'["raw"][a] = sent["raw"][a] /\ sent'["classified"][a] = sent["classified"][a]
    BY <1>1, <2>2, <2>3, NumberedIs
  <2>. HIDE DEF out
  <2>5. \A q \in Processes : /\ buffer'[q] \subseteq buffer[q] \cup {out}
                             /\ queue'[q] \subseteq queue[q]
    BY <1>1, <2>2
  <2>. QED BY <2>1, <2>2, <2>4, <2>5
<1>12. CASE \/ \E m \in queue["coordinator"] : HandleStrategy(m)
            \/ \E p \in Processes : \E m \in buffer[p] : Deliver(p, m) \/ Expire(p, m)
            \/ \E p \in Processes : AutoCommit(p)
            \/ UNCHANGED vars
  <2>1. raised' = raised /\ sent' = sent
    BY <1>12 DEF HandleStrategy, Deliver, Expire, AutoCommit, vars
  <2>2. \A p \in Processes : \A x \in queue'[p] \cup buffer'[p] :
          \E q \in Processes : x \in queue[q] \cup buffer[q]
    <3>1. CASE \E m \in queue["coordinator"] : HandleStrategy(m)
      BY <1>1, <3>1 DEF HandleStrategy, Take, Remaining
    <3>2. ASSUME NEW p \in Processes, NEW m \in buffer[p], Deliver(p, m)
          PROVE  \A r \in Processes : \A x \in queue'[r] \cup buffer'[r] :
                   \E q \in Processes : x \in queue[q] \cup buffer[q]
      <4>1. Land(m) /\ buffer' = [buffer EXCEPT ![p] = @ \ {m}] BY <3>2 DEF Deliver
      <4>2. \A r \in Processes : \A x \in queue'[r] : x \in queue[r] \/ x = m
        BY <4>1, LandShape
      <4>. QED BY <1>1, <4>1, <4>2
    <3>3. CASE \E p \in Processes : \E m \in buffer[p] : Expire(p, m)
      BY <1>1, <3>3 DEF Expire
    <3>4. CASE (\E p \in Processes : AutoCommit(p)) \/ UNCHANGED vars
      BY <3>4 DEF AutoCommit, vars
    <3>. QED BY <1>12, <3>1, <3>2, <3>3, <3>4
  <2>. QED BY <1>8, <2>1, <2>2
<1>13. CASE \E m \in queue["coordinator"] : HandleAlert(m) BY <1>8, <1>11, <1>13
<1>. QED BY <1>3, <1>4, <1>9, <1>10, <1>12, <1>13 DEF Next

\* A classified message enters the incidents once at most, and an alert twice only
\* after a crash or a second sending, for every set of alerts and any number of faults.
THEOREM NothingCountsTwice == Spec => []NoDoubleCounting
<1>1. Shaped /\ Counted /\ Once => NoDoubleCounting
  <2>. SUFFICES ASSUME Shaped, Counted, Once, NEW a \in Alerts
       PROVE  /\ Occurrences(a) <= sent["classified"][a]
              /\ Occurrences(a) > 1 => crashes + resends > 0
    BY DEF NoDoubleCounting
  <2>1. IsFiniteSet(Places(a)) /\ Cardinality(Pending(a)) \in Nat
    BY PendingIs DEF Counted
  <2>2. /\ Cardinality(Places(a)) \in Nat /\ sent["classified"][a] \in Nat
        /\ Cardinality(Places(a)) + Cardinality(Pending(a)) <= sent["classified"][a]
    BY <2>1, FS_CardinalityType, PendingIs DEF Counted
  <2>3. Occurrences(a) \in Nat /\ Occurrences(a) <= sent["classified"][a]
    BY <2>1, <2>2 DEF Occurrences
  <2>4. crashes \in Nat /\ resends \in Nat BY DEF Shaped, TypeOK
  <2>5. crashes = 0 /\ resends = 0 => sent["classified"][a] <= 1 BY DEF Once
  <2>. QED BY <2>2, <2>3, <2>4, <2>5
<1>. QED BY <1>1, InitShaped, InitCounted, InitOnce, NextShaped, NextCounted, NextOnce, PTL
     DEF Spec

-----------------------------------------------------------------------------
\* What it takes to match an incident: to be no later than the window after its last
\* alert, and to show an actor of it or the class of its first.
LEMMA MatchesIs ==
  ASSUME NEW inc \in Seq(Alerts), inc # <<>>, NEW a \in Alerts
  PROVE  /\ Time[a] \in Nat /\ Time[inc[Len(inc)]] \in Nat
         /\ inc[1] \in ToSet(inc) /\ inc[Len(inc)] \in ToSet(inc)
         /\ SharesActor(a, inc) <=> \E j \in 1..Len(inc) : SameActor(a, inc[j])
         /\ Matches(a, inc) <=>
              LET age == Time[a] - Time[inc[Len(inc)]]
              IN  /\ age <= 300
                  /\ \/ \E j \in 1..Len(inc) : SameActor(a, inc[j])
                     \/ Class[a] = Class[inc[1]] /\ age < 150
<1>1. /\ Len(inc) \in Nat /\ Len(inc) >= 1 /\ DOMAIN inc = 1..Len(inc)
      /\ inc[Len(inc)] \in Alerts /\ Head(inc) = inc[1]
  OBVIOUS
<1>2. /\ Time[a] \in Nat /\ Time[inc[Len(inc)]] \in Nat
      /\ inc[1] \in ToSet(inc) /\ inc[Len(inc)] \in ToSet(inc)
  <2>1. Time[a] \in Nat /\ Time[inc[Len(inc)]] \in Nat BY <1>1, CoordinatorAssumption
  <2>2. 1 \in DOMAIN inc /\ Len(inc) \in DOMAIN inc BY <1>1
  <2>. QED BY <2>1, <2>2 DEF ToSet
<1>3. SharesActor(a, inc) <=> \E j \in 1..Len(inc) : SameActor(a, inc[j])
  BY <1>1 DEF SharesActor, Ips, Users, ToSet, SameActor
<1>. DEFINE age == Time[a] - Time[inc[Len(inc)]]
<1>4. Age(a, inc) = age BY DEF Age, LastSeen, Last
<1>5. 2 * age < 300 <=> age < 150 BY <1>2
<1>. HIDE DEF age
<1>6. Matches(a, inc) <=>
        /\ age <= 300
        /\ \/ \E j \in 1..Len(inc) : SameActor(a, inc[j])
           \/ Class[a] = Class[inc[1]] /\ age < 150
  BY <1>1, <1>3, <1>4, <1>5 DEF Matches, CORRELATION_WINDOW
<1>. QED BY <1>2, <1>3, <1>6 DEF age

\* An alert at the end of an incident: what was there stays where it was.
LEMMA LongerIs ==
  ASSUME NEW inc \in Seq(Alerts), inc # <<>>, NEW a \in Alerts
  PROVE  /\ DOMAIN Append(inc, a) = 1..(Len(inc) + 1) /\ DOMAIN inc = 1..Len(inc)
         /\ Len(inc) \in Nat /\ Len(inc) >= 1
         /\ Append(inc, a)[Len(inc) + 1] = a
         /\ \A j \in 1..Len(inc) : Append(inc, a)[j] = inc[j] /\ inc[j] \in Alerts
         /\ Append(inc, a)[1] = inc[1]
         /\ ToSet(Append(inc, a)) = ToSet(inc) \cup {a}
BY DEF ToSet

\* An alert that matches an incident belongs at its end.
LEMMA MatchHangs ==
  ASSUME NEW inc \in Seq(Alerts), inc # <<>>, NEW a \in Alerts, Matches(a, inc),
         HangsTogether(inc)
  PROVE  HangsTogether(Append(inc, a))
<1>. DEFINE longer == Append(inc, a)
            n == Len(inc)
<1>1. /\ DOMAIN longer = 1..(n + 1) /\ DOMAIN inc = 1..n /\ n \in Nat /\ n >= 1
      /\ longer[n + 1] = a /\ longer[1] = inc[1]
      /\ \A j \in 1..n : longer[j] = inc[j] /\ inc[j] \in Alerts
  BY LongerIs
<1>2. /\ Time[a] - Time[inc[n]] <= 300
      /\ \/ \E j \in 1..n : SameActor(a, inc[j])
         \/ Class[a] = Class[inc[1]] /\ Time[a] - Time[inc[n]] < 150
  BY MatchesIs
<1>. HIDE DEF longer, n
<1>3. Time[a] \in Nat /\ \A j \in 1..n : Time[inc[j]] \in Nat BY <1>1, CoordinatorAssumption
<1>4. ASSUME NEW k \in 1..(n + 1), NEW j \in 1..k
      PROVE  Time[longer[k]] - Time[longer[j]] <= 300 * (k - j)
  <2>1. CASE k \in 1..n
    <3>1. j \in 1..n BY <1>1, <2>1
    <3>2. Time[inc[k]] - Time[inc[j]] <= 300 * (k - j) BY <1>1, <2>1 DEF HangsTogether
    <3>. QED BY <1>1, <2>1, <3>1, <3>2
  <2>2. CASE k = n + 1 /\ j \in 1..n
    <3>1. n \in DOMAIN inc BY <1>1
    <3>2. Time[inc[n]] - Time[inc[j]] <= 300 * (n - j) BY <2>2, <3>1 DEF HangsTogether
    <3>3. longer[k] = a /\ longer[j] = inc[j] BY <1>1, <2>2
    <3>4. Time[inc[n]] \in Nat /\ Time[inc[j]] \in Nat BY <1>1, <1>3, <2>2
    <3>5. Time[a] - Time[inc[j]] <= 300 + 300 * (n - j)
      <4>. DEFINE d == 300 * (n - j)
      <4>1. d \in Int /\ Time[inc[n]] - Time[inc[j]] <= d BY <1>1, <2>2, <3>2
      <4>2. Time[a] - Time[inc[n]] <= 300 /\ Time[a] \in Nat BY <1>2, <1>3
      <4>. HIDE DEF d
      <4>3. Time[a] - Time[inc[j]] <= 300 + d BY <3>4, <4>1, <4>2
      <4>. QED BY <4>3 DEF d
    <3>6. 300 + 300 * (n - j) = 300 * (k - j) BY <1>1, <2>2
    <3>. QED BY <3>3, <3>5, <3>6
  <2>3. CASE k = n + 1 /\ j = n + 1
    <3>1. Time[longer[k]] = Time[a] /\ Time[longer[j]] = Time[a] BY <1>1, <2>3
    <3>2. 300 * (k - j) = 0 BY <1>1, <2>3
    <3>. QED BY <1>3, <3>1, <3>2
  <2>. QED BY <1>1, <2>1, <2>2, <2>3
<1>5. ASSUME NEW k \in (1..(n + 1)) \ {1}
      PROVE  \/ \E j \in 1..(k - 1) : SameActor(longer[k], longer[j])
             \/ Class[longer[k]] = Class[longer[1]] /\ Time[longer[k]] - Time[longer[k - 1]] < 150
  <2>1. CASE k \in 1..n
    <3>1. \/ \E j \in 1..(k - 1) : SameActor(inc[k], inc[j])
          \/ Class[inc[k]] = Class[inc[1]] /\ Time[inc[k]] - Time[inc[k - 1]] < 150
      BY <1>1, <1>5, <2>1 DEF HangsTogether
    <3>2. longer[k] = inc[k] /\ \A j \in 1..(k - 1) : longer[j] = inc[j] BY <1>1, <2>1
    <3>3. k - 1 \in 1..(k - 1) BY <1>1, <1>5, <2>1
    <3>. QED BY <1>1, <3>1, <3>2, <3>3
  <2>2. CASE k = n + 1
    <3>1. k - 1 = n /\ longer[k] = a /\ longer[k - 1] = inc[n] BY <1>1, <2>2
    <3>. QED BY <1>1, <1>2, <3>1
  <2>. QED BY <1>1, <2>1, <2>2
<1>6. HangsTogether(longer) BY <1>1, <1>4, <1>5 DEF HangsTogether
<1>. QED BY <1>6 DEF longer

\* An alert that does not match an incident is kept apart from it for a reason.
LEMMA NoMatchApart ==
  ASSUME NEW inc \in Seq(Alerts), inc # <<>>, NEW a \in Alerts, ~Matches(a, inc)
  PROVE  /\ SameActor(a, inc[1]) => \E c \in ToSet(inc) : Time[a] - Time[c] > 300
         /\ Class[a] = Class[inc[1]] => \E c \in ToSet(inc) : Time[a] - Time[c] >= 150
<1>. DEFINE c == inc[Len(inc)]
<1>1. /\ Time[a] \in Nat /\ Time[c] \in Nat /\ c \in ToSet(inc) /\ 1 \in 1..Len(inc)
      /\ ~(/\ Time[a] - Time[c] <= 300
           /\ \/ \E j \in 1..Len(inc) : SameActor(a, inc[j])
              \/ Class[a] = Class[inc[1]] /\ Time[a] - Time[c] < 150)
  BY MatchesIs, LongerIs
<1>. HIDE DEF c
<1>2. SameActor(a, inc[1]) => Time[a] - Time[c] > 300 BY <1>1
<1>3. Class[a] = Class[inc[1]] => Time[a] - Time[c] >= 150 BY <1>1
<1>. QED BY <1>1, <1>2, <1>3

LEMMA CorrelatedHangs ==
  ASSUME Shaped, IncidentsHangTogether, NEW a \in Alerts, incidents' = Correlated(a)
  PROVE  IncidentsHangTogether'
<1>1. /\ incidents \in Seq(Seq(Alerts))
      /\ \A i \in DOMAIN incidents : incidents[i] \in Seq(Alerts) /\ incidents[i] # <<>>
  BY DEF Shaped, TypeOK, Opened
<1>2. \A i \in DOMAIN incidents :
        /\ HangsTogether(incidents[i])
        /\ \A j \in DOMAIN incidents : i < j => KeptApart(incidents[i], incidents[j])
  BY DEF IncidentsHangTogether
<1>3. CASE /\ Correlated(a) = Append(incidents, <<a>>)
           /\ \A j \in DOMAIN incidents : ~Matches(a, incidents[j])
  <2>. DEFINE n == Len(incidents) + 1
  <2>1. /\ \A i \in DOMAIN incidents' : i \in DOMAIN incidents \/ i = n
        /\ \A i \in DOMAIN incidents : incidents'[i] = incidents[i] /\ i < n
        /\ incidents'[n] = <<a>> /\ n \in Nat
    BY <1>1, <1>3
  <2>2. HangsTogether(<<a>>)
    <3>1. DOMAIN <<a>> = {1} /\ <<a>>[1] = a /\ 1..1 = {1} /\ Time[a] \in Nat
      BY CoordinatorAssumption
    <3>. QED BY <3>1 DEF HangsTogether
  <2>3. \A i \in DOMAIN incidents : KeptApart(incidents[i], <<a>>)
    <3>1. ToSet(<<a>>) = {a} BY DEF ToSet
    <3>2. ASSUME NEW i \in DOMAIN incidents
          PROVE  /\ SameActor(a, incidents[i][1]) =>
                      \E c \in ToSet(incidents[i]) : Time[a] - Time[c] > 300
                 /\ Class[a] = Class[incidents[i][1]] =>
                      \E c \in ToSet(incidents[i]) : Time[a] - Time[c] >= 150
      BY <1>1, <1>3, NoMatchApart
    <3>. QED BY <3>1, <3>2 DEF KeptApart
  <2>. HIDE DEF n
  <2>4. ~(n < n) BY <2>1
  <2>5. \A i \in DOMAIN incidents : ~(n < i)
    <3>1. \A i \in DOMAIN incidents : i \in Nat BY <1>1
    <3>. QED BY <2>1, <3>1
  <2>. QED BY <1>2, <2>1, <2>2, <2>3, <2>4, <2>5 DEF IncidentsHangTogether
<1>4. ASSUME NEW n \in DOMAIN incidents, Matches(a, incidents[n]),
             Correlated(a) = [incidents EXCEPT ![n] = Append(@, a)],
             \A j \in DOMAIN incidents : j < n => ~Matches(a, incidents[j])
      PROVE  IncidentsHangTogether'
  <2>. DEFINE longer == Append(incidents[n], a)
  <2>1. /\ DOMAIN incidents' = DOMAIN incidents /\ incidents'[n] = longer
        /\ \A j \in DOMAIN incidents : j # n => incidents'[j] = incidents[j]
    BY <1>1, <1>4
  <2>2. ToSet(longer) = ToSet(incidents[n]) \cup {a} /\ longer[1] = incidents[n][1]
    BY <1>1, LongerIs
  <2>3. HangsTogether(longer) BY <1>1, <1>2, <1>4, MatchHangs
  <2>. HIDE DEF longer
  <2>4. \A j \in DOMAIN incidents : n < j => KeptApart(longer, incidents[j])
    BY <1>2, <2>2 DEF KeptApart
  <2>5. \A i \in DOMAIN incidents : i < n => KeptApart(incidents[i], longer)
    <3>. SUFFICES ASSUME NEW i \in DOMAIN incidents, i < n, NEW b \in ToSet(longer)
         PROVE  /\ SameActor(b, incidents[i][1]) =>
                     \E c \in ToSet(incidents[i]) : Time[b] - Time[c] > 300
                /\ Class[b] = Class[incidents[i][1]] =>
                     \E c \in ToSet(incidents[i]) : Time[b] - Time[c] >= 150
      BY DEF KeptApart
    <3>1. CASE b \in ToSet(incidents[n])
      <4>1. KeptApart(incidents[i], incidents[n]) BY <1>2
      <4>. QED BY <3>1, <4>1 DEF KeptApart
    <3>2. CASE b = a
      <4>1. ~Matches(a, incidents[i]) BY <1>4
      <4>. QED BY <1>1, <3>2, <4>1, NoMatchApart
    <3>. QED BY <2>2, <3>1, <3>2
  <2>6. n \in Nat /\ ~(n < n) BY <1>1
  <2>7. ASSUME NEW i \in DOMAIN incidents'
        PROVE  /\ HangsTogether(incidents'[i])
               /\ \A j \in DOMAIN incidents' : i < j => KeptApart(incidents'[i], incidents'[j])
    <3>1. CASE i = n BY <1>2, <2>1, <2>3, <2>4, <2>6, <3>1
    <3>2. CASE i # n BY <1>2, <2>1, <2>5, <3>2
    <3>. QED BY <3>1, <3>2
  <2>. QED BY <2>7 DEF IncidentsHangTogether
<1>. QED BY <1>3, <1>4, CorrelatedIs

LEMMA NextHangs == Shaped /\ IncidentsHangTogether /\ [Next]_vars => IncidentsHangTogether'
<1>. SUFFICES ASSUME Shaped, IncidentsHangTogether, [Next]_vars PROVE IncidentsHangTogether'
  OBVIOUS
<1>1. CASE \E m \in queue["coordinator"] : HandleAlert(m)
  <2>1. PICK m \in queue["coordinator"] : HandleAlert(m) BY <1>1
  <2>2. incidents' = Correlated(m.alert) /\ Take("coordinator", m) BY <2>1 DEF HandleAlert
  <2>3. m.alert \in Alerts BY <2>2, TakeShape, ProcessesAre
  <2>. QED BY <2>2, <2>3, CorrelatedHangs
<1>2. CASE \E p \in Processes : Crash(p)
  <2>1. incidents' = incidents \/ DOMAIN incidents' = {} BY <1>2 DEF Crash, memory
  <2>. QED BY <2>1 DEF IncidentsHangTogether
<1>3. CASE incidents' = incidents BY <1>3 DEF IncidentsHangTogether
<1>4. \/ \E m \in queue["coordinator"] : HandleAlert(m)
      \/ \E p \in Processes : Crash(p)
      \/ incidents' = incidents
  BY DEF Next, vars, memory, Raise, Classify, HandleStrategy, Deliver, Resend, Expire, AutoCommit
<1>. QED BY <1>1, <1>2, <1>3, <1>4

\* In every arrival order of every set of alerts, what is in an incident hangs together,
\* and what was kept out of it came too late for it.
THEOREM IncidentsAreSound == Spec => []IncidentsHangTogether
<1>1. Init => IncidentsHangTogether
  <2>1. Init => DOMAIN incidents = {} BY DEF Init
  <2>. QED BY <2>1 DEF IncidentsHangTogether
<1>. QED BY <1>1, InitShaped, NextShaped, NextHangs, PTL DEF Spec
=============================================================================
