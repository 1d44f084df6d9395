---------------------------- MODULE Coordinator ----------------------------
(***************************************************************************)
(* The alert path of the distributed blueprint: monitors publish alerts    *)
(* and strategies, the classifier turns a raw alert into a classified one, *)
(* the coordinator correlates classified alerts into incidents, reports    *)
(* the incident, and files strategies.  Classifier and coordinator read    *)
(* Kafka topics with automatic offset commits.  Every process writes       *)
(* through a producer that buffers, sends again what was not acknowledged, *)
(* without idempotence, and after its time-out only logs that it gave up.  *)
(* Each process may crash and come back.                                   *)
(*                                                                         *)
(* Topics have several partitions, so a consumer may see the messages of a *)
(* topic in any order.  An alert is a constant; its confidence, severity   *)
(* and tactics only decorate the incident and are left out.                *)
(***************************************************************************)
EXTENDS Integers, FiniteSets, Sequences, SequencesExt

CONSTANTS
  Alerts,      \* the alerts the monitors raise
  Monitors,    \* the monitor processes
  Source,      \* the monitor that raises each alert
  Time,        \* timestamp of each alert, in seconds
  Ip, User,    \* source_ip and user_id of each alert, Nobody if it has none
  Class,       \* attack_class the classifier gives each alert
  Proposes,    \* alerts whose monitor proposes a strategy for them
  Nobody,      \* None
  MaxFaults    \* bound: crashes, messages sent again and messages given up

Consumers == {"classifier", "coordinator"}

ASSUME CoordinatorAssumption ==
  /\ Monitors \cap Consumers = {}
  /\ Source \in [Alerts -> Monitors]
  /\ Time \in [Alerts -> Nat]
  /\ DOMAIN Ip = Alerts /\ DOMAIN User = Alerts /\ DOMAIN Class = Alerts
  /\ Proposes \subseteq Alerts
  /\ MaxFaults \in Nat

Processes == Monitors \cup Consumers

\* A message is about an alert; those of one kind about one alert are numbered,
\* since an alert may be classified again and a message sent again.
Kinds   == {"raw", "strategy", "classified", "incident"}
Message == [kind : Kinds, alert : Alerts, copy : Nat \ {0}]

Msg(kind, a, n) == [kind |-> kind, alert |-> a, copy |-> n]

\* get_subscribed_topics; what the monitors consume is the matter of Monitors.
Subscribed ==
  {<<"classifier", "raw">>, <<"coordinator", "classified">>, <<"coordinator", "strategy">>}

VARIABLES
  raised,     \* alerts handed to the producer of their monitor
  queue,      \* process -> messages it is still to be given
  taken,      \* process -> messages given since its last offset commit
  buffer,     \* process -> messages its producer still has to deliver
  sent,       \* how many messages of a kind there were about an alert
  incidents,  \* IncidentCorrelator._active_incidents, each its list of alerts
  filed,      \* StrategyEngine._proposals, as key, strategy and copy
  decided,    \* incidents of CoordinatorAgent._decisions
  reported,   \* alerts that were delivered to incidents.correlated
  crashes, resends, failures

faults == <<crashes, resends, failures>>
memory == <<incidents, filed, decided>>
vars   == <<raised, queue, taken, buffer, sent, memory, reported, faults>>

Empty == [p \in Processes |-> {}]

Init ==
  /\ raised = {} /\ queue = Empty /\ taken = Empty /\ buffer = Empty
  /\ sent = [kind \in Kinds |-> [a \in Alerts |-> 0]]
  /\ incidents = <<>> /\ filed = {} /\ decided = {}
  /\ reported = {} /\ crashes = 0 /\ resends = 0 /\ failures = 0

-----------------------------------------------------------------------------
\* produce only puts the next message of its kind into the producer's buffer.
Fresh(kind, a)     == Msg(kind, a, sent[kind][a] + 1)
Numbered(messages) ==
  [kind \in Kinds |-> [a \in Alerts |->
     IF Fresh(kind, a) \in messages THEN sent[kind][a] + 1 ELSE sent[kind][a]]]

Produce(p, messages) ==
  /\ buffer' = [buffer EXCEPT ![p] = @ \cup messages]
  /\ sent' = Numbered(messages)

\* process_event of a monitor: the alert, then its strategy, if it has one.
Raise(a) ==
  /\ a \notin raised
  /\ raised' = raised \cup {a}
  /\ Produce(Source[a], {Fresh("raw", a)} \cup {Fresh("strategy", b) : b \in {a} \cap Proposes})
  /\ UNCHANGED <<queue, taken, memory, reported, faults>>

\* consume_one hands over a message; the handler runs before the next poll.
LeaveQueued(p, m) == queue[p]
Remaining(p, m)   == queue[p] \ {m}

Take(p, m) ==
  /\ m \in queue[p]
  /\ queue' = [queue EXCEPT ![p] = Remaining(p, m)]
  /\ taken' = [taken EXCEPT ![p] = @ \cup {m}]

\* ClassifierAgent.analyze
Classify(m) ==
  /\ Take("classifier", m)
  /\ Produce("classifier", {Fresh("classified", m.alert)})
  /\ UNCHANGED <<raised, memory, reported, faults>>

-----------------------------------------------------------------------------
CORRELATION_WINDOW == 300

\* affected_ips, affected_users, attack_class and last_seen of an incident.
Ips(inc)      == {Ip[a] : a \in ToSet(inc)} \ {Nobody}
Users(inc)    == {User[a] : a \in ToSet(inc)} \ {Nobody}
LastSeen(inc) == Time[Last(inc)]
Age(a, inc)   == Time[a] - LastSeen(inc)

\* The fault of comparing a missing address with a missing address.
SharesField(a, inc) ==
  Ip[a] \in {Ip[b] : b \in ToSet(inc)} \/ User[a] \in {User[b] : b \in ToSet(inc)}
SharesActor(a, inc) == Ip[a] \in Ips(inc) \/ User[a] \in Users(inc)

Matches(a, inc) ==
  /\ Age(a, inc) <= CORRELATION_WINDOW
  /\ \/ SharesActor(a, inc)
     \/ Class[a] = Class[Head(inc)] /\ 2 * Age(a, inc) < CORRELATION_WINDOW

\* The fault of asking the newest incident only.
NewestOrNew(a) ==
  IF incidents # <<>> /\ Matches(a, Last(incidents)) THEN Len(incidents)
  ELSE Len(incidents) + 1

\* correlate: the index of the first incident that matches, or of a new one.
IncidentOf(a) ==
  LET hits == {i \in DOMAIN incidents : Matches(a, incidents[i])}
  IN  IF hits = {} THEN Len(incidents) + 1
      ELSE CHOOSE i \in hits : \A j \in hits : i <= j

Correlated(a) ==
  IF IncidentOf(a) > Len(incidents) THEN Append(incidents, <<a>>)
  ELSE [incidents EXCEPT ![IncidentOf(a)] = Append(@, a)]

\* Incident ids are fresh, so none is the id of an alert.
IncidentId(i)  == <<"inc", i>>
ProposalsOf(k) == {p \in filed : p.incident_id = k}

\* The fault of reporting an incident once, when it is opened.
ReportNew(a) == {Fresh("incident", a) : i \in {IncidentOf(a)} \ DOMAIN incidents}
Report(a)    == {Fresh("incident", a)}

\* _handle_classified_alert: correlate, report, and select when two proposals
\* are filed under the id of the incident.
HandleAlert(m) ==
  /\ m.kind = "classified"
  /\ Take("coordinator", m)
  /\ incidents' = Correlated(m.alert)
  /\ Produce("coordinator", Report(m.alert))
  /\ decided' = decided \cup
       {i \in {IncidentOf(m.alert)} : Cardinality(ProposalsOf(IncidentId(i))) >= 2}
  /\ UNCHANGED <<raised, filed, reported, faults>>

\* _handle_strategy_proposal: monitors put the id of the alert in incident_id.
HandleStrategy(m) ==
  /\ m.kind = "strategy"
  /\ Take("coordinator", m)
  /\ filed' = filed \cup {[incident_id |-> m.alert, strategy |-> m.alert, copy |-> m.copy]}
  /\ UNCHANGED <<raised, buffer, sent, incidents, decided, reported, faults>>

-----------------------------------------------------------------------------
FaultsLeft == crashes + resends + failures < MaxFaults

\* A message reaches its topic: the consumer that reads it will be given it, and
\* a message about an incident is a report.
Land(m) ==
  /\ queue' = [p \in Processes |-> queue[p] \cup {n \in {m} : <<p, n.kind>> \in Subscribed}]
  /\ reported' = reported \cup {a \in {m.alert} : m.kind = "incident"}

\* The broker acknowledges a message; the callback has nothing to do.
Deliver(p, m) ==
  /\ m \in buffer[p]
  /\ Land(m)
  /\ buffer' = [buffer EXCEPT ![p] = @ \ {m}]
  /\ UNCHANGED <<raised, taken, sent, memory, faults>>

\* The message arrives and its acknowledgement is lost: without idempotence the
\* client sends it again, and the broker takes that for another message.
Resend(p, m) ==
  /\ FaultsLeft
  /\ m \in buffer[p]
  /\ Land(m)
  /\ buffer' = [buffer EXCEPT ![p] = (@ \ {m}) \cup {Fresh(m.kind, m.alert)}]
  /\ sent' = Numbered({Fresh(m.kind, m.alert)})
  /\ resends' = resends + 1
  /\ UNCHANGED <<raised, taken, memory, crashes, failures>>

\* The client gives up on a message: _default_callback logs the error.
Expire(p, m) ==
  /\ FaultsLeft
  /\ m \in buffer[p]
  /\ buffer' = [buffer EXCEPT ![p] = @ \ {m}]
  /\ failures' = failures + 1
  /\ UNCHANGED <<raised, queue, taken, sent, memory, reported, crashes, resends>>

\* enable.auto.commit: a timer commits whatever was handed over.
AutoCommit(p) ==
  /\ taken[p] # {}
  /\ taken' = [taken EXCEPT ![p] = {}]
  /\ UNCHANGED <<raised, queue, buffer, sent, memory, reported, faults>>

\* After a restart a consumer goes on from its committed offset; with
\* auto.offset.reset at latest it might go on after it.
FromLatest(p)    == queue[p]
FromCommitted(p) == queue[p] \cup taken[p]

\* A crash in the middle of a handler is a crash after it: what the handler
\* changes is memory and the producer's buffer, gone either way.
Crash(p) ==
  /\ FaultsLeft
  /\ crashes' = crashes + 1
  /\ queue' = [queue EXCEPT ![p] = FromCommitted(p)]
  /\ taken' = [taken EXCEPT ![p] = {}]
  /\ buffer' = [buffer EXCEPT ![p] = {}]
  /\ IF p = "coordinator"
     THEN incidents' = <<>> /\ filed' = {} /\ decided' = {}
     ELSE UNCHANGED memory
  /\ UNCHANGED <<raised, sent, reported, resends, failures>>

Next ==
  \/ \E a \in Alerts : Raise(a)
  \/ \E m \in queue["classifier"] : Classify(m)
  \/ \E m \in queue["coordinator"] : HandleAlert(m) \/ HandleStrategy(m)
  \/ \E p \in Processes : \E m \in buffer[p] : Deliver(p, m) \/ Resend(p, m) \/ Expire(p, m)
  \/ \E p \in Processes : AutoCommit(p) \/ Crash(p)

\* Consumers poll in a loop; a producer sends in the background and has delivered
\* a message or given it up when message.timeout.ms is over.  No alert has to be
\* raised, no commit, no crash and no second sending has to happen.
Fairness ==
  /\ WF_vars(\E m \in queue["classifier"] : Classify(m))
  /\ WF_vars(\E m \in queue["coordinator"] : HandleAlert(m) \/ HandleStrategy(m))
  /\ \A p \in Processes : WF_vars(\E m \in buffer[p] : Deliver(p, m) \/ Expire(p, m))

Spec == Init /\ [][Next]_vars /\ Fairness

-----------------------------------------------------------------------------
\* Shape of the state; a message is in one place on its way, and has a number
\* that was given.
TypeOK ==
  /\ raised \subseteq Alerts /\ reported \subseteq raised
  /\ queue \in [Processes -> SUBSET Message]
  /\ taken \in [Processes -> SUBSET Message]
  /\ buffer \in [Processes -> SUBSET Message]
  /\ \A p \in Processes : queue[p] \cap taken[p] = {}
  /\ sent \in [Kinds -> [Alerts -> Nat]]
  /\ incidents \in Seq(Seq(Alerts))
  /\ filed \subseteq [incident_id : Alerts, strategy : Alerts, copy : Nat \ {0}]
  /\ decided \subseteq Nat
  /\ crashes \in Nat /\ resends \in Nat /\ failures \in Nat
  /\ crashes + resends + failures <= MaxFaults

AlertsIn(messages) == {m.alert : m \in {n \in messages : n.kind # "strategy"}}

\* The alert is waiting somewhere on its way to a report, or reported.
Alive(a) == a \in reported \/ \E p \in Processes : a \in AlertsIn(queue[p] \cup buffer[p])

\* What the crash of p takes with it: output that was not delivered for input that
\* was already committed.
Exposed(p) == AlertsIn(buffer[p]) \ AlertsIn(taken[p])

\* An alert is lost in two ways only.  A process crashes after the timer has
\* committed it and before its result has left the producer's buffer, or a producer
\* gives its message up.  What is in the topics, or handed over and not committed,
\* survives a crash.
LossHasACause ==
  [][\A a \in Alerts : Alive(a) /\ ~Alive(a)' =>
       \/ crashes' > crashes /\ \E p \in Processes : a \in Exposed(p)
       \/ failures' > failures /\ \E p \in Processes : a \in AlertsIn(buffer[p] \ buffer'[p])]_vars

Places(a) ==
  {s \in UNION {{i} \X DOMAIN incidents[i] : i \in DOMAIN incidents} :
     incidents[s[1]][s[2]] = a}
Occurrences(a) == Cardinality(Places(a))

\* Nothing on the path drops a duplicate, and yet a replay never puts one classified
\* message into the incidents twice: memory is lost together with the right not to
\* repeat.  An alert that is counted twice was sent again, by a producer without
\* an acknowledgement or by a classifier that came back.
NoDoubleCounting ==
  \A a \in Alerts :
     /\ Occurrences(a) <= sent["classified"][a]
     /\ Occurrences(a) > 1 => crashes + resends > 0

SameActor(a, b) ==
  (Ip[a] = Ip[b] /\ Ip[a] # Nobody) \/ (User[a] = User[b] /\ User[a] # Nobody)

\* Whatever the order and the copies, an incident hangs together.  An alert n places
\* after another came at most n * 300 seconds after it (how long before it is open:
\* the window looks one way), and each but the first shares an address or a user
\* with an earlier one, or the first one's class within 150 seconds of the last.
HangsTogether(inc) ==
  /\ \A k \in DOMAIN inc : \A j \in 1..k : Time[inc[k]] - Time[inc[j]] <= 300 * (k - j)
  /\ \A k \in DOMAIN inc \ {1} :
       \/ \E j \in 1..(k - 1) : SameActor(inc[k], inc[j])
       \/ Class[inc[k]] = Class[inc[1]] /\ Time[inc[k]] - Time[inc[k - 1]] < 150

\* Two incidents are kept apart for one reason only: an alert of the second that
\* shows the actor that opened the first is more than 300 seconds later than some
\* alert of the first, one of its class at least 150.
KeptApart(inc, later) ==
  \A b \in ToSet(later) :
     /\ SameActor(b, inc[1]) => \E a \in ToSet(inc) : Time[b] - Time[a] > 300
     /\ Class[b] = Class[inc[1]] => \E a \in ToSet(inc) : Time[b] - Time[a] >= 150

\* Correlation is sound in every order of arrival: what is together belongs together,
\* and an attack is split in two only where an alert came late enough.
IncidentsHangTogether ==
  \A i \in DOMAIN incidents :
     /\ HangsTogether(incidents[i])
     /\ \A j \in DOMAIN incidents : i < j => KeptApart(incidents[i], incidents[j])

\* The path implements the contract of an alert: whether it opens an incident or
\* joins one, it waits, and then it is reported, for good, or lost in a crash or by
\* a failed delivery.  What is lost comes back only if a crash replays it; short of
\* that no message about a lost alert is under way, and none waits for ever.
Contract == INSTANCE AlertContract WITH
  waiting <- {a \in raised \ reported : Alive(a)},
  lost    <- {a \in raised : ~Alive(a)}

ImplementsContract == Contract!Spec

-----------------------------------------------------------------------------
\* The documented selection: correlating an alert into an incident for whose
\* alerts two strategies are collected selects one of them.
SelectsWhenCollected ==
  [][\A i \in DOMAIN incidents :
       LET collected == {p \in filed : p.strategy \in ToSet(incidents[i])}
       IN  i \in DOMAIN incidents' /\ incidents[i] # incidents'[i]
             /\ Cardinality(collected) >= 2 => i \in decided']_vars
=============================================================================
