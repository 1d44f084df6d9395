----------------------------- MODULE Telemetry -----------------------------
(***************************************************************************)
(* The two programs of the blueprint that write telemetry: the simulation  *)
(* engine, whose users log in, work and log out, and the attack engine,    *)
(* which runs the phases of a scenario.  Both have the same loop: generate *)
(* the events of a tick, hand them one by one to a Kafka client, flush now *)
(* and then.  The client keeps what the broker has not acknowledged, in a  *)
(* bounded queue that dies with the process.                               *)
(*                                                                         *)
(* One engine is modelled, of either kind.  An event is what it tells: the *)
(* topic, who caused it, the tick, and the sign a monitor could look for.  *)
(***************************************************************************)
EXTENDS Integers, FiniteSets, Sequences, SequencesExt

CONSTANTS
  Users,
  Activities,   \* what a user who is logged in does besides logging out
  Background,   \* topics of the events no user causes: "network", "process"
  Phases,       \* phases of all chains of the scenario: type, start, end
  ServersKnown, \* the enterprise state of the attack engine has hosts of type server
  MinSession,   \* ticks a session lasts before a logout counts
  QueueLimit,   \* queue.buffering.max.messages
  FlushEvery,   \* ticks between two flushes
  MaxTick,      \* bound: ticks of one run
  MaxOutages    \* bound: outages of the broker in one behaviour

\* What causes an event when no user does: a module of the attack, or a host.
Causes == {"credential_stuffing", "http_exploit", "phishing", "malicious_link",
           "ransomware", "lateral_movement", "host"}

ASSUME TelemetryAssumption ==
  /\ IsFiniteSet(Users) /\ Users \cap Causes = {}
  /\ Activities \subseteq {"email", "file_access", "web_browse", "internal_comm"}
  /\ Background \subseteq {"network", "process"}
  /\ \A p \in Phases : p.start \in Nat /\ p.end \in Nat
  /\ MinSession \in Nat
  /\ {QueueLimit, FlushEvery} \subseteq Nat \ {0}
  /\ {MaxTick, MaxOutages} \subseteq Nat

LoggedOut == -1

VARIABLES
  engine,    \* which of the two this is
  pc,        \* where its loop stands
  tick,
  session,   \* tick of the login of each user, LoggedOut without one
  batch,     \* events of this tick still to be handed to the client
  queue,     \* events in the client, not acknowledged
  topic,     \* history: events the broker has
  lost,      \* history: events the client was given and gave up
  up,        \* the broker answers
  outages

vars == <<engine, pc, tick, session, batch, queue, topic, lost, up, outages>>
client == <<queue, topic, lost, up, outages>>

Init ==
  /\ engine \in {"simulation", "attack"}
  /\ pc = "generate" /\ tick = 0
  /\ session = [u \in Users |-> LoggedOut]
  /\ batch = <<>> /\ queue = {} /\ topic = {} /\ lost = {}
  /\ up \in BOOLEAN
  /\ outages = IF up THEN 0 ELSE 1

-----------------------------------------------------------------------------
Event(by, to, sign) == [tick |-> tick, by |-> by, to |-> to, sign |-> sign]

\* UserBehaviorEngine.generate_tick_events.  A tick mostly passes a user by; a
\* logout before its time does the same.
AnyLength(u)  == tick - session[u] >= MinSession
LongEnough(u) == tick - session[u] > MinSession

Acts(u) ==
  {"idle"} \cup
  CASE session[u] = LoggedOut -> {"login"}
    [] session[u] # LoggedOut ->
         Activities \cup {a \in {"logout"} : LongEnough(u)}

\* The topic of the class each activity is normalized to; internal_comm has no
\* branch in the loop and is dropped.
Topic(act) ==
  CASE act \in {"login", "logout"} -> "auth"
    [] act = "email"         -> "email"
    [] act = "file_access"   -> "file"
    [] act = "web_browse"    -> "http"
    [] act = "internal_comm" -> "none"

\* The traffic between random pairs of hosts, none if each pair is one host twice,
\* and the processes that start now and then.
Flow         == Event("host", "network", "normal")
ProcessStart == Event("host", "process", "normal")

SimulationTick ==
  /\ engine = "simulation" /\ pc = "generate" /\ tick <= MaxTick
  /\ \E noise \in SUBSET {e \in {Flow, ProcessStart} : e.to \in Background},
        act \in [Users -> {"idle", "login", "logout"} \cup Activities] :
       /\ \A u \in Users : act[u] \in Acts(u)
       /\ batch' = SetToSeq({Event(u, Topic(act[u]), act[u]) :
                               u \in {v \in Users : act[v] # "idle"}})
                   \o SetToSeq(noise)
       /\ session' = [u \in Users |->
                        CASE act[u] = "login"  -> tick
                          [] act[u] = "logout" -> LoggedOut
                          [] OTHER             -> session[u]]
  /\ pc' = "produce"
  /\ UNCHANGED <<engine, tick, queue, topic, lost, up, outages>>

\* What one strike of each attack module may emit, of each kind of event at most
\* one.  A click of a victim, a success or a spread is drawn at random; lateral
\* movement without target_hosts looks for servers.  An unknown type has no module.
Credential == {Event("credential_stuffing", "auth", s) : s \in {"failed_login", "login"}}
Exploit    == {Event("http_exploit", "http", s) : s \in {"sql_injection", "path_traversal"}}
Bait       == Event("phishing", "email", "phishing_email")
Payload    == Event("phishing", "process", "payload")
Link       == Event("malicious_link", "email", "phishing_email")
Click      == Event("malicious_link", "http", "click")
Encryption == {Event("ransomware", "process", "ransomware_activity"),
               Event("ransomware", "file", "encrypted")}
Spread     == Event("ransomware", "network", "flow")
Movement   == {Event("lateral_movement", "network", "flow"),
               Event("lateral_movement", "auth", "login")}
Recon      == Event("lateral_movement", "process", "privilege_escalation")

Strikes(type) ==
  CASE type = "credential_stuffing" -> (SUBSET Credential) \ {{}}
    [] type = "http_exploit"        -> (SUBSET Exploit) \ {{}}
    [] type = "phishing"            -> {{}, {Bait}, {Bait, Payload}}
    [] type = "malicious_link"      -> {{Link}, {Link, Click}}
    [] type = "ransomware"          -> {Encryption, Encryption \cup {Spread}}
    [] type = "lateral_movement" /\ ServersKnown -> {Movement, Movement \cup {Recon}}
    [] OTHER                        -> {{}}

\* _execute_chain_tick, and the fault of leaving the last tick out.
ActiveButLast == {p \in Phases : p.start <= tick /\ tick < p.end}
Active        == {p \in Phases : p.start <= tick /\ tick <= p.end}

AttackTick ==
  /\ engine = "attack" /\ pc = "generate" /\ tick <= MaxTick
  /\ \E strike \in [Active -> UNION {Strikes(p.type) : p \in Active}] :
       /\ \A p \in Active : strike[p] \in Strikes(p.type)
       /\ batch' = SetToSeq(UNION {strike[p] : p \in Active})
  /\ pc' = "produce"
  /\ UNCHANGED <<engine, tick, session, queue, topic, lost, up, outages>>

-----------------------------------------------------------------------------
\* An activity without a topic is not produced.
SkipEvent ==
  /\ pc = "produce" /\ batch # <<>> /\ Head(batch).to = "none"
  /\ batch' = Tail(batch)
  /\ UNCHANGED <<engine, pc, tick, session>> /\ UNCHANGED client

Produce ==
  /\ pc = "produce" /\ batch # <<>> /\ Head(batch).to # "none"
  /\ Cardinality(queue) < QueueLimit
  /\ queue' = queue \cup {Head(batch)}
  /\ batch' = Tail(batch)
  /\ UNCHANGED <<engine, pc, tick, session, topic, lost, up, outages>>

\* produce() raises BufferError: the exception leaves the loop for its finally.
Overflow ==
  /\ pc = "produce" /\ batch # <<>> /\ Head(batch).to # "none"
  /\ Cardinality(queue) >= QueueLimit
  /\ pc' = "closing" /\ batch' = <<>>
  /\ UNCHANGED <<engine, tick, session>> /\ UNCHANGED client

EndTick ==
  /\ pc = "produce" /\ batch = <<>>
  /\ IF tick % FlushEvery = 0
     THEN pc' = "flush" /\ UNCHANGED tick
     ELSE pc' = "generate" /\ tick' = tick + 1
  /\ UNCHANGED <<engine, session, batch>> /\ UNCHANGED client

\* flush returns when the queue is empty or its time is over; a broker that
\* answers empties the queue within that time.
NoWait  == TRUE
Flushed == queue = {} \/ ~up

FlushEnd ==
  /\ pc = "flush" /\ Flushed
  /\ pc' = "generate" /\ tick' = tick + 1
  /\ UNCHANGED <<engine, session, batch>> /\ UNCHANGED client

\* KeyboardInterrupt, anywhere in the loop.
Interrupt ==
  /\ pc \in {"generate", "produce", "flush"}
  /\ pc' = "closing" /\ batch' = <<>>
  /\ UNCHANGED <<engine, tick, session>> /\ UNCHANGED client

\* The flush of the finally clause, and the end of the process.
Close ==
  /\ pc = "closing" /\ Flushed
  /\ pc' = "stopped"
  /\ lost' = lost \cup queue /\ queue' = {}
  /\ UNCHANGED <<engine, tick, session, batch, topic, up, outages>>

\* Any other end of the process: SIGTERM runs no finally clause.
Kill ==
  /\ pc \notin {"stopped", "killed"}
  /\ pc' = "killed" /\ batch' = <<>>
  /\ lost' = lost \cup queue /\ queue' = {}
  /\ UNCHANGED <<engine, tick, session, topic, up, outages>>

-----------------------------------------------------------------------------
\* The client in the background.
StillQueued(e)  == queue
Acknowledged(e) == queue \ {e}

Deliver(e) ==
  /\ up /\ e \in queue
  /\ topic' = topic \cup {e} /\ queue' = Acknowledged(e)
  /\ UNCHANGED <<engine, pc, tick, session, batch, lost, up, outages>>

\* message.timeout.ms is over; the delivery callback only logs it.
Expire(e) ==
  /\ ~up /\ e \in queue
  /\ lost' = lost \cup {e} /\ queue' = queue \ {e}
  /\ UNCHANGED <<engine, pc, tick, session, batch, topic, up, outages>>

\* The broker goes away; some events it took are not acknowledged and will be
\* sent again.
BrokerDown ==
  /\ up /\ outages < MaxOutages
  /\ \E unacknowledged \in SUBSET queue : topic' = topic \cup unacknowledged
  /\ up' = FALSE /\ outages' = outages + 1
  /\ UNCHANGED <<engine, pc, tick, session, batch, queue, lost>>

BrokerUp ==
  /\ ~up /\ up' = TRUE
  /\ UNCHANGED <<engine, pc, tick, session, batch, queue, topic, lost, outages>>

Loop   == SimulationTick \/ AttackTick \/ SkipEvent \/ Produce \/ Overflow
          \/ EndTick \/ FlushEnd \/ Close
Report == \E e \in queue : Deliver(e) \/ Expire(e)

Next == Loop \/ Report \/ Interrupt \/ Kill \/ BrokerDown \/ BrokerUp

\* The loop and the client's thread run; nothing is assumed of the broker.
Spec == Init /\ [][Next]_vars /\ WF_vars(Loop) /\ WF_vars(Report)

-----------------------------------------------------------------------------
\* What the monitor of its topic finds in an event.  Those of auth, email, network
\* and http first look at class_uid, which only normalized events have.
ByClass    == {"auth", "email", "network", "http"}
Suspicious == {"failed_login", "phishing_email", "sql_injection", "path_traversal",
               "ransomware_activity", "privilege_escalation"}

Found(e) ==
  {s \in {e.sign} \cap Suspicious : engine = "simulation" \/ e.to \notin ByClass}

-----------------------------------------------------------------------------
InFlight == ToSet(batch) \cup queue
Made     == InFlight \cup topic \cup lost

Of(u)         == {e \in Made : e.by = u}
Ticks(u, act) == {e.tick : e \in {d \in Of(u) : d.sign = act}}

\* u is logged in before tick t, by the events it caused so far.
LoggedIn(u, t) ==
  \E in \in Ticks(u, "login") :
     in < t /\ ~ \E out \in Ticks(u, "logout") : in < out /\ out < t

\* The telemetry of a user is a sequence of sessions: no second login in one, no
\* activity and no logout outside, no logout before the session has its length.
SessionsBracket ==
  \A u \in Users : \A e \in Of(u) :
     /\ e.sign = "login" <=> ~LoggedIn(u, e.tick)
     /\ e.sign = "logout" =>
          \A in \in Ticks(u, "login") : in < e.tick => e.tick - in > MinSession

\* An event the client accepted is lost only in an outage or with a killed process,
\* never by an orderly end: the finally clause waits for the queue.
LossNeedsOutage == lost # {} => outages > 0 \/ pc = "killed"

\* No event stays on its way: it reaches the broker, or it is given up, even if
\* the broker never comes back.
EventsArrive ==
  \A t \in 0..MaxTick :
     (\E e \in InFlight : e.tick = t) ~> ~ \E e \in InFlight : e.tick = t

\* The endpoint monitor finds ransomware in every tick of its phase, the first and
\* the last included, unless the engine ends or the event is lost.
RansomwareIsSeen ==
  \A p \in Phases : p.type = "ransomware" =>
     \A t \in p.start..p.end :
        <>(\/ engine = "simulation"
           \/ pc \in {"closing", "stopped", "killed"}
           \/ \E e \in topic : e.tick = t /\ "ransomware_activity" \in Found(e)
           \/ \E e \in lost : e.tick = t)

\* What the documentation says of the attack engine: its events are injected into
\* the telemetry for detection by the monitors.
InjectedSignsAreFound ==
  \A e \in topic : e.sign \in Suspicious => e.sign \in Found(e)
=============================================================================
