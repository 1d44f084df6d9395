------------------------------ MODULE Monitors ------------------------------
(***************************************************************************)
(* A monitor of the distributed blueprint: it reads one telemetry event at *)
(* a time, runs the checks of its kind over counters and lists that expire *)
(* in Redis, and publishes the alerts when the whole event is analyzed.    *)
(* Every Redis command is a step of its own, time may pass between any two *)
(* of them, and the monitor may crash at each of them.                     *)
(*                                                                         *)
(* The four kinds share their life cycle and differ in the checks; each    *)
(* has its consumer group and its key prefix, so one of them is modelled,  *)
(* of any kind.  What a pattern finds in a URL, a command line or a        *)
(* subject is a trait of the event.                                        *)
(***************************************************************************)
EXTENDS Integers, FiniteSets, Sequences, SequencesExt, TLC

Monitor == {"identity", "network", "endpoint", "data"}
Counter == {"brute_force_attempt", "bulk_data_download",
            "unauthorized_sensitive_access", "ransomware_encryption"}
Listing == {"credential_stuffing", "port_scan"}
Check   == Counter \cup Listing

CONSTANTS
  Events,      \* the telemetry
  ReadBy,      \* the monitor that subscribes to the topic of each event
  Traits,      \* what the checks and patterns find in each event
  User, Source, Port,   \* actor, address or host (or pair of them), and port
  Sensitivity, \* of the file of each event
  Threshold,   \* of each check
  Window,      \* ttl of each check
  MaxTime,     \* bound: the clock
  MaxCrashes   \* bound: crashes in one behaviour

ASSUME MonitorsAssumption ==
  /\ ReadBy \in [Events -> Monitor]
  /\ \A d \in {DOMAIN Traits, DOMAIN User, DOMAIN Source, DOMAIN Port,
            DOMAIN Sensitivity} : d = Events
  /\ Threshold \in [Check -> Nat \ {0, 1}]
  /\ Window \in [Check -> Nat \ {0}]
  /\ MaxTime \in Nat /\ MaxCrashes \in Nat

\* Alerts a monitor raises from the event alone: the trait of an event that its
\* pattern or limit matches has the name of the alert.
IdentityPatterns == {"unusual_login_time", "phishing_email"}
NetworkPatterns  == {"high_volume_transfer", "sql_injection", "path_traversal"}
EndpointPatterns == {"suspicious_process", "privilege_escalation", "ransomware_activity"}
Patterns(e) ==
  Traits[e] \cap (IdentityPatterns \cup NetworkPatterns \cup EndpointPatterns)

\* What a monitor looks up for an event, in the order of the code: the check, the
\* user, address or host it is about, and for a list what is to be in it.  The
\* counter ip_fail is left out: no threshold is ever compared with it.
Look(check, about, item) == [key |-> <<check, about>>, item |-> item]
When(trait, e, looks)    == IF trait \in Traits[e] THEN looks ELSE <<>>

AuthLookups(e) ==
  When("failed_login", e, <<Look("brute_force_attempt", User[e], e),
                            Look("credential_stuffing", Source[e], User[e])>>)
FlowLookups(e) == When("flow", e, <<Look("port_scan", Source[e], Port[e])>>)
CommandLookups(e) ==
  When("encrypts", e, <<Look("ransomware_encryption", Source[e], e)>>)
FileLookups(e) ==
  When("download", e, <<Look("bulk_data_download", User[e], e)>>)
  \o When("sensitive", e, <<Look("unauthorized_sensitive_access", <<User[e], Sensitivity[e]>>, e)>>)

Lookups(e) ==
  CASE ReadBy[e] = "identity" -> AuthLookups(e)
    [] ReadBy[e] = "network"  -> FlowLookups(e)
    [] ReadBy[e] = "endpoint" -> CommandLookups(e)
    [] ReadBy[e] = "data"     -> FileLookups(e)

Keys == UNION {{l.key : l \in ToSet(Lookups(e))} : e \in Events}

NoPort == ""
Never  == -1
Idle   == [event |-> ""]

VARIABLES
  monitor,    \* which of the four this is
  sighted,    \* self._redis is not None
  topic,      \* events still to be handed over
  taken,      \* events handed over since the last offset commit
  task,       \* the event in process_event: lookups done, last reply, alerts
  cache,      \* Redis: the live keys of this monitor, value and expiry of each
  published,  \* alerts put into the producer's buffer, each an event and a rule
  log,        \* history of each key: what was added, when, and when it was renewed
  now, crashes

vars == <<monitor, sighted, topic, taken, task, cache, published, log, now, crashes>>

Init ==
  /\ monitor \in Monitor
  /\ sighted \in BOOLEAN
  /\ topic = {e \in Events : ReadBy[e] = monitor}
  /\ taken = {} /\ task = Idle /\ published = {}
  /\ cache = <<>>
  /\ log = [k \in Keys |-> <<>>]
  /\ now = 0 /\ crashes = 0

-----------------------------------------------------------------------------
Alert(e, rule, count) == [event |-> e, rule |-> rule, count |-> count]

\* consume_one, and the checks of analyze that need no cache.
Remaining(e) == topic \ {e}

Consume(e) ==
  /\ task = Idle
  /\ topic' = Remaining(e)
  /\ taken' = taken \cup {e}
  /\ task' = [event |-> e, done |-> 0, reply |-> <<>>,
              alerts |-> {Alert(e, p, 0) : p \in Patterns(e)}]
  /\ UNCHANGED <<monitor, sighted, cache, published, log, now, crashes>>

Busy == task # Idle /\ task.done < Len(Lookups(task.event))
Now  == Lookups(task.event)[task.done + 1]
Key  == Now.key
Rule == Key[1]

\* The lookup is over: the alert, if its size reaches the threshold.
Reaches(size) == size >= Threshold[Rule]

Finished(size) ==
  [task EXCEPT !.done = @ + 1, !.reply = <<>>,
     !.alerts = @ \cup {a \in {Alert(task.event, Rule, size)} : Reaches(size)}]

\* cache_incr and cache_get answer 0 and None without Redis; one item is below
\* every threshold.
SkipBlind ==
  /\ Busy /\ ~sighted
  /\ task' = [task EXCEPT !.done = @ + 1]
  /\ UNCHANGED <<monitor, sighted, topic, taken, cache, published, log,
                 now, crashes>>

Cached     == Key \in DOMAIN cache
Until(new) == IF Cached THEN cache[Key].until ELSE new

Stored(value, until) ==
  [k \in DOMAIN cache \cup {Key} |->
     IF k = Key THEN [value |-> value, until |-> until] ELSE cache[k]]

\* INCR creates the key without an expiry, or keeps the one it has.
Increment ==
  LET count == IF Cached THEN cache[Key].value + 1 ELSE 1
  IN  /\ Busy /\ sighted /\ Rule \in Counter /\ task.reply = <<>>
      /\ cache' = Stored(count, Until(Never))
      /\ task' = [task EXCEPT !.reply = <<count>>]
      /\ log' = [log EXCEPT ![Key] = Append(@,
           [item |-> Now.item, at |-> now, renewed |-> Never])]
      /\ UNCHANGED <<monitor, sighted, topic, taken, published, now, crashes>>

\* EXPIRE does nothing when the key went away since INCR.
KeptForEver(count) == Never
FixedWindow(count) == IF count = 1 THEN now + Window[Rule] ELSE Until(Never)
Renewed(count)     == now + Window[Rule]

Expire ==
  LET count == task.reply[1] IN
  /\ Busy /\ Rule \in Counter /\ task.reply # <<>>
  /\ IF ~Cached THEN UNCHANGED <<cache, log>>
     ELSE /\ cache' = [cache EXCEPT ![Key].until = Renewed(count)]
          /\ log' = [log EXCEPT ![Key][Len(log[Key])].renewed = now]
  /\ task' = Finished(count)
  /\ UNCHANGED <<monitor, sighted, topic, taken, published, now, crashes>>

\* cache_get: a list that holds the item, or a port of zero, is not written.
Known(list) == Now.item \in list \cup {NoPort}

Get ==
  LET list == IF Cached THEN cache[Key].value ELSE {} IN
  /\ Busy /\ sighted /\ Rule \in Listing /\ task.reply = <<>>
  /\ IF Known(list)
     THEN /\ task' = Finished(Cardinality(list))
          /\ log' = [log EXCEPT ![Key] = Append(@,
               [item |-> Now.item, at |-> now, renewed |-> Never])]
     ELSE /\ task' = [task EXCEPT !.reply = <<list>>]
          /\ UNCHANGED log
  /\ UNCHANGED <<monitor, sighted, topic, taken, cache, published, now, crashes>>

\* cache_set writes back the list that was read, with a whole new window.
OldExpiry == Until(now + Window[Rule])
NewExpiry == now + Window[Rule]

SetEx ==
  LET list == task.reply[1] \cup {Now.item} IN
  /\ Busy /\ Rule \in Listing /\ task.reply # <<>>
  /\ cache' = Stored(list, NewExpiry)
  /\ log' = [log EXCEPT ![Key] = Append(@,
       [item |-> Now.item, at |-> now, renewed |-> now])]
  /\ task' = Finished(Cardinality(list))
  /\ UNCHANGED <<monitor, sighted, topic, taken, published, now, crashes>>

\* process_event hands the alerts to the producer once analyze has returned.
CountedOnly == {a \in task.alerts : a.count > 0}
Found       == task.alerts

Publish ==
  /\ task # Idle /\ ~Busy
  /\ published' = published \cup {[event |-> a.event, rule |-> a.rule] : a \in Found}
  /\ task' = Idle
  /\ UNCHANGED <<monitor, sighted, topic, taken, cache, log, now, crashes>>

-----------------------------------------------------------------------------
\* enable.auto.commit: a timer commits whatever was handed over.  Bound: commits
\* that no crash can follow any more are left out, since only a crash reads taken.
AutoCommit ==
  /\ taken # {} /\ crashes < MaxCrashes
  /\ taken' = {}
  /\ UNCHANGED <<monitor, sighted, topic, task, cache, published, log,
                 now, crashes>>

\* The process ends, because it is killed or because Redis raises in the middle
\* of analyze, and is started again: with Redis or, if the ping fails, without.
Crash ==
  /\ crashes < MaxCrashes
  /\ crashes' = crashes + 1
  /\ topic' = topic \cup taken
  /\ taken' = {} /\ task' = Idle
  /\ sighted' \in BOOLEAN
  /\ UNCHANGED <<monitor, cache, published, log, now>>

\* Redis forgets a key when its time is over.
Tick ==
  /\ now < MaxTime
  /\ now' = now + 1
  /\ cache' = [k \in {j \in DOMAIN cache : cache[j].until # now'} |-> cache[k]]
  /\ UNCHANGED <<monitor, sighted, topic, taken, task, published, log, crashes>>

Analyze == SkipBlind \/ Increment \/ Expire \/ Get \/ SetEx

Next ==
  \/ \E e \in topic : Consume(e)
  \/ Analyze \/ Publish
  \/ AutoCommit \/ Crash \/ Tick

Spec == Init /\ [][Next]_vars

-----------------------------------------------------------------------------
\* Shape of the state: an event is waiting or handed over, never both, and only
\* a handler between two commands holds a reply.
TypeOK ==
  /\ monitor \in Monitor /\ sighted \in BOOLEAN
  /\ topic \cup taken \subseteq {e \in Events : ReadBy[e] = monitor}
  /\ topic \cap taken = {}
  /\ task # Idle => /\ task.event \in Events \ topic
                    /\ task.done \in 0..Len(Lookups(task.event))
                    /\ task.reply # <<>> => Busy /\ sighted
  /\ DOMAIN cache \subseteq Keys
  /\ \A k \in DOMAIN cache :
       cache[k].until \in {Never} \cup (now + 1)..(MaxTime + Window[k[1]])
  /\ now \in 0..MaxTime /\ crashes \in 0..MaxCrashes

Close(k, i, j) == log[k][j].at < log[k][i].at + Window[k[1]]

\* The lookups of the event whose analysis is over, by a monitor with Redis.
Judged == IF task # Idle /\ ~Busy /\ sighted THEN ToSet(Lookups(task.event)) ELSE {}
Raised(k) == \E a \in task.alerts : a.rule = k[1] /\ a.count >= Threshold[k[1]]

\* A burst is never missed: if as many hits as the threshold fell on a key within
\* one window of the last one, and the key was still there when each was renewed,
\* then the last one raises the alert, whatever crashes, replays and renewals went
\* before.  A window fixed at the first hit would miss a burst across its end.
BurstIsSeen ==
  \A l \in Judged : l.key[1] \in Counter =>
    LET k == l.key
        p == Len(log[k])
        hits == {i \in 1..(p - 1) : log[k][i].renewed # Never /\ Close(k, i, p)}
    IN  Cardinality(hits) + 1 >= Threshold[k[1]] => Raised(k)

\* A counting alert is earned: its count is that many hits on the key, each less
\* than a window after the renewal by the one before it, unless that one was cut
\* by a crash between INCR and EXPIRE; and no event counts more than once for
\* every time the monitor may have been handed it.
AlertsAreEarned ==
  task # Idle =>
    \A a \in task.alerts : a.rule \in Counter =>
      \E l \in ToSet(Lookups(task.event)) :
        LET hits == log[l.key]
            span == (Len(hits) - a.count + 1)..Len(hits)
        IN  /\ l.key[1] = a.rule
            /\ a.count <= Len(hits)
            /\ \A i \in span \ {Len(hits)} :
                 \/ crashes > 0 /\ hits[i].renewed = Never
                 \/ hits[i + 1].at < hits[i].renewed + Window[a.rule]
            /\ a.count <= (crashes + 1) * Cardinality({hits[i].item : i \in span})

Sightings(k, x) == {i \in DOMAIN log[k] : log[k][i].item = x}

\* The items of a list seen within a window of its last sighting and never before.
FreshItems(k) ==
  {x \in {h.item : h \in ToSet(log[k])} \ {NoPort} :
     \A i \in Sightings(k, x) : Close(k, i, Len(log[k]))}

\* Users or ports that all turned up for the first time within the last window,
\* as many as the threshold, are always seen: the list they are on is renewed by
\* each of them and no crash takes it away.
FreshItemsAreSeen ==
  \A l \in Judged : l.key[1] \in Listing =>
    (Cardinality(FreshItems(l.key)) >= Threshold[l.key[1]] => Raised(l.key))

\* Whatever the counters say and with or without Redis, what the patterns find in
\* an event is published, before the handler takes the next one; only an event
\* that was committed and then cut by a crash may end without its alerts.
PatternsAreReported ==
  \A e \in {d \in Events : ReadBy[d] = monitor} :
    \/ e \in topic \/ task.event = e
    \/ \A p \in Patterns(e) : [event |-> e, rule |-> p] \in published
    \/ crashes > 0 /\ e \notin taken
=============================================================================
