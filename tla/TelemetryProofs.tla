--------------------------- MODULE TelemetryProofs ---------------------------
(***************************************************************************)
(* What the engines' client may lose, for all users, scenarios, limits and *)
(* lengths of a run.                                                       *)
(***************************************************************************)
EXTENDS Telemetry, FiniteSetTheorems, TLAPS

\* A broker that does not answer is in an outage that was counted.
OutageCounted == outages \in Nat /\ (~up => outages > 0)

IInv == up \in BOOLEAN /\ OutageCounted /\ LossNeedsOutage

\* A closing process found its queue empty or the broker away.
LEMMA CloseKeeps ==
  ASSUME IInv, Close
  PROVE  LossNeedsOutage'
BY DEF IInv, OutageCounted, Close, Flushed, LossNeedsOutage

\* What the client does alone loses events in an outage only.
LEMMA ClientKeeps ==
  ASSUME IInv, NEW e, Deliver(e) \/ Expire(e)
  PROVE  IInv'
BY DEF IInv, OutageCounted, Deliver, Expire, LossNeedsOutage

\* The broker comes and goes.
LEMMA BrokerKeeps ==
  ASSUME IInv, BrokerDown \/ BrokerUp
  PROVE  IInv'
<1>1. CASE BrokerDown
  <2>1. outages' \in Nat /\ outages' > 0 /\ up' = FALSE
    BY <1>1 DEF IInv, OutageCounted, BrokerDown
  <2>. QED BY <2>1 DEF IInv, OutageCounted, LossNeedsOutage
<1>2. CASE BrokerUp
  BY <1>2 DEF IInv, OutageCounted, BrokerUp, LossNeedsOutage
<1>. QED BY <1>1, <1>2

\* The loop of the engine, its end by a signal included, loses nothing the client
\* still holds unless the process is killed or the broker away.
LEMMA EngineKeeps ==
  ASSUME IInv, Loop \/ Interrupt \/ Kill
  PROVE  IInv'
<1>. USE DEF IInv, OutageCounted
<1>1. CASE Close BY <1>1, CloseKeeps DEF Close
<1>2. CASE Kill BY <1>2 DEF Kill, LossNeedsOutage
<1>3. CASE Loop /\ ~Close
  <2>1. UNCHANGED <<lost, up, outages>> /\ pc # "killed"
    BY <1>3 DEF Loop, SimulationTick, AttackTick, SkipEvent, Produce, Overflow, EndTick,
                FlushEnd, client
  <2>. QED BY <2>1 DEF LossNeedsOutage
<1>4. CASE Interrupt BY <1>4 DEF Interrupt, client, LossNeedsOutage
<1>. QED BY <1>1, <1>2, <1>3, <1>4

-----------------------------------------------------------------------------
\* An event the client accepted is lost in an outage or with a killed process only.
THEOREM LossExplained == Spec => []LossNeedsOutage
<1>1. Init => IInv
  BY DEF Init, IInv, OutageCounted, LossNeedsOutage
<1>2. IInv /\ [Next]_vars => IInv'
  <2>. SUFFICES ASSUME IInv, [Next]_vars PROVE IInv'
    OBVIOUS
  <2>1. CASE Loop \/ Interrupt \/ Kill BY <2>1, EngineKeeps
  <2>2. CASE Report BY <2>2, ClientKeeps DEF Report
  <2>3. CASE BrokerDown \/ BrokerUp BY <2>3, BrokerKeeps
  <2>4. CASE UNCHANGED vars
    BY <2>4 DEF vars, IInv, OutageCounted, LossNeedsOutage
  <2>. QED BY <2>1, <2>2, <2>3, <2>4 DEF Next
<1>3. IInv => LossNeedsOutage BY DEF IInv
<1>. QED BY <1>1, <1>2, <1>3, PTL DEF Spec

-----------------------------------------------------------------------------
(* The log of a user: M is the set of events it is read from. *)

Did(M, u, act, t) == \E e \in M : e.by = u /\ e.sign = act /\ e.tick = t

Inside(M, u, t) ==
  \E in : /\ Did(M, u, "login", in) /\ in < t
          /\ \A out : Did(M, u, "logout", out) => ~(in < out /\ out < t)

Bracketed(M, u) ==
  \A e \in M : e.by = u =>
    /\ e.sign = "login" <=> ~Inside(M, u, e.tick)
    /\ e.sign = "logout" =>
         \A in : Did(M, u, "login", in) /\ in < e.tick => e.tick - in > MinSession

\* All of it happened before tick t.
Before(M, u, t) == \A e \in M : e.by = u => e.tick \in Nat /\ e.tick < t

\* The session the engine has for the user is the one the log is in.
Stands(M, u, s) ==
  /\ s = LoggedOut =>
       \A in : Did(M, u, "login", in) => \E out : Did(M, u, "logout", out) /\ in < out
  /\ s # LoggedOut =>
       /\ s \in Nat /\ Did(M, u, "login", s)
       /\ \A in : Did(M, u, "login", in) => in <= s
       /\ \A out : Did(M, u, "logout", out) => out < s

Log(M, u, t, s) == Bracketed(M, u) /\ Before(M, u, t) /\ Stands(M, u, s)

\* Sooner or later is before, too.
LEMMA BeforeLater ==
  ASSUME NEW M, NEW u, NEW t \in Nat, Before(M, u, t)
  PROVE  Before(M, u, t + 1)
BY DEF Before

\* A tick in which the user did nothing.
LEMMA LogIdle ==
  ASSUME NEW M, NEW N, NEW u, NEW t \in Nat, NEW s, Log(M, u, t, s),
         \A e \in N : e.by # u
  PROVE  Log(M \cup N, u, t + 1, s)
<1>1. \A act, k : Did(M \cup N, u, act, k) <=> Did(M, u, act, k) BY DEF Did
<1>2. \A k : Inside(M \cup N, u, k) <=> Inside(M, u, k) BY <1>1 DEF Inside
<1>3. Bracketed(M \cup N, u) BY <1>1, <1>2 DEF Log, Bracketed
<1>4. Stands(M \cup N, u, s) BY <1>1 DEF Log, Stands
<1>5. Before(M \cup N, u, t + 1) BY BeforeLater DEF Log, Before
<1>. QED BY <1>3, <1>4, <1>5 DEF Log

\* A tick in which it did something its session allows.
LEMMA LogActs ==
  ASSUME NEW M, NEW N, NEW u, NEW t \in Nat, NEW s, NEW s2, NEW e \in N,
         Log(M, u, t, s), \A d \in N : d.by = u => d = e, e.by = u, e.tick = t,
         MinSession \in Nat,
         \/ s = LoggedOut /\ e.sign = "login" /\ s2 = t
         \/ s # LoggedOut /\ e.sign = "logout" /\ t - s > MinSession /\ s2 = LoggedOut
         \/ s # LoggedOut /\ e.sign \notin {"login", "logout"} /\ s2 = s
  PROVE  Log(M \cup N, u, t + 1, s2)
<1>1. /\ \A d \in M : d.by = u => d.tick \in Nat /\ d.tick < t
      /\ \A act, k : Did(M, u, act, k) => k \in Nat /\ k < t
  BY DEF Log, Before, Did
<1>2. \A act, k : Did(M \cup N, u, act, k) <=> Did(M, u, act, k) \/ (e.sign = act /\ k = t)
  BY DEF Did
<1>3. \A k \in Nat : k <= t => (Inside(M \cup N, u, k) <=> Inside(M, u, k))
  <2>. TAKE k \in Nat
  <2>. SUFFICES ASSUME k <= t PROVE Inside(M \cup N, u, k) <=> Inside(M, u, k)
    OBVIOUS
  <2>1. \A act, j : j < k => (Did(M \cup N, u, act, j) <=> Did(M, u, act, j))
    BY <1>2
  <2>. QED BY <2>1 DEF Inside
<1>4. Inside(M, u, t) <=> s # LoggedOut
  <2>1. CASE s = LoggedOut
    <3>1. \A in : Did(M, u, "login", in) =>
            \E out : Did(M, u, "logout", out) /\ in < out /\ out < t
      BY <1>1, <2>1 DEF Log, Stands
    <3>. QED BY <2>1, <3>1 DEF Inside
  <2>2. CASE s # LoggedOut
    <3>1. /\ s \in Nat /\ Did(M, u, "login", s) /\ s < t
          /\ \A out : Did(M, u, "logout", out) => out < s
      BY <1>1, <2>2 DEF Log, Stands
    <3>2. \A out : Did(M, u, "logout", out) => ~(s < out) BY <1>1, <3>1
    <3>. QED BY <2>2, <3>1, <3>2 DEF Inside
  <2>. QED BY <2>1, <2>2
<1>5. Before(M \cup N, u, t + 1)
  <2>. SUFFICES ASSUME NEW d \in M \cup N, d.by = u PROVE d.tick \in Nat /\ d.tick < t + 1
    BY DEF Before
  <2>1. CASE d \in M BY <1>1, <2>1
  <2>2. CASE d \in N BY <2>2
  <2>. QED BY <2>1, <2>2
<1>6. Bracketed(M \cup N, u)
  <2>. SUFFICES ASSUME NEW d \in M \cup N, d.by = u
                PROVE  /\ d.sign = "login" <=> ~Inside(M \cup N, u, d.tick)
                       /\ d.sign = "logout" =>
                            \A in : Did(M \cup N, u, "login", in) /\ in < d.tick
                                      => d.tick - in > MinSession
    BY DEF Bracketed
  <2>1. CASE d \in M
    <3>1. d.tick \in Nat /\ d.tick < t BY <1>1, <2>1
    <3>2. \A in : Did(M \cup N, u, "login", in) /\ in < d.tick => Did(M, u, "login", in)
      BY <1>2, <3>1
    <3>3. Inside(M \cup N, u, d.tick) <=> Inside(M, u, d.tick) BY <1>3, <3>1
    <3>. QED BY <2>1, <3>2, <3>3 DEF Log, Bracketed
  <2>2. CASE d \in N
    <3>1. d = e BY <2>2
    <3>2. Inside(M \cup N, u, t) <=> s # LoggedOut BY <1>3, <1>4
    <3>3. d.sign = "login" <=> ~Inside(M \cup N, u, d.tick) BY <3>1, <3>2
    <3>4. ASSUME d.sign = "logout", NEW in, Did(M \cup N, u, "login", in), in < d.tick
          PROVE  d.tick - in > MinSession
      <4>1. Did(M, u, "login", in) /\ in \in Nat BY <1>1, <1>2, <3>1, <3>4
      <4>2. s \in Nat /\ in <= s /\ t - s > MinSession BY <3>1, <3>4, <4>1 DEF Log, Stands
      <4>. QED BY <3>1, <4>1, <4>2
    <3>. QED BY <3>3, <3>4
  <2>. QED BY <2>1, <2>2
<1>7. Stands(M \cup N, u, s2)
  <2>1. CASE s = LoggedOut /\ e.sign = "login" /\ s2 = t
    <3>1. /\ Did(M \cup N, u, "login", t)
          /\ \A in : Did(M \cup N, u, "login", in) => in <= t
          /\ \A out : Did(M \cup N, u, "logout", out) => out < t
      BY <1>1, <1>2, <2>1
    <3>2. t # LoggedOut BY DEF LoggedOut
    <3>. QED BY <2>1, <3>1, <3>2 DEF Stands
  <2>2. CASE s # LoggedOut /\ e.sign = "logout" /\ s2 = LoggedOut
    <3>1. Did(M \cup N, u, "logout", t) BY <1>2, <2>2
    <3>2. \A in : Did(M \cup N, u, "login", in) => in < t BY <1>1, <1>2, <2>2
    <3>. QED BY <2>2, <3>1, <3>2 DEF Stands
  <2>3. CASE s # LoggedOut /\ e.sign \notin {"login", "logout"} /\ s2 = s
    <3>1. \A act \in {"login", "logout"} : \A k :
            Did(M \cup N, u, act, k) <=> Did(M, u, act, k)
      BY <1>2, <2>3
    <3>. QED BY <2>3, <3>1 DEF Log, Stands
  <2>. QED BY <2>1, <2>2, <2>3
<1>. QED BY <1>5, <1>6, <1>7 DEF Log

\* An event without a topic is not missed.
LEMMA LogSkips ==
  ASSUME NEW M, NEW N \in SUBSET M, NEW u, NEW t, NEW s, Log(M, u, t, s),
         \A e \in M : e.by = u /\ e.sign \in {"login", "logout"} => e \in N
  PROVE  Log(N, u, t, s)
<1>1. \A act \in {"login", "logout"} : \A k : Did(N, u, act, k) <=> Did(M, u, act, k) BY DEF Did
<1>2. \A k : Inside(N, u, k) <=> Inside(M, u, k) BY <1>1 DEF Inside
<1>3. Bracketed(N, u) BY <1>1, <1>2 DEF Log, Bracketed
<1>4. Stands(N, u, s) BY <1>1 DEF Log, Stands
<1>5. Before(N, u, t) BY DEF Log, Before
<1>. QED BY <1>3, <1>4, <1>5 DEF Log

\* Dropping events of the last tick leaves a log with brackets.
LEMMA LogCut ==
  ASSUME NEW M, NEW N \in SUBSET M, NEW u, NEW t \in Nat, Bracketed(M, u), Before(M, u, t + 1),
         \A e \in M : e.by = u /\ e.tick < t => e \in N
  PROVE  Bracketed(N, u) /\ Before(N, u, t + 1)
<1>1. Before(N, u, t + 1) BY DEF Before
<1>2. \A e \in N : e.by = u => e.tick \in Nat /\ e.tick <= t BY DEF Before
<1>3. \A act, j : Did(N, u, act, j) => Did(M, u, act, j) BY DEF Did
<1>4. \A act, j : j < t => (Did(N, u, act, j) <=> Did(M, u, act, j)) BY DEF Did
<1>5. \A act, j : Did(M, u, act, j) => j \in Nat BY DEF Did, Before
<1>6. \A k \in Nat : k <= t => (Inside(N, u, k) <=> Inside(M, u, k))
  <2>. TAKE k \in Nat
  <2>. SUFFICES ASSUME k <= t PROVE Inside(N, u, k) <=> Inside(M, u, k)
    OBVIOUS
  <2>1. \A act, j : j < k => (Did(N, u, act, j) <=> Did(M, u, act, j))
    BY <1>3, <1>4, <1>5
  <2>. QED BY <2>1 DEF Inside
<1>7. Bracketed(N, u) BY <1>2, <1>3, <1>6 DEF Bracketed
<1>. QED BY <1>1, <1>7

-----------------------------------------------------------------------------
(* What a tick generates. *)

\* SetToSeq orders a finite set.
LEMMA SetToSeqIs ==
  ASSUME NEW S, IsFiniteSet(S)
  PROVE  SetToSeq(S) \in Seq(S) /\ ToSet(SetToSeq(S)) = S
<1>. DEFINE n == Cardinality(S)
            q == SetToSeq(S)
<1>1. n \in Nat /\ \E f \in [1..n -> S] : IsInjective(f)
  <2>1. n \in Nat /\ ExistsBijection(1..n, S) BY FS_CardinalityType
  <2>2. PICK f : f \in Bijection(1..n, S) BY <2>1 DEF ExistsBijection
  <2>3. f \in [1..n -> S] /\ IsInjective(f)
    BY <2>2 DEF Bijection, Injection, IsInjective
  <2>. QED BY <2>1, <2>3
<1>2. q \in [1..n -> S] /\ IsInjective(q) BY <1>1 DEF SetToSeq
<1>. HIDE DEF q, n
<1>3. q \in Injection(1..n, S) BY <1>2 DEF Injection
<1>4. Cardinality(1..n) = n BY <1>1, FS_Interval
<1>5. q \in Surjection(1..n, S) BY <1>3, <1>4, FS_Injection DEF n
<1>6. q \in Seq(S) BY <1>1, <1>2
<1>7. \A x \in S : \E i \in 1..n : q[i] = x BY <1>5 DEF Surjection
<1>8. DOMAIN q = 1..n /\ \A i \in 1..n : q[i] \in S BY <1>2
<1>9. ToSet(q) = S BY <1>7, <1>8 DEF ToSet
<1>. QED BY <1>6, <1>9 DEF q

LEMMA ConcatIs ==
  ASSUME NEW S, NEW p \in Seq(S), NEW q \in Seq(S)
  PROVE  p \o q \in Seq(S) /\ ToSet(p \o q) = ToSet(p) \cup ToSet(q)
<1>1. p \o q \in Seq(S) OBVIOUS
<1>2. /\ DOMAIN (p \o q) = 1..(Len(p) + Len(q)) /\ DOMAIN p = 1..Len(p) /\ DOMAIN q = 1..Len(q)
      /\ Len(p) \in Nat /\ Len(q) \in Nat
      /\ \A i \in 1..Len(p) : (p \o q)[i] = p[i]
      /\ \A i \in 1..Len(q) : (p \o q)[Len(p) + i] = q[i] /\ Len(p) + i \in 1..(Len(p) + Len(q))
  OBVIOUS
<1>3. \A i \in 1..(Len(p) + Len(q)) : i \notin 1..Len(p) =>
         i - Len(p) \in 1..Len(q) /\ i = Len(p) + (i - Len(p))
  BY <1>2
<1>4. ToSet(p) \cup ToSet(q) \subseteq ToSet(p \o q)
  <2>. DEFINE r == p \o q
  <2>1. /\ DOMAIN r = 1..(Len(p) + Len(q)) /\ 1..Len(p) \subseteq DOMAIN r
        /\ \A i \in 1..Len(p) : r[i] = p[i]
        /\ \A i \in 1..Len(q) : r[Len(p) + i] = q[i] /\ Len(p) + i \in DOMAIN r
    BY <1>2
  <2>. HIDE DEF r
  <2>2. ToSet(p) \subseteq ToSet(r) BY <1>2, <2>1 DEF ToSet
  <2>3. ToSet(q) \subseteq ToSet(r) BY <1>2, <2>1 DEF ToSet
  <2>. QED BY <2>2, <2>3 DEF r
<1>5. ToSet(p \o q) \subseteq ToSet(p) \cup ToSet(q)
  <2>. SUFFICES ASSUME NEW i \in 1..(Len(p) + Len(q))
                PROVE  (p \o q)[i] \in ToSet(p) \cup ToSet(q)
    BY <1>2 DEF ToSet
  <2>1. CASE i \in 1..Len(p) BY <1>2, <2>1 DEF ToSet
  <2>2. CASE i \notin 1..Len(p)
    <3>. DEFINE j == i - Len(p)
    <3>1. j \in 1..Len(q) /\ (p \o q)[i] = q[j] BY <1>2, <1>3, <2>2
    <3>. QED BY <1>2, <3>1 DEF ToSet
  <2>. QED BY <2>1, <2>2
<1>. QED BY <1>1, <1>4, <1>5

\* What is at the head of a batch, and what comes after.
LEMMA BatchIs ==
  ASSUME NEW q, q \in Seq(ToSet(q)), q # << >>
  PROVE  /\ Head(q) \in ToSet(q) /\ Tail(q) \in Seq(ToSet(Tail(q)))
         /\ ToSet(q) = {Head(q)} \cup ToSet(Tail(q))
<1>1. /\ Len(q) \in Nat \ {0} /\ DOMAIN q = 1..Len(q) /\ Head(q) = q[1]
      /\ Tail(q) \in Seq(ToSet(q)) /\ DOMAIN Tail(q) = 1..(Len(q) - 1)
      /\ \A i \in 1..(Len(q) - 1) : Tail(q)[i] = q[i + 1]
  OBVIOUS
<1>2. Head(q) \in ToSet(q) BY <1>1 DEF ToSet
<1>3. ToSet(Tail(q)) \subseteq ToSet(q) BY <1>1 DEF ToSet
<1>4. ToSet(q) \subseteq {Head(q)} \cup ToSet(Tail(q))
  <2>. SUFFICES ASSUME NEW i \in 1..Len(q), i # 1 PROVE q[i] \in ToSet(Tail(q))
    BY <1>1 DEF ToSet
  <2>1. i - 1 \in 1..(Len(q) - 1) /\ (i - 1) + 1 = i BY <1>1
  <2>. QED BY <1>1, <2>1 DEF ToSet
<1>5. Tail(q) \in Seq(ToSet(Tail(q)))
  <2>. DEFINE r == Tail(q)
  <2>1. r \in Seq(ToSet(q)) /\ \A i \in DOMAIN r : r[i] \in ToSet(r) BY <1>1 DEF ToSet
  <2>. HIDE DEF r
  <2>2. r \in Seq(ToSet(r)) BY <2>1
  <2>. QED BY <2>2 DEF r
<1>. QED BY <1>2, <1>3, <1>4, <1>5

LEMMA SeqOverItself ==
  ASSUME NEW S, NEW q \in Seq(S)
  PROVE  q \in Seq(ToSet(q))
<1>1. \A i \in DOMAIN q : q[i] \in ToSet(q) BY DEF ToSet
<1>. QED BY <1>1

\* No module of the attack is a user.
AllSigns ==
  (Credential \cup Exploit) \cup ((Encryption \cup Movement) \cup {Bait, Payload, Link, Click, Spread, Recon})

LEMMA SignsAre ==
  /\ IsFiniteSet(AllSigns)
  /\ \A e \in AllSigns : e.by \notin Users /\ e.tick = tick
<1>1. \A a, b : IsFiniteSet({a, b})
  <2>. TAKE a, b
  <2>1. IsFiniteSet({a} \cup {b}) BY FS_Singleton, FS_AddElement
  <2>2. {a} \cup {b} = {a, b} OBVIOUS
  <2>. QED BY <2>1, <2>2
<1>. DEFINE six == ({Bait, Payload} \cup {Link, Click}) \cup {Spread, Recon}
<1>2. IsFiniteSet(six) BY <1>1, FS_Union
<1>3. IsFiniteSet(Credential) /\ IsFiniteSet(Exploit) /\ IsFiniteSet(Encryption) /\ IsFiniteSet(Movement)
  <2>1. Credential = {Event("credential_stuffing", "auth", "failed_login"),
                      Event("credential_stuffing", "auth", "login")}
    BY DEF Credential
  <2>2. Exploit = {Event("http_exploit", "http", "sql_injection"),
                   Event("http_exploit", "http", "path_traversal")}
    BY DEF Exploit
  <2>. QED BY <1>1, <2>1, <2>2 DEF Encryption, Movement
<1>4. six = {Bait, Payload, Link, Click, Spread, Recon} OBVIOUS
<1>5. IsFiniteSet(AllSigns)
  <2>1. IsFiniteSet(Credential \cup Exploit) BY <1>3, FS_Union
  <2>2. IsFiniteSet((Encryption \cup Movement) \cup six) BY <1>2, <1>3, FS_Union
  <2>3. IsFiniteSet((Credential \cup Exploit) \cup ((Encryption \cup Movement) \cup six))
    BY <2>1, <2>2, FS_Union
  <2>. QED BY <1>4, <2>3 DEF AllSigns
<1>6. \A e \in AllSigns : e.by \in Causes /\ e.tick = tick
  BY DEF AllSigns, Credential, Exploit, Encryption, Movement, Bait, Payload, Link, Click,
         Spread, Recon, Event, Causes
<1>. QED BY <1>5, <1>6, TelemetryAssumption

LEMMA StrikesAre == \A type : \A strike \in Strikes(type) : strike \subseteq AllSigns
BY DEF Strikes, AllSigns

-----------------------------------------------------------------------------
\* While the loop runs, the log of every user is that of its session up to the tick
\* that is next; when it has ended, its brackets stay.
Live == {"generate", "produce", "flush"}
Now  == IF pc = "generate" THEN tick ELSE tick + 1

BatchSound ==
  /\ batch \in Seq(ToSet(batch))
  /\ pc # "produce" => batch = << >>
  /\ \A e \in ToSet(batch) :
       /\ e.tick = tick
       /\ e.by \in Users /\ e.sign \in {"login", "logout"} => e.to # "none"

LogsSound ==
  \A u \in Users :
    /\ pc \in Live => Log(Made, u, Now, session[u])
    /\ pc \notin Live => Bracketed(Made, u)

SInv == tick \in Nat /\ BatchSound /\ LogsSound

LEMMA EmptyBatch == ToSet(<< >>) = {} /\ << >> \in Seq(ToSet(<< >>))
<1>1. DOMAIN << >> = {} OBVIOUS
<1>2. ToSet(<< >>) = {} BY <1>1 DEF ToSet
<1>. QED BY <1>2

\* A tick: the batch is what is new.
LEMMA TickSInv ==
  ASSUME SInv, pc = "generate", pc' = "produce", NEW new, IsFiniteSet(new),
         batch' \in Seq(new), ToSet(batch') = new,
         UNCHANGED <<engine, tick, queue, topic, lost, up, outages>>,
         \A e \in new : e.tick = tick,
         \A e \in new : e.by \in Users /\ e.sign \in {"login", "logout"} => e.to # "none",
         \A u \in Users :
            \/ session'[u] = session[u] /\ \A e \in new : e.by # u
            \/ \E e \in new :
                 /\ \A d \in new : d.by = u => d = e
                 /\ e.by = u
                 /\ \/ session[u] = LoggedOut /\ e.sign = "login" /\ session'[u] = tick
                    \/ /\ session[u] # LoggedOut /\ e.sign = "logout"
                       /\ tick - session[u] > MinSession /\ session'[u] = LoggedOut
                    \/ /\ session[u] # LoggedOut /\ e.sign \notin {"login", "logout"}
                       /\ session'[u] = session[u]
  PROVE  SInv'
<1>1. Made' = Made \cup new
  <2>1. batch = << >> BY DEF SInv, BatchSound
  <2>2. Made = queue \cup topic \cup lost BY <2>1, EmptyBatch DEF Made, InFlight
  <2>. QED BY <2>2 DEF Made, InFlight
<1>2. tick \in Nat /\ MinSession \in Nat BY TelemetryAssumption DEF SInv
<1>3. Now = tick /\ Now' = tick + 1 BY DEF Now
<1>4. ASSUME NEW u \in Users PROVE Log(Made', u, Now', session'[u])
  <2>1. Log(Made, u, tick, session[u]) BY <1>3 DEF SInv, LogsSound, Live
  <2>2. CASE session'[u] = session[u] /\ \A e \in new : e.by # u
    <3>1. Log(Made \cup new, u, tick + 1, session[u]) BY <1>2, <2>1, <2>2, LogIdle
    <3>. QED BY <1>1, <1>3, <2>2, <3>1
  <2>3. ASSUME NEW e \in new,
               \A d \in new : d.by = u => d = e,
               e.by = u,
               \/ session[u] = LoggedOut /\ e.sign = "login" /\ session'[u] = tick
               \/ /\ session[u] # LoggedOut /\ e.sign = "logout"
                  /\ tick - session[u] > MinSession /\ session'[u] = LoggedOut
               \/ /\ session[u] # LoggedOut /\ e.sign \notin {"login", "logout"}
                  /\ session'[u] = session[u]
        PROVE  Log(Made', u, Now', session'[u])
    <3>1. e.tick = tick OBVIOUS
    <3>2. Log(Made \cup new, u, tick + 1, session'[u]) BY <1>2, <2>1, <2>3, <3>1, LogActs
    <3>. QED BY <1>1, <1>3, <3>2
  <2>. QED BY <2>2, <2>3
<1>5. BatchSound' BY DEF BatchSound
<1>6. LogsSound' BY <1>4 DEF LogsSound, Live
<1>. QED BY <1>2, <1>5, <1>6 DEF SInv

LEMMA SimulationTickSInv == ASSUME SInv, SimulationTick PROVE SInv'
<1>1. PICK noise \in SUBSET {e \in {Flow, ProcessStart} : e.to \in Background},
           act \in [Users -> {"idle", "login", "logout"} \cup Activities] :
        /\ \A u \in Users : act[u] \in Acts(u)
        /\ batch' = SetToSeq({Event(u, Topic(act[u]), act[u]) :
                                u \in {v \in Users : act[v] # "idle"}}) \o SetToSeq(noise)
        /\ session' = [u \in Users |->
                         CASE act[u] = "login"  -> tick
                           [] act[u] = "logout" -> LoggedOut
                           [] OTHER             -> session[u]]
  BY DEF SimulationTick
<1>. DEFINE busy == {v \in Users : act[v] # "idle"}
            told(u) == Event(u, Topic(act[u]), act[u])
            logs == {told(u) : u \in busy}
            new == logs \cup noise
<1>2. IsFiniteSet(logs)
  <2>1. IsFiniteSet(busy) BY TelemetryAssumption, FS_Subset
  <2>2. [u \in busy |-> told(u)] \in Surjection(busy, logs) BY DEF Surjection
  <2>. QED BY <2>1, <2>2, FS_Surjection
<1>3. IsFiniteSet(noise)
  <2>1. IsFiniteSet({Flow} \cup {ProcessStart}) BY FS_Singleton, FS_AddElement
  <2>. QED BY <2>1, FS_Subset
<1>4. IsFiniteSet(new) BY <1>2, <1>3, FS_Union
<1>5. \A e \in noise : e.by \notin Users /\ e.tick = tick
  <2>1. \A e \in noise : e.by = "host" /\ e.tick = tick BY DEF Flow, ProcessStart, Event
  <2>. QED BY <2>1, TelemetryAssumption DEF Causes
<1>6. \A u : /\ told(u).by = u /\ told(u).tick = tick /\ told(u).sign = act[u]
             /\ told(u).to = Topic(act[u])
  BY DEF Event
<1>7. batch' \in Seq(new) /\ ToSet(batch') = new
  <2>1. SetToSeq(logs) \in Seq(logs) /\ ToSet(SetToSeq(logs)) = logs BY <1>2, SetToSeqIs
  <2>2. SetToSeq(noise) \in Seq(noise) /\ ToSet(SetToSeq(noise)) = noise BY <1>3, SetToSeqIs
  <2>3. batch' = SetToSeq(logs) \o SetToSeq(noise) BY <1>1
  <2>. HIDE DEF logs
  <2>4. SetToSeq(logs) \in Seq(new) /\ SetToSeq(noise) \in Seq(new) BY <2>1, <2>2
  <2>. HIDE DEF new
  <2>5. SetToSeq(logs) \o SetToSeq(noise) \in Seq(new)
        /\ ToSet(SetToSeq(logs) \o SetToSeq(noise)) = ToSet(SetToSeq(logs)) \cup ToSet(SetToSeq(noise))
    BY <2>4, ConcatIs
  <2>. QED BY <2>1, <2>2, <2>3, <2>5 DEF new
<1>8. Topic("login") = "auth" /\ Topic("logout") = "auth" BY DEF Topic
<1>9. ASSUME NEW u \in Users, act[u] # "idle"
      PROVE  /\ told(u) \in new
             /\ \A d \in new : d.by = u => d = told(u)
             /\ \/ session[u] = LoggedOut /\ act[u] = "login" /\ session'[u] = tick
                \/ /\ session[u] # LoggedOut /\ act[u] = "logout"
                   /\ tick - session[u] > MinSession /\ session'[u] = LoggedOut
                \/ /\ session[u] # LoggedOut /\ act[u] \notin {"login", "logout"}
                   /\ session'[u] = session[u]
  <2>1. told(u) \in new BY <1>9
  <2>2. \A d \in new : d.by = u => d = told(u)
    <3>. SUFFICES ASSUME NEW d \in new, d.by = u PROVE d = told(u)
      OBVIOUS
    <3>1. d \in logs BY <1>5
    <3>2. PICK v \in busy : d = told(v) BY <3>1
    <3>. HIDE DEF told
    <3>. QED BY <1>6, <3>2
  <2>3. act[u] \in Acts(u) BY <1>1
  <2>4. session'[u] = CASE act[u] = "login"  -> tick
                        [] act[u] = "logout" -> LoggedOut
                        [] OTHER             -> session[u]
    BY <1>1
  <2>5. CASE session[u] = LoggedOut
    <3>1. act[u] = "login" BY <1>9, <2>3, <2>5 DEF Acts
    <3>. QED BY <2>1, <2>2, <2>4, <2>5, <3>1
  <2>6. CASE session[u] # LoggedOut
    <3>1. act[u] \in Activities \/ (act[u] = "logout" /\ LongEnough(u))
      BY <1>9, <2>3, <2>6 DEF Acts
    <3>2. Activities \cap {"login", "logout"} = {} BY TelemetryAssumption
    <3>3. CASE act[u] = "logout" /\ LongEnough(u)
      BY <2>1, <2>2, <2>4, <2>6, <3>3 DEF LongEnough
    <3>4. CASE act[u] \in Activities
      <4>1. act[u] \notin {"login", "logout"} BY <3>2, <3>4
      <4>2. session'[u] = session[u] BY <2>4, <4>1
      <4>. QED BY <2>1, <2>2, <2>6, <4>1, <4>2
    <3>. QED BY <3>1, <3>3, <3>4
  <2>. QED BY <2>5, <2>6
<1>10. ASSUME NEW u \in Users, act[u] = "idle"
       PROVE  session'[u] = session[u] /\ \A e \in new : e.by # u
  <2>1. session'[u] = session[u] BY <1>1, <1>10
  <2>2. ASSUME NEW e \in new, e.by = u PROVE FALSE
    <3>1. PICK v \in busy : e = told(v) BY <1>5, <2>2
    <3>. HIDE DEF told
    <3>. QED BY <1>6, <1>10, <2>2, <3>1
  <2>. QED BY <2>1, <2>2
<1>11. \A e \in new : e.tick = tick BY <1>5, <1>6
<1>12. \A e \in new : e.by \in Users /\ e.sign \in {"login", "logout"} => e.to # "none"
  <2>. SUFFICES ASSUME NEW e \in new, e.by \in Users, e.sign \in {"login", "logout"}
                PROVE  e.to # "none"
    OBVIOUS
  <2>1. PICK v \in busy : e = told(v) BY <1>5
  <2>. HIDE DEF told
  <2>. QED BY <1>6, <1>8, <2>1
<1>13. /\ pc = "generate" /\ pc' = "produce"
       /\ UNCHANGED <<engine, tick, queue, topic, lost, up, outages>>
  BY DEF SimulationTick
<1>. HIDE DEF new
<1>14. \A u \in Users :
            \/ session'[u] = session[u] /\ \A e \in new : e.by # u
            \/ \E e \in new :
                 /\ \A d \in new : d.by = u => d = e
                 /\ e.by = u
                 /\ \/ session[u] = LoggedOut /\ e.sign = "login" /\ session'[u] = tick
                    \/ /\ session[u] # LoggedOut /\ e.sign = "logout"
                       /\ tick - session[u] > MinSession /\ session'[u] = LoggedOut
                    \/ /\ session[u] # LoggedOut /\ e.sign \notin {"login", "logout"}
                       /\ session'[u] = session[u]
  <2>. TAKE u \in Users
  <2>1. CASE act[u] = "idle" BY <1>10, <2>1
  <2>2. CASE act[u] # "idle"
    <3>. HIDE DEF told
    <3>. QED BY <1>6, <1>9, <2>2
  <2>. QED BY <2>1, <2>2
<1>. QED BY <1>4, <1>7, <1>11, <1>12, <1>13, <1>14, TickSInv

LEMMA AttackTickSInv == ASSUME SInv, AttackTick PROVE SInv'
<1>1. PICK strike \in [Active -> UNION {Strikes(p.type) : p \in Active}] :
        /\ \A p \in Active : strike[p] \in Strikes(p.type)
        /\ batch' = SetToSeq(UNION {strike[p] : p \in Active})
  BY DEF AttackTick
<1>. DEFINE new == UNION {strike[p] : p \in Active}
<1>2. new \subseteq AllSigns BY <1>1, StrikesAre
<1>3. IsFiniteSet(new) BY <1>2, SignsAre, FS_Subset
<1>4. batch' \in Seq(new) /\ ToSet(batch') = new BY <1>1, <1>3, SetToSeqIs
<1>5. \A e \in new : e.by \notin Users /\ e.tick = tick BY <1>2, SignsAre
<1>6. /\ pc = "generate" /\ pc' = "produce" /\ session' = session
      /\ UNCHANGED <<engine, tick, queue, topic, lost, up, outages>>
  BY DEF AttackTick
<1>. HIDE DEF new
<1>7. \A u \in Users : session'[u] = session[u] /\ \A e \in new : e.by # u BY <1>5, <1>6
<1>. QED BY <1>3, <1>4, <1>5, <1>6, <1>7, TickSInv

\* The same events, wherever they are.
LEMMA SameSInv ==
  ASSUME SInv, Made' = Made, BatchSound', tick' \in Nat, Now' = Now, session' = session,
         pc' \in Live <=> pc \in Live
  PROVE  SInv'
BY DEF SInv, LogsSound

LEMMA SkipSInv == ASSUME SInv, SkipEvent PROVE SInv'
<1>1. BatchSound /\ tick \in Nat /\ LogsSound BY DEF SInv
<1>2. /\ pc = "produce" /\ batch # << >> /\ Head(batch).to = "none" /\ batch' = Tail(batch)
      /\ UNCHANGED <<engine, pc, tick, session, queue, topic, lost, up, outages>>
  BY DEF SkipEvent, client
<1>3. /\ Head(batch) \in ToSet(batch) /\ batch' \in Seq(ToSet(batch'))
      /\ ToSet(batch) = {Head(batch)} \cup ToSet(batch')
  BY <1>1, <1>2, BatchIs DEF BatchSound
<1>4. Made' \subseteq Made /\ Made \subseteq Made' \cup {Head(batch)}
  BY <1>2, <1>3 DEF Made, InFlight
<1>5. Now' = Now BY <1>2 DEF Now
<1>6. ASSUME NEW u \in Users PROVE Log(Made', u, Now', session'[u])
  <2>1. Log(Made, u, Now, session[u]) BY <1>1, <1>2 DEF LogsSound, Live
  <2>2. \A e \in Made : e.by = u /\ e.sign \in {"login", "logout"} => e \in Made'
    BY <1>1, <1>2, <1>3, <1>4 DEF BatchSound
  <2>3. Log(Made', u, Now, session[u]) BY <1>4, <2>1, <2>2, LogSkips
  <2>. QED BY <1>2, <1>5, <2>3
<1>7. BatchSound' BY <1>1, <1>2, <1>3 DEF BatchSound
<1>8. LogsSound' BY <1>2, <1>6 DEF LogsSound, Live
<1>. QED BY <1>1, <1>2, <1>7, <1>8 DEF SInv

LEMMA ProduceSInv == ASSUME SInv, Produce PROVE SInv'
<1>1. BatchSound /\ tick \in Nat BY DEF SInv
<1>2. /\ pc = "produce" /\ batch # << >> /\ batch' = Tail(batch)
      /\ queue' = queue \cup {Head(batch)}
      /\ UNCHANGED <<engine, pc, tick, session, topic, lost, up, outages>>
  BY DEF Produce
<1>3. /\ Head(batch) \in ToSet(batch) /\ batch' \in Seq(ToSet(batch'))
      /\ ToSet(batch) = {Head(batch)} \cup ToSet(batch')
  BY <1>1, <1>2, BatchIs DEF BatchSound
<1>4. Made' = Made BY <1>2, <1>3 DEF Made, InFlight
<1>5. BatchSound' BY <1>1, <1>2, <1>3 DEF BatchSound
<1>. QED BY <1>1, <1>2, <1>4, <1>5, SameSInv DEF Now

\* The loop ends, and what it had still to produce is gone.
LEMMA CutSInv ==
  ASSUME SInv, pc' \notin Live, batch' = << >>, tick' = tick,
         queue' \cup topic' \cup lost' = queue \cup topic \cup lost
  PROVE  SInv'
<1>1. BatchSound /\ tick \in Nat /\ LogsSound BY DEF SInv
<1>2. Made' = queue \cup topic \cup lost BY EmptyBatch DEF Made, InFlight
<1>3. Made = ToSet(batch) \cup Made' BY <1>2 DEF Made, InFlight
<1>4. ASSUME NEW u \in Users PROVE Bracketed(Made', u)
  <2>1. CASE pc \in Live
    <3>1. Log(Made, u, Now, session[u]) BY <1>1, <2>1 DEF LogsSound
    <3>2. Before(Made, u, tick + 1)
      <4>1. CASE pc = "generate" BY <1>1, <3>1, <4>1, BeforeLater DEF Log, Now
      <4>2. CASE pc # "generate" BY <3>1, <4>2 DEF Log, Now
      <4>. QED BY <4>1, <4>2
    <3>3. \A e \in Made : e.by = u /\ e.tick < tick => e \in Made'
      BY <1>1, <1>3 DEF BatchSound
    <3>. QED BY <1>1, <1>3, <3>1, <3>2, <3>3, LogCut DEF Log
  <2>2. CASE pc \notin Live
    <3>1. batch = << >> BY <1>1, <2>2 DEF BatchSound, Live
    <3>2. Made' = Made BY <1>3, <3>1, EmptyBatch
    <3>. QED BY <1>1, <2>2, <3>2 DEF LogsSound
  <2>. QED BY <2>1, <2>2
<1>5. BatchSound' BY EmptyBatch DEF BatchSound
<1>. QED BY <1>1, <1>4, <1>5 DEF SInv, LogsSound

LEMMA EndSInv == ASSUME SInv, Overflow \/ Interrupt \/ Kill \/ Close PROVE SInv'
<1>1. /\ pc' \notin Live /\ tick' = tick
      /\ queue' \cup topic' \cup lost' = queue \cup topic \cup lost
  BY DEF Overflow, Interrupt, Kill, Close, client, Live
<1>2. batch' = << >> BY DEF Overflow, Interrupt, Kill, Close, SInv, BatchSound
<1>. QED BY <1>1, <1>2, CutSInv

\* A tick ends, a flush begins or ends.
LEMMA TurnSInv == ASSUME SInv, EndTick \/ FlushEnd PROVE SInv'
<1>1. BatchSound /\ tick \in Nat BY DEF SInv
<1>2. /\ batch = << >> /\ pc \in {"produce", "flush"}
      /\ UNCHANGED <<engine, session, batch, queue, topic, lost, up, outages>>
      /\ \/ pc' = "flush" /\ tick' = tick
         \/ pc' = "generate" /\ tick' = tick + 1
  BY <1>1 DEF EndTick, FlushEnd, client, BatchSound
<1>3. Made' = Made BY <1>2 DEF Made, InFlight
<1>4. Now' = Now BY <1>2 DEF Now
<1>5. BatchSound' BY <1>2, EmptyBatch DEF BatchSound
<1>6. pc \in Live /\ pc' \in Live BY <1>2 DEF Live
<1>7. tick' \in Nat BY <1>1, <1>2
<1>. QED BY <1>2, <1>3, <1>4, <1>5, <1>6, <1>7, SameSInv

\* The client and the broker move events, and make none.
LEMMA ClientSInv ==
  ASSUME SInv, Report \/ BrokerDown \/ BrokerUp \/ UNCHANGED vars
  PROVE  SInv'
<1>1. UNCHANGED <<pc, tick, session, batch>>
  BY DEF Report, Deliver, Expire, BrokerDown, BrokerUp, vars
<1>2. Made' = Made
  <2>1. CASE Report
    <3>1. PICK e \in queue : Deliver(e) \/ Expire(e) BY <2>1 DEF Report
    <3>2. queue' \cup topic' \cup lost' = queue \cup topic \cup lost
      BY <3>1 DEF Deliver, Expire, Acknowledged
    <3>. QED BY <1>1, <3>2 DEF Made, InFlight
  <2>2. CASE BrokerDown
    <3>1. PICK u \in SUBSET queue : topic' = topic \cup u BY <2>2 DEF BrokerDown
    <3>2. queue' = queue /\ lost' = lost BY <2>2 DEF BrokerDown
    <3>. QED BY <1>1, <3>1, <3>2 DEF Made, InFlight
  <2>3. CASE BrokerUp BY <1>1, <2>3 DEF BrokerUp, Made, InFlight
  <2>4. CASE UNCHANGED vars BY <2>4 DEF vars, Made, InFlight
  <2>. QED BY <2>1, <2>2, <2>3, <2>4
<1>3. BatchSound' /\ tick' \in Nat /\ Now' = Now BY <1>1 DEF SInv, BatchSound, Now
<1>. QED BY <1>1, <1>2, <1>3, SameSInv

LEMMA InitSInv == Init => SInv
<1>. SUFFICES ASSUME Init PROVE SInv
  OBVIOUS
<1>1. Made = {} BY EmptyBatch DEF Init, Made, InFlight
<1>2. ASSUME NEW u \in Users PROVE Log(Made, u, 0, session[u])
  <2>1. session[u] = LoggedOut BY DEF Init
  <2>. QED BY <1>1, <2>1 DEF Log, Bracketed, Before, Stands, Did
<1>3. Now = 0 BY DEF Init, Now
<1>4. BatchSound BY EmptyBatch DEF Init, BatchSound
<1>. QED BY <1>2, <1>3, <1>4 DEF Init, SInv, LogsSound, Live

LEMMA StepSInv == SInv /\ [Next]_vars => SInv'
BY SimulationTickSInv, AttackTickSInv, SkipSInv, ProduceSInv, EndSInv, TurnSInv, ClientSInv
   DEF Next, Loop

\* The engine's session of every user is what its log says, for any number of users
\* and any length of run.
THEOREM SessionsLogged == Spec => []SInv
BY InitSInv, StepSInv, PTL DEF Spec

\* The telemetry of a user is a sequence of sessions.
THEOREM SessionsBracketed == Spec => []SessionsBracket
<1>1. ASSUME SInv PROVE SessionsBracket
  <2>. SUFFICES ASSUME NEW u \in Users, NEW e \in Of(u)
                PROVE  /\ e.sign = "login" <=> ~LoggedIn(u, e.tick)
                       /\ e.sign = "logout" =>
                            \A in \in Ticks(u, "login") : in < e.tick => e.tick - in > MinSession
    BY DEF SessionsBracket
  <2>1. Bracketed(Made, u) BY <1>1 DEF SInv, LogsSound, Log
  <2>2. \A act, t : t \in Ticks(u, act) <=> Did(Made, u, act, t) BY DEF Ticks, Of, Did
  <2>3. LoggedIn(u, e.tick) <=> Inside(Made, u, e.tick) BY <2>2 DEF LoggedIn, Inside
  <2>4. e \in Made /\ e.by = u BY DEF Of
  <2>. QED BY <2>1, <2>2, <2>3, <2>4 DEF Bracketed
<1>. QED BY <1>1, SessionsLogged, PTL
=============================================================================
