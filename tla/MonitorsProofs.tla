--------------------------- MODULE MonitorsProofs ---------------------------
(***************************************************************************)
(* What a monitor counts, lists and reports, for every telemetry, every    *)
(* threshold and window, with Redis or without, and any number of crashes. *)
(*                                                                         *)
(* Two invariants.  IInv follows the alerts of an event through its        *)
(* handler: no lookup on the way drops one of them, so what the patterns   *)
(* find is published.  MInv relates every live key to its history:         *)
(* a list holds each item that is still fresh (KeptList), a counter every  *)
(* renewed lookup that is less than a window old (KeptCount), and nothing  *)
(* that was not earned (Earned), while the handler may be between the two  *)
(* commands of a lookup (ReplyKept).  From these follow that bursts and    *)
(* fresh items are seen and that no alert counts more than was handed over.*)
(***************************************************************************)
EXTENDS Monitors, SequenceTheorems, FiniteSetTheorems, WellFoundedInduction, TLAPS

\* The handler holds the alerts the patterns gave for its event, whatever the
\* lookups have added to them.
InHand ==
  task # Idle => /\ {"event", "done", "alerts"} \subseteq DOMAIN task
                 /\ \A p \in Patterns(task.event) : Alert(task.event, p, 0) \in task.alerts

\* Where the patterns of an event are: PatternsAreReported, of a busy handler.
Covered ==
  \A e \in {d \in Events : ReadBy[d] = monitor} :
    \/ e \in topic
    \/ task # Idle /\ task.event = e
    \/ \A p \in Patterns(e) : [event |-> e, rule |-> p] \in published
    \/ crashes > 0 /\ e \notin taken

IInv == InHand /\ Covered /\ crashes \in Nat

-----------------------------------------------------------------------------
LEMMA InitHolds == Init => IInv
BY DEF Init, IInv, InHand, Covered

LEMMA ConsumeKeeps ==
  ASSUME IInv, NEW e \in topic, Consume(e)
  PROVE  IInv'
<1>. USE DEF Consume
<1>1. /\ DOMAIN task' = {"event", "done", "reply", "alerts"} /\ task'.event = e
      /\ task'.alerts = {Alert(e, p, 0) : p \in Patterns(e)}
  OBVIOUS
<1>2. task' # Idle
  <2>1. "done" \notin DOMAIN Idle BY DEF Idle
  <2>. QED BY <1>1, <2>1
<1>3. InHand' BY <1>1 DEF InHand
<1>4. Covered' BY <1>1, <1>2 DEF IInv, Covered, Remaining
<1>. QED BY <1>3, <1>4 DEF IInv

\* A lookup moves on and may add an alert; it neither changes the event nor
\* publishes, and takes none of the alerts away.
LEMMA LookupKeeps ==
  ASSUME IInv, Analyze
  PROVE  IInv'
<1>1. task # Idle BY DEF Analyze, SkipBlind, Increment, Expire, Get, SetEx, Busy
<1>2. {"event", "done", "alerts"} \subseteq DOMAIN task BY <1>1 DEF IInv, InHand
<1>3. UNCHANGED <<monitor, topic, taken, published, crashes>>
  BY DEF Analyze, SkipBlind, Increment, Expire, Get, SetEx
<1>4. /\ DOMAIN task' = DOMAIN task /\ task'.event = task.event
      /\ task.alerts \subseteq task'.alerts
  <2>1. \/ task' = [task EXCEPT !.done = @ + 1]
        \/ \E r : task' = [task EXCEPT !.reply = r]
        \/ \E size : task' = Finished(size)
    BY DEF Analyze, SkipBlind, Increment, Expire, Get, SetEx
  <2>2. CASE task' = [task EXCEPT !.done = @ + 1] BY <1>2, <2>2
  <2>3. ASSUME NEW r, task' = [task EXCEPT !.reply = r]
        PROVE  /\ DOMAIN task' = DOMAIN task /\ task'.event = task.event
               /\ task.alerts \subseteq task'.alerts
    BY <1>2, <2>3
  <2>4. ASSUME NEW size, task' = Finished(size)
        PROVE  /\ DOMAIN task' = DOMAIN task /\ task'.event = task.event
               /\ task.alerts \subseteq task'.alerts
    BY <1>2, <2>4 DEF Finished
  <2>. QED BY <2>1, <2>2, <2>3, <2>4
<1>5. task' # Idle
  <2>1. "done" \notin DOMAIN Idle BY DEF Idle
  <2>. QED BY <1>2, <1>4, <2>1
<1>6. InHand' BY <1>1, <1>2, <1>4 DEF IInv, InHand
<1>7. Covered' BY <1>1, <1>3, <1>4, <1>5 DEF IInv, Covered
<1>. QED BY <1>3, <1>6, <1>7 DEF IInv

LEMMA PublishKeeps ==
  ASSUME IInv, Publish
  PROVE  IInv'
<1>. USE DEF Publish
<1>1. \A p \in Patterns(task.event) : [event |-> task.event, rule |-> p] \in published'
  <2>. SUFFICES ASSUME NEW p \in Patterns(task.event)
       PROVE  [event |-> task.event, rule |-> p] \in published'
    OBVIOUS
  <2>1. Alert(task.event, p, 0) \in task.alerts BY DEF IInv, InHand
  <2>2. /\ Alert(task.event, p, 0).event = task.event /\ Alert(task.event, p, 0).rule = p
    BY DEF Alert
  <2>. QED BY <2>1, <2>2 DEF Found
<1>2. InHand' BY DEF InHand
<1>3. published \subseteq published' OBVIOUS
<1>4. Covered' BY <1>1, <1>3 DEF IInv, Covered
<1>. QED BY <1>2, <1>4 DEF IInv

LEMMA CrashKeeps ==
  ASSUME IInv, Crash
  PROVE  IInv'
BY DEF IInv, InHand, Covered, Crash

LEMMA RestKeeps ==
  ASSUME IInv, AutoCommit \/ Tick \/ UNCHANGED vars
  PROVE  IInv'
<1>1. /\ UNCHANGED <<monitor, topic, task, published, crashes>>
      /\ taken' \subseteq taken
  BY DEF AutoCommit, Tick, vars
<1>2. InHand' BY <1>1 DEF IInv, InHand
<1>3. Covered' BY <1>1 DEF IInv, Covered
<1>. QED BY <1>1, <1>2, <1>3 DEF IInv

\* What the patterns find in an event is published, with or without Redis; only an
\* event that was committed and then cut by a crash may end without its alerts.
THEOREM PatternsReachTheTopic == Spec => []PatternsAreReported
<1>1. IInv /\ [Next]_vars => IInv'
  BY ConsumeKeeps, LookupKeeps, PublishKeeps, CrashKeeps, RestKeeps DEF Next
<1>2. IInv => PatternsAreReported
  BY DEF IInv, Covered, PatternsAreReported
<1>. QED BY <1>1, <1>2, InitHolds, PTL DEF Spec

-----------------------------------------------------------------------------
(* One key and its history: what the commands of Redis do to them. *)

\* A history is a sequence of lookups with the time of each and of its renewal.
Entry(x, at, renewed) == [item |-> x, at |-> at, renewed |-> renewed]

Entries(things) == [item : things, at : Nat, renewed : Nat \cup {Never}]

\* A list holds nothing that was not looked up, and each item that was looked up,
\* within a window of now and never before: it will not expire in that window.
LiveItem(h, x, w, t) ==
  /\ \E i \in 1..Len(h) : h[i].item = x
  /\ \A i \in 1..Len(h) : h[i].item = x => t < h[i].at + w

KeptList(h, found, list, until, w, t) ==
  /\ found => \A x \in list : \E i \in 1..Len(h) : h[i].item = x
  /\ \A x : x # NoPort /\ LiveItem(h, x, w, t) =>
       /\ found /\ x \in list
       /\ \E i \in 1..Len(h) : h[i].item = x /\ until >= h[i].at + w

\* A counter counts every lookup since the first that was renewed and is less than
\* a window old.
KeptCount(h, found, c, until, w, t) ==
  /\ found => /\ c \in 1..Len(h)
              /\ h[Len(h)].renewed # Never => until = h[Len(h)].renewed + w
              /\ until = Never \/ t < until
  /\ \A i \in 1..Len(h) :
       h[i].renewed # Never /\ t < h[i].at + w =>
         found /\ c >= Len(h) - i + 1 /\ (until = Never \/ until >= h[i].at + w)

\* A count is earned: each lookup it counts but the last is followed by the next
\* within the window it was renewed for, or was cut by a crash.
Earned(h, c, w, crashed) ==
  /\ c \in 1..Len(h)
  /\ \A i \in (Len(h) - c + 1)..(Len(h) - 1) :
       \/ crashed /\ h[i].renewed = Never
       \/ h[i + 1].at < h[i].renewed + w

\* A count misses none of the renewed lookups within a window of the last.
CountsBurst(h, c, w) ==
  \A i \in 1..(Len(h) - 1) :
    h[i].renewed # Never /\ h[Len(h)].at < h[i].at + w => c >= Len(h) - i + 1

Past(h, t) == \A i \in 1..Len(h) : h[i].at <= t

\* The entries of a history are entries, and a lookup adds one.
LEMMA EntryIs ==
  \A things : \A h \in Seq(Entries(things)) :
    /\ Len(h) \in Nat
    /\ \A i \in 1..Len(h) : /\ h[i].item \in things
                             /\ h[i].at \in Nat
                             /\ h[i].renewed \in Nat \cup {Never}
<1>. TAKE things
<1>. TAKE h \in Seq(Entries(things))
<1>1. Len(h) \in Nat /\ \A i \in 1..Len(h) : h[i] \in Entries(things) OBVIOUS
<1>. QED BY <1>1 DEF Entries

LEMMA AppendIs ==
  \A things : \A h \in Seq(Entries(things)), x \in things, t \in Nat, r \in Nat \cup {Never} :
    LET g == Append(h, Entry(x, t, r))
    IN  /\ g \in Seq(Entries(things)) /\ Len(g) = Len(h) + 1
        /\ \A i \in 1..Len(h) : g[i] = h[i]
        /\ g[Len(h) + 1].item = x /\ g[Len(h) + 1].at = t /\ g[Len(h) + 1].renewed = r
<1>. TAKE things
<1>. TAKE h \in Seq(Entries(things)), x \in things, t \in Nat, r \in Nat \cup {Never}
<1>1. Entry(x, t, r) \in Entries(things) BY DEF Entry, Entries
<1>2. \A e \in Entries(things) :
        LET g == Append(h, e)
        IN  /\ g \in Seq(Entries(things)) /\ Len(g) = Len(h) + 1
            /\ \A i \in 1..Len(h) : g[i] = h[i]
            /\ g[Len(h) + 1] = e
  OBVIOUS
<1>. QED BY <1>1, <1>2 DEF Entry

\* Time passes: what expires now is no longer live.
LEMMA ListTick ==
  ASSUME NEW things, NEW h \in Seq(Entries(things)), NEW found \in BOOLEAN, NEW list,
         NEW until \in Int, NEW w \in Nat, NEW t \in Nat,
         KeptList(h, found, list, until, w, t)
  PROVE  KeptList(h, found /\ until # t + 1, list, until, w, t + 1)
<1>1. Len(h) \in Nat /\ \A i \in 1..Len(h) : h[i].at \in Nat BY EntryIs
<1>2. \A x : LiveItem(h, x, w, t + 1) => LiveItem(h, x, w, t)
  BY <1>1 DEF LiveItem
<1>3. ASSUME NEW x, x # NoPort, LiveItem(h, x, w, t + 1)
      PROVE  /\ found /\ until # t + 1 /\ x \in list
             /\ \E i \in 1..Len(h) : h[i].item = x /\ until >= h[i].at + w
  <2>0. LiveItem(h, x, w, t) BY <1>2, <1>3
  <2>1. PICK i \in 1..Len(h) : h[i].item = x /\ until >= h[i].at + w
    BY <1>3, <2>0 DEF KeptList
  <2>2. t + 1 < h[i].at + w BY <1>3, <2>1 DEF LiveItem
  <2>3. until # t + 1 BY <1>1, <2>1, <2>2
  <2>. QED BY <1>3, <2>0, <2>1, <2>3 DEF KeptList
<1>. QED BY <1>3 DEF KeptList

\* An item that is on the list, or a port of zero, is looked up and nothing else.
LEMMA ListKnown ==
  ASSUME NEW things, NEW h \in Seq(Entries(things)), NEW found \in BOOLEAN, NEW list,
         NEW until \in Int, NEW w \in Nat, NEW t \in Nat, NEW r \in Nat \cup {Never},
         KeptList(h, found, list, until, w, t),
         NEW x \in things, x = NoPort \/ (found /\ x \in list)
  PROVE  KeptList(Append(h, Entry(x, t, r)), found, list, until, w, t)
<1>. DEFINE g == Append(h, Entry(x, t, r))
<1>1. /\ Len(g) = Len(h) + 1 /\ Len(h) \in Nat
      /\ \A i \in 1..Len(h) : g[i] = h[i]
      /\ g[Len(g)].item = x /\ g[Len(g)].at = t
  BY AppendIs, EntryIs
<1>. HIDE DEF g
<1>2. found => \A y \in list : \E i \in 1..Len(g) : g[i].item = y
  BY <1>1 DEF KeptList
<1>3. ASSUME NEW y, y # NoPort, LiveItem(g, y, w, t)
      PROVE  /\ found /\ y \in list
             /\ \E i \in 1..Len(g) : g[i].item = y /\ until >= g[i].at + w
  <2>1. \A i \in 1..Len(h) : h[i].item = y => t < h[i].at + w
    BY <1>1, <1>3 DEF LiveItem
  <2>2. \E i \in 1..Len(h) : h[i].item = y
    <3>1. PICK i \in 1..Len(g) : g[i].item = y BY <1>3 DEF LiveItem
    <3>2. CASE i \in 1..Len(h) BY <1>1, <3>1, <3>2
    <3>3. CASE i = Len(g)
      <4>1. y = x BY <1>1, <3>1, <3>3
      <4>2. found /\ y \in list BY <1>3, <4>1
      <4>. QED BY <4>2 DEF KeptList
    <3>. QED BY <1>1, <3>2, <3>3
  <2>3. /\ found /\ y \in list
        /\ \E i \in 1..Len(h) : h[i].item = y /\ until >= h[i].at + w
    BY <1>3, <2>1, <2>2 DEF KeptList, LiveItem
  <2>. QED BY <1>1, <2>3
<1>. QED BY <1>2, <1>3 DEF KeptList, g

\* A new item is put on the list that was read, if the key is not gone meanwhile.
LEMMA ListSet ==
  ASSUME NEW things, NEW h \in Seq(Entries(things)), NEW found \in BOOLEAN, NEW list,
         NEW until \in Int, NEW w \in Nat \ {0}, NEW t \in Nat, NEW r \in Nat \cup {Never},
         KeptList(h, found, list, until, w, t), Past(h, t),
         NEW read, found => list = read,
         \A y \in read : \E i \in 1..Len(h) : h[i].item = y,
         NEW x \in things
  PROVE  KeptList(Append(h, Entry(x, t, r)), TRUE, read \cup {x}, t + w, w, t)
<1>. DEFINE g == Append(h, Entry(x, t, r))
<1>1. /\ Len(g) = Len(h) + 1 /\ Len(h) \in Nat
      /\ \A i \in 1..Len(h) : g[i] = h[i] /\ h[i].at \in Nat
      /\ g[Len(g)].item = x /\ g[Len(g)].at = t
  BY AppendIs, EntryIs
<1>. HIDE DEF g
<1>2. \A y \in read \cup {x} : \E i \in 1..Len(g) : g[i].item = y
  BY <1>1
<1>3. ASSUME NEW y, y # NoPort, LiveItem(g, y, w, t)
      PROVE  /\ y \in read \cup {x}
             /\ \E i \in 1..Len(g) : g[i].item = y /\ t + w >= g[i].at + w
  <2>1. CASE y = x BY <1>1, <2>1
  <2>2. CASE y # x
    <3>1. PICK i \in 1..Len(h) : h[i].item = y BY <1>1, <1>3, <2>2 DEF LiveItem
    <3>2. LiveItem(h, y, w, t) BY <1>1, <1>3, <3>1 DEF LiveItem
    <3>3. found /\ y \in list BY <1>3, <3>2 DEF KeptList
    <3>4. h[i].at <= t BY DEF Past
    <3>. QED BY <1>1, <3>1, <3>3, <3>4
  <2>. QED BY <2>1, <2>2
<1>. QED BY <1>2, <1>3 DEF KeptList, g

\* What is fresh is on the list.
LEMMA ListFresh ==
  ASSUME NEW things, NEW h \in Seq(Entries(things)), NEW found \in BOOLEAN, NEW list,
         NEW until \in Int, NEW w \in Nat, NEW t \in Nat,
         KeptList(h, found, list, until, w, t), Len(h) # 0, h[Len(h)].at = t
  PROVE  \A x : /\ x # NoPort /\ \E i \in 1..Len(h) : h[i].item = x
                /\ \A i \in 1..Len(h) : h[i].item = x => h[Len(h)].at < h[i].at + w
                => found /\ x \in list
BY DEF KeptList, LiveItem

-----------------------------------------------------------------------------
LEMMA CountTick ==
  ASSUME NEW things, NEW h \in Seq(Entries(things)), NEW found \in BOOLEAN, NEW c \in Int,
         NEW until \in Int, NEW w \in Nat, NEW t \in Nat,
         KeptCount(h, found, c, until, w, t)
  PROVE  KeptCount(h, found /\ until # t + 1, c, until, w, t + 1)
<1>1. Len(h) \in Nat /\ \A i \in 1..Len(h) : h[i].at \in Nat BY EntryIs
<1>2. ASSUME NEW i \in 1..Len(h), h[i].renewed # Never, t + 1 < h[i].at + w
      PROVE  /\ found /\ until # t + 1
             /\ c >= Len(h) - i + 1 /\ (until = Never \/ until >= h[i].at + w)
  <2>1. t < h[i].at + w /\ t + 1 # Never BY <1>1, <1>2 DEF Never
  <2>2. found /\ c >= Len(h) - i + 1 /\ (until = Never \/ until >= h[i].at + w)
    BY <1>2, <2>1 DEF KeptCount
  <2>. QED BY <1>1, <1>2, <2>1, <2>2
<1>3. ASSUME found, until # t + 1
      PROVE  /\ c \in 1..Len(h)
             /\ h[Len(h)].renewed # Never => until = h[Len(h)].renewed + w
             /\ until = Never \/ t + 1 < until
  BY <1>1, <1>3 DEF KeptCount
<1>. QED BY <1>2, <1>3 DEF KeptCount

\* INCR counts one more, and misses nothing that is still live.
Incremented(h, found, c, until, w, t, crashed, x) ==
  LET g == Append(h, Entry(x, t, Never))
      n == IF found THEN c + 1 ELSE 1
      u == IF found THEN until ELSE Never
  IN  KeptCount(g, TRUE, n, u, w, t) /\ Earned(g, n, w, crashed) /\ CountsBurst(g, n, w)

LEMMA CountIncrement ==
  ASSUME NEW things, NEW h \in Seq(Entries(things)), NEW found \in BOOLEAN, NEW c \in Int,
         NEW until \in Int, NEW w \in Nat \ {0}, NEW t \in Nat, NEW crashed \in BOOLEAN,
         KeptCount(h, found, c, until, w, t),
         found => Earned(h, c, w, crashed),
         found /\ h[Len(h)].renewed = Never => crashed,
         NEW x \in things
  PROVE  Incremented(h, found, c, until, w, t, crashed, x)
<1>. SUFFICES ASSUME NEW g, g = Append(h, Entry(x, t, Never)),
                     NEW n, n = IF found THEN c + 1 ELSE 1,
                     NEW u, u = IF found THEN until ELSE Never
              PROVE  /\ KeptCount(g, TRUE, n, u, w, t) /\ Earned(g, n, w, crashed)
                     /\ CountsBurst(g, n, w)
  BY DEF Incremented
<1>1. /\ Len(g) = Len(h) + 1 /\ Len(h) \in Nat
      /\ \A i \in 1..Len(h) : g[i] = h[i] /\ h[i].at \in Nat /\ h[i].renewed \in Nat \cup {Never}
      /\ g[Len(g)].item = x /\ g[Len(g)].at = t /\ g[Len(g)].renewed = Never
  <2>2. /\ Len(g) = Len(h) + 1 /\ \A i \in 1..Len(h) : g[i] = h[i]
        /\ g[Len(h) + 1].item = x /\ g[Len(h) + 1].at = t /\ g[Len(h) + 1].renewed = Never
    <3>. DEFINE r == Never
    <3>1. r \in Nat \cup {Never} OBVIOUS
    <3>. HIDE DEF r
    <3>2. LET f == Append(h, Entry(x, t, r))
          IN  /\ Len(f) = Len(h) + 1 /\ \A i \in 1..Len(h) : f[i] = h[i]
              /\ f[Len(h) + 1].item = x /\ f[Len(h) + 1].at = t /\ f[Len(h) + 1].renewed = r
      BY <3>1, AppendIs
    <3>. QED BY <3>2 DEF r
  <2>3. Len(h) \in Nat /\ \A i \in 1..Len(h) : h[i].at \in Nat /\ h[i].renewed \in Nat \cup {Never}
    BY EntryIs
  <2>. QED BY <2>2, <2>3
<1>2. found => c \in 1..Len(h) /\ (until = Never \/ t < until) BY DEF KeptCount
<1>3. n \in 1..Len(g) BY <1>1, <1>2
<1>4. ASSUME NEW i \in 1..Len(h), h[i].renewed # Never, t < h[i].at + w
      PROVE  found /\ n >= Len(g) - i + 1 /\ (until = Never \/ until >= h[i].at + w)
  <2>1. found /\ c >= Len(h) - i + 1 /\ (until = Never \/ until >= h[i].at + w)
    BY <1>4 DEF KeptCount
  <2>. QED BY <1>1, <2>1
<1>5. KeptCount(g, TRUE, n, u, w, t)
  <2>1. u = Never \/ t < u BY <1>2
  <2>2. ASSUME NEW i \in 1..Len(g), g[i].renewed # Never, t < g[i].at + w
        PROVE  n >= Len(g) - i + 1 /\ (u = Never \/ u >= g[i].at + w)
    <3>1. i \in 1..Len(h) BY <1>1, <2>2
    <3>2. g[i] = h[i] BY <1>1, <3>1
    <3>. QED BY <1>4, <2>2, <3>1, <3>2
  <2>. QED BY <1>1, <1>3, <2>1, <2>2 DEF KeptCount
<1>6. CountsBurst(g, n, w)
  <2>. SUFFICES ASSUME NEW i \in 1..(Len(g) - 1), g[i].renewed # Never,
                       g[Len(g)].at < g[i].at + w
                PROVE  n >= Len(g) - i + 1
    BY DEF CountsBurst
  <2>1. i \in 1..Len(h) /\ g[i] = h[i] BY <1>1
  <2>. QED BY <1>1, <1>4, <2>1
<1>7. Earned(g, n, w, crashed)
  <2>. SUFFICES ASSUME NEW i \in (Len(g) - n + 1)..(Len(g) - 1)
                PROVE  \/ crashed /\ g[i].renewed = Never
                       \/ g[i + 1].at < g[i].renewed + w
    BY <1>3 DEF Earned
  <2>1. found /\ i \in (Len(h) - c + 1)..Len(h) BY <1>1, <1>2
  <2>2. CASE i = Len(h)
    <3>1. g[i] = h[i] /\ g[i + 1].at = t BY <1>1, <1>2, <2>1, <2>2
    <3>2. CASE h[i].renewed = Never BY <2>1, <2>2, <3>1, <3>2
    <3>3. CASE h[i].renewed # Never
      <4>1. until = h[i].renewed + w BY <2>1, <2>2, <3>3 DEF KeptCount
      <4>2. t < until \/ until = Never BY <1>2, <2>1
      <4>3. h[i].renewed \in Nat BY <1>1, <1>2, <2>1, <2>2, <3>3
      <4>4. until # Never BY <4>1, <4>3 DEF Never
      <4>. QED BY <3>1, <4>1, <4>2, <4>4
    <3>. QED BY <3>2, <3>3
  <2>3. CASE i # Len(h)
    <3>1. i \in (Len(h) - c + 1)..(Len(h) - 1) BY <1>1, <2>1, <2>3
    <3>2. \/ crashed /\ h[i].renewed = Never
          \/ h[i + 1].at < h[i].renewed + w
      BY <2>1, <3>1 DEF Earned
    <3>3. i \in 1..Len(h) /\ i + 1 \in 1..Len(h) BY <1>1, <1>2, <2>1, <3>1
    <3>4. g[i] = h[i] /\ g[i + 1] = h[i + 1] BY <1>1, <3>3
    <3>. QED BY <3>2, <3>4
  <2>. QED BY <2>2, <2>3
<1>. QED BY <1>5, <1>6, <1>7

\* The history after EXPIRE: its last lookup is renewed.
Renew(h, t) == [h EXCEPT ![Len(h)].renewed = t]

LEMMA RenewIs ==
  \A things : \A h \in Seq(Entries(things)), t \in Nat :
    Len(h) # 0 =>
      /\ Renew(h, t) \in Seq(Entries(things)) /\ Len(Renew(h, t)) = Len(h)
      /\ \A i \in 1..Len(h) : i # Len(h) => Renew(h, t)[i] = h[i]
      /\ Renew(h, t)[Len(h)].item = h[Len(h)].item
      /\ Renew(h, t)[Len(h)].at = h[Len(h)].at
      /\ Renew(h, t)[Len(h)].renewed = t
<1>. TAKE things
<1>. TAKE h \in Seq(Entries(things)), t \in Nat
<1>. HAVE Len(h) # 0
<1>. DEFINE e == [h[Len(h)] EXCEPT !.renewed = t]
<1>1. Len(h) \in 1..Len(h) /\ h[Len(h)] \in Entries(things) OBVIOUS
<1>2. /\ e \in Entries(things) /\ e.item = h[Len(h)].item /\ e.at = h[Len(h)].at
      /\ e.renewed = t
  BY <1>1 DEF Entries
<1>3. Renew(h, t) = [h EXCEPT ![Len(h)] = e] BY DEF Renew
<1>. HIDE DEF e
<1>. QED BY <1>1, <1>2, <1>3

\* EXPIRE renews the key and its last lookup, and loses no count.
LEMMA CountExpire ==
  ASSUME NEW things, NEW h \in Seq(Entries(things)), NEW c \in Int,
         NEW until \in Int, NEW w \in Nat \ {0}, NEW t \in Nat,
         KeptCount(h, TRUE, c, until, w, t), Past(h, t)
  PROVE  KeptCount(Renew(h, t), TRUE, c, t + w, w, t)
<1>. DEFINE g == Renew(h, t)
<1>0. c \in 1..Len(h) /\ Len(h) # 0 BY EntryIs DEF KeptCount
<1>1. /\ Len(g) = Len(h) /\ Len(h) \in Nat
      /\ \A i \in 1..Len(h) : g[i].at = h[i].at /\ h[i].at \in Nat
      /\ \A i \in 1..Len(h) : i # Len(h) => g[i] = h[i]
      /\ g[Len(g)].renewed = t
  BY <1>0, RenewIs, EntryIs
<1>. HIDE DEF g
<1>2. ASSUME NEW i \in 1..Len(g), g[i].renewed # Never, t < g[i].at + w
      PROVE  c >= Len(g) - i + 1 /\ t + w >= g[i].at + w
  <2>1. h[i].at <= t BY <1>1 DEF Past
  <2>2. c >= Len(h) - i + 1
    <3>1. CASE i = Len(h) BY <1>0, <1>1, <3>1
    <3>2. CASE i # Len(h) BY <1>1, <1>2, <3>2 DEF KeptCount
    <3>. QED BY <3>1, <3>2
  <2>. QED BY <1>1, <2>1, <2>2
<1>. QED BY <1>0, <1>1, <1>2 DEF KeptCount, g

\* What was earned and not missed by the last lookup stays so.
LEMMA CountRenewed ==
  ASSUME NEW things, NEW h \in Seq(Entries(things)), NEW c \in Int,
         NEW w \in Nat, NEW t \in Nat, NEW crashed \in BOOLEAN, Len(h) # 0
  PROVE  /\ Earned(h, c, w, crashed) => Earned(Renew(h, t), c, w, crashed)
         /\ CountsBurst(h, c, w) => CountsBurst(Renew(h, t), c, w)
<1>. DEFINE g == Renew(h, t)
<1>1. /\ Len(g) = Len(h) /\ Len(h) \in Nat
      /\ \A i \in 1..Len(h) : g[i].at = h[i].at /\ h[i].at \in Nat
      /\ \A i \in 1..Len(h) : i # Len(h) => g[i] = h[i]
  BY RenewIs, EntryIs
<1>. HIDE DEF g
<1>2. ASSUME CountsBurst(h, c, w) PROVE CountsBurst(g, c, w)
  BY <1>1, <1>2 DEF CountsBurst
<1>3. ASSUME Earned(h, c, w, crashed) PROVE Earned(g, c, w, crashed)
  <2>1. c \in 1..Len(h) BY <1>3 DEF Earned
  <2>2. \A i \in (Len(h) - c + 1)..(Len(h) - 1) : i \in 1..Len(h) /\ i + 1 \in 1..Len(h) /\ i # Len(h)
    BY <1>1, <2>1
  <2>. QED BY <1>1, <1>3, <2>1, <2>2 DEF Earned
<1>. QED BY <1>2, <1>3 DEF g

-----------------------------------------------------------------------------
(* Counting. *)

\* A count that misses nothing is no less than the burst.
LEMMA BurstSize ==
  ASSUME NEW things, NEW h \in Seq(Entries(things)), NEW c \in Int, NEW w \in Nat,
         c \in 1..Len(h), CountsBurst(h, c, w)
  PROVE  Cardinality({i \in 1..(Len(h) - 1) : h[i].renewed # Never /\ h[Len(h)].at < h[i].at + w})
           + 1 <= c
<1>. DEFINE hits == {i \in 1..(Len(h) - 1) : h[i].renewed # Never /\ h[Len(h)].at < h[i].at + w}
            span == (Len(h) + 1 - c)..(Len(h) - 1)
<1>1. Len(h) \in Nat BY EntryIs
<1>2. hits \subseteq span
  <2>. SUFFICES ASSUME NEW i \in hits PROVE i \in span
    OBVIOUS
  <2>1. c >= Len(h) - i + 1 BY DEF CountsBurst
  <2>. QED BY <1>1, <2>1
<1>3. IsFiniteSet(span) /\ Cardinality(span) = c - 1
  <2>. DEFINE a == Len(h) + 1 - c
              b == Len(h) - 1
  <2>1. a \in Int /\ b \in Int BY <1>1
  <2>2. IsFiniteSet(a..b) /\ Cardinality(a..b) = IF a > b THEN 0 ELSE b - a + 1
    <3>. HIDE DEF a, b
    <3>. QED BY <2>1, FS_Interval
  <2>. QED BY <1>1, <2>2
<1>4. Cardinality(hits) \in Nat /\ Cardinality(hits) <= Cardinality(span)
  BY <1>2, <1>3, FS_Subset, FS_CardinalityType
<1>. HIDE DEF hits, span
<1>5. Cardinality(hits) + 1 <= c BY <1>3, <1>4
<1>. QED BY <1>5 DEF hits

\* Of some finite sets one is smallest: no other of them is inside it.
LEMMA SmallestOf ==
  ASSUME NEW S, IsFiniteSet(S), NEW B \in SUBSET SUBSET S, B # {}
  PROVE  \E s \in B : \A t \in B : t \subseteq s => t = s
<1>1. B \subseteq FiniteSubsetsOf(S)
  <2>1. \A s \in B : s \subseteq S /\ IsFiniteSet(s) BY FS_Subset
  <2>. QED BY <2>1 DEF FiniteSubsetsOf
<1>2. PICK s \in B : \A t \in B : <<t, s>> \notin StrictSubsetOrdering(S)
  BY <1>1, WFMin, FS_StrictSubsetOrderingWellFounded
<1>3. \A t \in B : t \subseteq s /\ t # s => <<t, s>> \in StrictSubsetOrdering(S)
  BY DEF StrictSubsetOrdering
<1>4. \A t \in B : t \subseteq s => t = s BY <1>2, <1>3
<1>. QED BY <1>4

\* What is met at most m times each, many times over, is many things.
LEMMA Pigeonhole ==
  ASSUME NEW S, IsFiniteSet(S), NEW f, NEW m \in Nat,
         \A x : Cardinality({i \in S : f[i] = x}) <= m
  PROVE  Cardinality(S) <= m * Cardinality({f[i] : i \in S})
<1>. DEFINE Image(T) == {f[i] : i \in T}
            Bad == {T \in SUBSET S : ~ (Cardinality(T) <= m * Cardinality(Image(T)))}
<1>1. \A T \in SUBSET S : IsFiniteSet(T) /\ Cardinality(T) \in Nat
  BY FS_Subset, FS_CardinalityType
<1>2. \A T \in SUBSET S : IsFiniteSet(Image(T)) /\ Cardinality(Image(T)) \in Nat
  <2>. TAKE T \in SUBSET S
  <2>. DEFINE g == [i \in T |-> f[i]]
  <2>1. g \in Surjection(T, Image(T)) BY DEF Surjection
  <2>. HIDE DEF g, Image
  <2>. QED BY <1>1, <2>1, FS_Surjection, FS_CardinalityType
<1>3. ASSUME Bad # {} PROVE FALSE
  <2>1. PICK T \in Bad : \A U \in Bad : U \subseteq T => U = T
    <3>1. Bad \in SUBSET SUBSET S OBVIOUS
    <3>. HIDE DEF Bad
    <3>. QED BY <1>3, <3>1, SmallestOf
  <2>2. T \in SUBSET S /\ ~ (Cardinality(T) <= m * Cardinality(Image(T))) OBVIOUS
  <2>3. T # {}
    <3>1. ASSUME T = {} PROVE FALSE
      <4>1. Cardinality(T) = 0 BY <3>1, FS_EmptySet
      <4>2. \A n \in Nat : 0 <= m * n
        <5>1. \A n \in Nat : m * n \in Nat OBVIOUS
        <5>. QED BY <5>1
      <4>. QED BY <1>2, <2>2, <4>1, <4>2
    <3>. QED BY <3>1
  <2>4. PICK j \in T : TRUE BY <2>3
  <2>. DEFINE x == f[j]
              same == {i \in T : f[i] = x}
              rest == {i \in T : f[i] # x}
  <2>5. same \in SUBSET S /\ rest \in SUBSET S /\ rest \subseteq T /\ j \notin rest BY <2>2
  <2>6. Cardinality(rest) <= m * Cardinality(Image(rest))
    <3>1. rest \notin Bad BY <2>1, <2>4, <2>5
    <3>. HIDE DEF rest
    <3>. QED BY <2>5, <3>1
  <2>7. Cardinality(same) <= m
    <3>1. same \subseteq {i \in S : f[i] = x} /\ {i \in S : f[i] = x} \in SUBSET S BY <2>2
    <3>2. Cardinality(same) <= Cardinality({i \in S : f[i] = x}) BY <1>1, <3>1, FS_Subset
    <3>3. Cardinality({i \in S : f[i] = x}) <= m OBVIOUS
    <3>4. Cardinality({i \in S : f[i] = x}) \in Nat /\ Cardinality(same) \in Nat
      BY <1>1, <2>5, <3>1
    <3>. HIDE DEF same, x
    <3>. QED BY <3>2, <3>3, <3>4
  <2>8. Cardinality(T) = Cardinality(same) + Cardinality(rest)
    <3>1. T = same \cup rest /\ same \cap rest = {} OBVIOUS
    <3>2. IsFiniteSet(same) /\ IsFiniteSet(rest) BY <1>1, <2>5
    <3>3. Cardinality(same) \in Nat /\ Cardinality(rest) \in Nat BY <1>1, <2>5
    <3>. HIDE DEF same, rest
    <3>4. Cardinality(same \cup rest) = Cardinality(same) + Cardinality(rest) - Cardinality(same \cap rest)
      BY <3>2, FS_Union
    <3>5. Cardinality(same \cap rest) = 0 BY <3>1, FS_EmptySet
    <3>. QED BY <3>1, <3>3, <3>4, <3>5
  <2>9. Cardinality(Image(T)) = Cardinality(Image(rest)) + 1
    <3>1. Image(T) = Image(rest) \cup {x} /\ x \notin Image(rest) BY <2>4
    <3>. HIDE DEF Image, x, rest
    <3>. QED BY <1>2, <2>5, <3>1, FS_AddElement
  <2>. DEFINE a == Cardinality(T)
              b == Cardinality(same)
              c == Cardinality(rest)
              d == Cardinality(Image(T))
              n == Cardinality(Image(rest))
  <2>10. a \in Nat /\ b \in Nat /\ c \in Nat /\ d \in Nat /\ n \in Nat BY <1>1, <1>2, <2>2, <2>5
  <2>11. ~ (a <= m * d) /\ c <= m * n /\ b <= m /\ a = b + c /\ d = n + 1
    BY <2>2, <2>6, <2>7, <2>8, <2>9
  <2>. HIDE DEF a, b, c, d, n
  <2>12. m * n \in Nat /\ m * (n + 1) = m * n + m BY <2>10
  <2>. QED BY <2>10, <2>11, <2>12
<1>4. S \notin Bad BY <1>3
<1>. QED BY <1>4

-----------------------------------------------------------------------------
(* The lookups of an event. *)

Things == UNION {{l.item : l \in ToSet(Lookups(e))} : e \in Events}

\* Each is by another rule, and what a counter counts is the event itself.
IsLookups(ls, e) ==
  /\ Len(ls) \in Nat /\ DOMAIN ls = 1..Len(ls)
  /\ \A i \in 1..Len(ls) : /\ DOMAIN ls[i].key = {1, 2} /\ ls[i].key[1] \in Check
                           /\ ls[i].key[1] \in Counter => ls[i].item = e
  /\ \A i, j \in 1..Len(ls) : ls[i].key[1] = ls[j].key[1] => i = j

LEMMA LookupsAre == \A e \in Events : IsLookups(Lookups(e), e)
<1>. TAKE e \in Events
<1>1. IsLookups(<<>>, e) BY DEF IsLookups
<1>2. \A c \in Check : \A a, x : (c \in Counter => x = e) => IsLookups(<<Look(c, a, x)>>, e)
  BY DEF IsLookups, Look
<1>3. \A c, d \in Check : \A a, b, x, y :
        c # d /\ (c \in Counter => x = e) /\ (d \in Counter => y = e)
        => IsLookups(<<Look(c, a, x), Look(d, b, y)>>, e)
  BY DEF IsLookups, Look
<1>4. CASE ReadBy[e] = "identity"
  <2>1. IsLookups(<<Look("brute_force_attempt", User[e], e),
                    Look("credential_stuffing", Source[e], User[e])>>, e)
    BY <1>3 DEF Check, Counter, Listing
  <2>. QED BY <1>1, <1>4, <2>1 DEF Lookups, AuthLookups, When
<1>5. CASE ReadBy[e] = "network"
  <2>1. IsLookups(<<Look("port_scan", Source[e], Port[e])>>, e)
    BY <1>2 DEF Check, Counter, Listing
  <2>. QED BY <1>1, <1>5, <2>1 DEF Lookups, FlowLookups, When
<1>6. CASE ReadBy[e] = "endpoint"
  <2>1. IsLookups(<<Look("ransomware_encryption", Source[e], e)>>, e)
    BY <1>2 DEF Check, Counter, Listing
  <2>. QED BY <1>1, <1>6, <2>1 DEF Lookups, CommandLookups, When
<1>7. CASE ReadBy[e] = "data"
  <2>. DEFINE a == Look("bulk_data_download", User[e], e)
              b == Look("unauthorized_sensitive_access", <<User[e], Sensitivity[e]>>, e)
  <2>1. IsLookups(<<a>>, e) /\ IsLookups(<<b>>, e)
    BY <1>2 DEF Check, Counter, Listing
  <2>2. \A s : Len(s) = 2 /\ DOMAIN s = 1..2 /\ s[1] = a /\ s[2] = b => IsLookups(s, e)
    <3>1. /\ DOMAIN a.key = {1, 2} /\ a.key[1] \in Check /\ a.item = e
          /\ DOMAIN b.key = {1, 2} /\ b.key[1] \in Check /\ b.item = e
          /\ a.key[1] # b.key[1]
      BY DEF Look, Check, Counter
    <3>. HIDE DEF a, b
    <3>. QED BY <3>1 DEF IsLookups
  <2>3. Lookups(e) = When("download", e, <<a>>) \o When("sensitive", e, <<b>>)
    BY <1>7 DEF Lookups, FileLookups
  <2>. HIDE DEF a, b
  <2>4. <<>> \o <<>> = <<>> /\ <<a>> \o <<>> = <<a>> /\ <<>> \o <<b>> = <<b>>
    <3>1. <<>> \in Seq({a, b}) /\ <<a>> \in Seq({a, b}) /\ <<b>> \in Seq({a, b}) OBVIOUS
    <3>. QED BY <3>1, ConcatEmptySeq
  <2>5. LET s == <<a>> \o <<b>>
        IN  Len(s) = 2 /\ DOMAIN s = 1..2 /\ s[1] = a /\ s[2] = b
    OBVIOUS
  <2>6. IsLookups(<<a>> \o <<b>>, e) BY <2>2, <2>5
  <2>. QED BY <1>1, <2>1, <2>3, <2>4, <2>6 DEF When
<1>. QED BY <1>4, <1>5, <1>6, <1>7, MonitorsAssumption DEF Monitor

LEMMA KeysAre ==
  \A e \in Events : \A i \in 1..Len(Lookups(e)) :
    Lookups(e)[i].key \in Keys /\ Lookups(e)[i].item \in Things
<1>. TAKE e \in Events
<1>. TAKE i \in 1..Len(Lookups(e))
<1>1. DOMAIN Lookups(e) = 1..Len(Lookups(e)) BY LookupsAre DEF IsLookups
<1>2. Lookups(e)[i] \in ToSet(Lookups(e)) BY <1>1 DEF ToSet
<1>. QED BY <1>2 DEF Keys, Things

\* A key is of one check.
LEMMA KeyCheck ==
  \A k \in Keys : /\ k[1] \in Check /\ Window[k[1]] \in Nat \ {0}
                  /\ k[1] \in Counter <=> k[1] \notin Listing
<1>. TAKE k \in Keys
<1>0. PICK e \in Events : \E l \in ToSet(Lookups(e)) : k = l.key BY DEF Keys
<1>1. PICK l \in ToSet(Lookups(e)) : k = l.key BY <1>0
<1>2. PICK i \in 1..Len(Lookups(e)) : l = Lookups(e)[i]
  BY <1>1, LookupsAre DEF ToSet, IsLookups
<1>3. k[1] \in Check BY <1>1, <1>2, LookupsAre DEF IsLookups
<1>4. \A c \in Check : c \in Counter <=> c \notin Listing BY DEF Check, Counter, Listing
<1>. QED BY <1>3, <1>4, MonitorsAssumption

-----------------------------------------------------------------------------
(* What the keys and the handler hold between any two commands. *)

Held(k)    == k \in DOMAIN cache
ListOf(k)  == IF Held(k) THEN cache[k].value ELSE {}
CountOf(k) == IF Held(k) THEN cache[k].value ELSE 0
UntilOf(k) == IF Held(k) THEN cache[k].until ELSE 0
Ttl(k)     == Window[k[1]]

\* The handler is between the two commands of the lookup of k.
Mid(k) == task # Idle /\ task.reply # <<>> /\ Key = k

TaskShape ==
  task # Idle =>
    /\ DOMAIN task = {"event", "done", "reply", "alerts"}
    /\ task.event \in Events /\ task.event \notin topic
    /\ task.done \in 0..Len(Lookups(task.event))
    /\ task.reply # <<>> => Busy /\ sighted

Shape ==
  /\ sighted \in BOOLEAN /\ now \in Nat /\ crashes \in Nat
  /\ topic \subseteq Events /\ taken \subseteq Events
  /\ TaskShape
  /\ log \in [Keys -> Seq(Entries(Things))]
  /\ \A k \in Keys : Past(log[k], now)
  /\ DOMAIN cache \subseteq Keys
  /\ \A k \in DOMAIN cache : /\ cache[k].until \in Nat \cup {Never}
                             /\ DOMAIN cache[k] = {"value", "until"}

ListKept(k) ==
  k[1] \in Listing => KeptList(log[k], Held(k), ListOf(k), UntilOf(k), Ttl(k), now)

CountKept(k) ==
  k[1] \in Counter =>
    /\ CountOf(k) \in Nat
    /\ KeptCount(log[k], Held(k), CountOf(k), UntilOf(k), Ttl(k), now)
    /\ Held(k) => Earned(log[k], CountOf(k), Ttl(k), crashes > 0)
    /\ Held(k) /\ log[k][Len(log[k])].renewed = Never => crashes > 0 \/ Mid(k)

\* What the handler has read is still in the cache, or gone.
ReplyKept ==
  task # Idle /\ task.reply # <<>> =>
    /\ Key[1] \in Listing =>
         /\ Held(Key) => ListOf(Key) = task.reply[1]
         /\ \A x \in task.reply[1] : \E i \in 1..Len(log[Key]) : log[Key][i].item = x
    /\ Key[1] \in Counter =>
         /\ Held(Key) => CountOf(Key) = task.reply[1]
         /\ Earned(log[Key], task.reply[1], Ttl(Key), crashes > 0)
         /\ CountsBurst(log[Key], task.reply[1], Ttl(Key))

\* No event is counted more often than it may have been handed over.
Pending(k, x) ==
  \/ x \in topic
  \/ /\ task # Idle /\ task.event = x
     /\ \E i \in (task.done + 1)..Len(Lookups(x)) :
          Lookups(x)[i].key = k /\ (i = task.done + 1 => task.reply = <<>>)

Times(h, x) == Cardinality({i \in 1..Len(h) : h[i].item = x})

Allowed(k, x) == IF Pending(k, x) THEN crashes ELSE crashes + 1

EachCounted == \A k \in Keys : k[1] \in Counter => \A x : Times(log[k], x) <= Allowed(k, x)

\* The lookups the handler is done with are judged.
FreshOf(h, w) ==
  {x \in {l.item : l \in ToSet(h)} \ {NoPort} :
     \A i \in {j \in DOMAIN h : h[j].item = x} : h[Len(h)].at < h[i].at + w}

BurstOf(h, w) ==
  {i \in 1..(Len(h) - 1) : h[i].renewed # Never /\ h[Len(h)].at < h[i].at + w}

Judgement(k) ==
  /\ k[1] \in Listing /\ Cardinality(FreshOf(log[k], Ttl(k))) >= Threshold[k[1]] => Raised(k)
  /\ k[1] \in Counter /\ Cardinality(BurstOf(log[k], Ttl(k))) + 1 >= Threshold[k[1]] => Raised(k)

KeyAt(i) == Lookups(task.event)[i].key

Verdicts == task # Idle /\ sighted => \A i \in 1..task.done : Judgement(KeyAt(i))

EarnedAt(a, k) == k[1] = a.rule /\ Earned(log[k], a.count, Ttl(k), crashes > 0)

AlertsEarned ==
  task # Idle =>
    \A a \in task.alerts : a.rule \in Counter =>
      \E i \in 1..task.done : EarnedAt(a, KeyAt(i))

MInv ==
  /\ Shape
  /\ \A k \in Keys : ListKept(k) /\ CountKept(k)
  /\ ReplyKept /\ EachCounted /\ Verdicts /\ AlertsEarned

-----------------------------------------------------------------------------
\* What a busy handler looks up.
LEMMA BusyKey ==
  ASSUME Shape, Busy
  PROVE  /\ task # Idle /\ task.event \in Events
         /\ task.done \in Nat /\ task.done + 1 \in 1..Len(Lookups(task.event))
         /\ Key \in Keys /\ Key[1] \in Check /\ Key = KeyAt(task.done + 1)
         /\ Now.item \in Things /\ (Key[1] \in Counter => Now.item = task.event)
         /\ \A i \in 1..task.done : KeyAt(i) \in Keys /\ KeyAt(i) # Key /\ KeyAt(i)[1] # Key[1]
<1>1. task # Idle /\ task.event \in Events /\ task.done \in 0..Len(Lookups(task.event))
      /\ task.done < Len(Lookups(task.event))
  BY DEF Shape, TaskShape, Busy
<1>. DEFINE ls == Lookups(task.event)
<1>2. IsLookups(ls, task.event) BY <1>1, LookupsAre
<1>3. \A i \in 1..Len(ls) : ls[i].key \in Keys /\ ls[i].item \in Things BY <1>1, KeysAre
<1>4. Len(ls) \in Nat /\ task.done \in Nat /\ task.done + 1 \in 1..Len(ls)
      /\ \A i \in 1..task.done : i \in 1..Len(ls) /\ i # task.done + 1
  BY <1>1, <1>2 DEF IsLookups
<1>5. Now = ls[task.done + 1] /\ Key = ls[task.done + 1].key /\ \A i : KeyAt(i) = ls[i].key
  BY DEF Now, Key, KeyAt
<1>. HIDE DEF ls
<1>6. \A i \in 1..task.done : ls[i].key[1] # ls[task.done + 1].key[1]
  BY <1>2, <1>4 DEF IsLookups
<1>7. ls[task.done + 1].key[1] \in Check
      /\ (ls[task.done + 1].key[1] \in Counter => ls[task.done + 1].item = task.event)
  BY <1>2, <1>4 DEF IsLookups
<1>. QED BY <1>1, <1>3, <1>4, <1>5, <1>6, <1>7 DEF ls

\* Of a key that is not held nothing is left.
LEMMA SameList ==
  ASSUME NEW h, NEW f, NEW l, NEW u, NEW w, NEW t, NEW f2, NEW l2, NEW u2,
         f2 <=> f, f => l2 = l /\ u2 = u, KeptList(h, f, l, u, w, t)
  PROVE  KeptList(h, f2, l2, u2, w, t)
BY DEF KeptList

\* A command on one key leaves the others as they are.
LEMMA Others ==
  ASSUME Shape, NEW k \in Keys, ListKept(k), CountKept(k), ~Mid(k),
         log'[k] = log[k], Held(k)' <=> Held(k), Held(k) => cache'[k] = cache[k],
         now' = now, crashes' \in Nat, crashes' >= crashes
  PROVE  ListKept(k)' /\ CountKept(k)'
<1>1. ListOf(k)' = ListOf(k) /\ CountOf(k)' = CountOf(k) /\ UntilOf(k)' = UntilOf(k)
  BY DEF ListOf, CountOf, UntilOf, Held
<1>2. ListKept(k)'
  <2>. SUFFICES ASSUME k[1] \in Listing
                PROVE  KeptList(log[k], Held(k), ListOf(k), UntilOf(k), Ttl(k), now)'
    BY DEF ListKept
  <2>1. KeptList(log[k], Held(k), ListOf(k), UntilOf(k), Ttl(k), now) BY DEF ListKept
  <2>2. Held(k)' => \A x \in ListOf(k)' : \E i \in 1..Len(log'[k]) : log'[k][i].item = x
    BY <1>1, <2>1 DEF KeptList
  <2>3. ASSUME NEW x, x # NoPort, LiveItem(log'[k], x, Ttl(k), now')
        PROVE  /\ Held(k)' /\ x \in ListOf(k)'
               /\ \E i \in 1..Len(log'[k]) : log'[k][i].item = x
                                            /\ UntilOf(k)' >= log'[k][i].at + Ttl(k)
    BY <1>1, <2>1, <2>3 DEF KeptList
  <2>4. Ttl(k)' = Ttl(k) BY DEF Ttl
  <2>. QED BY <2>2, <2>3, <2>4 DEF KeptList
<1>3. \A c, h, w : Earned(h, c, w, crashes > 0) => Earned(h, c, w, crashes' > 0)
  BY DEF Earned, Shape
<1>4. CountKept(k)'
  <2>1. crashes > 0 => crashes' > 0 BY DEF Shape
  <2>2. k[1] \in Counter /\ Held(k) => Earned(log[k], CountOf(k), Ttl(k), crashes' > 0)
    BY <1>3 DEF CountKept
  <2>. QED BY <1>1, <2>1, <2>2 DEF CountKept, Ttl, KeptCount
<1>. QED BY <1>2, <1>4

\* What an untouched history says stays.
LEMMA JudgedStays ==
  ASSUME NEW k, Judgement(k), log'[k] = log[k], task.alerts \subseteq task'.alerts
  PROVE  Judgement(k)'
<1>1. Raised(k) => Raised(k)' BY DEF Raised
<1>. QED BY <1>1 DEF Judgement, Ttl

LEMMA EarnedStays ==
  ASSUME Shape, NEW k, NEW a, EarnedAt(a, k), log'[k] = log[k], crashes' \in Nat, crashes' >= crashes
  PROVE  EarnedAt(a, k)'
<1>1. crashes > 0 => crashes' > 0 BY DEF Shape
<1>. QED BY <1>1 DEF EarnedAt, Earned, Ttl

\* How often something was looked up is a number.
LEMMA TimesNat == \A things : \A h \in Seq(Entries(things)) : \A x : Times(h, x) \in Nat
<1>. TAKE things
<1>. TAKE h \in Seq(Entries(things))
<1>. TAKE x
<1>1. Len(h) \in Nat BY EntryIs
<1>2. IsFiniteSet(1..Len(h)) BY <1>1, FS_Interval
<1>3. {i \in 1..Len(h) : h[i].item = x} \in SUBSET (1..Len(h)) OBVIOUS
<1>. QED BY <1>2, <1>3, FS_Subset, FS_CardinalityType DEF Times

-----------------------------------------------------------------------------
LEMMA MInit == Init => MInv
<1>. SUFFICES ASSUME Init PROVE MInv
  OBVIOUS
<1>. USE DEF Init
<1>1. log \in [Keys -> Seq(Entries(Things))] /\ \A k \in Keys : log[k] = <<>> /\ Len(log[k]) = 0
  OBVIOUS
<1>2. Shape
  <2>1. DOMAIN cache = {} OBVIOUS
  <2>2. topic \subseteq Events OBVIOUS
  <2>. QED BY <1>1, <2>1, <2>2 DEF Shape, TaskShape, Past
<1>3. \A k \in Keys : ListKept(k) /\ CountKept(k)
  <2>. TAKE k \in Keys
  <2>1. ~Held(k) /\ log[k] = <<>> /\ Len(log[k]) = 0 /\ 1..Len(log[k]) = {} BY <1>1 DEF Held
  <2>. HIDE DEF Init
  <2>2. ListKept(k) BY <2>1 DEF ListKept, KeptList, LiveItem, ListOf
  <2>3. CountKept(k) BY <2>1 DEF CountKept, KeptCount, CountOf
  <2>. QED BY <2>2, <2>3
<1>4. EachCounted
  <2>. SUFFICES ASSUME NEW k \in Keys, NEW x PROVE Times(log[k], x) <= Allowed(k, x)
    BY DEF EachCounted
  <2>1. {i \in 1..Len(log[k]) : log[k][i].item = x} = {} BY <1>1
  <2>2. Times(log[k], x) = 0 BY <2>1, FS_EmptySet DEF Times
  <2>. QED BY <2>2 DEF Allowed
<1>5. ReplyKept /\ Verdicts /\ AlertsEarned BY DEF ReplyKept, Verdicts, AlertsEarned
<1>. QED BY <1>2, <1>3, <1>4, <1>5 DEF MInv

\* Steps that touch neither the cache nor the histories.
LEMMA QuietKeys ==
  ASSUME MInv, UNCHANGED <<cache, log, now>>, \A k : ~Mid(k), crashes' \in Nat, crashes' >= crashes
  PROVE  \A k \in Keys : ListKept(k)' /\ CountKept(k)'
<1>. TAKE k \in Keys
<1>1. Held(k)' <=> Held(k) BY DEF Held
<1>. QED BY <1>1, Others DEF MInv

LEMMA ConsumeMInv ==
  ASSUME MInv, NEW e \in topic, Consume(e) PROVE MInv'
<1>. USE DEF Consume
<1>1. /\ DOMAIN task' = {"event", "done", "reply", "alerts"} /\ task'.event = e
      /\ task'.done = 0 /\ task'.reply = <<>>
      /\ task'.alerts = {Alert(e, p, 0) : p \in Patterns(e)}
  OBVIOUS
<1>2. task' # Idle
  <2>1. "done" \notin DOMAIN Idle BY DEF Idle
  <2>. QED BY <1>1, <2>1
<1>3. /\ task = Idle /\ topic' = topic \ {e} /\ taken' = taken \cup {e}
      /\ UNCHANGED <<monitor, sighted, cache, published, log, now, crashes>>
  BY DEF Remaining
<1>. HIDE DEF Consume
<1>4. Shape'
  <2>1. e \in Events BY DEF MInv, Shape
  <2>2. Len(Lookups(e)) \in Nat BY <2>1, LookupsAre DEF IsLookups
  <2>3. TaskShape' BY <1>1, <1>3, <2>1, <2>2 DEF TaskShape
  <2>. QED BY <1>3, <2>1, <2>3 DEF MInv, Shape
<1>5. \A k \in Keys : ListKept(k)' /\ CountKept(k)'
  <2>1. \A k : ~Mid(k) BY <1>3 DEF Mid
  <2>2. crashes' \in Nat /\ crashes' >= crashes BY <1>3 DEF MInv, Shape
  <2>. QED BY <1>3, <2>1, <2>2, QuietKeys
<1>6. EachCounted'
  <2>. SUFFICES ASSUME NEW k \in Keys, k[1] \in Counter, NEW x
                PROVE  Times(log[k], x) <= Allowed(k, x)'
    BY <1>3 DEF EachCounted
  <2>1. Pending(k, x)' => Pending(k, x) BY <1>1, <1>2, <1>3 DEF Pending
  <2>2. Times(log[k], x) <= Allowed(k, x) BY DEF MInv, EachCounted
  <2>3. Times(log[k], x) \in Nat BY TimesNat DEF MInv, Shape
  <2>. QED BY <1>3, <2>1, <2>2, <2>3 DEF Allowed, MInv, Shape
<1>7. ReplyKept' BY <1>1 DEF ReplyKept
<1>8. Verdicts' BY <1>1 DEF Verdicts
<1>9. AlertsEarned'
  <2>1. \A p \in Patterns(e) : p \notin Counter
    BY DEF Patterns, IdentityPatterns, NetworkPatterns, EndpointPatterns, Counter
  <2>2. \A a \in task'.alerts : a.rule \notin Counter BY <1>1, <2>1 DEF Alert
  <2>. QED BY <2>2 DEF AlertsEarned
<1>. QED BY <1>4, <1>5, <1>6, <1>7, <1>8, <1>9 DEF MInv

-----------------------------------------------------------------------------
(* What every command of a lookup does to the handler. *)

\* A step inside the lookups of an event: it stays the event of the handler, no
\* alert is dropped, and only the key of the lookup may get a longer history.
Command ==
  /\ Busy /\ task' # Idle
  /\ DOMAIN task' = DOMAIN task /\ task'.event = task.event
  /\ task'.done \in {task.done, task.done + 1}
  /\ task.alerts \subseteq task'.alerts
  /\ \A k \in Keys \ {Key} : log'[k] = log[k]
  /\ UNCHANGED <<monitor, sighted, topic, taken, published, now, crashes>>

LEMMA NotIdle == \A t : "done" \in DOMAIN t => t # Idle
<1>1. "done" \notin DOMAIN Idle BY DEF Idle
<1>. QED BY <1>1

LEMMA KeyAfter ==
  ASSUME Command
  PROVE  /\ task'.done = task.done => Key' = Key
         /\ \A i : KeyAt(i)' = KeyAt(i)
BY DEF Command, Key, Now, KeyAt

LEMMA FinishedIs ==
  ASSUME Shape, Busy, NEW size, task' = Finished(size)
  PROVE  /\ task' # Idle /\ DOMAIN task' = DOMAIN task
         /\ task'.event = task.event /\ task'.done = task.done + 1 /\ task'.reply = <<>>
         /\ task'.alerts = task.alerts
              \cup {a \in {Alert(task.event, Key[1], size)} : size >= Threshold[Key[1]]}
<1>1. DOMAIN task = {"event", "done", "reply", "alerts"}
  BY DEF Shape, TaskShape, Busy
<1>2. /\ DOMAIN task' = DOMAIN task
      /\ task'.event = task.event /\ task'.done = task.done + 1 /\ task'.reply = <<>>
      /\ task'.alerts = task.alerts \cup {a \in {Alert(task.event, Rule, size)} : Reaches(size)}
  BY <1>1 DEF Finished
<1>3. task' # Idle BY <1>1, <1>2, NotIdle
<1>. QED BY <1>2, <1>3 DEF Reaches, Rule

\* The handler keeps its shape.
LEMMA CommandTask ==
  ASSUME Shape, Command,
         task'.reply # <<>> => task'.done = task.done /\ sighted
  PROVE  TaskShape'
<1>1. /\ task.event \in Events /\ task.event \notin topic
      /\ DOMAIN task = {"event", "done", "reply", "alerts"}
  BY DEF Shape, TaskShape, Command, Busy
<1>2. /\ task.done \in Nat /\ task.done + 1 \in 1..Len(Lookups(task.event))
      /\ Len(Lookups(task.event)) \in Nat
  BY BusyKey, LookupsAre DEF Command, IsLookups
<1>3. task'.done \in 0..Len(Lookups(task.event)) BY <1>2 DEF Command
<1>4. task'.reply # <<>> => Busy' BY <1>2 DEF Command, Busy
<1>. QED BY <1>1, <1>3, <1>4 DEF Command, TaskShape

\* Nothing becomes pending by a command.
LEMMA PendingShrinks ==
  ASSUME Shape, Command, task'.done = task.done => task'.reply # <<>>
  PROVE  \A k, x : Pending(k, x)' => Pending(k, x)
<1>. TAKE k, x
<1>. SUFFICES ASSUME Pending(k, x)' PROVE Pending(k, x)
  OBVIOUS
<1>1. CASE x \in topic' BY <1>1 DEF Pending, Command
<1>2. CASE x \notin topic'
  <2>0. task.done \in Nat /\ task # Idle BY BusyKey DEF Command
  <2>1. task.event = x BY <1>2 DEF Pending, Command
  <2>2. PICK i \in (task'.done + 1)..Len(Lookups(x)) :
          Lookups(x)[i].key = k /\ (i = task'.done + 1 => task'.reply = <<>>)
    BY <1>2 DEF Pending
  <2>3. Len(Lookups(x)) \in Nat BY <2>1, BusyKey, LookupsAre DEF Command, IsLookups
  <2>4. i \in (task.done + 1)..Len(Lookups(x)) /\ i # task.done + 1
    BY <2>0, <2>2, <2>3 DEF Command
  <2>. QED BY <2>0, <2>1, <2>2, <2>4 DEF Pending
<1>. QED BY <1>1, <1>2

\* The lookups done before stay judged; the one that ends now must be.
LEMMA CommandVerdicts ==
  ASSUME MInv, Command, NEW key, key = Key,
         sighted /\ task'.done = task.done + 1 => Judgement(key)'
  PROVE  Verdicts'
<1>. SUFFICES ASSUME sighted, NEW i \in 1..task'.done PROVE Judgement(KeyAt(i))'
  <2>1. task'.event = task.event /\ sighted' = sighted BY DEF Command
  <2>. QED BY <2>1 DEF Verdicts
<1>0. /\ task.done \in Nat /\ Key = KeyAt(task.done + 1) /\ task # Idle
      /\ \A j \in 1..task.done : KeyAt(j) \in Keys /\ KeyAt(j) # Key
  BY BusyKey DEF Command, MInv
<1>1. KeyAt(i)' = KeyAt(i) BY KeyAfter
<1>2. CASE i \in 1..task.done
  <2>. DEFINE k == Lookups(task.event)[i].key
  <2>1. k = KeyAt(i) BY DEF KeyAt
  <2>2. Judgement(k) BY <1>0, <1>2, <2>1 DEF MInv, Verdicts
  <2>3. log'[k] = log[k] BY <1>0, <1>2, <2>1 DEF Command
  <2>4. k' = k BY DEF Command
  <2>5. task.alerts \subseteq task'.alerts BY DEF Command
  <2>6. \A j : j = k => Judgement(j)'
    <3>. TAKE j
    <3>. HAVE j = k
    <3>. QED BY <2>2, <2>3, <2>5, JudgedStays
  <2>. QED BY <1>1, <2>1, <2>4, <2>6
<1>3. CASE i \notin 1..task.done
  <2>1. i = task.done + 1 /\ task'.done = task.done + 1 BY <1>0, <1>3 DEF Command
  <2>2. Judgement(key)' BY <2>1
  <2>3. KeyAt(i)' = key BY <1>0, <1>1, <2>1
  <2>. QED BY <2>2, <2>3
<1>. QED BY <1>2, <1>3

LEMMA CommandEarns ==
  ASSUME MInv, Command, NEW key, key = Key,
         \A a \in task'.alerts \ task.alerts :
           a.rule \in Counter => task'.done = task.done + 1 /\ EarnedAt(a, key)'
  PROVE  AlertsEarned'
<1>. SUFFICES ASSUME NEW a \in task'.alerts, a.rule \in Counter
              PROVE  \E i \in 1..task'.done : EarnedAt(a, KeyAt(i))'
  <2>1. task' # Idle BY DEF Command
  <2>. QED BY <2>1 DEF AlertsEarned
<1>0. /\ task.done \in Nat /\ Key = KeyAt(task.done + 1) /\ task # Idle
      /\ \A j \in 1..task.done : KeyAt(j) \in Keys /\ KeyAt(j) # Key
  BY BusyKey DEF Command, MInv
<1>1. CASE a \in task.alerts
  <2>1. PICK i \in 1..task.done : EarnedAt(a, KeyAt(i))
    BY <1>0, <1>1 DEF MInv, AlertsEarned
  <2>. DEFINE k == Lookups(task.event)[i].key
  <2>2. k = KeyAt(i) BY DEF KeyAt
  <2>3. log'[k] = log[k] BY <1>0, <2>1, <2>2 DEF Command
  <2>4. crashes' \in Nat /\ crashes' >= crashes BY DEF Command, MInv, Shape
  <2>5. \A j : j = k => EarnedAt(a, j)'
    <3>. TAKE j
    <3>. HAVE j = k
    <3>. QED BY <2>1, <2>2, <2>3, <2>4, EarnedStays DEF MInv
  <2>6. KeyAt(i)' = k BY <2>2, KeyAfter
  <2>7. i \in 1..task'.done BY <1>0, <2>1 DEF Command
  <2>. QED BY <2>5, <2>6, <2>7
<1>2. CASE a \notin task.alerts
  <2>1. task'.done = task.done + 1 /\ EarnedAt(a, key)' BY <1>2
  <2>2. \A i : i = task.done + 1 => KeyAt(i)' = key BY <1>0, KeyAfter
  <2>3. PICK i \in 1..task'.done : i = task.done + 1 BY <1>0, <2>1
  <2>4. KeyAt(i)' = key BY <2>2, <2>3
  <2>. QED BY <2>1, <2>4
<1>. QED BY <1>1, <1>2

\* The other keys stay as they are.
LEMMA CommandOthers ==
  ASSUME MInv, Command, NEW key, key = Key,
         \A k \in Keys \ {key} : /\ k \in DOMAIN cache' <=> k \in DOMAIN cache
                                 /\ k \in DOMAIN cache => cache'[k] = cache[k]
  PROVE  \A k \in Keys \ {key} : ListKept(k)' /\ CountKept(k)'
<1>. TAKE k \in Keys \ {key}
<1>1. Held(k)' <=> Held(k) BY DEF Held
<1>2. ListKept(k) /\ CountKept(k) BY DEF MInv
<1>3. ~Mid(k) BY DEF Mid
<1>4. log'[k] = log[k] /\ now' = now /\ crashes' \in Nat /\ crashes' >= crashes
  BY DEF Command, MInv, Shape
<1>5. Held(k) => cache'[k] = cache[k] BY DEF Held
<1>. QED BY <1>1, <1>2, <1>3, <1>4, <1>5, Others DEF MInv

\* Commands that put nothing on a counter count nothing.
LEMMA CommandCounts ==
  ASSUME MInv, Command, task'.done = task.done => task'.reply # <<>>,
         \A k \in Keys : \A x : k[1] \in Counter => Times(log'[k], x) = Times(log[k], x)
  PROVE  EachCounted'
<1>. SUFFICES ASSUME NEW k \in Keys, k[1] \in Counter, NEW x
              PROVE  Times(log'[k], x) <= Allowed(k, x)'
  BY DEF EachCounted
<1>1. Pending(k, x)' => Pending(k, x) BY PendingShrinks DEF MInv
<1>2. Times(log[k], x) <= Allowed(k, x) BY DEF MInv, EachCounted
<1>3. Times(log[k], x) \in Nat BY TimesNat DEF MInv, Shape
<1>4. Times(log'[k], x) = Times(log[k], x) OBVIOUS
<1>5. crashes' = crashes /\ crashes \in Nat BY DEF Command, MInv, Shape
<1>. QED BY <1>1, <1>2, <1>3, <1>4, <1>5 DEF Allowed

-----------------------------------------------------------------------------
(* The steps that leave the keys alone, and time. *)

LEMMA SkipBlindMInv == ASSUME MInv, SkipBlind PROVE MInv'
<1>0. DOMAIN task = {"event", "done", "reply", "alerts"} /\ task.reply = <<>> /\ ~sighted
  BY DEF MInv, Shape, TaskShape, SkipBlind, Busy
<1>1. /\ DOMAIN task' = DOMAIN task /\ task'.event = task.event
      /\ task'.done = task.done + 1 /\ task'.reply = <<>> /\ task'.alerts = task.alerts
  BY <1>0 DEF SkipBlind
<1>2. Command
  <2>1. task' # Idle BY <1>0, <1>1, NotIdle
  <2>. QED BY <1>1, <2>1 DEF Command, SkipBlind
<1>3. UNCHANGED <<cache, log, now, crashes, topic, taken, sighted>> BY DEF SkipBlind
<1>4. Shape'
  <2>1. TaskShape' BY <1>1, <1>2, CommandTask DEF MInv
  <2>. QED BY <1>3, <2>1 DEF MInv, Shape
<1>5. \A k \in Keys : ListKept(k)' /\ CountKept(k)'
  <2>1. \A k : ~Mid(k) BY <1>0 DEF Mid
  <2>2. crashes' \in Nat /\ crashes' >= crashes BY <1>3 DEF MInv, Shape
  <2>. QED BY <1>3, <2>1, <2>2, QuietKeys
<1>6. ReplyKept' BY <1>1 DEF ReplyKept
<1>7. EachCounted'
  <2>1. log' = log BY <1>3
  <2>. QED BY <1>0, <1>1, <1>2, <2>1, CommandCounts DEF MInv, Shape, TaskShape, Command, Busy
<1>8. Verdicts' /\ AlertsEarned'
  <2>1. task'.alerts \ task.alerts = {} BY <1>1
  <2>. QED BY <1>0, <1>2, <2>1, CommandVerdicts, CommandEarns
<1>. QED BY <1>4, <1>5, <1>6, <1>7, <1>8 DEF MInv

\* The handler is through with the event, or the process with everything.
LEMMA IdleMInv ==
  ASSUME MInv, task' = Idle, UNCHANGED <<cache, log, now>>, sighted' \in BOOLEAN,
         \/ (\A k : ~Mid(k)) /\ crashes' = crashes /\ UNCHANGED <<topic, taken>>
         \/ crashes' = crashes + 1 /\ topic' = topic \cup taken /\ taken' = {}
  PROVE  MInv'
<1>1. crashes \in Nat /\ crashes' \in Nat /\ crashes' >= crashes BY DEF MInv, Shape
<1>2. Shape'
  <2>1. TaskShape' BY DEF TaskShape
  <2>2. topic' \subseteq Events /\ taken' \subseteq Events BY DEF MInv, Shape
  <2>. QED BY <1>1, <2>1, <2>2 DEF MInv, Shape
<1>3. \A k \in Keys : ListKept(k)' /\ CountKept(k)'
  <2>1. CASE \A k : ~Mid(k) BY <1>1, <2>1, QuietKeys
  <2>2. CASE crashes' = crashes + 1
    <3>. TAKE k \in Keys
    <3>1. /\ Held(k)' <=> Held(k)
          /\ ListOf(k)' = ListOf(k) /\ CountOf(k)' = CountOf(k) /\ UntilOf(k)' = UntilOf(k)
          /\ Ttl(k)' = Ttl(k) /\ log'[k] = log[k] /\ now' = now
      BY DEF Held, ListOf, CountOf, UntilOf, Ttl
    <3>2. ListKept(k) /\ CountKept(k) BY DEF MInv
    <3>3. ListKept(k)'
      <4>. SUFFICES ASSUME k[1] \in Listing
                    PROVE  KeptList(log[k], Held(k), ListOf(k), UntilOf(k), Ttl(k), now)'
        BY DEF ListKept
      <4>1. KeptList(log[k], Held(k), ListOf(k), UntilOf(k), Ttl(k), now) BY <3>2 DEF ListKept
      <4>. QED BY <3>1, <4>1, SameList
    <3>4. crashes' > 0 BY <1>1, <2>2
    <3>5. CountKept(k)'
      <4>1. k[1] \in Counter /\ Held(k) => Earned(log[k], CountOf(k), Ttl(k), crashes' > 0)
        BY <3>2, <3>4 DEF CountKept, Earned
      <4>. QED BY <3>1, <3>2, <3>4, <4>1 DEF CountKept, KeptCount
    <3>. QED BY <3>3, <3>5
  <2>. QED BY <2>1, <2>2
<1>4. EachCounted'
  <2>. SUFFICES ASSUME NEW k \in Keys, k[1] \in Counter, NEW x
                PROVE  Times(log[k], x) <= Allowed(k, x)'
    BY DEF EachCounted
  <2>1. Times(log[k], x) <= Allowed(k, x) BY DEF MInv, EachCounted
  <2>2. Times(log[k], x) \in Nat BY TimesNat DEF MInv, Shape
  <2>3. Pending(k, x)' => x \in topic' BY DEF Pending
  <2>4. x \in topic => Pending(k, x) BY DEF Pending
  <2>. QED BY <1>1, <2>1, <2>2, <2>3, <2>4 DEF Allowed
<1>5. ReplyKept' /\ Verdicts' /\ AlertsEarned' BY DEF ReplyKept, Verdicts, AlertsEarned
<1>. QED BY <1>2, <1>3, <1>4, <1>5 DEF MInv

LEMMA PublishMInv == ASSUME MInv, Publish PROVE MInv'
<1>1. \A k : ~Mid(k) BY DEF Publish, MInv, Shape, TaskShape, Mid
<1>2. UNCHANGED <<cache, log, now, sighted, crashes, topic, taken>> /\ task' = Idle BY DEF Publish
<1>3. sighted' \in BOOLEAN BY <1>2 DEF MInv, Shape
<1>. QED BY <1>1, <1>2, <1>3, IdleMInv

LEMMA CrashMInv == ASSUME MInv, Crash PROVE MInv'
BY IdleMInv DEF Crash

\* The time passes: what expires is gone.
LEMMA TickKeys ==
  ASSUME MInv, Tick PROVE \A k \in Keys : ListKept(k)' /\ CountKept(k)'
<1>. TAKE k \in Keys
<1>0. /\ now' = now + 1 /\ now \in Nat /\ log' = log /\ task' = task /\ crashes' = crashes
      /\ log[k] \in Seq(Entries(Things)) /\ Ttl(k) \in Nat \ {0} /\ Ttl(k)' = Ttl(k)
  BY KeyCheck DEF MInv, Shape, Tick, Ttl
<1>1. /\ Held(k)' <=> Held(k) /\ UntilOf(k) # now + 1
      /\ Held(k)' => ListOf(k)' = ListOf(k) /\ CountOf(k)' = CountOf(k) /\ UntilOf(k)' = UntilOf(k)
      /\ ~Held(k)' => CountOf(k)' = 0
  BY <1>0 DEF Tick, Held, ListOf, CountOf, UntilOf
<1>2. UntilOf(k) \in Int /\ Held(k) \in BOOLEAN BY DEF UntilOf, MInv, Shape, Held, Never
<1>3. ListKept(k) /\ CountKept(k) BY DEF MInv
<1>4. Mid(k)' <=> Mid(k) BY <1>0 DEF Mid, Key, Now
<1>5. ListKept(k)'
  <2>. SUFFICES ASSUME k[1] \in Listing
                PROVE  KeptList(log[k], Held(k), ListOf(k), UntilOf(k), Ttl(k), now)'
    BY DEF ListKept
  <2>1. KeptList(log[k], Held(k) /\ UntilOf(k) # now + 1, ListOf(k), UntilOf(k), Ttl(k), now + 1)
    BY <1>0, <1>2, <1>3, ListTick DEF ListKept
  <2>. QED BY <1>0, <1>1, <2>1, SameList
<1>6. CountKept(k)'
  <2>. SUFFICES ASSUME k[1] \in Counter
                PROVE  /\ CountOf(k)' \in Nat
                       /\ KeptCount(log[k], Held(k), CountOf(k), UntilOf(k), Ttl(k), now)'
                       /\ Held(k)' => Earned(log[k], CountOf(k), Ttl(k), crashes > 0)'
                       /\ Held(k)' /\ log'[k][Len(log'[k])].renewed = Never => crashes' > 0 \/ Mid(k)'
    BY DEF CountKept
  <2>0. CountOf(k) \in Nat /\ KeptCount(log[k], Held(k), CountOf(k), UntilOf(k), Ttl(k), now)
    BY <1>3 DEF CountKept
  <2>1. KeptCount(log[k], Held(k) /\ UntilOf(k) # now + 1, CountOf(k), UntilOf(k), Ttl(k), now + 1)
    BY <1>0, <1>2, <2>0, CountTick
  <2>2. KeptCount(log[k], Held(k), CountOf(k), UntilOf(k), Ttl(k), now)'
    BY <1>0, <1>1, <2>1 DEF KeptCount
  <2>. QED BY <1>0, <1>1, <1>3, <1>4, <2>0, <2>2 DEF CountKept
<1>. QED BY <1>5, <1>6

LEMMA TickMInv == ASSUME MInv, Tick PROVE MInv'
<1>0. /\ now' = now + 1 /\ now \in Nat
      /\ UNCHANGED <<sighted, topic, taken, task, log, crashes>>
  BY DEF Tick, MInv, Shape
<1>1. \A k : /\ Held(k)' => Held(k)
             /\ Held(k)' => ListOf(k)' = ListOf(k) /\ CountOf(k)' = CountOf(k)
  BY DEF Tick, Held, ListOf, CountOf
<1>2. Shape'
  <2>1. TaskShape' BY <1>0 DEF TaskShape, Busy, MInv, Shape
  <2>2. \A k \in Keys : Past(log[k], now)'
    <3>. TAKE k \in Keys
    <3>1. Past(log[k], now) /\ log[k] \in Seq(Entries(Things)) BY DEF MInv, Shape
    <3>2. \A i \in 1..Len(log[k]) : log[k][i].at \in Nat BY <3>1, EntryIs
    <3>. QED BY <1>0, <3>1, <3>2 DEF Past
  <2>3. /\ DOMAIN cache' \subseteq DOMAIN cache
        /\ \A k \in DOMAIN cache' : cache'[k] = cache[k]
    BY DEF Tick
  <2>. QED BY <1>0, <2>1, <2>2, <2>3 DEF MInv, Shape
<1>3. \A k \in Keys : ListKept(k)' /\ CountKept(k)' BY TickKeys
<1>4. Key' = Key BY <1>0 DEF Key, Now
<1>5. ReplyKept'
  <2>. SUFFICES ASSUME task # Idle, task.reply # <<>>
                PROVE  /\ Key[1] \in Listing =>
                            /\ Held(Key)' => ListOf(Key)' = task.reply[1]
                            /\ \A x \in task.reply[1] :
                                 \E i \in 1..Len(log[Key]) : log[Key][i].item = x
                       /\ Key[1] \in Counter =>
                            /\ Held(Key)' => CountOf(Key)' = task.reply[1]
                            /\ Earned(log[Key], task.reply[1], Ttl(Key), crashes > 0)
                            /\ CountsBurst(log[Key], task.reply[1], Ttl(Key))
    BY <1>0, <1>4 DEF ReplyKept, Ttl
  <2>1. /\ Held(Key)' => Held(Key)
        /\ Held(Key)' => ListOf(Key)' = ListOf(Key) /\ CountOf(Key)' = CountOf(Key)
    BY <1>0, <1>4 DEF Tick, Held, ListOf, CountOf
  <2>. QED BY <2>1 DEF MInv, ReplyKept
<1>6. EachCounted'
  <2>1. \A k, x : Pending(k, x)' <=> Pending(k, x) BY <1>0 DEF Pending
  <2>. QED BY <1>0, <2>1 DEF MInv, EachCounted, Allowed
<1>7. Verdicts' BY <1>0 DEF MInv, Verdicts, Judgement, KeyAt, Raised, Ttl
<1>8. AlertsEarned' BY <1>0 DEF MInv, AlertsEarned, EarnedAt, KeyAt, Ttl
<1>. QED BY <1>2, <1>3, <1>5, <1>6, <1>7, <1>8 DEF MInv

-----------------------------------------------------------------------------
(* The two commands of a counter. *)

LEMMA CommandShape ==
  ASSUME MInv, Command, NEW key, key = Key,
         task'.reply # <<>> => task'.done = task.done /\ sighted,
         log' \in [Keys -> Seq(Entries(Things))], Past(log'[key], now),
         DOMAIN cache' \subseteq DOMAIN cache \cup {key},
         \A k \in DOMAIN cache' \ {key} : cache'[k] = cache[k],
         key \in DOMAIN cache' => /\ cache'[key].until \in Nat \cup {Never}
                                  /\ DOMAIN cache'[key] = {"value", "until"}
  PROVE  Shape'
<1>1. TaskShape' BY CommandTask DEF MInv
<1>2. key \in Keys BY BusyKey DEF MInv, Command
<1>3. \A k \in Keys : Past(log'[k], now)
  <2>. TAKE k \in Keys
  <2>1. k # key => log'[k] = log[k] BY DEF Command
  <2>. QED BY <2>1 DEF MInv, Shape
<1>. QED BY <1>1, <1>2, <1>3 DEF MInv, Shape, Command

\* A lookup more of one thing.
LEMMA TimesAppend ==
  ASSUME NEW things, NEW h \in Seq(Entries(things)), NEW y \in things, NEW t \in Nat,
         NEW r \in Nat \cup {Never}, NEW x
  PROVE  Times(Append(h, Entry(y, t, r)), x) = IF x = y THEN Times(h, x) + 1 ELSE Times(h, x)
<1>. DEFINE g == Append(h, Entry(y, t, r))
            old == {i \in 1..Len(h) : h[i].item = x}
            new == {i \in 1..Len(g) : g[i].item = x}
<1>1. /\ Len(g) = Len(h) + 1 /\ Len(h) \in Nat /\ \A i \in 1..Len(h) : g[i] = h[i]
      /\ g[Len(h) + 1].item = y
  BY AppendIs, EntryIs
<1>. HIDE DEF g
<1>2. x = y => new = old \cup {Len(h) + 1} BY <1>1
<1>3. x # y => new = old BY <1>1
<1>4. IsFiniteSet(old) /\ Len(h) + 1 \notin old
  <2>1. old \in SUBSET (1..Len(h)) BY <1>1
  <2>2. IsFiniteSet(1..Len(h)) BY <1>1, FS_Interval
  <2>. QED BY <1>1, <2>1, <2>2, FS_Subset
<1>. HIDE DEF old, new
<1>5. Cardinality(old \cup {Len(h) + 1}) = Cardinality(old) + 1 BY <1>4, FS_AddElement
<1>6. Cardinality(new) = IF x = y THEN Cardinality(old) + 1 ELSE Cardinality(old)
  BY <1>2, <1>3, <1>5
<1>. QED BY <1>6 DEF Times, g, old, new

LEMMA IncrementMInv == ASSUME MInv, Increment PROVE MInv'
<1>a. Shape BY DEF MInv
<1>b. Busy /\ sighted /\ task.reply = <<>> /\ Key[1] \in Counter BY DEF Increment, Rule
<1>k. PICK key : key = Key OBVIOUS
<1>x. PICK x : x = Now.item OBVIOUS
<1>h. PICK h : h = log[key] OBVIOUS
<1>w. PICK w : w = Ttl(key) OBVIOUS
<1>f. PICK f \in BOOLEAN : f <=> Held(key) OBVIOUS
<1>c. PICK c : c = CountOf(key) OBVIOUS
<1>v. PICK v : v = UntilOf(key) OBVIOUS
<1>d. PICK crashed \in BOOLEAN : crashed <=> crashes > 0 OBVIOUS
<1>t. PICK t : t = now OBVIOUS
<1>n. PICK n : n = IF f THEN c + 1 ELSE 1 OBVIOUS
<1>u. PICK u : u = IF f THEN v ELSE Never OBVIOUS
<1>g. PICK g : g = Append(h, Entry(x, t, Never)) OBVIOUS
<1>0. /\ key \in Keys /\ x \in Things /\ x = task.event /\ key[1] \in Counter
      /\ key[1] \notin Listing
      /\ task # Idle /\ task.event \in Events /\ task.done \in Nat
      /\ key = KeyAt(task.done + 1)
      /\ \A i \in 1..task.done : KeyAt(i) # key
  BY <1>a, <1>b, <1>k, <1>x, BusyKey, KeyCheck
<1>1. /\ cache' = [k \in DOMAIN cache \cup {key} |->
                     IF k = key THEN [value |-> n, until |-> u] ELSE cache[k]]
      /\ task' = [task EXCEPT !.reply = <<n>>]
      /\ log' = [log EXCEPT ![key] = g]
      /\ UNCHANGED <<monitor, sighted, topic, taken, published, now, crashes>>
  <2>1. /\ n = IF Cached THEN cache[Key].value + 1 ELSE 1
        /\ u = Until(Never)
    BY <1>k, <1>f, <1>c, <1>v, <1>n, <1>u DEF Cached, Until, Held, CountOf, UntilOf
  <2>2. g = Append(log[Key], [item |-> Now.item, at |-> now, renewed |-> Never])
    BY <1>k, <1>x, <1>h, <1>t, <1>g DEF Entry
  <2>. QED BY <1>k, <2>1, <2>2 DEF Increment, Stored
<1>2. /\ DOMAIN task = {"event", "done", "reply", "alerts"} /\ task.event \notin topic
      /\ log \in [Keys -> Seq(Entries(Things))] /\ h \in Seq(Entries(Things))
      /\ t \in Nat /\ crashes \in Nat /\ Past(h, t)
  BY <1>a, <1>0, <1>h, <1>t DEF Shape, TaskShape
<1>3. /\ DOMAIN task' = DOMAIN task /\ task'.event = task.event /\ task'.done = task.done
      /\ task'.reply = <<n>> /\ task'.alerts = task.alerts
  BY <1>1, <1>2
<1>4. log'[key] = g /\ \A k \in Keys \ {key} : log'[k] = log[k] BY <1>0, <1>1, <1>2
<1>5. Command
  <2>1. task' # Idle BY <1>2, <1>3, NotIdle
  <2>. QED BY <1>1, <1>b, <1>3, <1>4, <1>k, <2>1 DEF Command
<1>6. /\ g \in Seq(Entries(Things)) /\ Len(g) = Len(h) + 1 /\ Len(h) \in Nat
      /\ \A i \in 1..Len(h) : g[i] = h[i]
      /\ g[Len(h) + 1].item = x /\ g[Len(h) + 1].at = t /\ g[Len(h) + 1].renewed = Never
  <2>. DEFINE r == Never
  <2>1. r \in Nat \cup {Never} OBVIOUS
  <2>. HIDE DEF r
  <2>2. LET s == Append(h, Entry(x, t, r))
        IN  /\ s \in Seq(Entries(Things)) /\ Len(s) = Len(h) + 1
            /\ \A i \in 1..Len(h) : s[i] = h[i]
            /\ s[Len(h) + 1].item = x /\ s[Len(h) + 1].at = t /\ s[Len(h) + 1].renewed = r
    BY <1>0, <1>2, <2>1, AppendIs
  <2>3. Len(h) \in Nat BY <1>2, EntryIs
  <2>. QED BY <1>g, <2>2, <2>3 DEF r
<1>7. /\ c \in Nat /\ v \in Int /\ w \in Nat \ {0}
      /\ KeptCount(h, f, c, v, w, t)
      /\ f => Earned(h, c, w, crashed)
      /\ f /\ h[Len(h)].renewed = Never => crashed
      /\ f => v \in Nat \cup {Never}
  <2>1. ~Mid(key) BY <1>b DEF Mid
  <2>2. CountKept(key) BY <1>0 DEF MInv
  <2>3. v \in Int /\ (f => v \in Nat \cup {Never}) BY <1>a, <1>f, <1>v DEF UntilOf, Shape, Held, Never
  <2>4. w \in Nat \ {0} BY <1>0, <1>w, KeyCheck DEF Ttl
  <2>5. KeptCount(h, f, c, v, w, t)
    BY <1>0, <1>h, <1>f, <1>c, <1>v, <1>w, <1>t, <2>2 DEF CountKept, KeptCount
  <2>6. f => Earned(h, c, w, crashed)
    BY <1>0, <1>h, <1>f, <1>c, <1>w, <1>d, <2>2 DEF CountKept, Earned
  <2>. QED BY <1>0, <1>h, <1>f, <1>c, <1>d, <2>1, <2>2, <2>3, <2>4, <2>5, <2>6 DEF CountKept
<1>8. KeptCount(g, TRUE, n, u, w, t) /\ Earned(g, n, w, crashed) /\ CountsBurst(g, n, w)
  <2>1. Incremented(h, f, c, v, w, t, crashed, x) BY <1>0, <1>2, <1>7, CountIncrement
  <2>. QED BY <1>g, <1>n, <1>u, <2>1 DEF Incremented
<1>9. n \in Nat /\ u \in Nat \cup {Never} BY <1>n, <1>u, <1>7
<1>10. /\ DOMAIN cache' = DOMAIN cache \cup {key}
       /\ \A k \in DOMAIN cache' \ {key} : cache'[k] = cache[k]
       /\ cache'[key] = [value |-> n, until |-> u]
  BY <1>1
<1>11. /\ Held(key)' /\ CountOf(key)' = n /\ UntilOf(key)' = u /\ Ttl(key)' = w
       /\ Key' = key
  <2>1. Key' = Key BY <1>3 DEF Key, Now
  <2>. QED BY <1>10, <1>k, <1>w, <2>1 DEF Held, CountOf, UntilOf, Ttl
<1>12. Shape'
  <2>1. Past(g, t)
    <3>. SUFFICES ASSUME NEW i \in 1..Len(g) PROVE g[i].at <= t
      BY DEF Past
    <3>. QED BY <1>2, <1>6 DEF Past
  <2>2. log' \in [Keys -> Seq(Entries(Things))] BY <1>1, <1>2, <1>6
  <2>. QED BY <1>b, <1>k, <1>t, <1>3, <1>4, <1>5, <1>9, <1>10, <2>1, <2>2, CommandShape
<1>13. \A k \in Keys : ListKept(k)' /\ CountKept(k)'
  <2>1. \A k \in Keys \ {key} : ListKept(k)' /\ CountKept(k)'
    BY <1>5, <1>10, <1>k, CommandOthers
  <2>2. ListKept(key)' BY <1>0 DEF ListKept
  <2>3. CountKept(key)'
    <3>1. KeptCount(log[key], Held(key), CountOf(key), UntilOf(key), Ttl(key), now)'
      BY <1>1, <1>t, <1>4, <1>8, <1>11 DEF KeptCount
    <3>2. Earned(log[key], CountOf(key), Ttl(key), crashes > 0)'
      BY <1>1, <1>d, <1>4, <1>8, <1>11 DEF Earned
    <3>3. Mid(key)'
      <4>1. task'.reply # <<>> BY <1>3
      <4>. QED BY <1>5, <1>11, <4>1 DEF Mid, Command
    <3>. QED BY <1>9, <1>11, <3>1, <3>2, <3>3 DEF CountKept
  <2>. QED BY <2>1, <2>2, <2>3
<1>14. ReplyKept'
  <2>1. task'.reply[1] = n BY <1>3
  <2>2. Earned(log'[key], n, w, crashes' > 0) /\ CountsBurst(log'[key], n, w)
    BY <1>1, <1>d, <1>4, <1>8 DEF Earned
  <2>. QED BY <1>0, <1>11, <2>1, <2>2 DEF ReplyKept
<1>15. EachCounted'
  <2>. SUFFICES ASSUME NEW k \in Keys, k[1] \in Counter, NEW y
                PROVE  Times(log'[k], y) <= Allowed(k, y)'
    BY DEF EachCounted
  <2>1. /\ Times(log[k], y) <= Allowed(k, y) /\ Times(log[k], y) \in Nat
        /\ crashes' = crashes /\ crashes \in Nat
    BY <1>1, <1>2, TimesNat DEF MInv, EachCounted
  <2>2. Pending(k, y)' => Pending(k, y)
    <3>1. task'.reply # <<>> BY <1>3
    <3>. QED BY <1>a, <1>5, <3>1, PendingShrinks
  <2>3. CASE k = key /\ y = x
    <3>1. Pending(key, x)
      <4>1. task.done + 1 \in (task.done + 1)..Len(Lookups(x))
        BY <1>0, <1>a, <1>b, BusyKey, LookupsAre DEF IsLookups
      <4>. QED BY <1>0, <1>b, <4>1 DEF Pending, KeyAt
    <3>2. ~Pending(key, x)'
      <4>1. x \notin topic' /\ task'.event = x BY <1>0, <1>1, <1>2, <1>3
      <4>2. IsLookups(Lookups(x), x) BY <1>0, LookupsAre
      <4>3. task.done + 1 \in 1..Len(Lookups(x)) BY <1>0, <1>a, <1>b, BusyKey
      <4>4. ASSUME NEW i \in (task.done + 1)..Len(Lookups(x)), Lookups(x)[i].key = key
            PROVE  i = task.done + 1
        <5>1. i \in 1..Len(Lookups(x)) BY <1>0, <4>2 DEF IsLookups
        <5>2. Lookups(x)[i].key[1] = Lookups(x)[task.done + 1].key[1]
          BY <1>0, <4>4 DEF KeyAt
        <5>. QED BY <4>2, <4>3, <5>1, <5>2 DEF IsLookups
      <4>5. task'.done = task.done /\ task'.reply # <<>> BY <1>3
      <4>. QED BY <4>1, <4>4, <4>5 DEF Pending
    <3>3. Times(log'[k], y) = Times(log[k], y) + 1
      <4>. DEFINE r == Never
      <4>1. r \in Nat \cup {Never} OBVIOUS
      <4>. HIDE DEF r
      <4>2. Times(Append(h, Entry(x, t, r)), y) = IF y = x THEN Times(h, y) + 1 ELSE Times(h, y)
        BY <1>0, <1>2, <4>1, TimesAppend
      <4>. QED BY <1>4, <1>g, <1>h, <2>3, <4>2 DEF r
    <3>. QED BY <2>1, <2>3, <3>1, <3>2, <3>3 DEF Allowed
  <2>4. CASE ~ (k = key /\ y = x)
    <3>1. Times(log'[k], y) = Times(log[k], y)
      <4>1. CASE k # key BY <1>4, <4>1
      <4>2. CASE k = key
        <5>. DEFINE r == Never
        <5>1. r \in Nat \cup {Never} OBVIOUS
        <5>. HIDE DEF r
        <5>2. Times(Append(h, Entry(x, t, r)), y) = IF y = x THEN Times(h, y) + 1 ELSE Times(h, y)
          BY <1>0, <1>2, <5>1, TimesAppend
        <5>. QED BY <1>4, <1>g, <1>h, <2>4, <4>2, <5>2 DEF r
      <4>. QED BY <4>1, <4>2
    <3>. QED BY <2>1, <2>2, <3>1 DEF Allowed
  <2>. QED BY <2>3, <2>4
<1>16. Verdicts' /\ AlertsEarned'
  <2>1. task'.alerts \ task.alerts = {} /\ task'.done # task.done + 1 BY <1>0, <1>3
  <2>. QED BY <1>5, <2>1, CommandVerdicts, CommandEarns
<1>. QED BY <1>12, <1>13, <1>14, <1>15, <1>16 DEF MInv

-----------------------------------------------------------------------------
\* Renewing a lookup adds none.
LEMMA TimesRenew ==
  ASSUME NEW things, NEW h \in Seq(Entries(things)), NEW t \in Nat, Len(h) # 0, NEW x
  PROVE  Times(Renew(h, t), x) = Times(h, x)
<1>. DEFINE g == Renew(h, t)
<1>1. Len(g) = Len(h) /\ \A i \in 1..Len(h) : g[i].item = h[i].item
  BY RenewIs
<1>. HIDE DEF g
<1>2. {i \in 1..Len(g) : g[i].item = x} = {i \in 1..Len(h) : h[i].item = x} BY <1>1
<1>. QED BY <1>2 DEF Times, g

\* EXPIRE of a key that is gone renews nothing, of the others the last lookup.
LEMMA ExpireKey ==
  ASSUME MInv, Expire, NEW key, key = Key, NEW g, g = log'[key], NEW w, w = Ttl(key),
         NEW n, n = task.reply[1]
  PROVE  /\ log' \in [Keys -> Seq(Entries(Things))] /\ Past(g, now)
         /\ \A k \in Keys \ {key} : log'[k] = log[k]
         /\ Held(key)' <=> Held(key)
         /\ Held(key) => CountOf(key)' = n /\ CountOf(key) = n
         /\ DOMAIN cache' = DOMAIN cache
         /\ \A k \in DOMAIN cache \ {key} : cache'[k] = cache[k]
         /\ Held(key) => /\ cache'[key].until \in Nat
                         /\ DOMAIN cache'[key] = {"value", "until"}
         /\ CountKept(key)'
         /\ n \in 1..Len(g) /\ Earned(g, n, w, crashes > 0) /\ CountsBurst(g, n, w)
         /\ \A x : Times(g, x) = Times(log[key], x)
<1>a. Shape BY DEF MInv
<1>b. Busy /\ task.reply # <<>> /\ key[1] \in Counter BY DEF Expire, Rule
<1>h. PICK h : h = log[key] OBVIOUS
<1>f. PICK f \in BOOLEAN : f <=> Held(key) OBVIOUS
<1>v. PICK v : v = UntilOf(key) OBVIOUS
<1>d. PICK crashed \in BOOLEAN : crashed <=> crashes > 0 OBVIOUS
<1>t. PICK t : t = now OBVIOUS
<1>0. key \in Keys /\ task # Idle /\ key[1] \notin Listing /\ w \in Nat \ {0}
  BY <1>a, <1>b, BusyKey, KeyCheck DEF Ttl
<1>2. /\ log \in [Keys -> Seq(Entries(Things))] /\ h \in Seq(Entries(Things))
      /\ t \in Nat /\ Past(h, t) /\ Len(h) \in Nat
  BY <1>a, <1>0, <1>h, <1>t, EntryIs DEF Shape
<1>3. /\ f => CountOf(key) = n
      /\ n \in 1..Len(h) /\ Earned(h, n, w, crashed) /\ CountsBurst(h, n, w)
  <2>1. /\ Held(key) => CountOf(key) = n
        /\ Earned(h, n, w, crashes > 0) /\ CountsBurst(h, n, w)
    BY <1>0, <1>b, <1>h DEF MInv, ReplyKept
  <2>. QED BY <1>d, <1>f, <2>1 DEF Earned
<1>4. f => KeptCount(h, TRUE, n, v, w, t) /\ v \in Int
  <2>1. CountKept(key) BY <1>0 DEF MInv
  <2>2. f => v \in Int BY <1>a, <1>f, <1>v DEF UntilOf, Shape, Held, Never
  <2>. QED BY <1>0, <1>b, <1>h, <1>f, <1>v, <1>t, <1>3, <2>1, <2>2 DEF CountKept, KeptCount
<1>5. CASE ~f
  <2>1. UNCHANGED <<cache, log>> /\ now' = now BY <1>5, <1>f DEF Expire, Held, Cached
  <2>2. g = h /\ Held(key)' = Held(key) BY <2>1, <1>h DEF Held
  <2>3. Held(key)' <=> Held(key) BY <2>1 DEF Held
  <2>4. CountOf(key)' = 0 /\ Ttl(key)' = w BY <1>5, <1>f, <2>1 DEF CountOf, Held, Ttl
  <2>5. CountKept(key)'
    <3>1. CountKept(key) BY <1>0 DEF MInv
    <3>. QED BY <1>5, <1>f, <2>1, <2>3, <2>4, <3>1 DEF CountKept, KeptCount, Ttl
  <2>. QED BY <1>2, <1>3, <1>5, <1>d, <1>f, <1>h, <1>t, <2>1, <2>2, <2>3, <2>5 DEF Earned
<1>6. CASE f
  <2>1. /\ cache' = [cache EXCEPT ![key].until = t + w]
        /\ log' = [log EXCEPT ![key][Len(log[key])].renewed = t]
        /\ now' = now /\ crashes' = crashes
    BY <1>6, <1>f, <1>t DEF Expire, Held, Cached, Renewed, Rule, Ttl
  <2>2. Len(h) # 0 BY <1>2, <1>3
  <2>3. g = Renew(h, t) BY <1>0, <1>2, <1>h, <2>1 DEF Renew
  <2>4. /\ g \in Seq(Entries(Things)) /\ Len(g) = Len(h)
        /\ \A i \in 1..Len(h) : g[i].at = h[i].at
        /\ g[Len(h)].renewed = t
    BY <1>2, <2>2, <2>3, RenewIs
  <2>5. log' = [log EXCEPT ![key] = g] BY <1>0, <1>2, <1>h, <2>1
  <2>6. log' \in [Keys -> Seq(Entries(Things))] /\ \A k \in Keys \ {key} : log'[k] = log[k]
    BY <1>0, <1>2, <2>4, <2>5
  <2>7. Past(g, now) BY <1>2, <1>t, <2>4 DEF Past
  <2>8. key \in DOMAIN cache /\ DOMAIN cache[key] = {"value", "until"}
    BY <1>6, <1>a, <1>f DEF Held, Shape
  <2>9. /\ DOMAIN cache' = DOMAIN cache
        /\ \A k \in DOMAIN cache \ {key} : cache'[k] = cache[k]
        /\ cache'[key].until = t + w /\ DOMAIN cache'[key] = {"value", "until"}
        /\ cache'[key].value = cache[key].value
    BY <2>1, <2>8
  <2>10. /\ Held(key)' /\ Held(key) /\ CountOf(key)' = n /\ CountOf(key) = n
         /\ UntilOf(key)' = t + w /\ Ttl(key)' = w
    BY <1>3, <1>6, <1>f, <2>8, <2>9 DEF Held, CountOf, UntilOf, Ttl
  <2>11. Earned(g, n, w, crashed) /\ CountsBurst(g, n, w)
    BY <1>0, <1>2, <1>3, <2>2, <2>3, CountRenewed
  <2>12. KeptCount(g, TRUE, n, t + w, w, t)
    <3>1. n \in Int /\ h \in Seq(Entries(Things)) /\ KeptCount(h, TRUE, n, v, w, t) /\ v \in Int
      <4>1. n \in Int BY <1>2, <1>3
      <4>2. KeptCount(h, TRUE, n, v, w, t) BY <1>4, <1>6
      <4>3. v \in Int BY <1>4, <1>6
      <4>. QED BY <1>2, <4>1, <4>2, <4>3
    <3>. QED BY <1>0, <1>2, <2>3, <3>1, CountExpire
  <2>13. Earned(g, n, w, crashes > 0) BY <1>d, <2>11 DEF Earned
  <2>14. CountKept(key)'
    <3>1. KeptCount(log[key], Held(key), CountOf(key), UntilOf(key), Ttl(key), now)'
      BY <1>t, <2>1, <2>10, <2>12 DEF KeptCount
    <3>2. Earned(log[key], CountOf(key), Ttl(key), crashes > 0)'
      BY <2>1, <2>10, <2>13 DEF Earned
    <3>3. g[Len(g)].renewed # Never BY <1>2, <2>4 DEF Never
    <3>4. n \in Nat BY <1>3
    <3>. QED BY <2>10, <3>1, <3>2, <3>3, <3>4 DEF CountKept
  <2>15. \A x : Times(g, x) = Times(log[key], x)
    BY <1>2, <1>h, <2>2, <2>3, TimesRenew
  <2>. QED BY <1>0, <1>2, <1>3, <1>t, <2>4, <2>6, <2>7, <2>9, <2>10, <2>11, <2>13, <2>14, <2>15
<1>. QED BY <1>5, <1>6

\* A lookup that ends raises its alert when its size reaches the threshold.
LEMMA FinishedRaises ==
  ASSUME NEW key, key = Key, NEW n, n >= Threshold[key[1]],
         Alert(task.event, key[1], n) \in task'.alerts
  PROVE  Raised(key)'
<1>. DEFINE a == Alert(task.event, key[1], n)
<1>1. a.rule = key[1] /\ a.count = n BY DEF Alert
<1>. HIDE DEF a
<1>2. a \in task'.alerts BY DEF a
<1>. QED BY <1>1, <1>2 DEF Raised

LEMMA ExpireMInv == ASSUME MInv, Expire PROVE MInv'
<1>a. Shape BY DEF MInv
<1>b. Busy /\ task.reply # <<>> /\ Key[1] \in Counter BY DEF Expire, Rule
<1>k. PICK key : key = Key OBVIOUS
<1>n. PICK n : n = task.reply[1] OBVIOUS
<1>g. PICK g : g = log'[key] OBVIOUS
<1>w. PICK w : w = Ttl(key) OBVIOUS
<1>0. /\ key \in Keys /\ key[1] \in Counter /\ key[1] \notin Listing /\ sighted
      /\ w \in Nat \ {0} /\ task # Idle
  BY <1>a, <1>b, <1>k, <1>w, BusyKey, KeyCheck DEF Ttl, Shape, TaskShape
<1>1. /\ log' \in [Keys -> Seq(Entries(Things))] /\ Past(g, now)
      /\ \A k \in Keys \ {key} : log'[k] = log[k]
      /\ DOMAIN cache' = DOMAIN cache
      /\ \A k \in DOMAIN cache \ {key} : cache'[k] = cache[k]
      /\ key \in DOMAIN cache' => /\ cache'[key].until \in Nat
                                  /\ DOMAIN cache'[key] = {"value", "until"}
      /\ CountKept(key)'
      /\ n \in 1..Len(g) /\ Earned(g, n, w, crashes > 0) /\ CountsBurst(g, n, w)
      /\ \A x : Times(g, x) = Times(log[key], x)
  BY <1>k, <1>n, <1>g, <1>w, ExpireKey DEF Held
<1>2. /\ task' # Idle /\ DOMAIN task' = DOMAIN task
      /\ task'.event = task.event /\ task'.done = task.done + 1 /\ task'.reply = <<>>
      /\ task'.alerts = task.alerts
           \cup {a \in {Alert(task.event, key[1], n)} : n >= Threshold[key[1]]}
  BY <1>a, <1>b, <1>k, <1>n, FinishedIs DEF Expire
<1>3. UNCHANGED <<monitor, sighted, topic, taken, published, now, crashes>> BY DEF Expire
<1>4. Command BY <1>b, <1>k, <1>1, <1>2, <1>3 DEF Command
<1>5. task.done \in Nat /\ task'.done # task.done BY <1>a, <1>b, <1>2, BusyKey
<1>6. Shape' BY <1>k, <1>g, <1>1, <1>2, <1>4, CommandShape
<1>7. \A k \in Keys : ListKept(k)' /\ CountKept(k)'
  <2>1. \A k \in Keys \ {key} : ListKept(k)' /\ CountKept(k)'
    BY <1>1, <1>4, <1>k, CommandOthers
  <2>2. ListKept(key)' BY <1>0 DEF ListKept
  <2>. QED BY <1>1, <2>1, <2>2
<1>8. ReplyKept' BY <1>2 DEF ReplyKept
<1>9. EachCounted'
  <2>1. \A k \in Keys : \A x : Times(log'[k], x) = Times(log[k], x) BY <1>1, <1>g
  <2>. QED BY <1>4, <1>5, <2>1, CommandCounts
<1>10. Verdicts'
  <2>1. Judgement(key)'
    <3>1. g \in Seq(Entries(Things)) BY <1>0, <1>1, <1>g
    <3>2. ASSUME Cardinality(BurstOf(g, w)) + 1 >= Threshold[key[1]] PROVE Raised(key)'
      <4>1. Cardinality(BurstOf(g, w)) + 1 <= n
        BY <1>0, <1>1, <3>1, BurstSize DEF BurstOf
      <4>2. Cardinality(BurstOf(g, w)) \in Nat
        <5>1. Len(g) - 1 \in Int BY <3>1, EntryIs
        <5>2. IsFiniteSet(1..(Len(g) - 1)) BY <5>1, FS_Interval
        <5>3. BurstOf(g, w) \in SUBSET (1..(Len(g) - 1)) BY DEF BurstOf
        <5>. QED BY <5>2, <5>3, FS_Subset, FS_CardinalityType
      <4>3. Threshold[key[1]] \in Nat BY <1>0, MonitorsAssumption DEF Check
      <4>4. n \in Nat /\ Len(g) \in Nat BY <1>1, <3>1, EntryIs
      <4>5. n >= Threshold[key[1]] BY <3>2, <4>1, <4>2, <4>3, <4>4
      <4>. QED BY <1>k, <1>2, <4>5, FinishedRaises
    <3>. QED BY <1>0, <1>g, <1>w, <3>2 DEF Judgement, Ttl
  <2>. QED BY <1>4, <1>k, <2>1, CommandVerdicts
<1>11. AlertsEarned'
  <2>1. \A a \in task'.alerts \ task.alerts : EarnedAt(a, key)'
    <3>. TAKE a \in task'.alerts \ task.alerts
    <3>1. a.rule = key[1] /\ a.count = n BY <1>2 DEF Alert
    <3>2. Earned(log'[key], n, w, crashes' > 0) BY <1>1, <1>3, <1>g DEF Earned
    <3>. QED BY <3>1, <3>2, <1>w DEF EarnedAt, Ttl
  <2>. QED BY <1>2, <1>4, <1>k, <2>1, CommandEarns
<1>. QED BY <1>6, <1>7, <1>8, <1>9, <1>10, <1>11 DEF MInv

-----------------------------------------------------------------------------
(* The two commands of a list. *)

\* Of things that are all in a history there are finitely many.
LEMMA ListFinite ==
  ASSUME NEW things, NEW h \in Seq(Entries(things)), NEW list,
         \A x \in list : \E i \in 1..Len(h) : h[i].item = x
  PROVE  IsFiniteSet(list) /\ Cardinality(list) \in Nat
<1>. DEFINE met == {h[i].item : i \in 1..Len(h)}
            f == [i \in 1..Len(h) |-> h[i].item]
<1>1. Len(h) \in Nat BY EntryIs
<1>2. IsFiniteSet(1..Len(h)) BY <1>1, FS_Interval
<1>3. f \in Surjection(1..Len(h), met) BY DEF Surjection
<1>4. list \in SUBSET met OBVIOUS
<1>. HIDE DEF met, f
<1>5. IsFiniteSet(met) BY <1>2, <1>3, FS_Surjection
<1>. QED BY <1>4, <1>5, FS_Subset, FS_CardinalityType

\* The fresh items of a list are as many as the list holds, or fewer.
LEMMA FreshSize ==
  ASSUME NEW things, NEW h \in Seq(Entries(things)), NEW found \in BOOLEAN, NEW list,
         NEW until \in Int, NEW w \in Nat, NEW t \in Nat,
         KeptList(h, found, list, until, w, t), Len(h) # 0, h[Len(h)].at = t,
         ~found => list = {}
  PROVE  Cardinality(FreshOf(h, w)) <= Cardinality(list) /\ Cardinality(list) \in Nat
         /\ Cardinality(FreshOf(h, w)) \in Nat
<1>1. \A x \in list : \E i \in 1..Len(h) : h[i].item = x BY DEF KeptList
<1>2. IsFiniteSet(list) /\ Cardinality(list) \in Nat BY <1>1, ListFinite
<1>3. FreshOf(h, w) \subseteq list
  <2>. SUFFICES ASSUME NEW x \in FreshOf(h, w) PROVE x \in list
    OBVIOUS
  <2>1. /\ x # NoPort
        /\ \E l \in ToSet(h) : x = l.item
        /\ \A i \in {j \in DOMAIN h : h[j].item = x} : h[Len(h)].at < h[i].at + w
    BY DEF FreshOf
  <2>2. DOMAIN h = 1..Len(h) OBVIOUS
  <2>3. \E i \in 1..Len(h) : h[i].item = x BY <2>1, <2>2 DEF ToSet
  <2>. QED BY <2>1, <2>2, <2>3, ListFresh
<1>. QED BY <1>2, <1>3, FS_Subset, FS_CardinalityType

\* A lookup of a list ends: its fresh items, as many as the threshold, raise.
LEMMA ListJudged ==
  ASSUME MInv, NEW key \in Keys, key = Key, key[1] \in Listing, NEW list,
         log'[key] \in Seq(Entries(Things)),
         NEW found \in BOOLEAN, NEW until \in Int,
         KeptList(log'[key], found, list, until, Ttl(key), now),
         Len(log'[key]) # 0, log'[key][Len(log'[key])].at = now,
         ~found => list = {},
         Cardinality(list) >= Threshold[key[1]]
           => Alert(task.event, key[1], Cardinality(list)) \in task'.alerts
  PROVE  Judgement(key)'
<1>1. now \in Nat /\ Ttl(key) \in Nat /\ key[1] \notin Counter BY KeyCheck DEF MInv, Shape, Ttl
<1>2. /\ Cardinality(FreshOf(log'[key], Ttl(key))) <= Cardinality(list)
      /\ Cardinality(list) \in Nat /\ Cardinality(FreshOf(log'[key], Ttl(key))) \in Nat
  BY <1>1, FreshSize
<1>3. Threshold[key[1]] \in Nat BY MonitorsAssumption DEF Check
<1>4. Cardinality(FreshOf(log'[key], Ttl(key))) >= Threshold[key[1]] => Raised(key)'
  BY <1>2, <1>3, FinishedRaises
<1>5. Ttl(key)' = Ttl(key) BY DEF Ttl
<1>. QED BY <1>1, <1>4, <1>5 DEF Judgement

\* What the list of a lookup is before the command.
LEMMA ListBefore ==
  ASSUME MInv, Busy, sighted, Key[1] \in Listing, NEW key, key = Key, NEW h, h = log[key],
         NEW f \in BOOLEAN, f <=> Held(key), NEW list, list = ListOf(key),
         NEW u, u = UntilOf(key), NEW w, w = Ttl(key), NEW x, x = Now.item
  PROVE  /\ key \in Keys /\ key[1] \in Listing /\ key[1] \notin Counter /\ x \in Things
         /\ task # Idle /\ DOMAIN task = {"event", "done", "reply", "alerts"}
         /\ task.done \in Nat
         /\ log \in [Keys -> Seq(Entries(Things))] /\ h \in Seq(Entries(Things))
         /\ Len(h) \in Nat /\ now \in Nat /\ Past(h, now)
         /\ u \in Int /\ w \in Nat \ {0} /\ KeptList(h, f, list, u, w, now)
         /\ f => list = cache[key].value
         /\ ~f => list = {}
         /\ \A y \in list : \E i \in 1..Len(h) : h[i].item = y
<1>1. /\ key \in Keys /\ key[1] \in Listing /\ key[1] \notin Counter /\ x \in Things
      /\ task # Idle /\ task.done \in Nat
  BY BusyKey, KeyCheck DEF MInv
<1>2. DOMAIN task = {"event", "done", "reply", "alerts"} BY <1>1 DEF MInv, Shape, TaskShape
<1>3. /\ log \in [Keys -> Seq(Entries(Things))] /\ h \in Seq(Entries(Things))
      /\ now \in Nat /\ Past(h, now)
  BY <1>1 DEF MInv, Shape
<1>4. Len(h) \in Nat BY <1>3, EntryIs
<1>5. u \in Int BY DEF MInv, Shape, UntilOf, Held, Never
<1>6. w \in Nat \ {0} BY <1>1, KeyCheck DEF Ttl
<1>7. KeptList(h, f, list, u, w, now)
  <2>1. ListKept(key) BY <1>1 DEF MInv
  <2>. QED BY <1>1, <2>1, SameList DEF ListKept
<1>8. (f => list = cache[key].value) /\ (~f => list = {}) BY DEF ListOf
<1>9. \A y \in list : \E i \in 1..Len(h) : h[i].item = y BY <1>7, <1>8 DEF KeptList
<1>. QED BY <1>1, <1>2, <1>3, <1>4, <1>5, <1>6, <1>7, <1>8, <1>9

\* A lookup more, of an entry of this moment.
LEMMA LogAppend ==
  ASSUME NEW key \in Keys, log \in [Keys -> Seq(Entries(Things))], now \in Nat,
         Past(log[key], now), NEW x \in Things, NEW r \in Nat \cup {Never},
         NEW g, g = Append(log[key], Entry(x, now, r)), log' = [log EXCEPT ![key] = g]
  PROVE  /\ log' \in [Keys -> Seq(Entries(Things))] /\ Past(g, now) /\ log'[key] = g
         /\ \A k \in Keys \ {key} : log'[k] = log[k]
         /\ g \in Seq(Entries(Things)) /\ Len(g) # 0 /\ g[Len(g)].at = now
<1>1. /\ g \in Seq(Entries(Things)) /\ Len(g) = Len(log[key]) + 1 /\ Len(log[key]) \in Nat
      /\ \A i \in 1..Len(log[key]) : g[i] = log[key][i]
      /\ g[Len(log[key]) + 1].at = now
  BY AppendIs, EntryIs
<1>2. Past(g, now)
  <2>. SUFFICES ASSUME NEW i \in 1..Len(g) PROVE g[i].at <= now
    BY DEF Past
  <2>. QED BY <1>1 DEF Past
<1>. QED BY <1>1, <1>2

-----------------------------------------------------------------------------
\* The lookup of a list ends with what was on the list, whichever command ends it.
ListEnd(key, list, r, u) ==
  /\ Busy /\ sighted /\ key = Key /\ key[1] \in Listing
  /\ task' = Finished(Cardinality(list))
  /\ UNCHANGED <<monitor, sighted, topic, taken, published, now, crashes>>
  /\ r \in Nat \cup {Never}
  /\ log' = [log EXCEPT ![key] = Append(log[key], Entry(Now.item, now, r))]
  /\ DOMAIN cache' \ {key} = DOMAIN cache \ {key}
  /\ \A k \in DOMAIN cache \ {key} : cache'[k] = cache[k]
  /\ key \in DOMAIN cache' => /\ cache'[key].until \in Nat \cup {Never}
                              /\ DOMAIN cache'[key] = {"value", "until"}
  /\ Held(key)' => ListOf(key)' = list
  /\ ~Held(key)' => list = {}
  /\ u = UntilOf(key)'
  /\ Held(key)' => KeptList(log'[key], TRUE, list, u, Ttl(key), now)
  /\ ~Held(key)' => KeptList(log'[key], FALSE, list, u, Ttl(key), now)

LEMMA ListingEnds ==
  ASSUME MInv, NEW key, NEW list, NEW r, NEW u, ListEnd(key, list, r, u)
  PROVE  MInv'
<1>. USE DEF ListEnd
<1>c. /\ \A k \in Keys \ {key} : /\ k \in DOMAIN cache' <=> k \in DOMAIN cache
                                /\ k \in DOMAIN cache => cache'[k] = cache[k]
      /\ DOMAIN cache' \subseteq DOMAIN cache \cup {key}
  <2>1. \A k : k # key => (k \in DOMAIN cache' <=> k \in DOMAIN cache) OBVIOUS
  <2>. QED BY <2>1
<1>a. Shape BY DEF MInv
<1>f. PICK f \in BOOLEAN : f <=> Held(key)' OBVIOUS
<1>x. PICK x : x = Now.item OBVIOUS
<1>g. PICK g : g = Append(log[key], Entry(x, now, r)) OBVIOUS
<1>n. PICK n : n = Cardinality(list) OBVIOUS
<1>0. /\ key \in Keys /\ key[1] \notin Counter /\ x \in Things /\ task.done \in Nat
      /\ log \in [Keys -> Seq(Entries(Things))] /\ Past(log[key], now) /\ now \in Nat
  BY <1>a, <1>x, BusyKey, KeyCheck DEF Shape
<1>1. /\ log' \in [Keys -> Seq(Entries(Things))] /\ Past(g, now) /\ log'[key] = g
      /\ \A k \in Keys \ {key} : log'[k] = log[k]
      /\ g \in Seq(Entries(Things)) /\ Len(g) # 0 /\ g[Len(g)].at = now
  <2>1. log' = [log EXCEPT ![key] = g] BY <1>x, <1>g
  <2>2. g = Append(log[key], Entry(x, now, r)) BY <1>g
  <2>. QED BY ONLY <1>0, <2>1, <2>2, LogAppend, r \in Nat \cup {Never}
<1>2. /\ task' # Idle /\ DOMAIN task' = DOMAIN task
      /\ task'.event = task.event /\ task'.done = task.done + 1 /\ task'.reply = <<>>
      /\ task'.alerts = task.alerts
           \cup {a \in {Alert(task.event, key[1], n)} : n >= Threshold[key[1]]}
  BY <1>a, <1>n, FinishedIs
<1>3. Command BY <1>1, <1>2 DEF Command
<1>4. Shape'
  <2>1. \A k \in DOMAIN cache' \ {key} : cache'[k] = cache[k]
    BY <1>c
  <2>. QED BY <1>c, <1>1, <1>2, <1>3, <2>1, CommandShape
<1>5. u \in Int
  <2>1. (\A k \in DOMAIN cache : cache[k].until \in Nat \cup {Never})' BY <1>4 DEF Shape
  <2>. QED BY <2>1 DEF UntilOf, Held, Never
<1>6. KeptList(g, f, list, u, Ttl(key), now)
  <2>1. CASE f = TRUE BY <1>1, <1>f, <2>1
  <2>2. CASE f = FALSE BY <1>1, <1>f, <2>2
  <2>. QED BY <2>1, <2>2
<1>7. \A k \in Keys : ListKept(k)' /\ CountKept(k)'
  <2>1. \A k \in Keys \ {key} : ListKept(k)' /\ CountKept(k)' BY <1>3, <1>c, CommandOthers
  <2>2. ListKept(key)'
    <3>1. KeptList(log[key], Held(key), ListOf(key), UntilOf(key), Ttl(key), now)'
      <4>1. now' = now /\ Ttl(key)' = Ttl(key) BY DEF Ttl
      <4>2. KeptList(log'[key], Held(key)', ListOf(key)', u, Ttl(key), now)
        BY <1>1, <1>6, <1>f DEF KeptList
      <4>. QED BY <4>1, <4>2
    <3>. QED BY <3>1 DEF ListKept
  <2>3. CountKept(key)' BY <1>0 DEF CountKept
  <2>. QED BY <2>1, <2>2, <2>3
<1>8. ReplyKept' BY <1>2 DEF ReplyKept
<1>9. EachCounted'
  <2>1. \A k \in Keys : \A y : k[1] \in Counter => Times(log'[k], y) = Times(log[k], y)
    BY <1>0, <1>1
  <2>2. task'.done # task.done BY <1>0, <1>2
  <2>. QED BY <1>3, <2>1, <2>2, CommandCounts
<1>10. Verdicts'
  <2>1. n >= Threshold[key[1]] => Alert(task.event, key[1], n) \in task'.alerts BY <1>2
  <2>2. Judgement(key)' BY <1>0, <1>1, <1>5, <1>6, <1>f, <1>n, <2>1, ListJudged
  <2>. QED BY <1>3, <2>2, CommandVerdicts
<1>11. AlertsEarned'
  <2>1. \A a \in task'.alerts \ task.alerts : a.rule \notin Counter BY <1>0, <1>2 DEF Alert
  <2>. QED BY <1>3, <2>1, CommandEarns
<1>. QED BY <1>4, <1>7, <1>8, <1>9, <1>10, <1>11 DEF MInv

LEMMA SetExMInv == ASSUME MInv, SetEx PROVE MInv'
<1>a. Shape BY DEF MInv
<1>b. Busy /\ task.reply # <<>> /\ Key[1] \in Listing BY DEF SetEx, Rule
<1>c. sighted /\ task # Idle BY <1>a, <1>b DEF Shape, TaskShape, Busy
<1>k. PICK key : key = Key OBVIOUS
<1>h. PICK h : h = log[key] OBVIOUS
<1>f. PICK f \in BOOLEAN : f <=> Held(key) OBVIOUS
<1>l. PICK old : old = ListOf(key) OBVIOUS
<1>u. PICK u : u = UntilOf(key) OBVIOUS
<1>w. PICK w : w = Ttl(key) OBVIOUS
<1>x. PICK x : x = Now.item OBVIOUS
<1>t. PICK t : t = now OBVIOUS
<1>r. PICK read : read = task.reply[1] OBVIOUS
<1>n. PICK list : list = read \cup {x} OBVIOUS
<1>0. /\ key \in Keys /\ key[1] \in Listing /\ key[1] \notin Counter /\ x \in Things
      /\ log \in [Keys -> Seq(Entries(Things))] /\ h \in Seq(Entries(Things))
      /\ Len(h) \in Nat /\ t \in Nat /\ Past(h, t)
      /\ u \in Int /\ w \in Nat \ {0} /\ KeptList(h, f, old, u, w, t)
  BY <1>b, <1>c, <1>k, <1>h, <1>f, <1>l, <1>u, <1>w, <1>x, <1>t, ListBefore
<1>1. /\ f => old = read
      /\ \A y \in read : \E i \in 1..Len(h) : h[i].item = y
  BY <1>b, <1>c, <1>k, <1>h, <1>f, <1>l, <1>r DEF MInv, ReplyKept
<1>2. /\ cache' = [k \in DOMAIN cache \cup {key} |->
                     IF k = key THEN [value |-> list, until |-> t + w] ELSE cache[k]]
      /\ log' = [log EXCEPT ![key] = Append(h, Entry(x, t, t))]
      /\ task' = Finished(Cardinality(list))
      /\ UNCHANGED <<monitor, sighted, topic, taken, published, now, crashes>>
  BY <1>k, <1>h, <1>w, <1>x, <1>t, <1>r, <1>n DEF SetEx, Stored, NewExpiry, Rule, Ttl, Entry
<1>3. KeptList(Append(h, Entry(x, t, t)), TRUE, list, t + w, w, t)
  <2>1. t \in Nat \cup {Never} BY <1>0
  <2>. QED BY <1>0, <1>1, <1>n, <2>1, ListSet
<1>4. log'[key] = Append(h, Entry(x, t, t)) BY <1>0, <1>2
<1>5. /\ DOMAIN cache' = DOMAIN cache \cup {key}
      /\ \A k \in DOMAIN cache \ {key} : cache'[k] = cache[k]
      /\ cache'[key].value = list /\ cache'[key].until = t + w
      /\ DOMAIN cache'[key] = {"value", "until"}
  BY <1>2
<1>6. Held(key)' /\ ListOf(key)' = list /\ UntilOf(key)' = t + w
  BY <1>5 DEF Held, ListOf, UntilOf
<1>7. KeptList(log'[key], TRUE, list, t + w, Ttl(key), now) BY <1>3, <1>4, <1>t, <1>w
<1>8. log' = [log EXCEPT ![key] = Append(log[key], Entry(Now.item, now, t))]
  BY <1>2, <1>h, <1>x, <1>t
<1>9. cache'[key].until \in Nat BY <1>0, <1>5
<1>10. t \in Nat \cup {Never} BY <1>0
<1>11. ListEnd(key, list, t, t + w)
  BY <1>b, <1>c, <1>k, <1>2, <1>5, <1>6, <1>7, <1>8, <1>9, <1>10 DEF ListEnd
<1>. QED BY <1>11, ListingEnds

LEMMA GetMInv == ASSUME MInv, Get PROVE MInv'
<1>a. Shape BY DEF MInv
<1>b. Busy /\ sighted /\ task.reply = <<>> /\ Key[1] \in Listing BY DEF Get, Rule
<1>k. PICK key : key = Key OBVIOUS
<1>h. PICK h : h = log[key] OBVIOUS
<1>f. PICK f \in BOOLEAN : f <=> Held(key) OBVIOUS
<1>l. PICK list : list = ListOf(key) OBVIOUS
<1>u. PICK u : u = UntilOf(key) OBVIOUS
<1>w. PICK w : w = Ttl(key) OBVIOUS
<1>x. PICK x : x = Now.item OBVIOUS
<1>t. PICK t : t = now OBVIOUS
<1>0. /\ key \in Keys /\ key[1] \in Listing /\ key[1] \notin Counter /\ x \in Things
      /\ task # Idle /\ DOMAIN task = {"event", "done", "reply", "alerts"}
      /\ task.done \in Nat
      /\ log \in [Keys -> Seq(Entries(Things))] /\ h \in Seq(Entries(Things))
      /\ Len(h) \in Nat /\ t \in Nat /\ Past(h, t)
      /\ u \in Int /\ w \in Nat \ {0} /\ KeptList(h, f, list, u, w, t)
      /\ ~f => list = {}
      /\ \A y \in list : \E i \in 1..Len(h) : h[i].item = y
  BY <1>b, <1>k, <1>h, <1>f, <1>l, <1>u, <1>w, <1>x, <1>t, ListBefore
<1>1. /\ list = IF Cached THEN cache[Key].value ELSE {}
      /\ UNCHANGED <<monitor, sighted, topic, taken, cache, published, now, crashes>>
  BY <1>k, <1>l DEF Get, Cached, ListOf, Held
<1>2. /\ Held(key)' <=> f
      /\ ListOf(key)' = list /\ UntilOf(key)' = u /\ Ttl(key)' = w
  BY <1>1, <1>f, <1>l, <1>u, <1>w DEF Held, ListOf, UntilOf, Ttl
<1>3. CASE Known(list)
  <2>r. PICK r \in Nat \cup {Never} : r = Never OBVIOUS
  <2>1. /\ task' = Finished(Cardinality(list))
        /\ log' = [log EXCEPT ![key] = Append(h, Entry(x, t, r))]
    BY <1>1, <1>3, <1>k, <1>h, <1>x, <1>t, <2>r DEF Get, Entry
  <2>3. x = NoPort \/ (f /\ x \in list) BY <1>0, <1>3, <1>x DEF Known
  <2>4. KeptList(Append(h, Entry(x, t, r)), f, list, u, w, t)
    BY <1>0, <2>3, ListKnown
  <2>5. log'[key] = Append(h, Entry(x, t, r)) BY <1>0, <2>1
  <2>6. KeptList(log'[key], f, list, u, Ttl(key), now) BY <1>t, <1>w, <2>4, <2>5
  <2>7. log' = [log EXCEPT ![key] = Append(log[key], Entry(Now.item, now, r))]
    BY <1>h, <1>x, <1>t, <2>1
  <2>8. key \in DOMAIN cache' => /\ cache'[key].until \in Nat \cup {Never}
                                 /\ DOMAIN cache'[key] = {"value", "until"}
    BY <1>a, <1>1 DEF Shape
  <2>9. /\ f <=> Held(key)'
        /\ Held(key)' => ListOf(key)' = list
        /\ ~Held(key)' => list = {}
        /\ u = UntilOf(key)'
    BY <1>0, <1>2
  <2>10. /\ DOMAIN cache' \ {key} = DOMAIN cache \ {key}
         /\ \A k \in DOMAIN cache \ {key} : cache'[k] = cache[k]
         /\ UNCHANGED <<monitor, sighted, topic, taken, published, now, crashes>>
    BY <1>1
  <2>11. Busy /\ sighted /\ key = Key /\ key[1] \in Listing BY <1>b, <1>k
  <2>12. task' = Finished(Cardinality(list)) BY <2>1
  <2>13. ListEnd(key, list, r, u)
    <3>1. Held(key)' => KeptList(log'[key], TRUE, list, u, Ttl(key), now)
      <4>1. CASE f = TRUE BY <2>6, <4>1
      <4>2. CASE f = FALSE BY <2>9, <4>2
      <4>. QED BY <4>1, <4>2
    <3>2. ~Held(key)' => KeptList(log'[key], FALSE, list, u, Ttl(key), now)
      <4>1. CASE f = TRUE BY <2>9, <4>1
      <4>2. CASE f = FALSE BY <2>6, <4>2
      <4>. QED BY <4>1, <4>2
    <3>. QED BY <2>7, <2>8, <2>9, <2>10, <2>11, <2>12, <3>1, <3>2 DEF ListEnd
  <2>. QED BY <2>13, ListingEnds
<1>4. CASE ~Known(list)
  <2>1. task' = [task EXCEPT !.reply = <<list>>] /\ log' = log BY <1>1, <1>4 DEF Get
  <2>2. /\ DOMAIN task' = DOMAIN task /\ task'.event = task.event /\ task'.done = task.done
        /\ task'.reply = <<list>> /\ task'.alerts = task.alerts
    BY <1>0, <2>1
  <2>3. Command
    <3>1. task' # Idle BY <1>0, <2>2, NotIdle
    <3>. QED BY <1>b, <1>1, <2>1, <2>2, <3>1 DEF Command
  <2>4. Shape'
    <3>1. TaskShape' BY <1>a, <1>b, <2>2, <2>3, CommandTask
    <3>. QED BY <1>a, <1>1, <2>1, <3>1 DEF Shape
  <2>5. \A k \in Keys : ListKept(k)' /\ CountKept(k)'
    <3>1. \A k : ~Mid(k) BY <1>b DEF Mid
    <3>2. crashes' \in Nat /\ crashes' >= crashes BY <1>a, <1>1 DEF Shape
    <3>. QED BY <1>1, <2>1, <3>1, <3>2, QuietKeys
  <2>6. ReplyKept'
    <3>1. Key' = key /\ task'.reply[1] = list BY <1>k, <2>2 DEF Key, Now
    <3>2. \A y \in list : \E i \in 1..Len(log'[key]) : log'[key][i].item = y
      BY <1>0, <1>h, <2>1
    <3>. QED BY <1>0, <1>2, <3>1, <3>2 DEF ReplyKept
  <2>7. EachCounted'
    <3>1. task'.reply # <<>> BY <2>2
    <3>. QED BY <2>1, <2>3, <3>1, CommandCounts
  <2>8. Verdicts' /\ AlertsEarned'
    <3>1. task'.alerts \ task.alerts = {} /\ task'.done # task.done + 1 BY <1>0, <2>2
    <3>. QED BY <1>k, <2>3, <3>1, CommandVerdicts, CommandEarns
  <2>. QED BY <2>4, <2>5, <2>6, <2>7, <2>8 DEF MInv
<1>. QED BY <1>3, <1>4

-----------------------------------------------------------------------------
(* The theorems about the lookups. *)

LEMMA StutterMInv == ASSUME MInv, AutoCommit \/ UNCHANGED vars PROVE MInv'
<1>1. /\ UNCHANGED <<sighted, topic, task, cache, log, now, crashes>>
      /\ taken' \subseteq taken
  BY DEF AutoCommit, vars
<1>2. Shape' BY <1>1 DEF MInv, Shape, TaskShape, Busy
<1>3. \A k : /\ Held(k)' <=> Held(k)
             /\ ListOf(k)' = ListOf(k) /\ CountOf(k)' = CountOf(k) /\ UntilOf(k)' = UntilOf(k)
             /\ Ttl(k)' = Ttl(k) /\ (Mid(k)' <=> Mid(k))
  BY <1>1 DEF Held, ListOf, CountOf, UntilOf, Ttl, Mid, Key, Now
<1>4. \A k \in Keys : ListKept(k)' /\ CountKept(k)'
  <2>. TAKE k \in Keys
  <2>1. ListKept(k) /\ CountKept(k) BY DEF MInv
  <2>2. ListKept(k)'
    <3>. SUFFICES ASSUME k[1] \in Listing
                  PROVE  KeptList(log[k], Held(k), ListOf(k), UntilOf(k), Ttl(k), now)'
      BY DEF ListKept
    <3>1. KeptList(log[k], Held(k), ListOf(k), UntilOf(k), Ttl(k), now) BY <2>1 DEF ListKept
    <3>. QED BY <1>1, <1>3, <3>1, SameList
  <2>3. CountKept(k)' BY <1>1, <1>3, <2>1 DEF CountKept, KeptCount
  <2>. QED BY <2>2, <2>3
<1>5. Key' = Key BY <1>1 DEF Key, Now
<1>6. ReplyKept'
  <2>1. /\ Held(Key)' <=> Held(Key) /\ ListOf(Key)' = ListOf(Key) /\ CountOf(Key)' = CountOf(Key)
        /\ Ttl(Key)' = Ttl(Key)
    BY <1>1, <1>5 DEF Held, ListOf, CountOf, Ttl
  <2>. QED BY <1>1, <1>5, <2>1 DEF MInv, ReplyKept
<1>7. EachCounted'
  <2>1. \A k, x : Pending(k, x)' <=> Pending(k, x) BY <1>1 DEF Pending
  <2>. QED BY <1>1, <2>1 DEF MInv, EachCounted, Allowed
<1>8. Verdicts' BY <1>1 DEF MInv, Verdicts, Judgement, KeyAt, Raised, Ttl
<1>9. AlertsEarned' BY <1>1 DEF MInv, AlertsEarned, EarnedAt, KeyAt, Ttl
<1>. QED BY <1>2, <1>4, <1>6, <1>7, <1>8, <1>9 DEF MInv

LEMMA NextMInv == ASSUME MInv, [Next]_vars PROVE MInv'
BY ConsumeMInv, SkipBlindMInv, IncrementMInv, ExpireMInv, GetMInv, SetExMInv, PublishMInv,
   CrashMInv, TickMInv, StutterMInv
DEF Next, Analyze

\* The invariant of the keys, of any number of events, windows and crashes.
THEOREM LookupsKept == Spec => []MInv
<1>. QED BY MInit, NextMInv, PTL DEF Spec

\* The lookups of an event that is over are judged.
LEMMA AllJudged ==
  ASSUME MInv, NEW l \in Judged
  PROVE  /\ l.key \in Keys /\ Judgement(l.key) /\ l.key[1] \in Check
         /\ log[l.key] \in Seq(Entries(Things))
<1>1. task # Idle /\ ~Busy /\ sighted /\ l \in ToSet(Lookups(task.event))
  BY DEF Judged
<1>2. task.event \in Events /\ task.done \in 0..Len(Lookups(task.event))
  BY <1>1 DEF MInv, Shape, TaskShape
<1>3. IsLookups(Lookups(task.event), task.event) BY <1>2, LookupsAre
<1>4. PICK i \in 1..Len(Lookups(task.event)) : l = Lookups(task.event)[i]
  BY <1>1, <1>3 DEF ToSet, IsLookups
<1>5. task.done = Len(Lookups(task.event)) BY <1>1, <1>2, <1>3 DEF Busy, IsLookups
<1>6. KeyAt(i) = l.key BY <1>4 DEF KeyAt
<1>7. Judgement(KeyAt(i)) BY <1>1, <1>4, <1>5 DEF MInv, Verdicts
<1>8. l.key \in Keys BY <1>2, <1>4, KeysAre
<1>. QED BY <1>6, <1>7, <1>8, KeyCheck DEF MInv, Shape

\* A burst is never missed: as many renewed hits on a key within one window of the
\* last one as the threshold raise the alert, whatever crashes, replays and
\* renewals went before (cache_incr, INCR and EXPIRE as two commands).
THEOREM BurstsAreSeen == Spec => []BurstIsSeen
<1>1. ASSUME MInv PROVE BurstIsSeen
  <2>. SUFFICES ASSUME NEW l \in Judged, l.key[1] \in Counter,
                       Cardinality({i \in 1..(Len(log[l.key]) - 1) :
                                      /\ log[l.key][i].renewed # Never
                                      /\ Close(l.key, i, Len(log[l.key]))}) + 1
                         >= Threshold[l.key[1]]
                PROVE  Raised(l.key)
    BY DEF BurstIsSeen
  <2>. DEFINE k == l.key
  <2>1. Judgement(k) BY <1>1, AllJudged
  <2>2. {i \in 1..(Len(log[k]) - 1) : log[k][i].renewed # Never /\ Close(k, i, Len(log[k]))}
          = BurstOf(log[k], Ttl(k))
    BY DEF BurstOf, Close, Ttl
  <2>. HIDE DEF k
  <2>3. Cardinality(BurstOf(log[k], Ttl(k))) + 1 >= Threshold[k[1]] BY <2>2 DEF k
  <2>. QED BY <2>1, <2>3 DEF Judgement, k
<1>. QED BY <1>1, LookupsKept, PTL

\* Users or ports that all turned up for the first time within the last window, as
\* many as the threshold, are always seen (cache_get, then cache_set of the list).
THEOREM FreshSeen == Spec => []FreshItemsAreSeen
<1>1. ASSUME MInv PROVE FreshItemsAreSeen
  <2>. SUFFICES ASSUME NEW l \in Judged, l.key[1] \in Listing,
                       Cardinality(FreshItems(l.key)) >= Threshold[l.key[1]]
                PROVE  Raised(l.key)
    BY DEF FreshItemsAreSeen
  <2>. DEFINE k == l.key
  <2>1. Judgement(k) BY <1>1, AllJudged
  <2>2. FreshItems(k) = FreshOf(log[k], Ttl(k))
    BY DEF FreshItems, FreshOf, Sightings, Close, Ttl
  <2>. HIDE DEF k
  <2>3. Cardinality(FreshOf(log[k], Ttl(k))) >= Threshold[k[1]] BY <2>2 DEF k
  <2>. QED BY <2>1, <2>3 DEF Judgement, k
<1>. QED BY <1>1, LookupsKept, PTL

\* A counting alert is earned: its count is that many hits, each within a window of
\* the renewal by the one before or after one that a crash cut between INCR and
\* EXPIRE, and no event counts more often than it may have been handed over.
THEOREM AlertsEarnedAlways == Spec => []AlertsAreEarned
<1>1. ASSUME MInv PROVE AlertsAreEarned
  <2>. SUFFICES ASSUME task # Idle, NEW a \in task.alerts, a.rule \in Counter
                PROVE  \E l \in ToSet(Lookups(task.event)) :
                         LET hits == log[l.key]
                             span == (Len(hits) - a.count + 1)..Len(hits)
                         IN  /\ l.key[1] = a.rule
                             /\ a.count <= Len(hits)
                             /\ \A i \in span \ {Len(hits)} :
                                  \/ crashes > 0 /\ hits[i].renewed = Never
                                  \/ hits[i + 1].at < hits[i].renewed + Window[a.rule]
                             /\ a.count <= (crashes + 1) * Cardinality({hits[i].item : i \in span})
    BY DEF AlertsAreEarned
  <2>1. PICK j \in 1..task.done : EarnedAt(a, KeyAt(j)) BY <1>1 DEF MInv, AlertsEarned
  <2>2. task.event \in Events /\ task.done \in 0..Len(Lookups(task.event))
    BY <1>1 DEF MInv, Shape, TaskShape
  <2>3. IsLookups(Lookups(task.event), task.event) BY <2>2, LookupsAre
  <2>4. j \in 1..Len(Lookups(task.event)) BY <2>2, <2>3 DEF IsLookups
  <2>l. PICK l : l = Lookups(task.event)[j] OBVIOUS
  <2>5. l \in ToSet(Lookups(task.event)) BY <2>3, <2>4, <2>l DEF ToSet, IsLookups
  <2>k. PICK k : k = l.key OBVIOUS
  <2>h. PICK h : h = log[k] OBVIOUS
  <2>c. PICK c : c = a.count OBVIOUS
  <2>6. k \in Keys /\ k = KeyAt(j) BY <2>2, <2>4, <2>k, <2>l, KeysAre DEF KeyAt
  <2>7. k[1] = a.rule /\ Earned(h, c, Window[a.rule], crashes > 0)
    BY <2>1, <2>6, <2>c, <2>h DEF EarnedAt, Ttl
  <2>8. h \in Seq(Entries(Things)) /\ Len(h) \in Nat /\ crashes \in Nat
    BY <1>1, <2>6, <2>h, EntryIs DEF MInv, Shape
  <2>9. c \in 1..Len(h) /\ c \in Nat BY <2>7, <2>8 DEF Earned
  <2>. DEFINE span == (Len(h) - c + 1)..Len(h)
              f    == [i \in span |-> h[i].item]
  <2>10. \A i \in span \ {Len(h)} : \/ crashes > 0 /\ h[i].renewed = Never
                                    \/ h[i + 1].at < h[i].renewed + Window[a.rule]
    <3>1. \A i \in span \ {Len(h)} : i \in (Len(h) - c + 1)..(Len(h) - 1) BY <2>8, <2>9
    <3>. HIDE DEF span
    <3>. QED BY <2>7, <3>1 DEF Earned
  <2>11. IsFiniteSet(span) /\ Cardinality(span) = c
    <3>. DEFINE b == Len(h) - c + 1
                d == Len(h)
    <3>1. b \in Int /\ d \in Int /\ d - b + 1 = c /\ ~(b > d) BY <2>8, <2>9
    <3>2. IsFiniteSet(b..d) /\ Cardinality(b..d) = IF b > d THEN 0 ELSE d - b + 1
      <4>. HIDE DEF b, d
      <4>. QED BY <3>1, FS_Interval
    <3>. QED BY <3>1, <3>2
  <2>12. \A x : Cardinality({i \in span : f[i] = x}) <= crashes + 1
    <3>. TAKE x
    <3>. DEFINE all == {i \in 1..Len(h) : h[i].item = x}
    <3>1. {i \in span : f[i] = x} \subseteq all
      <4>1. span \subseteq 1..Len(h) BY <2>8, <2>9
      <4>2. \A i \in span : f[i] = h[i].item OBVIOUS
      <4>. HIDE DEF span, f
      <4>. QED BY <4>1, <4>2
    <3>2. IsFiniteSet(all) /\ Cardinality(all) = Times(h, x)
      <4>1. IsFiniteSet(1..Len(h)) BY <2>8, FS_Interval
      <4>2. all \in SUBSET (1..Len(h)) OBVIOUS
      <4>. QED BY <4>1, <4>2, FS_Subset DEF Times
    <3>3. Times(h, x) <= Allowed(k, x)
      BY <1>1, <2>6, <2>7, <2>h DEF MInv, EachCounted
    <3>4. Allowed(k, x) <= crashes + 1 /\ Allowed(k, x) \in Nat BY <2>8 DEF Allowed
    <3>. DEFINE some == {i \in span : f[i] = x}
    <3>. HIDE DEF all, span, f, some
    <3>5. Cardinality(some) <= Cardinality(all) /\ Cardinality(some) \in Nat /\ Cardinality(all) \in Nat
      BY <3>1, <3>2, FS_Subset, FS_CardinalityType DEF some
    <3>6. Cardinality(some) <= crashes + 1 BY <2>8, <3>2, <3>3, <3>4, <3>5
    <3>. QED BY <3>6 DEF some
  <2>13. c <= (crashes + 1) * Cardinality({f[i] : i \in span})
    <3>1. crashes + 1 \in Nat BY <2>8
    <3>. HIDE DEF span, f
    <3>. QED BY <2>11, <2>12, <3>1, Pigeonhole
  <2>14. {f[i] : i \in span} = {h[i].item : i \in span}
    <3>1. \A i \in span : f[i] = h[i].item OBVIOUS
    <3>. HIDE DEF span, f
    <3>. QED BY <3>1
  <2>15. c <= (crashes + 1) * Cardinality({h[i].item : i \in span})
    <3>. HIDE DEF f
    <3>. QED BY <2>13, <2>14
  <2>16. c <= Len(h) BY <2>8, <2>9
  <2>. WITNESS l \in ToSet(Lookups(task.event))
  <2>. HIDE DEF f
  <2>. QED BY <2>7, <2>10, <2>15, <2>16, <2>k, <2>h, <2>c
<1>. QED BY <1>1, LookupsKept, PTL

-----------------------------------------------------------------------------
\* What MInv leaves out of the type: who reads what, and that a key in Redis is
\* not yet over but will be, or never.
Timed ==
  /\ monitor \in Monitor
  /\ topic \cup taken \subseteq {e \in Events : ReadBy[e] = monitor}
  /\ topic \cap taken = {}
  /\ \A k \in DOMAIN cache :
       cache[k].until \in {Never} \cup (now + 1)..(MaxTime + Window[k[1]])
  /\ now \in 0..MaxTime /\ crashes \in 0..MaxCrashes

\* A command stores a key for a whole window, or leaves it as long as it had.
LEMMA WindowAhead ==
  ASSUME MInv, Timed, Busy
  PROVE  now + Window[Rule] \in (now + 1)..(MaxTime + Window[Key[1]])
<1>1. Key \in Keys BY BusyKey DEF MInv
<1>2. Window[Rule] \in Nat \ {0} /\ Rule = Key[1] BY <1>1, KeyCheck DEF Rule
<1>. QED BY <1>2, MonitorsAssumption DEF Timed

LEMMA StoredTimed ==
  ASSUME MInv, Timed, Busy, NEW value, NEW until,
         until \in {Never} \cup (now + 1)..(MaxTime + Window[Key[1]])
  PROVE  \A k \in DOMAIN Stored(value, until) :
           Stored(value, until)[k].until \in {Never} \cup (now + 1)..(MaxTime + Window[k[1]])
BY DEF Stored, Timed

\* The type of the state is kept by every step.
THEOREM TypeCorrect == Spec => []TypeOK
<1>1. Init => Timed BY MonitorsAssumption DEF Init, Timed
<1>2. ASSUME MInv, Timed, [Next]_vars
      PROVE  Timed'
  <2>1. ASSUME NEW e \in topic, Consume(e) PROVE Timed'
    BY <1>2, <2>1 DEF Timed, Consume, Remaining
  <2>2. CASE SkipBlind BY <1>2, <2>2 DEF Timed, SkipBlind
  <2>3. CASE Increment
    <3>1. Until(Never) \in {Never} \cup (now + 1)..(MaxTime + Window[Key[1]])
      BY <1>2 DEF Until, Cached, Timed
    <3>2. \A k \in DOMAIN cache' :
            cache'[k].until \in {Never} \cup (now + 1)..(MaxTime + Window[k[1]])
      BY <1>2, <2>3, <3>1, StoredTimed DEF Increment
    <3>. QED BY <1>2, <2>3, <3>2 DEF Timed, Increment
  <2>4. CASE Expire
    <3>1. CASE ~Cached BY <1>2, <2>4, <3>1 DEF Timed, Expire
    <3>2. CASE Cached
      <4>1. cache' = [cache EXCEPT ![Key].until = now + Window[Rule]]
        BY <2>4, <3>2 DEF Expire, Renewed
      <4>2. now + Window[Rule] \in (now + 1)..(MaxTime + Window[Key[1]])
        BY <1>2, <2>4, WindowAhead DEF Expire
      <4>3. "until" \in DOMAIN cache[Key] BY <1>2, <3>2 DEF MInv, Shape, Cached
      <4>4. \A k \in DOMAIN cache' :
              cache'[k].until \in {Never} \cup (now + 1)..(MaxTime + Window[k[1]])
        BY <1>2, <4>1, <4>2, <4>3 DEF Timed
      <4>. QED BY <1>2, <2>4, <4>4 DEF Timed, Expire
    <3>. QED BY <3>1, <3>2
  <2>5. CASE Get BY <1>2, <2>5 DEF Timed, Get
  <2>6. CASE SetEx
    <3>1. NewExpiry \in {Never} \cup (now + 1)..(MaxTime + Window[Key[1]])
      BY <1>2, <2>6, WindowAhead DEF SetEx, NewExpiry
    <3>2. \A k \in DOMAIN cache' :
            cache'[k].until \in {Never} \cup (now + 1)..(MaxTime + Window[k[1]])
      BY <1>2, <2>6, <3>1, StoredTimed DEF SetEx
    <3>. QED BY <1>2, <2>6, <3>2 DEF Timed, SetEx
  <2>7. CASE Publish BY <1>2, <2>7 DEF Timed, Publish
  <2>8. CASE AutoCommit BY <1>2, <2>8 DEF Timed, AutoCommit
  <2>9. CASE Crash BY <1>2, <2>9, MonitorsAssumption DEF Timed, Crash
  <2>10. CASE Tick
    <3>1. now' = now + 1 /\ now' \in 0..MaxTime
      BY <1>2, <2>10, MonitorsAssumption DEF Timed, Tick
    <3>2. \A k \in DOMAIN cache' :
            k \in DOMAIN cache /\ cache'[k] = cache[k] /\ cache[k].until # now'
      BY <2>10 DEF Tick
    <3>3. \A k \in DOMAIN cache : Window[k[1]] \in Nat \ {0}
      BY <1>2, KeyCheck DEF MInv, Shape
    <3>4. \A k \in DOMAIN cache' :
            cache'[k].until \in {Never} \cup (now' + 1)..(MaxTime + Window[k[1]])
      BY <1>2, <3>1, <3>2, <3>3, MonitorsAssumption DEF Timed
    <3>. QED BY <1>2, <2>10, <3>1, <3>4 DEF Timed, Tick
  <2>11. CASE UNCHANGED vars BY <1>2, <2>11 DEF Timed, vars
  <2>. QED BY <1>2, <2>1, <2>2, <2>3, <2>4, <2>5, <2>6, <2>7, <2>8, <2>9, <2>10, <2>11
          DEF Next, Analyze
<1>3. ASSUME MInv, Timed
      PROVE  TypeOK
  <2>1. task # Idle => /\ task.event \in Events \ topic
                       /\ task.done \in 0..Len(Lookups(task.event))
                       /\ task.reply # <<>> => Busy /\ sighted
    BY <1>3 DEF MInv, Shape, TaskShape
  <2>. QED BY <1>3, <2>1 DEF TypeOK, Timed, MInv, Shape
<1>. QED BY <1>1, <1>2, <1>3, LookupsKept, PTL DEF Spec
=============================================================================
