-------------------------- MODULE PropagationProofs --------------------------
(***************************************************************************)
(* Theorems about the spread of an attack on every network, for every      *)
(* scenario and every sequence of draws, checked by TLAPS.                 *)
(***************************************************************************)
EXTENDS Propagation, FiniteSetTheorems, WellFoundedInduction, TLAPS

\* The record p of a run in round r that started from some hosts behind a wall:
\* what fell before this round is compromised, what fell in it is new, and every
\* pivot has its cause.
FellBefore(p, h, r) == \E i \in DOMAIN p : p[i][2] = h /\ p[i][3] < r
FellIn(p, h, r)     == \E i \in DOMAIN p : p[i][2] = h /\ p[i][3] = r

Caused(p, i, from, wall) ==
  /\ Trust[p[i][1]][p[i][2]] > 0
  /\ p[i][2] \notin from \cup wall
  /\ p[i][1] \in from \/ FellBefore(p, p[i][1], p[i][3])

Record(p, r, from, wall, fell, new) ==
  /\ p \in Seq(Hosts \X Hosts \X (1..r))
  /\ \A h : h \in fell <=> h \in from \/ FellBefore(p, h, r)
  /\ \A h : h \in new <=> FellIn(p, h, r)
  /\ \A i, j \in DOMAIN p : p[i][2] = p[j][2] => i = j
  /\ \A i \in DOMAIN p : Caused(p, i, from, wall)

Recorded == Record(pivots, round, start, blocked, compromised, newly)

Sound ==
  /\ TypeOK
  /\ start \cap blocked = {}
  /\ \A e \in todo : Trust[e[1]][e[2]] > 0

PInv == Sound /\ Recorded

-----------------------------------------------------------------------------
\* The times of an attack are minutes of a day, and give it at least one round.
LEMMA LeastOfTwo == \A a, b \in Int : Least({a, b}) \in {a, b} /\ Least({a, b}) <= a /\ Least({a, b}) <= b
<1>. TAKE a, b \in Int
<1>1. \E x \in {a, b} : \A y \in {a, b} : x <= y
  <2>1. CASE a <= b BY <2>1
  <2>2. CASE b <= a BY <2>2
  <2>. QED BY <2>1, <2>2
<1>. QED BY <1>1 DEF Least

LEMMA GreatestOfTwo ==
  \A a, b \in Int : Greatest({a, b}) \in {a, b} /\ Greatest({a, b}) >= a /\ Greatest({a, b}) >= b
<1>. TAKE a, b \in Int
<1>1. \E x \in {a, b} : \A y \in {a, b} : x >= y
  <2>1. CASE a <= b BY <2>1
  <2>2. CASE b <= a BY <2>2
  <2>. QED BY <2>1, <2>2
<1>. QED BY <1>1 DEF Greatest

LEMMA RoundsType ==
  ASSUME NEW type \in DOMAIN PROFILES, NEW minutes \in Nat
  PROVE  RoundsFor(type, minutes) \in 1..5
<1>1. /\ PROFILES[type].minutes_per_round \in Nat \ {0}
      /\ PROFILES[type].max_rounds \in 1..5
  BY DEF PROFILES
<1>. DEFINE per == PROFILES[type].minutes_per_round
            most == PROFILES[type].max_rounds
            n == minutes \div per
<1>2. \A p \in Nat \ {0} : minutes \div p \in Nat OBVIOUS
<1>3. n \in Nat BY <1>1, <1>2
<1>4. RoundsFor(type, minutes) = Greatest({1, Least({n, most})}) BY DEF RoundsFor
<1>5. most \in 1..5 BY <1>1
<1>. HIDE DEF n, most
<1>6. Least({n, most}) \in Int /\ Least({n, most}) <= 5 BY <1>3, <1>5, LeastOfTwo
<1>. DEFINE l == Least({n, most})
<1>. HIDE DEF l
<1>7. l \in Int /\ l <= 5 BY <1>6 DEF l
<1>8. Greatest({1, l}) \in {1, l} /\ Greatest({1, l}) >= 1 BY <1>7, GreatestOfTwo
<1>. QED BY <1>4, <1>7, <1>8 DEF l

LEMMA WindowType == attack \in DOMAIN PROFILES => Window \in 1..5
BY RoundsType DEF Window, LOOKAHEAD_MINUTES

LEMMA FirstRounds ==
  ASSUME NEW type \in DOMAIN PROFILES, NEW t \in Dwell(type)
  PROVE  RoundsFor(type, t) \in 1..5
<1>1. t \in Nat BY DEF Dwell, PROFILES
<1>. QED BY <1>1, RoundsType

\* A scenario starts somewhere.
LEMMA SeedsType ==
  ASSUME NEW type \in DOMAIN PROFILES, NEW S \in SeedSets(type)
  PROVE  S \subseteq Hosts /\ S # {}
<1>1. Cardinality(S) # 0 BY DEF SeedSets
<1>2. S # {} BY <1>1, FS_EmptySet
<1>3. S \subseteq Hosts BY DEF SeedSets, Pool
<1>. QED BY <1>2, <1>3

-----------------------------------------------------------------------------
\* A run begins with an empty record.
LEMMA BeginsSound ==
  ASSUME Sound, NEW r, NEW seeds \in SUBSET Hosts, NEW wall \in SUBSET Hosts,
         r \in {"future", "no_action"}, Begins(r, seeds, wall, Window),
         attack' = attack, tape' = tape, truth' \subseteq Hosts, iso' \subseteq Hosts,
         future' \subseteq Hosts, no_action' \subseteq Hosts
  PROVE  PInv'
<1>1. Window \in 1..5 BY WindowType DEF Sound, TypeOK
<1>2. /\ run' = r /\ read' = 0 /\ round' = 1 /\ rounds' = Window
      /\ blocked' = wall /\ start' = seeds \ wall /\ compromised' = seeds \ wall
      /\ todo' = EdgesFrom(seeds \ wall) /\ newly' = {} /\ pivots' = <<>>
  BY DEF Begins, Rewound
<1>3. todo' \subseteq compromised' \X Hosts /\ \A e \in todo' : Trust[e[1]][e[2]] > 0
  BY <1>2 DEF EdgesFrom
<1>4. tape \in Seq(Draws) /\ Len(tape) \in Nat /\ attack \in DOMAIN PROFILES
  BY DEF Sound, TypeOK
<1>5. TypeOK'
  <2>1. tape' \in Seq(Draws) /\ read' \in 0..Len(tape') BY <1>2, <1>4
  <2>2. rounds' \in 1..5 /\ round' \in 1..rounds' BY <1>1, <1>2
  <2>3. attack' \in DOMAIN PROFILES /\ run' \in {"fact", "future", "no_action", "done"}
    BY <1>2, <1>4
  <2>4. /\ start' \subseteq compromised' /\ newly' \cap compromised' = {}
        /\ compromised' \subseteq Hosts /\ newly' \subseteq Hosts
    BY <1>2
  <2>. QED BY <1>3, <2>1, <2>2, <2>3, <2>4 DEF TypeOK
<1>6. Recorded'
  <2>. DEFINE p == << >>
  <2>1. p \in Seq(Hosts \X Hosts \X (1..1)) /\ DOMAIN p = {} OBVIOUS
  <2>. HIDE DEF p
  <2>2. \A from : Record(p, 1, from, wall, from, {})
    BY <2>1 DEF Record, FellBefore, FellIn
  <2>3. Record(pivots', round', start', blocked', compromised', newly')
    BY <1>2, <2>2 DEF p
  <2>. QED BY <2>3 DEF Recorded
<1>. QED BY <1>2, <1>3, <1>5, <1>6 DEF PInv, Sound

LEMMA InitPInv == Init => PInv
<1>. SUFFICES ASSUME Init PROVE PInv
  OBVIOUS
<1>1. start \subseteq Hosts BY SeedsType DEF Init
<1>2. rounds \in 1..5 BY FirstRounds DEF Init
<1>3. todo \subseteq compromised \X Hosts /\ \A e \in todo : Trust[e[1]][e[2]] > 0
  BY DEF Init, EdgesFrom
<1>4. TypeOK BY <1>1, <1>2, <1>3 DEF Init, TypeOK
<1>5. Recorded
  <2>. DEFINE p == << >>
  <2>1. p \in Seq(Hosts \X Hosts \X (1..1)) /\ DOMAIN p = {} OBVIOUS
  <2>. HIDE DEF p
  <2>2. \A from : Record(p, 1, from, {}, from, {})
    BY <2>1 DEF Record, FellBefore, FellIn
  <2>. QED BY <2>2 DEF Recorded, Init, p
<1>. QED BY <1>3, <1>4, <1>5 DEF PInv, Sound, Init

\* What an attempt changes, by whether the target falls.
LEMMA AttemptIs ==
  ASSUME Sound, Attempt
  PROVE  \E e \in todo, d \in Draws :
           /\ e[1] \in compromised /\ e[2] \in Hosts /\ Trust[e[1]][e[2]] > 0
           /\ e[2] \notin compromised \cup newly \cup blocked
           /\ read' = read + 1 /\ read' \in 0..Len(tape')
           /\ tape' \in Seq(Draws) /\ todo' \subseteq todo
           /\ \/ newly' = newly /\ pivots' = pivots
              \/ newly' = newly \cup {e[2]} /\ pivots' = Append(pivots, <<e[1], e[2], round>>)
           /\ UNCHANGED <<attack, run, play, truth, iso, future, no_action>>
<1>1. PICK e \in Foremost(Pending), d \in Drawn :
        /\ tape' = IF read < Len(tape) THEN tape ELSE Append(tape, d)
        /\ newly' = IF Falls(e, d) THEN newly \cup {e[2]} ELSE newly
        /\ pivots' = IF Falls(e, d) THEN Append(pivots, <<e[1], e[2], round>>) ELSE pivots
        /\ todo' = Pending \ {e}
  BY DEF Attempt
<1>2. e \in todo /\ e[2] \notin compromised \cup newly \cup blocked /\ todo' \subseteq todo
  BY <1>1 DEF Foremost, Pending, Open
<1>3. e[1] \in compromised /\ e[2] \in Hosts /\ Trust[e[1]][e[2]] > 0
  BY <1>2 DEF Sound, TypeOK
<1>4. tape \in Seq(Draws) /\ read \in 0..Len(tape) BY DEF Sound, TypeOK
<1>5. d \in Draws BY <1>1, <1>4 DEF Drawn
<1>6. tape' \in Seq(Draws) /\ read + 1 \in 0..Len(tape')
  BY <1>1, <1>4, <1>5
<1>7. read' = read + 1 /\ UNCHANGED <<attack, run, play, truth, iso, future, no_action>>
  BY DEF Attempt
<1>8. \/ newly' = newly /\ pivots' = pivots
      \/ newly' = newly \cup {e[2]} /\ pivots' = Append(pivots, <<e[1], e[2], round>>)
  BY <1>1
<1>. QED BY <1>2, <1>3, <1>5, <1>6, <1>7, <1>8

\* A pivot more in this round.
LEMMA RecordGrows ==
  ASSUME NEW p, NEW r \in Nat \ {0}, NEW from, NEW wall, NEW fell, NEW new,
         Record(p, r, from, wall, fell, new), from \subseteq fell,
         NEW src \in fell \cap Hosts, NEW dst \in Hosts \ (fell \cup new \cup wall),
         Trust[src][dst] > 0
  PROVE  Record(Append(p, <<src, dst, r>>), r, from, wall, fell, new \cup {dst})
<1>. DEFINE n == Len(p)
            q == Append(p, <<src, dst, r>>)
<1>1. p \in Seq(Hosts \X Hosts \X (1..r)) BY DEF Record
<1>2. n \in Nat /\ DOMAIN p = 1..n BY <1>1
<1>3. r \in 1..r OBVIOUS
<1>4. q \in Seq(Hosts \X Hosts \X (1..r)) BY <1>1, <1>3
<1>5. /\ DOMAIN q = 1..(n + 1)
      /\ \A i \in 1..n : q[i] = p[i]
      /\ q[n + 1] = <<src, dst, r>>
  BY <1>1
<1>. HIDE DEF n, q
<1>6. PICK last : last = n + 1 OBVIOUS
<1>7. /\ DOMAIN q = DOMAIN p \cup {last} /\ last \notin DOMAIN p
      /\ \A i \in DOMAIN p : q[i] = p[i]
      /\ q[last][1] = src /\ q[last][2] = dst /\ q[last][3] = r
  BY <1>2, <1>5, <1>6
<1>8. \A i \in DOMAIN p : p[i][3] <= r
  <2>. TAKE i \in DOMAIN p
  <2>1. p[i] \in Hosts \X Hosts \X (1..r) BY <1>1
  <2>. QED BY <2>1
<1>9. \A h : FellBefore(q, h, r) <=> FellBefore(p, h, r)
  BY <1>7 DEF FellBefore
<1>10. \A h : FellIn(q, h, r) <=> FellIn(p, h, r) \/ h = dst
  BY <1>7 DEF FellIn
<1>11. \A i \in DOMAIN p : p[i][2] # dst
  <2>. TAKE i \in DOMAIN p
  <2>1. p[i] \in Hosts \X Hosts \X (1..r) BY <1>1
  <2>2. FellBefore(p, p[i][2], r) \/ FellIn(p, p[i][2], r)
    BY <2>1 DEF FellBefore, FellIn
  <2>. QED BY <2>2 DEF Record
<1>12. \A i, j \in DOMAIN q : q[i][2] = q[j][2] => i = j
  BY <1>7, <1>11 DEF Record
<1>13. \A h, k : FellBefore(p, h, k) => FellBefore(q, h, k)
  BY <1>7 DEF FellBefore
<1>14. \A i \in DOMAIN q : Caused(q, i, from, wall)
  <2>. TAKE i \in DOMAIN q
  <2>1. CASE i \in DOMAIN p
    <3>1. Caused(p, i, from, wall) BY <2>1 DEF Record
    <3>2. q[i] = p[i] BY <1>7, <2>1
    <3>. QED BY <1>13, <3>1, <3>2 DEF Caused
  <2>2. CASE i = last
    <3>1. src \in from \/ FellBefore(p, src, r) BY DEF Record
    <3>2. src \in from \/ FellBefore(q, src, r) BY <1>13, <3>1
    <3>. QED BY <1>7, <2>2, <3>2 DEF Caused
  <2>. QED BY <1>7, <2>1, <2>2
<1>15. /\ \A h : h \in fell <=> h \in from \/ FellBefore(q, h, r)
       /\ \A h : h \in new \cup {dst} <=> FellIn(q, h, r)
  BY <1>9, <1>10 DEF Record
<1>16. Record(q, r, from, wall, fell, new \cup {dst})
  BY <1>4, <1>12, <1>14, <1>15 DEF Record
<1>. QED BY <1>16 DEF q

\* The record at the end of a round.
LEMMA RecordTurns ==
  ASSUME NEW p, NEW r \in Nat \ {0}, NEW from, NEW wall, NEW fell, NEW new,
         Record(p, r, from, wall, fell, new)
  PROVE  Record(p, r + 1, from, wall, fell \cup new, {})
<1>1. p \in Seq(Hosts \X Hosts \X (1..r)) BY DEF Record
<1>2. 1..r \subseteq 1..(r + 1) OBVIOUS
<1>3. p \in Seq(Hosts \X Hosts \X (1..(r + 1))) BY <1>1, <1>2
<1>4. \A i \in DOMAIN p : p[i][3] \in 1..r
  <2>. TAKE i \in DOMAIN p
  <2>1. p[i] \in Hosts \X Hosts \X (1..r) BY <1>1
  <2>. QED BY <2>1
<1>5. \A h : FellBefore(p, h, r + 1) <=> FellBefore(p, h, r) \/ FellIn(p, h, r)
  BY <1>4 DEF FellBefore, FellIn
<1>6. \A h : ~FellIn(p, h, r + 1)
  BY <1>4 DEF FellIn
<1>. QED BY <1>3, <1>5, <1>6 DEF Record

LEMMA AttemptPInv == ASSUME PInv, Attempt PROVE PInv'
<1>1. Sound /\ Recorded BY DEF PInv
<1>2. PICK e \in todo, d \in Draws :
           /\ e[1] \in compromised /\ e[2] \in Hosts /\ Trust[e[1]][e[2]] > 0
           /\ e[2] \notin compromised \cup newly \cup blocked
           /\ read' = read + 1 /\ read' \in 0..Len(tape')
           /\ tape' \in Seq(Draws) /\ todo' \subseteq todo
           /\ \/ newly' = newly /\ pivots' = pivots
              \/ newly' = newly \cup {e[2]} /\ pivots' = Append(pivots, <<e[1], e[2], round>>)
           /\ UNCHANGED <<attack, run, play, truth, iso, future, no_action>>
  BY <1>1, AttemptIs
<1>3. /\ round' = round /\ rounds' = rounds /\ blocked' = blocked /\ start' = start
      /\ compromised' = compromised
  BY <1>2 DEF play
<1>4. round \in Nat \ {0} /\ compromised \subseteq Hosts /\ start \subseteq compromised
  BY <1>1 DEF Sound, TypeOK
<1>5. Recorded'
  <2>1. CASE newly' = newly /\ pivots' = pivots
    BY <1>1, <1>3, <2>1 DEF Recorded
  <2>2. CASE newly' = newly \cup {e[2]} /\ pivots' = Append(pivots, <<e[1], e[2], round>>)
    <3>1. Record(Append(pivots, <<e[1], e[2], round>>), round, start, blocked, compromised,
                 newly \cup {e[2]})
      BY <1>1, <1>2, <1>4, RecordGrows DEF Recorded
    <3>. QED BY <1>3, <2>2, <3>1 DEF Recorded
  <2>. QED BY <1>2, <2>1, <2>2
<1>6. Sound'
  BY <1>1, <1>2, <1>3 DEF Sound, TypeOK
<1>. QED BY <1>5, <1>6 DEF PInv

LEMMA EndRoundPInv == ASSUME PInv, EndRound PROVE PInv'
<1>1. Sound /\ Recorded BY DEF PInv
<1>2. /\ round' = round + 1 /\ compromised' = compromised \cup newly /\ newly' = {}
      /\ todo' = EdgesFrom(compromised \cup newly) /\ round # rounds
      /\ UNCHANGED <<attack, run, tape, read, rounds, blocked, start, pivots,
                     truth, iso, future, no_action>>
  BY DEF EndRound, Over
<1>3. round \in Nat \ {0} BY <1>1 DEF Sound, TypeOK
<1>4. Recorded' BY <1>1, <1>2, <1>3, RecordTurns DEF Recorded
<1>5. todo' \subseteq compromised' \X Hosts /\ \A e \in todo' : Trust[e[1]][e[2]] > 0
  BY <1>2 DEF EdgesFrom
<1>6. round' \in 1..rounds' BY <1>1, <1>2 DEF Sound, TypeOK
<1>7. Sound' BY <1>1, <1>2, <1>5, <1>6 DEF Sound, TypeOK
<1>. QED BY <1>4, <1>7 DEF PInv

LEMMA ResultType == Sound => Result \subseteq Hosts
BY DEF Sound, TypeOK, Result

LEMMA ScorePlanPInv == ASSUME PInv, ScorePlan PROVE PInv'
<1>1. Sound /\ Result \subseteq Hosts BY ResultType DEF PInv
<1>2. PICK plan \in SUBSET Hosts :
        /\ iso' = plan
        /\ IF Result \ plan = {} THEN Begins("no_action", Result, {}, Window)
           ELSE Begins("future", Result \ plan, plan, Window)
  BY DEF ScorePlan
<1>3. /\ truth' = Result /\ attack' = attack /\ tape' = tape
      /\ future' = future /\ no_action' = no_action
      /\ future \subseteq Hosts /\ no_action \subseteq Hosts
  BY <1>1 DEF ScorePlan, Sound, TypeOK
<1>4. CASE Result \ plan = {}
  BY <1>1, <1>2, <1>3, <1>4, BeginsSound
<1>5. CASE Result \ plan # {}
  <2>1. Result \ plan \in SUBSET Hosts BY <1>1
  <2>. QED BY <1>1, <1>2, <1>3, <1>5, <2>1, BeginsSound
<1>. QED BY <1>4, <1>5

LEMMA EndFuturePInv == ASSUME PInv, EndFuture PROVE PInv'
<1>1. Sound /\ Result \subseteq Hosts BY ResultType DEF PInv
<1>2. /\ future' = Result /\ Begins("no_action", truth, {}, Window)
      /\ UNCHANGED <<attack, tape, truth, iso, no_action>>
      /\ truth \subseteq Hosts /\ iso \subseteq Hosts /\ no_action \subseteq Hosts
  BY <1>1 DEF EndFuture, Sound, TypeOK
<1>. QED BY <1>1, <1>2, BeginsSound

LEMMA EndNoActionPInv == ASSUME PInv, EndNoAction PROVE PInv'
<1>1. Sound /\ Recorded /\ Result \subseteq Hosts BY ResultType DEF PInv
<1>2. /\ no_action' = Result /\ run' = "done"
      /\ UNCHANGED <<attack, tape, read, round, rounds, blocked, start, compromised,
                     todo, newly, pivots, truth, iso, future>>
  BY DEF EndNoAction, play
<1>. QED BY <1>1, <1>2 DEF PInv, Sound, TypeOK, Recorded

LEMMA StepPInv == PInv /\ [Next]_vars => PInv'
<1>1. ASSUME PInv, UNCHANGED vars PROVE PInv'
  BY <1>1 DEF vars, play, PInv, Sound, TypeOK, Recorded
<1>. QED BY <1>1, AttemptPInv, EndRoundPInv, ScorePlanPInv, EndFuturePInv, EndNoActionPInv DEF Next

-----------------------------------------------------------------------------
\* The record of a run is sound at every step, on every network.
THEOREM RecordKept == Spec => []PInv
BY InitPInv, StepPInv, PTL DEF Spec

\* Type correctness.
THEOREM TypeCorrect == Spec => []TypeOK
<1>1. PInv => TypeOK BY DEF PInv, Sound
<1>. QED BY <1>1, RecordKept, PTL

\* In every run of every scenario the recorded pivots explain what fell.
THEOREM SpreadExplained == Spec => []PivotsExplainSpread
<1>1. ASSUME PInv PROVE PivotsExplainSpread
  <2>1. Record(pivots, round, start, blocked, compromised, newly) /\ TypeOK
        /\ start \cap blocked = {}
    BY <1>1 DEF PInv, Recorded, Sound
  <2>2. round \in 1..rounds /\ rounds \in 1..5 BY <2>1 DEF TypeOK
  <2>3. \A i \in DOMAIN pivots : pivots[i][3] \in 1..round
    <3>. TAKE i \in DOMAIN pivots
    <3>1. pivots \in Seq(Hosts \X Hosts \X (1..round)) BY <2>1 DEF Record
    <3>2. pivots[i] \in Hosts \X Hosts \X (1..round) BY <3>1
    <3>. QED BY <3>2
  <2>4. \A h : h \in Result <=> h \in start \/ \E i \in DOMAIN pivots : pivots[i][2] = h
    BY <2>1, <2>2, <2>3 DEF Record, Result, FellBefore, FellIn
  <2>5. \A i, j \in DOMAIN pivots : pivots[i][2] = pivots[j][2] => i = j
    BY <2>1 DEF Record
  <2>6. \A i \in DOMAIN pivots : Caused(pivots, i, start, blocked)
    BY <2>1 DEF Record
  <2>7. \A h \in Result : h \notin blocked
    BY <2>1, <2>4, <2>6 DEF Caused
  <2>8. ASSUME NEW i \in DOMAIN pivots PROVE FellAt(pivots[i][2]) = pivots[i][3]
    <3>1. pivots[i][2] \notin start BY <2>6 DEF Caused
    <3>2. pivots[i][3] \in 1..rounds BY <2>2, <2>3
    <3>3. \A r \in 1..rounds :
            (\E j \in DOMAIN pivots : pivots[j][2] = pivots[i][2] /\ pivots[j][3] = r)
              <=> r = pivots[i][3]
      BY <2>5
    <3>. QED BY <3>1, <3>2, <3>3 DEF FellAt
  <2>9. ASSUME NEW i \in DOMAIN pivots
        PROVE  pivots[i][1] \in Result \ blocked /\ FellAt(pivots[i][1]) < pivots[i][3]
    <3>1. CASE pivots[i][1] \in start
      <4>1. FellAt(pivots[i][1]) = 0 BY <3>1 DEF FellAt
      <4>2. 0 < pivots[i][3] BY <2>3
      <4>. QED BY <2>4, <2>7, <3>1, <4>1, <4>2
    <3>2. CASE FellBefore(pivots, pivots[i][1], pivots[i][3])
      <4>1. PICK j \in DOMAIN pivots : pivots[j][2] = pivots[i][1] /\ pivots[j][3] < pivots[i][3]
        BY <3>2 DEF FellBefore
      <4>2. FellAt(pivots[i][1]) = pivots[j][3] BY <2>8, <4>1
      <4>. QED BY <2>4, <2>7, <4>1, <4>2
    <3>. QED BY <2>6, <3>1, <3>2 DEF Caused
  <2>10. Result = start \cup {pivots[i][2] : i \in DOMAIN pivots} BY <2>4
  <2>. QED BY <2>5, <2>6, <2>9, <2>10 DEF PivotsExplainSpread, Caused
<1>. QED BY <1>1, RecordKept, PTL

-----------------------------------------------------------------------------
(* Two runs on one tape.  A moment is what a run is in the middle of; a film is *)
(* the moments of a run from its opening on, all of them read from tape T.      *)

OpenIn(s, wall) == {e \in s.todo : e[2] \notin s.fell \cup s.new \cup wall}

Opening(from) ==
  [read |-> 0, round |-> 1, fell |-> from, new |-> {}, todo |-> EdgesFrom(from)]

Hits(type, e, d) == d * 10000 < PivotProbability(e[1], e[2], type)

Tried(s, e, wall, T, type) ==
  [read |-> s.read + 1, round |-> s.round, fell |-> s.fell,
   new  |-> IF Hits(type, e, T[s.read + 1]) THEN s.new \cup {e[2]} ELSE s.new,
   todo |-> OpenIn(s, wall) \ {e}]

Turned(s) ==
  [read |-> s.read, round |-> s.round + 1, fell |-> s.fell \cup s.new, new |-> {},
   todo |-> EdgesFrom(s.fell \cup s.new)]

Moves(s, t, wall, limit, T, type) ==
  \/ /\ s.read + 1 \in 1..Len(T)
     /\ \E e \in Foremost(OpenIn(s, wall)) : t = Tried(s, e, wall, T, type)
  \/ /\ OpenIn(s, wall) = {} /\ s.new # {} /\ s.round # limit
     /\ t = Turned(s)

Ended(s, wall, limit) == OpenIn(s, wall) = {} /\ (s.new = {} \/ s.round = limit)

Film(f, n, from, wall, limit, T, type) ==
  /\ n \in Nat \ {0}
  /\ f[1] = Opening(from)
  /\ \A i \in 1..n : i # n => Moves(f[i], f[i + 1], wall, limit, T, type)

Reaches(s, from, wall, limit, T, type) ==
  \E n, f : Film(f, n, from, wall, limit, T, type) /\ f[n] = s

\* Of some natural numbers one is the least: of the intervals up to them, one
\* contains no other.
LEMMA LeastOf ==
  ASSUME NEW S \in SUBSET Nat, S # {}
  PROVE  \E i \in S : \A j \in S : i <= j
<1>. DEFINE upTo == {1..i : i \in S}
<1>1. upTo \subseteq FiniteSubsetsOf(Nat) /\ upTo # {}
  <2>1. \A i \in S : 1..i \subseteq Nat /\ IsFiniteSet(1..i) BY FS_Interval
  <2>. QED BY <2>1 DEF FiniteSubsetsOf
<1>2. PICK t \in upTo : \A u \in upTo : <<u, t>> \notin StrictSubsetOrdering(Nat)
  BY <1>1, WFMin, FS_StrictSubsetOrderingWellFounded
<1>3. PICK i \in S : t = 1..i OBVIOUS
<1>4. ASSUME NEW j \in S, j < i PROVE FALSE
  <2>1. 1..j \subseteq 1..i /\ i \in 1..i /\ i \notin 1..j BY <1>4
  <2>2. 1..i \subseteq Nat OBVIOUS
  <2>3. <<1..j, 1..i>> \in StrictSubsetOrdering(Nat) BY <2>1, <2>2 DEF StrictSubsetOrdering
  <2>. QED BY <1>2, <1>3, <2>3
<1>. QED BY <1>4

\* What holds of the first moment, and of the next one whenever of one, holds of all.
LEMMA Onward ==
  ASSUME NEW n \in Nat \ {0}, NEW good, 1 \in good,
         \A i \in 1..n : i # n /\ i \in good => i + 1 \in good
  PROVE  \A i \in 1..n : i \in good
<1>. DEFINE bad == {i \in 1..n : i \notin good}
<1>. SUFFICES ASSUME bad # {} PROVE FALSE
  OBVIOUS
<1>1. bad \in SUBSET Nat OBVIOUS
<1>. HIDE DEF bad
<1>2. PICK i \in bad : \A j \in bad : i <= j BY <1>1, LeastOf
<1>3. i \in 1..n /\ i \notin good /\ i # 1 BY <1>2 DEF bad
<1>4. i - 1 \in 1..n /\ i - 1 # n /\ (i - 1) + 1 = i /\ ~(i <= i - 1) BY <1>3
<1>5. i - 1 \in good BY <1>2, <1>4 DEF bad
<1>. QED BY <1>3, <1>4, <1>5

\* What holds of the last moment, and of the one before whenever of one, holds of all.
LEMMA Backward ==
  ASSUME NEW n \in Nat \ {0}, NEW good, n \in good,
         \A i \in 1..n : i # n /\ i + 1 \in good => i \in good
  PROVE  \A i \in 1..n : i \in good
<1>. DEFINE mirror == {i \in 1..n : n + 1 - i \in good}
<1>1. 1 \in mirror OBVIOUS
<1>2. ASSUME NEW i \in 1..n, i # n, i \in mirror PROVE i + 1 \in mirror
  <2>. DEFINE j == n + 1 - (i + 1)
  <2>1. j \in 1..n /\ j # n /\ j + 1 = n + 1 - i /\ i + 1 \in 1..n BY <1>2
  <2>2. j \in good BY <1>2, <2>1
  <2>. QED BY <2>1, <2>2
<1>. HIDE DEF mirror
<1>3. \A i \in 1..n : i \in mirror BY <1>1, <1>2, Onward
<1>4. ASSUME NEW i \in 1..n PROVE i \in good
  <2>1. n + 1 - i \in mirror BY <1>3
  <2>2. n + 1 - (n + 1 - i) = i OBVIOUS
  <2>. QED BY <2>1, <2>2 DEF mirror
<1>. QED BY <1>4

-----------------------------------------------------------------------------
\* Of two hosts one comes first.
LEMMA PositionInjective ==
  ASSUME NEW g \in Hosts, NEW h \in Hosts
  PROVE  /\ Position(g) \in Nat /\ Position(h) \in Nat
         /\ Position(g) = Position(h) => g = h
<1>1. HostOrder \in Seq(Hosts) BY PropagationAssumption
<1>2. \A k \in Hosts : \E i \in DOMAIN HostOrder : HostOrder[i] = k BY DEF Hosts, ToSet
<1>3. \A k \in Hosts : Position(k) \in DOMAIN HostOrder /\ HostOrder[Position(k)] = k
  BY <1>2 DEF Position
<1>4. DOMAIN HostOrder \subseteq Nat BY <1>1
<1>. QED BY <1>3, <1>4

\* So the next target is decided.
LEMMA ForemostUnique ==
  ASSUME NEW E \in SUBSET (Hosts \X Hosts), NEW e \in Foremost(E), NEW f \in Foremost(E)
  PROVE  e = f
<1>1. e \in E /\ f \in E /\ Precedes(e, f) /\ Precedes(f, e) BY DEF Foremost
<1>2. /\ e \in Hosts \X Hosts /\ f \in Hosts \X Hosts
      /\ e[1] \in Hosts /\ e[2] \in Hosts /\ f[1] \in Hosts /\ f[2] \in Hosts
  BY <1>1
<1>3. /\ Position(e[1]) \in Nat /\ Position(f[1]) \in Nat
      /\ Position(e[2]) \in Nat /\ Position(f[2]) \in Nat
      /\ Position(e[2]) = Position(f[2]) => e[2] = f[2]
  BY <1>2, PositionInjective
<1>4. e[1] = f[1] /\ Position(e[2]) = Position(f[2])
  BY <1>1, <1>3 DEF Precedes
<1>. QED BY <1>2, <1>3, <1>4

\* What a round tries are edges that lead on.
Fit(s) == s.todo \subseteq {e \in s.fell \X Hosts : Trust[e[1]][e[2]] > 0}

LEMMA MoveKeeps ==
  ASSUME NEW s, NEW t, NEW wall, NEW limit, NEW T, NEW type,
         Moves(s, t, wall, limit, T, type)
  PROVE  /\ Fit(s) => Fit(t)
         /\ s.fell \cup s.new \subseteq t.fell \cup t.new
<1>1. CASE \E e \in Foremost(OpenIn(s, wall)) : t = Tried(s, e, wall, T, type)
  <2>1. PICK e : t = Tried(s, e, wall, T, type) BY <1>1
  <2>2. /\ t.fell = s.fell /\ t.todo = OpenIn(s, wall) \ {e}
        /\ s.new \subseteq t.new
    BY <2>1 DEF Tried
  <2>3. t.todo \subseteq s.todo BY <2>2 DEF OpenIn
  <2>. QED BY <2>2, <2>3 DEF Fit
<1>2. CASE t = Turned(s)
  <2>1. t.fell = s.fell \cup s.new /\ t.todo = EdgesFrom(s.fell \cup s.new)
    BY <1>2 DEF Turned
  <2>. QED BY <2>1 DEF Fit, EdgesFrom
<1>. QED BY <1>1, <1>2 DEF Moves

LEMMA FilmFits ==
  ASSUME NEW f, NEW n, NEW from, NEW wall, NEW limit, NEW T, NEW type,
         Film(f, n, from, wall, limit, T, type)
  PROVE  \A i \in 1..n : Fit(f[i]) /\ f[i].fell \cup f[i].new \subseteq f[n].fell \cup f[n].new
<1>. DEFINE fit == {i \in 1..n : Fit(f[i])}
            below == {i \in 1..n : f[i].fell \cup f[i].new \subseteq f[n].fell \cup f[n].new}
<1>1. n \in Nat \ {0} BY DEF Film
<1>2. 1 \in fit BY <1>1 DEF Film, Fit, Opening, EdgesFrom
<1>3. ASSUME NEW i \in 1..n, i # n
      PROVE  /\ i \in fit => i + 1 \in fit
             /\ i + 1 \in below => i \in below
  <2>1. Moves(f[i], f[i + 1], wall, limit, T, type) BY <1>3 DEF Film
  <2>2. i + 1 \in 1..n BY <1>1, <1>3
  <2>. QED BY <2>1, <2>2, MoveKeeps
<1>4. n \in below BY <1>1
<1>. HIDE DEF fit, below
<1>5. \A i \in 1..n : i \in fit BY <1>1, <1>2, <1>3, Onward
<1>6. \A i \in 1..n : i \in below BY <1>1, <1>3, <1>4, Backward
<1>. QED BY <1>5, <1>6 DEF fit, below

\* A wall that no edge from what falls leads to is not noticed.
LEMMA WallUnnoticed ==
  ASSUME NEW s, NEW wall, NEW F, Fit(s), s.fell \cup s.new \subseteq F,
         \A h \in F, g \in wall : Trust[h][g] = 0
  PROVE  OpenIn(s, wall) = OpenIn(s, {})
<1>1. \A e \in s.todo : e[2] \notin wall
  <2>. SUFFICES ASSUME NEW e \in s.todo, e[2] \in wall PROVE FALSE
    OBVIOUS
  <2>1. e \in s.fell \X Hosts /\ Trust[e[1]][e[2]] > 0 BY DEF Fit
  <2>2. e[1] \in F BY <2>1
  <2>3. Trust[e[1]][e[2]] = 0 BY <2>2
  <2>. QED BY <2>1, <2>3
<1>. QED BY <1>1 DEF OpenIn

\* A run has one way to go on, and an ended one none.
LEMMA MoveUnique ==
  ASSUME NEW s, NEW t, NEW u, NEW wall, NEW limit, NEW T, NEW type,
         OpenIn(s, wall) \subseteq Hosts \X Hosts,
         Moves(s, t, wall, limit, T, type)
  PROVE  /\ Moves(s, u, wall, limit, T, type) => t = u
         /\ ~Ended(s, wall, limit)
<1>1. Foremost({}) = {} BY DEF Foremost
<1>2. CASE OpenIn(s, wall) = {}
  <2>1. s.new # {} /\ s.round # limit /\ t = Turned(s) BY <1>1, <1>2 DEF Moves
  <2>2. Moves(s, u, wall, limit, T, type) => u = Turned(s) BY <1>1, <1>2 DEF Moves
  <2>. QED BY <2>1, <2>2 DEF Ended
<1>3. CASE OpenIn(s, wall) # {}
  <2>1. PICK e \in Foremost(OpenIn(s, wall)) : t = Tried(s, e, wall, T, type)
    BY <1>3 DEF Moves
  <2>2. ASSUME Moves(s, u, wall, limit, T, type) PROVE t = u
    <3>1. PICK f \in Foremost(OpenIn(s, wall)) : u = Tried(s, f, wall, T, type)
      BY <1>3, <2>2 DEF Moves
    <3>2. e = f BY <2>1, <3>1, ForemostUnique
    <3>. QED BY <2>1, <3>1, <3>2
  <2>. QED BY <1>3, <2>2 DEF Ended
<1>. QED BY <1>2, <1>3

\* Two complete runs from the same hosts are one, if the wall of the one is out of
\* reach for the other.
LEMMA SameEnd ==
  ASSUME NEW s, NEW u, NEW from \in SUBSET Hosts, NEW wall, NEW limit, NEW T, NEW type,
         Reaches(s, from, {}, limit, T, type), Ended(s, {}, limit),
         Reaches(u, from, wall, limit, T, type), Ended(u, wall, limit),
         s.fell \cup s.new \subseteq Hosts,
         \A h \in s.fell \cup s.new, g \in wall : Trust[h][g] = 0
  PROVE  s = u
<1>. DEFINE F == s.fell \cup s.new
<1>1. PICK n, f : Film(f, n, from, {}, limit, T, type) /\ f[n] = s BY DEF Reaches
<1>2. PICK m, g : Film(g, m, from, wall, limit, T, type) /\ g[m] = u BY DEF Reaches
<1>3. n \in Nat \ {0} /\ m \in Nat \ {0} BY <1>1, <1>2 DEF Film
<1>4. \A i \in 1..n : Fit(f[i]) /\ f[i].fell \cup f[i].new \subseteq F BY <1>1, FilmFits
<1>5. \A i \in 1..n : OpenIn(f[i], wall) = OpenIn(f[i], {}) BY <1>4, WallUnnoticed
<1>6. \A i \in 1..n : OpenIn(f[i], wall) \subseteq Hosts \X Hosts
  BY <1>4 DEF OpenIn, Fit
<1>. HIDE DEF F
<1>7. ASSUME NEW i \in 1..n, i # n
      PROVE  Moves(f[i], f[i + 1], wall, limit, T, type)
  <2>1. Moves(f[i], f[i + 1], {}, limit, T, type) BY <1>1, <1>7 DEF Film
  <2>2. \A e : Tried(f[i], e, wall, T, type) = Tried(f[i], e, {}, T, type)
    BY <1>5 DEF Tried
  <2>. QED BY <1>5, <2>1, <2>2 DEF Moves
<1>8. Ended(s, wall, limit)
  <2>1. n \in 1..n BY <1>3
  <2>. QED BY <1>1, <1>5, <2>1 DEF Ended
<1>9. PICK k \in Nat \ {0} : k <= n /\ k <= m /\ (k = n \/ k = m)
  <2>1. CASE n <= m BY <1>3, <2>1
  <2>2. CASE m <= n BY <1>3, <2>2
  <2>. QED BY <1>3, <2>1, <2>2
<1>10. \A i \in 1..k : f[i] = g[i]
  <2>. DEFINE same == {i \in 1..k : f[i] = g[i]}
  <2>1. 1 \in same BY <1>1, <1>2, <1>9 DEF Film
  <2>2. ASSUME NEW i \in 1..k, i # k, i \in same PROVE i + 1 \in same
    <3>1. i \in 1..n /\ i # n /\ i \in 1..m /\ i # m /\ i + 1 \in 1..k BY <1>3, <1>9, <2>2
    <3>2. Moves(f[i], f[i + 1], wall, limit, T, type) BY <1>7, <3>1
    <3>3. Moves(f[i], g[i + 1], wall, limit, T, type) BY <1>2, <2>2, <3>1 DEF Film
    <3>4. OpenIn(f[i], wall) \subseteq Hosts \X Hosts BY <1>6, <3>1
    <3>5. f[i + 1] = g[i + 1] BY <3>2, <3>3, <3>4, MoveUnique
    <3>. QED BY <3>1, <3>5
  <2>. HIDE DEF same
  <2>3. \A i \in 1..k : i \in same BY <1>9, <2>1, <2>2, Onward
  <2>. QED BY <2>3 DEF same
<1>11. k \in 1..k /\ k \in 1..n /\ k \in 1..m BY <1>3, <1>9
<1>12. f[k] = g[k] BY <1>10, <1>11
<1>13. OpenIn(f[k], wall) \subseteq Hosts \X Hosts BY <1>6, <1>11
<1>14. k = n
  <2>. SUFFICES ASSUME k # n PROVE FALSE
    OBVIOUS
  <2>1. Moves(f[k], f[k + 1], wall, limit, T, type) BY <1>7, <1>11
  <2>2. ~Ended(f[k], wall, limit) BY <1>13, <2>1, MoveUnique
  <2>3. k = m BY <1>9
  <2>. QED BY <1>2, <1>12, <2>2, <2>3
<1>15. k = m
  <2>. SUFFICES ASSUME k # m PROVE FALSE
    OBVIOUS
  <2>1. Moves(g[k], g[k + 1], wall, limit, T, type) BY <1>2, <1>11 DEF Film
  <2>2. ~Ended(f[k], wall, limit) BY <1>12, <1>13, <2>1, MoveUnique
  <2>. QED BY <1>1, <1>8, <1>14, <2>2
<1>. QED BY <1>1, <1>2, <1>12, <1>14, <1>15

-----------------------------------------------------------------------------
(* The film of a run, while it is made. *)

LEMMA FilmOpens ==
  ASSUME NEW from, NEW wall, NEW limit, NEW T, NEW type
  PROVE  Reaches(Opening(from), from, wall, limit, T, type)
<1>. DEFINE f == [i \in 1..1 |-> Opening(from)]
<1>1. f[1] = Opening(from) /\ \A i \in 1..1 : i = 1 OBVIOUS
<1>. HIDE DEF f
<1>2. Film(f, 1, from, wall, limit, T, type) BY <1>1 DEF Film
<1>. QED BY <1>1, <1>2 DEF Reaches

LEMMA FilmGrows ==
  ASSUME NEW s, NEW t, NEW from, NEW wall, NEW limit, NEW T, NEW type,
         Reaches(s, from, wall, limit, T, type), Moves(s, t, wall, limit, T, type)
  PROVE  Reaches(t, from, wall, limit, T, type)
<1>1. PICK n, f : Film(f, n, from, wall, limit, T, type) /\ f[n] = s BY DEF Reaches
<1>2. n \in Nat \ {0} BY <1>1 DEF Film
<1>. DEFINE g == [i \in 1..(n + 1) |-> IF i = n + 1 THEN t ELSE f[i]]
<1>3. g[n + 1] = t /\ \A i \in 1..n : g[i] = f[i] BY <1>2
<1>. HIDE DEF g
<1>4. n + 1 \in Nat \ {0} /\ 1 \in 1..n /\ n \in 1..n BY <1>2
<1>5. g[1] = Opening(from) BY <1>1, <1>3, <1>4 DEF Film
<1>6. ASSUME NEW i \in 1..(n + 1), i # n + 1
      PROVE  Moves(g[i], g[i + 1], wall, limit, T, type)
  <2>1. i \in 1..n BY <1>2, <1>6
  <2>2. CASE i = n BY <1>1, <1>3, <1>4, <2>2
  <2>3. CASE i # n
    <3>1. i + 1 \in 1..n BY <1>2, <2>1, <2>3
    <3>2. Moves(f[i], f[i + 1], wall, limit, T, type) BY <1>1, <2>1, <2>3 DEF Film
    <3>. QED BY <1>3, <2>1, <3>1, <3>2
  <2>. QED BY <2>2, <2>3
<1>7. Film(g, n + 1, from, wall, limit, T, type) BY <1>4, <1>5, <1>6 DEF Film
<1>. QED BY <1>3, <1>7 DEF Reaches

\* What has been read of the tape does not change when more is known of it.
LEMMA TapeGrows ==
  ASSUME NEW s, NEW from, NEW wall, NEW limit, NEW T \in Seq(Draws), NEW d \in Draws, NEW type,
         Reaches(s, from, wall, limit, T, type)
  PROVE  Reaches(s, from, wall, limit, Append(T, d), type)
<1>1. PICK n, f : Film(f, n, from, wall, limit, T, type) /\ f[n] = s BY DEF Reaches
<1>. DEFINE U == Append(T, d)
<1>2. /\ \A k \in 1..Len(T) : U[k] = T[k] /\ k \in 1..Len(U)
  OBVIOUS
<1>. HIDE DEF U
<1>3. ASSUME NEW i \in 1..n, i # n PROVE Moves(f[i], f[i + 1], wall, limit, U, type)
  <2>1. Moves(f[i], f[i + 1], wall, limit, T, type) BY <1>1, <1>3 DEF Film
  <2>2. ASSUME f[i].read + 1 \in 1..Len(T)
        PROVE  \A e : Tried(f[i], e, wall, U, type) = Tried(f[i], e, wall, T, type)
    BY <1>2, <2>2 DEF Tried
  <2>. QED BY <1>2, <2>1, <2>2 DEF Moves
<1>4. Film(f, n, from, wall, limit, U, type) BY <1>1, <1>3 DEF Film
<1>. QED BY <1>1, <1>4 DEF Reaches, U

Here == [read |-> read, round |-> round, fell |-> compromised, new |-> newly, todo |-> todo]

\* A look-ahead that ended with some hosts fallen.
EndsIn(result, from, wall, type, T) ==
  \E s : /\ Reaches(s, from, wall, RoundsFor(type, LOOKAHEAD_MINUTES), T, type)
         /\ Ended(s, wall, RoundsFor(type, LOOKAHEAD_MINUTES))
         /\ result = s.fell \cup s.new

\* The run being played is one the tape leads to, and so were those that ended.
Staged ==
  /\ run = "fact" => start # {}
  /\ run # "fact" => truth # {}
  /\ run = "future" => blocked = iso /\ start = truth \ iso
  /\ run = "no_action" => blocked = {} /\ start = truth
Filmed ==
  run \in {"future", "no_action"} =>
    rounds = RoundsFor(attack, LOOKAHEAD_MINUTES)
      /\ Reaches(Here, start, blocked, rounds, tape, attack)
Kept ==
  /\ run \in {"no_action", "done"} =>
       truth \subseteq iso \/ EndsIn(future, truth \ iso, iso, attack, tape)
  /\ run = "done" => EndsIn(no_action, truth, {}, attack, tape)

NInv == Staged /\ Filmed /\ Kept

LEMMA PendingIs == Pending = OpenIn(Here, blocked)
BY DEF Pending, Open, OpenIn, Here

LEMMA EndedIs ==
  ASSUME NEW r, EndOf(r)
  PROVE  Ended(Here, blocked, rounds) /\ Result = Here.fell \cup Here.new /\ run = r
BY PendingIs DEF EndOf, Over, Ended, Here, Result

\* An attempt and the end of a round are moves.
LEMMA AttemptMoves ==
  ASSUME Sound, Attempt
  PROVE  /\ tape' = tape \/ \E d \in Draws : tape' = Append(tape, d)
         /\ Moves(Here, Here', blocked, rounds, tape', attack)
<1>1. PICK e \in Foremost(Pending), d \in Drawn :
        /\ tape' = IF read < Len(tape) THEN tape ELSE Append(tape, d)
        /\ newly' = IF Falls(e, d) THEN newly \cup {e[2]} ELSE newly
        /\ todo' = Pending \ {e}
  BY DEF Attempt
<1>2. tape \in Seq(Draws) /\ read \in 0..Len(tape) BY DEF Sound, TypeOK
<1>3. /\ read' = read + 1 /\ round' = round /\ compromised' = compromised
  BY DEF Attempt, play
<1>4. read + 1 \in 1..Len(tape') /\ tape'[read + 1] = d
      /\ (tape' = tape \/ (d \in Draws /\ tape' = Append(tape, d)))
  <2>1. CASE read < Len(tape) BY <1>1, <1>2, <2>1 DEF Drawn
  <2>2. CASE ~(read < Len(tape))
    <3>1. read = Len(tape) /\ d \in Draws BY <1>1, <1>2, <2>2 DEF Drawn
    <3>. QED BY <1>1, <1>2, <2>2, <3>1
  <2>. QED BY <2>1, <2>2
<1>5. newly' = IF Hits(attack, e, tape'[read + 1]) THEN newly \cup {e[2]} ELSE newly
  BY <1>1, <1>4 DEF Falls, Hits
<1>6. Here' = Tried(Here, e, blocked, tape', attack)
  <2>1. Here' = [read |-> read + 1, round |-> round, fell |-> compromised,
                 new |-> newly', todo |-> Pending \ {e}]
    BY <1>1, <1>3 DEF Here
  <2>2. Tried(Here, e, blocked, tape', attack)
          = [read |-> read + 1, round |-> round, fell |-> compromised,
             new |-> IF Hits(attack, e, tape'[read + 1]) THEN newly \cup {e[2]} ELSE newly,
             todo |-> Pending \ {e}]
    BY PendingIs DEF Tried, Here
  <2>. QED BY <1>5, <2>1, <2>2
<1>7. e \in Foremost(OpenIn(Here, blocked)) BY <1>1, PendingIs
<1>8. Here.read = read BY DEF Here
<1>. QED BY <1>4, <1>6, <1>7, <1>8 DEF Moves

LEMMA EndRoundMoves ==
  ASSUME EndRound
  PROVE  \A T : Moves(Here, Here', blocked, rounds, T, attack)
<1>1. OpenIn(Here, blocked) = {} BY PendingIs DEF EndRound
<1>2. Here.new # {} /\ Here.round # rounds BY DEF EndRound, Over, Here
<1>3. Here' = Turned(Here) BY DEF EndRound, Here, Turned
<1>. QED BY <1>1, <1>2, <1>3 DEF Moves

\* Within a run nothing else changes.
LEMMA PlayNInv ==
  ASSUME PInv, NInv, Attempt \/ EndRound
  PROVE  NInv'
<1>1. /\ run' = run /\ attack' = attack /\ rounds' = rounds /\ blocked' = blocked
      /\ start' = start /\ truth' = truth /\ iso' = iso
      /\ future' = future /\ no_action' = no_action /\ run # "done"
  BY DEF Attempt, EndRound, play
<1>2. tape' = tape \/ \E d \in Draws : tape' = Append(tape, d)
  BY AttemptMoves DEF EndRound, PInv
<1>3. Moves(Here, Here', blocked, rounds, tape', attack)
  BY AttemptMoves, EndRoundMoves DEF PInv
<1>4. tape \in Seq(Draws) BY DEF PInv, Sound, TypeOK
<1>5. \A s, from, wall, limit :
        Reaches(s, from, wall, limit, tape, attack) => Reaches(s, from, wall, limit, tape', attack)
  BY <1>2, <1>4, TapeGrows
<1>6. Staged' BY <1>1 DEF NInv, Staged
<1>7. Filmed'
  <2>. SUFFICES ASSUME run \in {"future", "no_action"}
                PROVE  /\ rounds = RoundsFor(attack, LOOKAHEAD_MINUTES)
                       /\ Reaches(Here', start, blocked, rounds, tape', attack)
    BY <1>1 DEF Filmed
  <2>1. rounds = RoundsFor(attack, LOOKAHEAD_MINUTES)
        /\ Reaches(Here, start, blocked, rounds, tape, attack)
    BY DEF NInv, Filmed
  <2>2. Reaches(Here, start, blocked, rounds, tape', attack) BY <1>5, <2>1
  <2>. QED BY <1>3, <2>1, <2>2, FilmGrows
<1>8. Kept'
  <2>1. \A result, from, wall :
          EndsIn(result, from, wall, attack, tape) => EndsIn(result, from, wall, attack, tape')
    BY <1>5 DEF EndsIn
  <2>. QED BY <1>1, <2>1 DEF NInv, Kept
<1>. QED BY <1>6, <1>7, <1>8 DEF NInv

\* A new run opens.
LEMMA BeginsFilm ==
  ASSUME NEW r, NEW seeds, NEW wall, Begins(r, seeds, wall, Window),
         attack' = attack, tape' = tape
  PROVE  Filmed'
<1>1. Here' = Opening(seeds \ wall) BY DEF Begins, Rewound, Here, Opening
<1>2. Reaches(Opening(seeds \ wall), seeds \ wall, wall, Window, tape, attack) BY FilmOpens
<1>3. start' = seeds \ wall /\ blocked' = wall /\ rounds' = Window BY DEF Begins
<1>4. Reaches(Here', start', blocked', rounds', tape', attack') BY <1>1, <1>2, <1>3
<1>. QED BY <1>3, <1>4 DEF Filmed, Window

LEMMA ScorePlanNInv == ASSUME PInv, NInv, ScorePlan PROVE NInv'
<1>1. PICK plan \in SUBSET Hosts :
        /\ iso' = plan
        /\ IF Result \ plan = {} THEN Begins("no_action", Result, {}, Window)
           ELSE Begins("future", Result \ plan, plan, Window)
  BY DEF ScorePlan
<1>2. truth' = Result /\ attack' = attack /\ tape' = tape BY DEF ScorePlan
<1>3. Result # {}
  <2>1. start # {} /\ start \subseteq compromised
    BY DEF ScorePlan, EndOf, NInv, Staged, PInv, Sound, TypeOK
  <2>. QED BY <2>1 DEF Result
<1>4. CASE Result \ plan = {}
  <2>1. Begins("no_action", Result, {}, Window) BY <1>1, <1>4
  <2>2. run' = "no_action" /\ start' = Result \ {} /\ blocked' = {} BY <2>1 DEF Begins
  <2>3. Filmed' BY <1>2, <2>1, BeginsFilm
  <2>4. Staged' BY <1>2, <1>3, <2>2 DEF Staged
  <2>5. Kept' BY <1>1, <1>2, <1>4, <2>2 DEF Kept
  <2>. QED BY <2>3, <2>4, <2>5 DEF NInv
<1>5. CASE Result \ plan # {}
  <2>1. Begins("future", Result \ plan, plan, Window) BY <1>1, <1>5
  <2>2. run' = "future" /\ start' = (Result \ plan) \ plan /\ blocked' = plan BY <2>1 DEF Begins
  <2>3. Filmed' BY <1>2, <2>1, BeginsFilm
  <2>4. Staged' BY <1>1, <1>2, <1>3, <2>2 DEF Staged
  <2>5. Kept' BY <2>2 DEF Kept
  <2>. QED BY <2>3, <2>4, <2>5 DEF NInv
<1>. QED BY <1>4, <1>5

LEMMA EndFutureNInv == ASSUME PInv, NInv, EndFuture PROVE NInv'
<1>1. /\ future' = Result /\ Begins("no_action", truth, {}, Window)
      /\ attack' = attack /\ tape' = tape /\ truth' = truth /\ iso' = iso
  BY DEF EndFuture
<1>2. Ended(Here, blocked, rounds) /\ Result = Here.fell \cup Here.new /\ run = "future"
  BY EndedIs DEF EndFuture
<1>3. run' = "no_action" /\ start' = truth \ {} /\ blocked' = {} BY <1>1 DEF Begins
<1>4. Filmed' BY <1>1, BeginsFilm
<1>5. Staged' BY <1>1, <1>2, <1>3 DEF NInv, Staged
<1>6. EndsIn(Result, truth \ iso, iso, attack, tape)
  <2>1. /\ blocked = iso /\ start = truth \ iso /\ rounds = RoundsFor(attack, LOOKAHEAD_MINUTES)
        /\ Reaches(Here, start, blocked, rounds, tape, attack)
    BY <1>2 DEF NInv, Staged, Filmed
  <2>. QED BY <1>2, <2>1 DEF EndsIn
<1>7. Kept' BY <1>1, <1>3, <1>6 DEF Kept
<1>. QED BY <1>4, <1>5, <1>7 DEF NInv

LEMMA EndNoActionNInv == ASSUME PInv, NInv, EndNoAction PROVE NInv'
<1>1. /\ no_action' = Result /\ run' = "done" /\ future' = future
      /\ attack' = attack /\ tape' = tape /\ truth' = truth /\ iso' = iso
  BY DEF EndNoAction
<1>2. Ended(Here, blocked, rounds) /\ Result = Here.fell \cup Here.new /\ run = "no_action"
  BY EndedIs DEF EndNoAction
<1>3. EndsIn(Result, truth, {}, attack, tape)
  <2>1. /\ blocked = {} /\ start = truth /\ rounds = RoundsFor(attack, LOOKAHEAD_MINUTES)
        /\ Reaches(Here, start, blocked, rounds, tape, attack)
    BY <1>2 DEF NInv, Staged, Filmed
  <2>. QED BY <1>2, <2>1 DEF EndsIn
<1>4. Kept' BY <1>1, <1>2, <1>3 DEF NInv, Kept
<1>5. Staged' /\ Filmed' BY <1>1, <1>2 DEF NInv, Staged, Filmed
<1>. QED BY <1>4, <1>5 DEF NInv

LEMMA InitNInv == Init => NInv
<1>1. Init => start # {} BY SeedsType DEF Init
<1>. QED BY <1>1 DEF Init, NInv, Staged, Filmed, Kept

LEMMA StepNInv == PInv /\ NInv /\ [Next]_vars => NInv'
<1>1. ASSUME NInv, UNCHANGED vars PROVE NInv'
  <2>1. Here' = Here BY <1>1 DEF vars, play, Here
  <2>. QED BY <1>1, <2>1 DEF vars, play, NInv, Staged, Filmed, Kept
<1>. QED BY <1>1, PlayNInv, ScorePlanNInv, EndFutureNInv, EndNoActionNInv DEF Next

\* Two scores of one scenario differ by their plans alone: a plan out of the attack's
\* reach scores as no plan, on every network and whatever is drawn.
THEOREM NeutralPlans == Spec => []UntouchedPlanIsNeutral
<1>1. ASSUME PInv, NInv PROVE UntouchedPlanIsNeutral
  <2>. SUFFICES ASSUME run = "done", iso \cap truth = {},
                       \A h \in no_action, g \in iso : Trust[h][g] = 0
                PROVE  future = no_action
    BY DEF UntouchedPlanIsNeutral
  <2>1. truth # {} /\ truth \ iso = truth /\ ~(truth \subseteq iso)
    BY <1>1 DEF NInv, Staged
  <2>2. truth \in SUBSET Hosts /\ no_action \subseteq Hosts BY <1>1 DEF PInv, Sound, TypeOK
  <2>. DEFINE limit == RoundsFor(attack, LOOKAHEAD_MINUTES)
  <2>3. PICK u : /\ Reaches(u, truth, iso, limit, tape, attack) /\ Ended(u, iso, limit)
                 /\ future = u.fell \cup u.new
    BY <1>1, <2>1 DEF NInv, Kept, EndsIn
  <2>4. PICK s : /\ Reaches(s, truth, {}, limit, tape, attack) /\ Ended(s, {}, limit)
                 /\ no_action = s.fell \cup s.new
    BY <1>1 DEF NInv, Kept, EndsIn
  <2>. HIDE DEF limit
  <2>5. s = u BY <2>2, <2>3, <2>4, SameEnd
  <2>. QED BY <2>3, <2>4, <2>5
<1>. QED BY <1>1, InitPInv, StepPInv, InitNInv, StepNInv, PTL DEF Spec
=============================================================================
