---------------------------- MODULE Propagation ----------------------------
(***************************************************************************)
(* How an attack spreads, and how the evaluation measures what isolation   *)
(* is worth.  A scenario is played once to find the compromised hosts (the *)
(* truth); score() then replays a look-ahead twice, with the isolated      *)
(* hosts blocked and with nothing blocked.  Each of the three runs makes a *)
(* fresh generator from one seed, so all read the same draws from their    *)
(* beginning; how many draws a run takes depends on what it tries.         *)
(*                                                                         *)
(* Trust, hardening and draws are whole percents; a pivot probability is   *)
(* in millionths.                                                          *)
(***************************************************************************)
EXTENDS Integers, FiniteSets, Sequences, SequencesExt

CONSTANTS
  HostOrder,   \* the host ids, sorted
  Trust,       \* Trust[g][h]: edge trust, 0 where there is no edge
  HostType, Hardening,
  Pii,         \* hosts with contains_pii
  Draws        \* what random() may return

Hosts == ToSet(HostOrder)

ASSUME PropagationAssumption ==
  /\ HostOrder \in Seq(Hosts)
  /\ Trust \in [Hosts -> [Hosts -> 0..100]]
  /\ DOMAIN HostType = Hosts /\ Hardening \in [Hosts -> 0..100]
  /\ Pii \subseteq Hosts
  /\ Draws \subseteq 0..99

LOOKAHEAD_MINUTES == 60

PROFILES ==
  [ransomware |->
     [aggression |-> 95, minutes_per_round |-> 4, max_rounds |-> 5,
      preferred |-> {"workstation", "file_server"}, preference |-> 125, pii |-> 100],
   lateral_movement |->
     [aggression |-> 70, minutes_per_round |-> 25, max_rounds |-> 4,
      preferred |-> {"app_server", "db_server", "domain_controller", "jump_host"},
      preference |-> 140, pii |-> 100],
   insider_threat |->
     [aggression |-> 22, minutes_per_round |-> 90, max_rounds |-> 2,
      preferred |-> {"file_server", "db_server"}, preference |-> 150, pii |-> 200]]

Least(S)    == CHOOSE x \in S : \A y \in S : x <= y
Greatest(S) == CHOOSE x \in S : \A y \in S : x >= y

\* rounds_for: at least one round, at most what the profile allows.
RoundsFor(type, minutes) ==
  LET n == minutes \div PROFILES[type].minutes_per_round
  IN  Greatest({1, Least({n, PROFILES[type].max_rounds})})

\* _pool: where the generator lets each attack start; generate() refuses an
\* attack type without such a host.
Pool(type) ==
  {h \in Hosts : HostType[h] \in
     CASE type = "ransomware"       -> {"workstation"}
       [] type = "lateral_movement" -> {"web_server", "app_server", "jump_host"}
       [] type = "insider_threat"   -> {"workstation", "jump_host"}}

\* _n_seeds and rng.sample: one seed, or two workstations for ransomware.
SeedSets(type) ==
  {S \in SUBSET Pool(type) : Cardinality(S) \in IF type = "ransomware" THEN 1..2 ELSE {1}}

\* _dwell, in minutes.
Dwell(type) ==
  CASE type = "ransomware"       -> 5..20
    [] type = "lateral_movement" -> 25..120
    [] type = "insider_threat"   -> 60..300

\* _pivot_probability
PivotProbability(src, dst, type) ==
  LET profile == PROFILES[type]
      base == Trust[src][dst] * profile.aggression * (100 - Hardening[dst])
      liked == IF HostType[dst] \in profile.preferred THEN profile.preference ELSE 100
      pii == IF dst \in Pii THEN profile.pii ELSE 100
  IN  Least({990000, (((base * liked) \div 100) * pii) \div 100})

\* The edges a round tries: from sorted(compromised), each with its neighbours in
\* order.
EdgesFrom(S) == {e \in S \X Hosts : Trust[e[1]][e[2]] > 0}

Position(h) == CHOOSE i \in DOMAIN HostOrder : HostOrder[i] = h
Precedes(e, f) ==
  \/ Position(e[1]) < Position(f[1])
  \/ e[1] = f[1] /\ Position(e[2]) <= Position(f[2])
Foremost(E) == {e \in E : \A f \in E : Precedes(e, f)}

-----------------------------------------------------------------------------
VARIABLES
  attack,       \* attack_type of the scenario
  run,          \* "fact", "future", "no_action", "done"
  tape,         \* the draws of the seed, as far as any run has read them
  read,         \* how many of them this run has read
  round, rounds,
  blocked,      \* blocked_set
  start,        \* the hosts this run starts from
  todo,         \* pivots left to try in this round
  compromised, newly,
  pivots,       \* pivots that succeeded: <<source, target, round>>
  truth,        \* ground_truth_compromised
  iso,          \* the plan being scored
  future, no_action   \* compromised sets of the two look-aheads

play == <<round, rounds, blocked, start, compromised>>
vars == <<attack, run, tape, read, play, todo, newly, pivots,
          truth, iso, future, no_action>>

\* A fresh generator reads from the first draw; the fault is to keep the old one.
ReadOn(n)  == n
Rewound(n) == 0

\* simulate(), up to its first round.
Begins(r, seeds, wall, limit) ==
  /\ run' = r /\ read' = Rewound(read) /\ round' = 1 /\ rounds' = limit
  /\ blocked' = wall /\ start' = seeds \ wall /\ compromised' = seeds \ wall
  /\ todo' = EdgesFrom(seeds \ wall) /\ newly' = {} /\ pivots' = <<>>

Init ==
  /\ attack \in DOMAIN PROFILES
  /\ run = "fact" /\ tape = <<>> /\ read = 0
  /\ round = 1 /\ rounds \in {RoundsFor(attack, t) : t \in Dwell(attack)}
  /\ blocked = {} /\ start \in SeedSets(attack) /\ compromised = start
  /\ todo = EdgesFrom(start) /\ newly = {} /\ pivots = <<>>
  /\ truth = {} /\ iso = {} /\ future = {} /\ no_action = {}

\* A target that has fallen or is blocked is passed over without a draw; the
\* fault is to forget the blocked ones.
OpenToAll(dst) == dst \notin compromised \cup newly
Open(dst)      == dst \notin compromised \cup newly \cup blocked

Pending == {e \in todo : Open(e[2])}

\* random() < p for the next target.  A run reads on where it stands; the first to
\* come so far finds out what is there.
Drawn       == IF read < Len(tape) THEN {tape[read + 1]} ELSE Draws
Falls(e, d) == d * 10000 < PivotProbability(e[1], e[2], attack)

Attempt ==
  /\ run # "done"
  /\ \E e \in Foremost(Pending), d \in Drawn :
       /\ tape' = IF read < Len(tape) THEN tape ELSE Append(tape, d)
       /\ newly' = IF Falls(e, d) THEN newly \cup {e[2]} ELSE newly
       /\ pivots' = IF Falls(e, d) THEN Append(pivots, <<e[1], e[2], round>>) ELSE pivots
       /\ todo' = Pending \ {e}
  /\ read' = read + 1
  /\ UNCHANGED <<attack, run, play, truth, iso, future, no_action>>

\* The spread stops with a round in which nothing fell, or with the last round.
Over == newly = {} \/ round = rounds

EndRound ==
  /\ run # "done" /\ Pending = {} /\ ~Over
  /\ compromised' = compromised \cup newly
  /\ round' = round + 1
  /\ newly' = {}
  /\ todo' = EdgesFrom(compromised \cup newly)
  /\ UNCHANGED <<attack, run, tape, read, rounds, blocked, start, pivots,
                 truth, iso, future, no_action>>

Result   == compromised \cup newly
EndOf(r) == run = r /\ Pending = {} /\ Over

Window == RoundsFor(attack, LOOKAHEAD_MINUTES)

\* score(): any plan may be scored; with no compromised host left online there
\* is no future to play.
ScorePlan ==
  /\ EndOf("fact")
  /\ truth' = Result
  /\ \E plan \in SUBSET Hosts :
       /\ iso' = plan
       /\ IF Result \ plan = {} THEN Begins("no_action", Result, {}, Window)
          ELSE Begins("future", Result \ plan, plan, Window)
  /\ UNCHANGED <<attack, tape, future, no_action>>

EndFuture ==
  /\ EndOf("future")
  /\ future' = Result
  /\ Begins("no_action", truth, {}, Window)
  /\ UNCHANGED <<attack, tape, truth, iso, no_action>>

EndNoAction ==
  /\ EndOf("no_action")
  /\ no_action' = Result
  /\ run' = "done"
  /\ UNCHANGED <<attack, tape, read, play, todo, newly, pivots, truth, iso, future>>

Next == Attempt \/ EndRound \/ ScorePlan \/ EndFuture \/ EndNoAction

Spec == Init /\ [][Next]_vars

-----------------------------------------------------------------------------
\* What score() reports.
PostSpread      == Cardinality(future \ truth)
NoActionSpread  == Cardinality(no_action \ truth)
SpreadPrevented == Greatest({0, NoActionSpread - PostSpread})

-----------------------------------------------------------------------------
\* Shape of the state; a run reads the draws of the seed from the first on.
TypeOK ==
  /\ attack \in DOMAIN PROFILES
  /\ run \in {"fact", "future", "no_action", "done"}
  /\ tape \in Seq(Draws) /\ read \in 0..Len(tape)
  /\ rounds \in 1..5 /\ round \in 1..rounds
  /\ start \subseteq compromised
  /\ \A S \in {compromised, newly, truth, iso, future, no_action} : S \subseteq Hosts
  /\ newly \cap compromised = {}
  /\ todo \subseteq compromised \X Hosts

\* When a host fell in this run, 0 for where it started.
FellAt(h) ==
  IF h \in start THEN 0
  ELSE CHOOSE r \in 1..rounds : \E i \in DOMAIN pivots : pivots[i][2] = h /\ pivots[i][3] = r

\* The record of a run explains it: every host that fell did so once, in one
\* pivot along an edge, unblocked, from a host that fell in an earlier round and
\* is not blocked; nothing falls outside the record.
PivotsExplainSpread ==
  /\ Result = start \cup {pivots[i][2] : i \in DOMAIN pivots}
  /\ \A i, j \in DOMAIN pivots : pivots[i][2] = pivots[j][2] => i = j
  /\ \A i \in DOMAIN pivots :
        LET src == pivots[i][1]
            dst == pivots[i][2]
        IN  /\ Trust[src][dst] > 0
            /\ dst \notin start \cup blocked
            /\ src \in Result \ blocked /\ FellAt(src) < pivots[i][3]

\* Two scores of one scenario differ by their plans alone: a plan that isolates
\* no compromised host, and no host the undisturbed attack ever had a path to,
\* scores exactly as no plan.
UntouchedPlanIsNeutral ==
  run = "done" /\ iso \cap truth = {}
    /\ (\A h \in no_action, g \in iso : Trust[h][g] = 0)
    => future = no_action

\* What is documented of the measure: "spread_prevented = no_action_spread -
\* post_containment_spread" (amcds/evaluation/metrics.py).
PreventedIsTheDifference ==
  run = "done" => SpreadPrevented = NoActionSpread - PostSpread
=============================================================================
