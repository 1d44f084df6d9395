# A verification project for AMCDS

AMCDS (Autonomous Multi-Agent Cyber Defense System) decides which hosts of an
enterprise network to take offline during an attack. This directory holds TLA+
modules translated from its source, the TLC configurations that check them on
small instances, and proofs that TLAPS checks for every instance.

    tlc -workers 2 -config MCNegotiation.cfg MCNegotiation     # one run
    tlapm NegotiationProofs.tla                                # the proofs
    tlapm ReportServerProofs.tla                               # likewise the others

`PROJECT.json` maps every definition to the lines it is translated from and lists
runs, mutants, findings, hazards and theorems.

## 1. The system

The repository holds two systems that share an idea and no code.

**A. The runnable prototype** (`amcds/`, `run_demo.py`, `serve.py`): one Python
process and one thread. An attack is generated on a synthetic network; its sensor
alerts and the scores of a risk model become a *threat assessment*; five agents
negotiate a set of candidate hosts; a CP-SAT model picks the hosts to isolate; a
benchmark measures the plan against the ground truth and against baselines.

**B. The distributed blueprint** (`agents/`, `messaging/`, `simulation/`,
`attack_engine/`, `dashboard/`, `database/`): the same roles as processes joined by
Kafka topics, with counters in Redis. Its tests call it a specification rather
than part of the runnable prototype; its code is complete enough to model.

### Inventory

| Component | State | Operations | Talks to | Hard part | What makes it correct |
|---|---|---|---|---|---|
| Evidence ledger (`amcds/evidence.py`, `config.py`) | per host: evidence items, risk score | `add`, `has_hard_evidence`, noisy-OR | read by every agent and the solver | evidence accumulates in any order; repeats must not add up | only independent signals or one very reliable sensor confirm a host; more evidence never clears it |
| Detection (`amcds/detection`) | the assessment under construction | `emit_alerts`, `ml_fidelity`, `build_assessment` | scenario and risk model in, assessment out | the model's score becomes evidence | the model never confirms a host alone |
| Topology (`amcds/network/topology.py`) | hosts, trust edges, services, a dependency graph, a cached centrality | builder calls; reach, surface, cost, SLA queries | agents, solver, benchmark | cached or derived data that goes stale when a builder call follows a query | queries agree with the graph as it is |
| Agents (`amcds/agents`) | none (functions of a shared read-only context) | `propose`, `critique`, `counter`, `_accepts_addition`, `apply_veto` | each other, through the protocol only | what one agent spares, another puts back | see negotiation |
| Negotiation (`amcds/negotiation/protocol.py`) | the log: proposals, critiques, counters, veto, votes | PROPOSE, CRITIQUE, COUNTER, VETO, CONSENSUS | agents in, solver out | exceptions that must survive five phases; reviews of proposals that change afterwards | proven hosts are kept, vetoed hosts stay out, one agent does not outvote two |
| Solver (`amcds/optimization/cpsat_solver.py`) | none | `solve` | consensus in, plan out | constraints that can contradict each other; time-outs | the plan is safe however the solver ends |
| Pipeline and trace (`amcds/pipeline.py`) | the decision record | `run`, `trace_host` | all of the above | a trace computed from other data than the decision | the trace does not contradict the decision |
| Propagation (`amcds/attack`, `scenarios`) | infected set, generator state | `simulate`, `counterfactual_spread` | generator, benchmark | three runs read the same draws in different order | the record of pivots explains the spread; two scores differ by their plans alone |
| Alternative solvers (`optimization/classical_solver.py`, `annealing_solver.py`) | a candidate selection | greedy, annealing | benchmark only | numeric search | stay within the constraints |
| Risk model (`amcds/ml`, `telemetry`) | a fitted model | fit, score | detection | statistics | calibrated scores |
| Timeline (`amcds/events/timeline.py`) | none; the list of events it returns | `build_timeline` | decision in, dashboard out | it leaves out what it takes for uninteresting | the replay adds up to the decision |
| Benchmark (`evaluation`) | caches | metrics, tables | pipeline | - | counts add up |
| Report server (`serve.py`, `run_demo.py`) | one report file, child processes | `report`, `regenerate`, `ensure_report` | browser | concurrent regenerate and read, kill after 300 s | a served report is a complete one |
| Bus agents (`agents/`, `messaging`) | consumer offsets, Redis counters | `process_event` | Kafka topics | order between topics, replays, counters shared by processes | no alert is lost, thresholds mean what they say |
| Coordinator (`agents/coordinator_agent`) | incidents, pending strategies | correlate, select, execute | alert, strategy and incident topics | alerts out of order; strategies filed by alert | an incident with strategies is answered |
| Simulation engine (`simulation/`) | login state per user, tick, client queue | generate, normalize, produce, flush | telemetry topics | an endless loop into a bounded queue, a final flush, a broker that may be away | sessions bracket activity; only an outage or a kill loses events |
| Attack engine (`attack_engine/`) | tick, scenario, client queue | run the phases of a tick, produce, flush | telemetry topics | windows of phases; events that skip the normalizer | a phase is seen from its first tick to its last |
| Dashboard (`dashboard/`) | list of WebSocket clients | REST reads; `broadcast` is never called | browser | - | - |

## 2. Modules

| Module | Models | Extends |
|---|---|---|
| `Evidence` | `amcds/evidence.py`, thresholds of `config.py`, fidelities and ML band of `detection` | - |
| `Detection` | `build_assessment`, one alert or one scored host per step | `Evidence` |
| `MCDetection` | instance of two hosts | `Detection` |
| `DetectionProofs` | theorems about `Detection` and the evidence rule | `Detection`, `TLAPS` |
| `Topology` | the graph and revenue queries of `network/topology.py` over a finalized network | `Evidence` |
| `Agents` | the five agents as functions of the context | `Topology` |
| `ContainmentContract` | abstract specification: agree on candidates, commit to a plan | - |
| `Negotiation` | the protocol, the veto, the solver, the trace | `Agents`, instance of the contract |
| `Timeline` | `build_timeline` over a decided negotiation | `Negotiation` |
| `MCNegotiation` | instance of seven hosts | `Timeline` |
| `NegotiationProofs` | theorems about `Negotiation` and `Timeline` | `Timeline`, `TLAPS` |
| `NetworkBuilder`, `MCNetworkBuilder` | the construction calls of `network/topology.py` and its cache | - |
| `NetworkBuilderProofs` | theorems about `NetworkBuilder` | `NetworkBuilder`, `TLAPS` |
| `Telemetry`, `MCTelemetry` | the loops of `simulation/main.py` and `attack_engine/main.py`, what they generate, and the Kafka client | - |
| `TelemetryProofs` | theorems about `Telemetry` | `Telemetry`, `TLAPS` |
| `Propagation`, `MCPropagation` | `amcds/attack/propagation.py`, draw by draw, and the containment part of `score` | - |
| `PropagationProofs` | theorems about `Propagation` | `Propagation`, `TLAPS` |
| `ReportServer`, `MCReportServer` | `serve.py`, the last lines of `run_demo.py` | - |
| `ReportServerProofs` | theorems about `ReportServer` | `ReportServer`, `TLAPS` |
| `AlertContract` | abstract specification: an alert waits, then it is reported for good, or lost in a crash or by a failed delivery | - |
| `Coordinator`, `MCCoordinator` | alert path of the blueprint: monitors, classifier, coordinator, their topics, their consumers with commits and replays, their producers with deliveries, second sendings and time-outs | instance of the contract |
| `CoordinatorProofs` | theorems about `Coordinator` | `Coordinator`, `TLAPS` |
| `Monitors`, `MCMonitors` | the four monitors of the blueprint, one Redis command at a time | - |
| `MonitorsProofs` | theorems about `Monitors` | `Monitors`, `TLAPS` |

`Agents` composes the five agents into the interface the protocol calls;
`Negotiation` composes protocol, agents, veto holder and solver. `Detection` and
`Negotiation` meet in the assessment: `Detection` says which ledgers can arise,
`Negotiation` starts from any assessment of its constant `Assessments`. That what it assumes of them
is what detection delivers is proved (`DetectionHandsOver`).
`Propagation` produces the attacks the assessment is about and scores the plans
`Negotiation` ends with; it takes any set of hosts as a plan, so it depends on neither.
`NetworkBuilder` says which networks `Topology` may take as finished; the three copies of
what a service depends on, which `Topology` reads as one, are kept apart there.
`Telemetry` fills the topics, `Monitors` reads them: what `Found` leaves of an event are the
traits `Monitors` starts from. `Monitors` ends
where `Coordinator` begins: what it puts into `published` is what `Raise` raises. Both stand for
`produce`, which only fills the buffer of the monitor's producer: that a crash or a time-out
can still lose the alert there is modelled in `Coordinator`.

### Correspondence of `Negotiation`

| Variable | Code |
|---|---|
| `ctx` | `NegotiationContext`, frozen after `build` |
| `proposals`, `objections`, `additions`, `counters` | the dictionaries of `NegotiationLog` |
| `surviving`, `vetoed`, `overridden` | `VetoDecision` |
| `pending` | the rest of the list the budget loop iterates over |
| `final` | `log.final_isolate` |
| `plan`, `status` | the solver's result |
| `phase` | the program counter of `AMCDSPipeline.run` |

The code runs on one thread, so each protocol phase is one step, except the budget
loop of the veto holder, where each turn is a step because its tests read the plan
that the turns before it shrank. The solver ends in one of four steps: no
candidates (`SolveEmpty`), a proven optimum, some feasible plan when time runs
out, or no plan at all (`SolveFallback`, which isolates the proven hosts only). CP-SAT is
the set of feasible, or optimal, selections: which of them it returns is free.

### Correspondence of the other modules

`Propagation`: a scenario is played once to find its truth (`ScenarioGenerator`), then
`score` plays two look-aheads from it. Each run makes a new `random.Random` from the same
seed (`Pool`, `SeedSets` and `Dwell` say which scenarios there are): `tape` is what any run has read of that seed so far and grows when a run reads
further, `read` is the place of the current run. One `Attempt` is one `rng.random()`;
`todo` is the rest of the two nested loops, as the set of edges still to be tried, of which
`Foremost` is the next in the order of both loops; `EndRound` is the end of the outer one.

`ReportServer`: `file` is `demo_report.json` as a sequence of chunks, each named by the
child that wrote it; `child` and `offset` are the processes `subprocess.run` starts;
`answer` is the HTTP reply of a regenerate request. `last` and `shared` are history.
`Stop` is Ctrl+C, which the terminal sends to the children too; after a signal to the server
alone its children would write on, which is left out. A demo may fail before it opens
the file or in the middle of its writes (`Fail`).

`Coordinator`: `queue[p]` holds what process `p` is still to be given, in no order
(topics have partitions); `taken[p]` what it was given since its last automatic commit;
`buffer[p]` what its producer, a monitor's too, has not had acknowledged. `sent` numbers the
messages of a kind about an alert, so that two copies are two messages. A message leaves the buffer
in three ways: `Deliver`; `Resend`, where it arrives, its acknowledgement is lost and the
client sends it again, which the broker cannot tell from a new message because the producer sets no
`enable.idempotence`; and `Expire`, where the client gives up and `_default_callback` logs it, which
stands for every delivery error, permanent ones included. A message that arrived but whose time-out
came first is a `Resend` followed by an `Expire`. A crash forgets memory and buffer and puts `taken` back into the
queue. A process that stops in an orderly way commits and delivers what it can, which are steps of their own, and then
it is a crash; so is the `BufferError` of a full producer queue, which `run` does not catch.
What the monitors consume is the matter of `Monitors`: one that replays its event raises another
alert, with an id of its own. `incidents` and `filed` are the state of correlator and strategy engine.

`Monitors`: `topic`, `taken` and `Crash` are as in `Coordinator`; `task` is the event in
`process_event` with the number of lookups done, the reply of the last Redis command
and the alerts of `analyze` so far. `cache` maps the live keys to their value and expiry;
`Tick` is Redis's clock. `sighted` is whether `initialize` found Redis: without it the
counters answer 0 and the lists are empty, for the life of the process. `log` is
history: what was added to each key, when, and when its expiry was renewed. An
exception of Redis in the middle of an event ends `run`, which catches nothing: it is a
crash.

`NetworkBuilder`: a host is its tier and its services, an edge the set of its ends with its
trust, the dependency graph a set of pairs. `cache` holds the graph the centrality was
computed from, which says what betweenness would only blur. `ready` and `moved` are
history. A call that raises before it changed anything is no step; `finalize` writes
tiers before it validates, so a failed one is a step.

`Telemetry`: `engine` says which of the two programs runs, `pc` where its loop stands;
`batch` is what of the tick is still to be produced, `queue` what the client holds, `topic`
what the broker has. `session` is `logged_in` and `session_start` in one. `topic` and `lost` are
history. A strike is what a module may emit, as a set: how often it repeats an event
in one tick is left out. Ctrl+C runs the `finally` clause (`Interrupt`, `Close`), any other signal
does not (`Kill`). A restarted engine begins a new behaviour.

`Timeline`: an event is its type, whom it is about, and the hosts it brings in and takes out;
the order of the events is the code's, and `Emit` its "for x in order: if ...: emit". The viewer of the replay (`Watch`, `Seen`) belongs
to the property.

### Abstractions

* Fidelities, strengths, risks and confidences are whole percents; the noisy-OR
  product is in millionths, rounded down at each factor, strongest first as
  `corroborating_items` sorts them. Path trusts are in 1/10000. Revenue is in units of
  `OBJECTIVE_SCALE` (INR 1000): every revenue of `network/builder.py` is a multiple
  of it, so the solver's rounding is exact.
* A Dijkstra over `-log(trust)` is modelled by what it computes, the largest product
  of trusts over paths. The instance keeps path trusts off the thresholds, where
  `exp(-sum(log))` could fall on either side.
* `emit_alerts` draws at random: a free choice of alerts and strengths.
* Alerts name hosts of the topology only, as the sensors do.
* Rationale texts, endorsements and the report's summaries are left out: nothing
  reads them back.

## 3. Runs

| Run | Instance | States | What it shows |
|---|---|---|---|
| `detection` | one host with up to three alerts and one with one, four sensors of both classes, two strengths, three model scores or no model | 142 155 | A host is confirmed only with a sensor alert, never by the model alone (`MlNeverConfirmsAlone`) or by repeats of one alert (`CorroborationIsIndependent`); appending evidence never clears a host, in any order (`EvidenceIsMonotone`) |
| `negotiation` | seven hosts, six services, three observations per host, the model on for all or off for all, two attack types | 76 116 | Everything below |
| `coordinator` | two alerts of one class 200 s apart, one with a strategy; one crash, message sent again or message given up | 102 436 | See below |
| `selection` | three alerts of one user, two with a strategy, no fault | until violated | Finding 1 |
| `monitors` | one monitor of each kind with three or four events, windows of two ticks, thresholds 2 and 3, one crash | 953 693 | See below |
| `propagation` | every scenario of the three attack types on five hosts, all 32 plans, three draws | 1 775 491 | See below |
| `prevented` | same | until violated | Finding 2 |
| `report_server` | three requests and a first run with reports of 1, 1, 3 and 2 chunks, two stops | 801 949 | See below |
| `ensured` | same, one stop | until violated | Finding 3 |
| `builder` | two hosts with every edge between and at them, two services, two trusts, two tiers | 820 706 | See below |
| `telemetry` | one user with two activities, or a scenario of four phases, over four ticks; a queue of two, a flush every second tick, one outage | 169 161 | See below |
| `injected` | same over two ticks, all activities and the background | until violated | Finding 4 |

What `negotiation` checks, with the failure each property would catch:

* `ConfirmedNeverLost`: a proven host is in the plan, whatever is objected, vetoed,
  over budget or timed out.
* `GoldNeedsEvidence`: a gold service goes down only with a proven host of it.
* `VetoIsFinal`: no later phase brings a vetoed host back.
* `MultiHostServiceKeepsSpare`: a service on several hosts keeps one, unless all are
  proven; the Data agent's own precaution (`DataAgentSpares`) is undone in COUNTER (it
  adds back the replica it spared), so this rests on the solver.
* `BudgetRespected`: the ceiling holds for the final plan even where the veto's
  budget loop leaves it exceeded.
* `ModelIsSatisfiable`: forced hosts, kept replicas and budget never contradict.
* `NoSpeculativeIsolation`: no chain of proposals and adoptions isolates a host
  that no alert, no score and no path of a trust of at least `MIN_PATH_TRUST`, however many hops it has,
  points at.
* `LoneObjectorNeverPrevails`: two supporters are outvoted only by two objectors,
  although objections were raised against proposals that have changed since.
* `AdoptionsAreTraced`: NOT_PROPOSED is never said of a host an agent held at the vote.
* `FreeCandidatesIsolated`: at the optimum, a candidate that costs nothing and
  carries risk is isolated.
* `ReplayAddsUp`: who only watches the replay of a decision sees the agents hold hosts,
  sees hosts leave the table, and ends with exactly the plan: nothing that decided the
  fate of a host is among what the timeline leaves out.
* `CandidatesOnlyShrink`: after COUNTER no step adds a host or loses a proven one.
* `Decides`: every negotiation ends.
* `ImplementsContract`: the refinement of `ContainmentContract`, fairness included.

What `coordinator` checks:

* `LossHasACause`: an alert is lost in two ways only: a process crashes after the timer
  committed its input and before its result was delivered, or a producer gives up a message about it. What is
  in a topic, or handed over and not committed, survives every step.
* `NoDoubleCounting`: the incidents hold an alert no more often than there were classified messages about it,
  so a replay never puts one message in twice, although nothing looks for duplicates; and
  an alert is in them twice only after a crash or a message sent again.
* `IncidentsHangTogether`: in every arrival order, an alert comes at most 300 s per place after any
  alert before it in its incident (`HangsTogether`). How long *before* is open: the window of the code looks one way. It
  shares an address or a user with an earlier alert, or the class of the first within 150 s after the last.
  And an attack is split only where an alert came late (`KeptApart`): an alert with the actor, or class,
  that opened an earlier incident is elsewhere only if it is more than 300 s, or at least 150 s,
  later than some alert of that one.
* `ImplementsContract`: the path implements `AlertContract`, with an alert that is left
  nowhere counted as lost: however often it is replayed or sent again, a report stays a report, only
  a crash or a failed delivery takes an alert, only a crash finds one again, and none waits for ever.

What `monitors` checks:

* `BurstIsSeen`: as many hits on a counter as its threshold, within one window, raise
  the alert, through crashes, replays and renewals. One case is excluded and real: a
  key that expires between INCR and EXPIRE starts again.
* `AlertsAreEarned`: the count of an alert is that many hits, each within a window of the
  one before, unless a crash cut one between INCR and EXPIRE, and no event counts
  more often than it can have been handed over. The hits may spread over several
  windows, because each renews the expiry: the text "8 files in 120s" of an alert
  is not what the counter means.
* `FreshItemsAreSeen`: users or ports that are all new within one window are counted.
* `PatternsAreReported`: what an event gives away by itself is published with or without
  Redis; only an event that was committed and then cut by a crash may be lost.

What `propagation` checks:

* `PivotsExplainSpread`: every host fell once, along an edge, unblocked, from a host
  that fell in an earlier round.
* `UntouchedPlanIsNeutral`: a plan that touches nothing the attack owns or could try
  scores as no plan. This is as far as the claim that the comparison measures
  containment alone is true.

What `report_server` checks:

* `SuccessLeavesReport`: a successful run that had the file to itself leaves its whole
  report, whatever it wrote over. Of a file that two runs write at once nothing is claimed: `regenerate` does not
  keep them apart, and the file may then mix both.
* `FirstRunEnsures`: a server that waited for its first run comes up with its report.
* `EveryRequestAnswered`: no request waits for ever for a child that hangs.

What `builder` checks:

* `CentralityIsFresh`: whatever was asked and changed before, `centrality()` answers for
  the graph as it is.
* `DependenciesAgree`: the veto asks the dependency graph, the solver `service_deps`, the
  report the host: for every service that was added once, all three say the same. For one that was
  added again they do not, since nothing removes the old edges; no code of the
  repository adds one twice, and the property says where the agreement ends.
* `TiersAgree`: in a finished network the derived tier of a host that carries services
  and `gold_tier_hosts()` agree, also after hosts and services were added to a
  network that had been finished before.

What `telemetry` checks:

* `SessionsBracket`: the events of a user are sessions: no second login in one, nothing
  outside of one, no logout before its minimum length.
* `LossNeedsOutage`: the client gives up an event in an outage or with a killed process;
  never by an interrupt, a full queue or a final flush.
* `EventsArrive`: no event stays on its way, though the broker may never come back.
* `RansomwareIsSeen`: a ransomware phase is found in each of its ticks, the first and the
  last included, unless the engine ends or the event is lost. Its shadow copy deletion
  is the only sign of a whole attack that survives finding 4, next to a privilege escalation
  that is never emitted.

### Bounds and why they are enough

Seven hosts are the least that have each role the rules name: an identity asset
that is a pivot and one that is a domain controller, two replicas of one service,
a gold service on two hosts, a workstation to start from, and hosts two hops
apart. Three observations per host put each below, between and above the
thresholds of at least one agent; the product of all of them, with the model on or
off, gives 4 374 assessments, of which those that coincide with the model off are
counted once. The ceiling of 9000 lies above the cost of some proven sets and below that
of others, so the budget loop drops, skips and gives up. In `detection`, three
alerts are the least with which repeats and corroboration can both happen, and the
noisy-OR is exact up to there.

In `monitors`, two ticks of window are the least in which a hit can fall at the start,
inside and at the end of one, the clock stops at the end of the first window, and
the thresholds 2 and 3 stand for 3 to 10. Two files of one sensitivity and one of another make two
keys of one user. Commits that no crash can follow are left
out: only a crash reads them. Events that differ in name
only are symmetric; no liveness is checked in this run.

In `coordinator`, two alerts and one fault of any kind give every order of raise, classification,
delivery, commit, crash, replay, second sending and failed delivery; three alerts or two faults are too many states
for TLC. With one fault a lost alert stays lost: that a later crash may bring it back, or that a message sent again
is then replayed, is covered by the proofs, which bound neither alerts nor faults; the liveness part of the contract is checked with one fault
only. The pair joins one
incident in one order of arrival and makes two in the other. `selection` uses
the third alert, which shares the address of one and the user of the other. In `propagation` the five hosts are a corner of `network/builder.py` with
its trusts; the three draws fall below and above the pivot probabilities of the
instance. In `report_server` three requests are the least with which a
shorter report is written over a longer one while a third run interferes, and a first run of two chunks may be cut between them; two
stops allow a stop during the recovery from a stop.

In `builder`, two hosts are the least with an edge and a service on one and on both; two
services let one host carry two tiers. In `telemetry`, users share no
state, so one stands for all; a session longer than its minimum, its logout and a
second login need four ticks (0 to 3); a queue of two overflows within one
ransomware tick of three events; phases of one tick, of two, overlapping, and of an unknown
type occur. The scenario's time is scaled: flush intervals of 100 and 500 ticks become 2.

### Fairness

`Decides` and the liveness part of the refinement assume weak fairness of `Next`: the
pipeline is a single thread that calls one phase after the other and blocks on
nothing but the solver, which has a time limit (`max_time_in_seconds`).

`ImplementsContract` of `Coordinator` assumes that consumers go on polling (`BaseAgent.run` loops) and that
producers deliver what they hold or give it up when `message.timeout.ms` is over (librdkafka's background thread):
which of the two is never forced, and neither are raising, committing, sending again and crashing. `EveryRequestAnswered` assumes only that the timer
of `subprocess.run(timeout=300)` fires; a child may hang anywhere. The first run of
`ensure_report` has no timer, so nothing is claimed of a server whose first run hangs.

`EventsArrive` and `RansomwareIsSeen` assume that the engine's loop goes on (`while True`, with
a sleep of one tick) and that the client's thread delivers what an answering broker takes
and gives up what times out (`message.timeout.ms`). Nothing is assumed of the broker: it
may stay away for ever, which the property allows for as a loss.

### Findings

1. **Strategy selection.** Monitors file strategies under the id of their alert, the
   coordinator looks them up under the id of the incident: none is ever selected.
2. **Spread prevented.** A blocked host takes no draw, so every later draw meets
   another target: the contained attack can reach more hosts than the free one.
   `score` hides this with `max(0, ...)`, which the documented formula does not have.
3. **Truncated report.** `ensure_report` takes every non-empty file for a report, and
   `run_demo.py` writes in place: after a stop during the write the next start serves a
   truncated file.
4. **Attack events unseen.** The attack engine produces the raw dictionaries of its modules.
   Only the normalizer of the simulation engine sets `class_uid`, on which the identity and
   network monitors dispatch, so the failed logins, phishing mails and injections of
   an attack, made "for detection by monitoring agents", are passed over.

More were met that no run shows:

* The budget rule of `apply_veto` passes over a host whose marginal cost is zero at its turn and
  never returns to it: two unproven hosts of one service both stay, and the plan handed
  to consensus may be over the ceiling, which the class documentation rules out. The
  solver's own constraint repairs the plan (`BudgetRespected`).
* The list of users of an address is renewed only by users who are not on it: one who
  fails again just before it expires is gone with it, and the threshold of distinct
  users "in window" can be met unseen (`FreshItemsAreSeen` is what holds). Port scans share this.
* `timestamp - last_seen > 300` lets a late alert of any age pass the documented
  300-second window (`IncidentsHangTogether` is what holds).
* A message that is sent again is classified and correlated again: an incident then counts one alert twice.
  A failed delivery is logged and the process goes on, so an alert is lost with no process at fault.
* `trace_host` decides from proposals alone, yet hosts also enter by adoption in COUNTER:
  such a host can be isolated, vetoed or dropped while no proposal names it
  (`AdoptionsAreTraced` is what holds).
* `BRUTE_FORCE_THRESHOLD` is never used: the failures of an address are counted only.
* A host with an edge to itself alone passes the orphan check of `validate`.
* `build_timeline` promises 15 to 25 seconds; its own constants give from about 13 seconds to
  more than 25, depending on the network.
* The normalizer hands `_sim=` to a pydantic model, which ignores the underscored name: every event
  carries the default seed and tick, and `docs/simulation_design.md` counts on them for replay.
  It also reads fields at the top level which the behaviour engine puts into `details`, so
  every file operation is a "read"; `internal_comm` is generated and never produced.
* Simulated logins never fail, and `telemetry.endpoint` has a reader and no writer.
* `lateral_movement` looks for servers in an enterprise state that has workstations only, since
  nothing writes the Redis key it is read from: the phase emits nothing (`ServersKnown`).
* The engines' 30 connection attempts never wait: creating the client does not fail when
  the broker is away.

## 4. Proofs

`NegotiationProofs` proves, for every network, team and set of assessments
allowed by `TopologyAssumption` and `NegotiationAssumption`:

| Theorem | Establishes |
|---|---|
| `TypeCorrect` | the type invariant |
| `Inductive` | the inductive invariant `IInv` |
| `ProvenHostsIsolated`, `VetoStands`, `GoldProtected`, `SpareKept`, `BudgetKept`, `NeverInfeasible` | the invariants `ConfirmedNeverLost`, `VetoIsFinal`, `GoldNeedsEvidence`, `MultiHostServiceKeepsSpare`, `BudgetRespected`, `ModelIsSatisfiable` |
| `OnlyShrinks` | the action property `CandidatesOnlyShrink` |
| `Implements` | initial states and steps of the negotiation map to those of `ContainmentContract` or to stuttering |
| `VoteIsAccounted` | the invariant `VInv` of objections and vote |
| `AdoptionsTraced`, `LoneObjectorLoses`, `NothingSpeculative`, `FreeIsolated` | the invariants `AdoptionsAreTraced`, `LoneObjectorNeverPrevails`, `NoSpeculativeIsolation`, `FreeCandidatesIsolated` |
| `ReplayTellsAll` | the invariant `ReplayAddsUp` of `Timeline` |
| `LoopNeverStuck` | the budget loop has a next host until it is done |
| `EveryStepCounts` | every step leaves fewer to take, at most n + 7 for n hosts |
| `DataAgentSpares` | the data agent never proposes all hosts of a service on several while one is unproven |

`DetectionProofs` proves, for every set of hosts, sensors, strengths and risks and any number of
alerts:

| Theorem | Establishes |
|---|---|
| `OnlyDetections` | the inductive invariant `DInv`: a ledger holds what the detectors can report |
| `TypeCorrect` | the type invariant |
| `MlNeverAlone`, `IndependentSignals` | the invariants `MlNeverConfirmsAlone`, `CorroborationIsIndependent` |
| `EvidenceOnlyGrows` | the action property `EvidenceIsMonotone` |
| `ScoresAgree` | the invariant `ScoresMatch`: a ledger has an item of the model exactly if the host scored above the threshold |
| `DetectionHandsOver` | the assessments are such as `NegotiationAssumption` asks for |

`DInv` bounds what a detector can report: 60 % by a medium sensor (`AlertDetected`), 75 % by the
model (`MlDetected`). The evidence rule keeps one item per type (`OnePerType`), so a host
confirmed without a hard item has two types of signal (`TwoTypes`), which one model never is; and two signals of
60 % leave 16 % of doubt where the rule accepts 10 (`TwoWeakSignals`).

`EvidenceIsMonotone` is not a matter of adding factors below one: a stronger item takes the place of a weaker
one of its type, and the rounded product depends on the order of its factors. So ledgers are compared by
dominance (`Dominates`): every corroborating item keeps its place or has a stronger heir
of its type in the larger ledger (`CorroborationDominates`), and dominated items leave at least as much doubt
(`DominatedDoubt`). The latter takes the weakest item from both sides, which is the last factor of the product
(`SurvivalStep`), and holds of the rest because a smallest counterexample has none below it.

`ReportServerProofs` proves, for every number of requests and every length of report:

| Theorem | Establishes |
|---|---|
| `ServerInvariant` | the inductive invariant `IInv` of the report server |
| `TypeCorrect` | the type invariant |
| `SuccessKept` | the invariant `SuccessLeavesReport` |
| `FirstRunKept` | the action property `FirstRunEnsures` |

Its argument: `SuccessLeavesReport` speaks of a run that has ended, and what makes it
true happens while the run writes. `LoneWriterOwnsFile` says that a writer that shares
the file with nobody opened it last and has written every chunk in it
(`WriteAppends`), and that a file opened alone has no other writer later, because a second
one would have opened it after. `ServerOwnsRuns` keeps the first run apart
from the requests. Its only assumptions are that every report has a chunk and
that the first run is no request.

`NetworkBuilderProofs` proves, for every set of hosts, services, trusts and tiers:

| Theorem | Establishes |
|---|---|
| `BuilderInvariant` | the inductive invariant `IInv` of a network under construction |
| `CentralityFresh`, `CopiesAgree`, `FinishedTiersAgree` | the invariants `CentralityIsFresh`, `DependenciesAgree`, `TiersAgree` |

The invariants are nearly inductive. What they lack is that a name never seen has left no
trace: `Recorded` (every edge of the dependency graph joins a service and a host that were
added) and the part of `Shaped` that bounds the services of a host. Without them a new service
could inherit edges. `TiersAgree` rests on `DependenciesAgree`, because tiers are derived from one
copy and compared with another, and on `StrictestGold`. Its only assumption is that tiers are
gold, silver or bronze, which `add_service` checks.

`TelemetryProofs` proves, for all users, scenarios, queues and lengths of a run:

| Theorem | Establishes |
|---|---|
| `LossExplained` | the invariant `LossNeedsOutage` |
| `SessionsLogged` | the inductive invariant `SInv`: the engine's session of a user is the one its events tell |
| `SessionsBracketed` | the invariant `SessionsBracket` |

For the first, `OutageCounted` is the strengthening: a broker that
is away is in a counted outage, so a flush that returned with events left has one to show.
`SessionsBracket` looks at events only, wherever they are, while the engine decides by `session`.
`SInv` ties the two (`Stands`: the last login has no logout after it exactly while the user has a
session) and says that all events of a user are from before the next tick (`Before`). Then what a tick
adds is later than everything (`LogActs`), what an ending loop drops is of its last tick
(`LogCut`), what has no topic is neither login nor logout (`LogSkips`), and the client only moves
events. Assumed is `TelemetryAssumption`: finitely many users, whose labels
are not those of the attack modules.

`PropagationProofs` proves, for every network, scenario, plan and sequence of draws:

| Theorem | Establishes |
|---|---|
| `RecordKept` | the inductive invariant `PInv`: the record of a run as it stands |
| `TypeCorrect` | the type invariant |
| `SpreadExplained` | the invariant `PivotsExplainSpread` |
| `NeutralPlans` | the invariant `UntouchedPlanIsNeutral` |

`PInv` gives what `PivotsExplainSpread` says of a whole run to each moment of it: what fell before
this round is compromised, what fell in it is new, and each source fell before its pivot
(`Record`; `RecordGrows` for a pivot more, `RecordTurns` for the end of a round). `UntouchedPlanIsNeutral`
compares two runs, the first of which is over before the second begins, so no relation
between their states is an invariant. `NInv` keeps the whole run instead: the moment a run
is in is reached by some film (`Film`), a sequence of moments from its opening, each of which moves to
the next as the tape says. More tape changes no film (`TapeGrows`), since a move reads only what
is known. When both runs are over, their films are compared moment by moment (`SameEnd`):
a run has one way to go on (`MoveUnique`, because the foremost edge is unique), and a wall that no
edge leads to is not noticed (`WallUnnoticed`). Assumed is `PropagationAssumption`.

`CoordinatorProofs` proves, for all alerts and monitors and every number of crashes, messages sent again and messages
given up:

| Theorem | Establishes |
|---|---|
| `PathShape` | the type invariant, by the inductive `Shaped` |
| `LossHasItsCause` | the action property `LossHasACause` |
| `AlertsAreAccounted` | initial states and steps of the path map to those of `AlertContract` or to stuttering |
| `NothingCountsTwice`, `IncidentsAreSound` | the invariants `NoDoubleCounting`, `IncidentsHangTogether` |

`Shaped` adds to the shape who may have written a message and who may be given it (`Routed`), that
its number was given (`Known`), that it is not both in a buffer and at its reader's (`Single`: without it a
delivery could queue what was already handed over), and that incidents are opened by an alert (`Opened`). `LifeEnds`,
`LifeBegins` and `LifeGoesOn` then say which steps may end, begin or keep the life of an alert; loss and contract follow
from them, with `LandIsReport` and `ExpireIsFail` for the producer.

`NoDoubleCounting` bounds places in the incidents by messages and holds only because a message under way
is not in an incident yet: `Counted` adds the classified messages under way (`Pending`) to the places and bounds
the sum by `sent`. A second sending raises both sides by one (`NumberedCounted`), handing a message over moves one to the places
(`MoreCounted`, `CorrelatedPlaces`), a failed delivery takes one away (`FewerCounted`), and a crash of the
coordinator restores messages but empties the places. Its second half rests on `Once`: until a crash or a second
sending there is at most one raw message about an alert, and it is classified once (`OnlyRaw`).

`IncidentsHangTogether` is an invariant by itself, since `correlate` decides by what it speaks of (`MatchesIs`). An alert
that matches the last one keeps its distance to all before (`LongerIs`, `MatchHangs`); one that opens
an incident matched none of the earlier ones, which gives the late alert (`NoMatchApart`), and one
that joins an incident was passed over by all earlier ones, because the first match is taken
(`CorrelatedIs`, `CorrelatedHangs`). Assumed is `CoordinatorAssumption` alone.

`MonitorsProofs` proves, for every telemetry, threshold, window and number of crashes, with Redis
or without:

| Theorem | Establishes |
|---|---|
| `PatternsReachTheTopic` | the invariant `PatternsAreReported` |
| `LookupsKept` | the inductive invariant `MInv` of cache, logs and verdicts |
| `TypeCorrect` | the type invariant, with `Timed`, what `MInv` leaves out of it |
| `BurstsAreSeen`, `FreshSeen`, `AlertsEarnedAlways` | the invariants `BurstIsSeen`, `FreshItemsAreSeen`, `AlertsAreEarned` |

For the first, `InHand` is the strengthening: no lookup drops an alert the patterns gave
before it. The other three speak of the histories of lookups, while a monitor decides by what Redis still
has. `MInv` ties each key to its history: a list holds what was looked up, and whatever of it is less than a
window old (`KeptList`); a counter counts every lookup since the first that is less than a window
old and was renewed (`KeptCount`), and each lookup it counts is followed by the next within the
window, or a crash came between (`Earned`). `ReplyKept` says the same of the list a monitor has read and not
yet written back, the step between which a crash may fall; `EachCounted` that a log has no event more
often than it may have been handed over, once more than there are crashes; `Verdicts` and `AlertsEarned` keep what was concluded. The
thresholds compare a count with a number of distinct things in a log, which is where counting
comes in (`Pigeonhole`, `FreshSize`). TLC checked `MInv` on the instance of `monitors` before it was proved.

**Assumptions of the negotiation.** The topology is what `validate()` accepts; the assessments are
functions on the hosts; the team holds at least one specialist. The last one is
needed: the veto holder alone proposes only proven hosts of gold services.

**Argument of the negotiation.** The invariants speak of the plan, and are not inductive: what makes
them true happens phases earlier. `IInv` records what each phase hands on.
`SpecialistsKnow`: from PROPOSE on each specialist holds every proven host, since
`counter` never concedes one (`CounterKeepsProven`). `VetoSound`: every survivor is
unguarded, every proven host survives, and nothing vetoed survives or is proven
(`RuleOneSound` for the first rule; the budget loop only touches `pending`, which
`TypeOK` bounds by unproven survivors). `VoteSound`: the vote keeps proven hosts by
its explicit exception and adds none. `PlanSound`: the solver's ways to end each
give a plan between the proven candidates and all candidates that meets the
constraints; `HardFeasible` shows the proven candidates alone are always feasible,
hence `ModelIsSatisfiable` and a fallback that is safe.

Three more strengthenings look inside the agents. `VInv`: objections are to what was proposed, those of the
veto holder to guarded hosts, and a pooled host survives or was vetoed (`NothingSlipsOut`), so a
host that left the table either was vetoed or lost a vote. One objector loses because of weights: two
supporters weigh at least what their confidences add up to (`WeightBounds`, from `SumFacts` and
`SumBounds`), which is more than any one agent that may object to an unguarded host. `Grounded`:
every unproven host in a proposal, a critique, a counter or the plan is pointed at by the context; it rests on what
each agent proposes and adds (`ProposesPointedAt`, `AddsPointedAt`), the paths the network agent
relaxes included (`BestPathsType`). `FreeTaken`: an optimum that left out a candidate that costs
nothing and carries risk could be improved by it (`FreeIsFeasible`, `ResidualStep`), so it is none.

`ReplayAddsUp` is about a sequence of events. What the viewer has seen at its end does not depend on the order
of most of them: the last of `Emit` that names an agent is its counter, since all proposals come before all
counters, and hosts only ever leave. That gives what is seen a closed form (`SeenIs`): the pool held; vetoed, outvoted and
dropped hosts gone. It adds up because the pool is no more than survivors and vetoed (`NothingSlipsOut`), no less than
the survivors (`FromThePool`), and a host without an objector is never voted out
(`UnopposedKept`), so every lost vote is contested and shown.

`LoopNeverStuck` and `EveryStepCounts` are what `Decides` rests on besides fairness. The first shows the
order of a round to be total (`SomeIsNext`), the second counts the hosts still to visit.

`DataAgentSpares` follows the data agent from service to service: a service once spared stays spared, because
what a later turn takes out of the set is never put back (`SparedIn`, `SpareOne`, `AllSpared`).

Sums, products and relaxations are folds, and so is the walk over the services. That a fold computes what its recursion says is proved
without induction over data: of the sets, or numbers, where it does not, there would be a
smallest one (`SmallestOf`, `LeastOf`, from the well-foundedness of strict inclusion).

**Only model-checked.** `Decides`, `EveryRequestAnswered`, `EventsArrive`, `RansomwareIsSeen` and the
liveness part of both refinements: temporal reasoning under fairness is left to TLC.
Every other property of a passing run is a theorem. `TypeOK` of `Detection`, `Monitors` and
`Propagation` is no invariant of a run: it is proved (`TypeCorrect`).

## 5. Plan

In the order of what matters to a decision:

1. `Evidence`, `Detection`, `Topology`, `Agents`, `Negotiation`, the contract and its
   proofs: done.
2. `Coordinator`, `Monitors`, `Propagation`, `ReportServer` and the proofs of the last: done.
3. `NetworkBuilder`, `Timeline`, `Telemetry` and their proofs, `AlertContract`: done.
4. `CoordinatorProofs` and `MonitorsProofs`: done.
5. The invariants of detection, vote, replay, lookups, sessions and spread (`DetectionProofs`, `PropagationProofs`, the
   second halves of `NegotiationProofs`, `MonitorsProofs` and `TelemetryProofs`): done.
6. A theorem still worth stating is about a query, not a run: that the attack surface only grows
   with the hosts it starts from.
7. The QUBO baseline as an operator, against the solver's constraints.

## 6. Not modelled

* The risk model and its synthetic telemetry: statistics; the score is a free input of
  `Detection`.
* The alternative solvers: baselines of the benchmark, off the decision path.
* The benchmark's tables and caches: arithmetic over finished decisions.
* The dashboard backend reads databases and changes nothing; its `broadcast` is never called. The
  front ends only display, the player of the replay among them.
* The business agent of the blueprint publishes to the topic it reads, so by its code every
  incident comes back to it for ever; there is nothing for a model to decide.
* Of the simulation engine, the enterprise it generates once and the simulators its loop never
  calls. Of both engines, the in-memory buffer used where the Kafka library is missing.
* Of the telemetry client, a broker that answers too slowly for a final `flush(10)` or `flush(5)` is read as an outage, and errors of
  a broker that answers (an unknown topic, a message too large) are left out.
* The text matching of the blueprint's monitors, and floating-point rounding at thresholds, which
  is out of reach of this model.
