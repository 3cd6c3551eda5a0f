# Verification of the NEXUS platform (Overwatch)

Overwatch watches, heals and exercises a second platform (Forgewing). It is one
Python process (`nexus.server`): a FastAPI event loop, background loops that
hand blocking work to threads, a graph database (Neptune) and Postgres, which
survive restarts, and module-level dictionaries, which do not. During a rollout
two such processes run. This directory holds TLA+ models of its parts, the TLC
configurations that check them on small instances, and TLAPS proofs of what
matters most for every instance.

```
tlc -workers 2 -config HealDaemon.cfg MCHealExecutor     one run
tlapm HealExecutorProofs.tla                             one proof module
```

`PROJECT.json` lists the components, the runs and the properties they check,
for every property a mutation of the model that breaks it, the source lines of
every definition, the hazards of the code, the disagreements found and the
theorems.

## 1. Inventory

Paths are below `src/nexus/`.

| component | state | operations | what makes it hard | what makes it correct |
|---|---|---|---|---|
| heal chain executor: `reasoning/executor.py`, `heal_chain.py` | `_active_chains`, `_cooldowns`, `_last_outcomes`, `_escalation_last_fired`, all in memory | `execute_or_continue_chain`, `execute_decision` | a chain lives across polls whose decisions change; two paths fire the same capability; memory is lost on restart | a chain walks its table, ends, and is followed by a message; gates hold on both paths |
| triage: `reasoning/triage.py` | none (tables) | `triage_daemon/ci/tenant/capability/performance/event` | order of the patterns, suppression rules | total, first match wins |
| sensors: `sensors/*.py` | none, or a short window | `check_*` | verdict and decision read different fields; failed reads look like empty answers | the two agree |
| capability registry: `capabilities/registry.py` | the call window of the last hour | `register`, `execute` | one budget for all sources, exempt capabilities | no counted call without a slot |
| status and incident routes: `dashboard/routes.py` | none | `GET /api/status`, `close-stale`, the routes that start work | some sources are polled only when bad | every fault that ends is closed |
| overwatch graph: `overwatch_graph.py` | incident, batch, run, candidate, banner rows | queries, each atomic; one that fails reads or writes nothing and says so to nobody | read, then write, by several threads | counters agree with rows |
| dogfood batches: `capabilities/deploy_cycle.py`, `dogfood_capability.py`, `sensors/dogfood_sensor.py`, `learning_overview.py` | batch, run, configuration, schedule rows | the deploy loop's steps, six routes | abandoned threads, check-then-act, restart between two queries | a batch fires no more than requested, counts only what it fired, and drains |
| alert dispatcher: `reasoning/alert_dispatcher.py`, `telegram.py` | `_last_fired` | `maybe_alert` | the window is taken before the send | what stands reaches the phone |
| pattern learner: `reasoning/pattern_learner.py` | candidates in memory, graph, file and pattern table | capture, approve, reject, graduate, reload | four copies, best effort, any order | graduated only with enough approvals; judgements survive |
| CI loop: `capabilities/ci_cycle.py`, `ci_healer.py`, `ci_heartbeat.py` | last cycle's hung jobs, kills of the hour | heartbeat, kill, learn, restart | the job changes between sighting and kill | no kill on one sighting; a wedged job is dealt with |
| deploy decision: `deploy_decision.py`, `ci_decision_engine.py`, `ci_gate_override.py` | one override row | evaluate, set, clear | many factors, expiry on read | a worse platform is never judged better |
| tenants: `capabilities/tenant_actions.py`, `lifecycle_watchdog.py`, `onboarding_monitor.py`, `consistency_auditor.py`, `sensors/tenant_*` | banner rows | poll, judge | four watchers that read different facts, each of which may fail | no stall unseen; banners settle |
| tenant operations: `capabilities/tenant_ops.py` | the tenant's secret | refresh token, verify, diagnose, retry | customer reinstalls between read and write | the token belongs to the installation |
| Forgewing API: `capabilities/forgewing_api.py` | a cached key | call, refetch, resend | threads share the cache, the key rotates | refused only when disturbed |
| diagnoses: `capabilities/feature_diagnosis.py`, `scheduled_diagnosis.py` | queue, active set, timeline | start, phases, reclaim, schedule | a reclaimed job goes on; its end starts the next | the queue drains |
| research, investigation: `capabilities/research*.py`, `investigation.py` | project rows | start, gather, synthesize, store | background task against restart and failed writes | researching means a run is under way |
| synthetic journeys: `synthetic_tests.py` | one cache of results | run, serve, journeys | loop, thread and request side by side | what is served is current |
| findings: `findings.py` | fingerprints, the last cycle | `track_and_classify` | return after resolution | a reader of every report is right |
| approval: `overwatch_v2/auth`, `tools/_approval_gate.py`, `tools/registry.py` | token rows, two audit sinks | issue, verify, consume, dispatch, audit | concurrent use, expiry, best-effort audit | a token runs at most one call, the one approved |
| ontology v2: `overwatch_v2/ontology` | version rows, nodes | propose, update, link | three transactions per update, several writers | one current version, stores agree |
| read tools: `overwatch_v2/tools/read_tools` | none | validate, assume, tag check, call, page | parameters chosen by a model | a foreign resource is never read |
| ontology v1 and proposals: `ontology`, `mechanism1` | version rows, nodes, events, proposal rows | propose, update, roll back, dispose | two stores, no state test before a disposition | the graph shows what is recorded |
| questions to founders: `askcustomer` | question rows, paused executions | enqueue, answer, resume | several answers, a lost resume | resumed with the answer on record |
| echo: `aria_v2` | turns of a conversation | chat, append, list | transactions that fail or lose their answer, recursion | what was answered is on record, in order |
| forge: `forge` | branches and pull requests, budget in memory | propose, suggest, restart, roll back | two servers, five calls that may fail or be lost | a pull request shows one patch, its own |
| migrations: `operator/db_apply_migration*.py` | the ledger table | apply, verify | two operators, crash, drift | applied once; reports are true |
| tenant repairs: `operator_*.py` | the tenant's nodes | create project, repair, purge | the platform writes between the queries, which are planned by a census | what was an orphan is cleaned up |
| operator features: `operator_features` | definition nodes and edges | bootstrap, read the holograph | a failed query looks like an absence | green is earned |
| server loops, runner health, platform healer, code auditor, reports, AWS client, front ends, infrastructure | see `PROJECT.json` | | mostly external I/O | |

How they interact. The dashboard's timer calls `GET /api/status`; each call
reads the sensors, asks triage for a decision, leaves the tenants' banners, and
hands the decision to the alert dispatcher and to the executor, which calls
capabilities through the registry and opens, acknowledges and resolves
incidents in the graph. Operators teach the learner from those incidents, and
what it graduates is offered to the executor as a candidate. The deploy loop
runs beside all this: seven steps a minute, each in a worker thread with a
timeout, which share dogfood rows with each other and with the routes. The CI
loop kills hung workers. The deploy advisers read chains, incidents and the
override. Agents (echo, the V2 dispatcher) read through the read tools and
mutate through the approval gate. Nothing but the graph, Postgres and the
secret store survives a restart.

## 2. Modules

| module | role |
|---|---|
| `HealCatalogue`, `Triage`, `SensorReports` | the executor's tables, triage as operators, reports computed from the facts behind them |
| `HealExecutor` | the executor, the registry's window, incidents, time and restart |
| `BatchLedger` | abstract: what a batch of slots promises |
| `DogfoodBatch` | deploy loop, sensor and kick threads, requests, rows; implements `BatchLedger` |
| `VersionLog` | abstract: what a versioned store promises |
| `OntologyStore` | the V2 ontology's updates in three transactions; implements `VersionLog` |
| `ApprovalGate` | tokens, concurrent dispatches, audit |
| `DbMigration`, `Diagnosis` | operators' migrations; the queue of diagnoses |
| `CiCycle` | heartbeat, healer, breaker and learning over jobs and runners |
| `PatternLearner`, `DeployGate`, `TenantRepair`, `Loom`, `FounderAsks`, `ReadTools` | what operators, founders and agents command and consult |
| `TenantWatch`, `ForgewingApi`, `TenantOps`, `SyntheticTests`, `AlertDispatch`, `FindingsTracker`, `EchoTurns`, `Research`, `FixProposals`, `Holograph` | how the server looks at its tenants, acts for them and tells of them |
| `MCHealExecutor`, `MCDogfoodBatch`, `MCCiCycle` | the real tables and observations; symmetry; two runners of which one's name begins the other's |
| `MCSubstrate` | `OntologyStore`, `ApprovalGate` |
| `MCTasks` | `DbMigration`, `Diagnosis` |
| `MCOperations` | `PatternLearner`, `DeployGate`, `TenantRepair`, `Loom`, `FounderAsks`, `ReadTools` |
| `MCOutlook` | the ten modules of the row that begins with `TenantWatch` |
| `*Proofs` | eight modules of theorems, section 4 |

The last four `MC` modules are *unions*: their components share no state, so
instead of exploring a product, a variable `part` chooses in the initial state
which of them moves, and the others stay as they start. A union is a list of
instances, checked in one run; it says nothing about interaction, of which
there is none in the code beyond what each module already takes as its input.

### HealExecutor

A **poll** of a source is one call of `execute_or_continue_chain`. The route
that makes it contains no `await`, so it is one atomic action, `Poll(s)`, whose
disjuncts are the branches of the code in order: `KeepWaiting`, `VerifyHealed`,
`ExhaustChain`, `AdvanceChain`, `StartChain`, `ActWithoutChain`. The last three
end in `ExecuteChainStep` (refused as dangerous, succeeded, failed, over budget)
or `ExecuteDecision` (skip, escalate, escalate for a human, hold, succeed,
fail). Whether a capability succeeds is the environment's choice.

| variable | code |
|---|---|
| `activeChain[s]` | `_active_chains`: `pattern`, `current_step`, `cycles_waited`, `cycles_to_wait`, number of `attempts` |
| `cooldown[cap, target]` | `_cooldowns` with `_last_outcomes` |
| `escalation[s, action]` | `_escalation_last_fired` |
| `lost` | the pairs `<<s, action>>` whose last message did not arrive |
| `phone` | Telegram: 0 while it refuses messages, `n` when it has answered for `n - 1` units |
| `callTimes` | `CapabilityRegistry._call_times`; only the last `BudgetSize` calls can matter |
| `incident[s]` | the open incident node of the source |
| `report[s]` | what the sensor would say now, with triage's decision of it |

Times are countdowns: `left` is the time until the entry is as good as absent,
`Tick` is a unit of time, and any number of polls fits into a unit. `Restart`
empties what is in memory and keeps incidents. `ReportChanges` lets the world
move to any observation the source can deliver, `PhoneChanges` lets Telegram
stop answering or answer again. `CloseStale` is the route of
that name.

`Escalate` takes the deduplication window *before* `send_escalation` runs
(`executor.py:178`, `:213`). A send that fails, or that Telegram answers with
anything but 200, makes `send_alert` return `False`, raises nothing, and the
window stays taken; `_escalate` answers `"alert_sent"` all the same. So a taken
window is not a message: `Told(s, a)` is one that is taken *and* whose message
arrived.

`Observations` are computed, not invented: `SensorReports` enumerates the
*facts* behind a report, builds the report as the sensor does (`DaemonReport`,
`Rollup`, `CapabilityVerdict`, `ContextHealthy`), applies `Triage` and adds the
`sensor_healthy` argument and the condition under which the route calls the
executor at all. That is how a stuck deploy can come with `healthy = TRUE`.

Abstracted: wording of messages, reasoning text, action history; best-effort
graph writes that only log when they fail; graduated patterns appended to
`KNOWN_PATTERNS`; confidence in percent. A candidate the learner offers is an
input (`NoCandidate`, or one below or above the gate).

### DogfoodBatch and BatchLedger

In production every access to a dogfood row is one Neptune query, which is
atomic; between two queries any thread may run. `overwatch_graph.query` never
raises (`overwatch_graph.py:98-114`): while the graph is away (`answers` is
false) what reads gets no rows and what writes does nothing, and nobody is told.
`GraphChanges` takes it away and brings it back between any two queries, so any
one query may fail and its neighbours succeed. A slot may even be taken and its
answer lost (`KickFindsExhausted`). So an action is a query (or a
step without one), and what a thread has read and not yet used is state:
`sensor[t].todo` is the list a pass made at its start, with the batch and age
each run had *then*; `kick[t]` is where a kick is and what it holds; `call[c]`
is the same for a request, the schedule check and the completion check.

| variable | code |
|---|---|
| `batch[b]` | `OverwatchDogfoodBatch`: `requested`, `remaining`, `completed`, `cancelled_at` |
| `run[r]` | `OverwatchDogfoodRun`: `status`, `batch_id`; `late`: older than `DOGFOOD_MAX_WAIT_MINUTES` |
| `config`, `schedule` | `OverwatchDogfoodConfig`, `OverwatchDogfoodSchedule`; `by` and `due` reduce `activated_by` and `next_run` to what is tested |
| `answers` | whether Neptune answers |
| `cycle` | the step of `run_deploy_cycle`, and the thread it awaits |

The deploy loop awaits its sensor and its kick with `asyncio.wait_for` around
`asyncio.to_thread`: on a timeout it goes on, *and so does the thread*. With
`MayTimeOut` the model lets the loop leave any thread behind; `SensorThread` and
`KickThread` say how many of a kind may be at work at once. A request runs on the event loop without
`await`: while it is in progress `LoopTurns` is disabled, but threads and the
schedule's thread go on. `Restart` loses threads and requests at any point.

`MayQueue` is a bound: it stops calls that would create more than `MaxBatches`
batches. `KickRecords` is disabled when `MaxRuns` runs exist; the kick may
still fail there. `MaxCounted` stops the count of a batch's completions, which
grows without end when the graph loses status writes. Left out: the catalogue
cursor, the reconciler, auto-approval
(steps of the loop that touch none of these rows), the environment switch
`DOGFOOD_ENABLED` (unset), and the first `get_dogfood_config` of an empty
graph. The reasons a run ends (success stage, failure stage, stall) are one
nondeterministic answer of the sensor, as is an unreadable progress.

`BatchLedger` is the promise that survives all of this: a slot is free, then
taken by a launch or wasted, and a launch fires one run or is lost; no slot comes
back, and a batch is only counted for when it has fired. `KeepsLedger` is
`Ledger!Spec` under the refinement mapping that reads *launching* as the kicks
that hold a slot and *fired* as the runs stamped with the batch. That each run is
counted once is not promised, because it is not so: section 5.

### OntologyStore, VersionLog and ApprovalGate

`update_object` reads, supersedes, inserts and merges, each a transaction; a
call of writer `w` is `call[w]`, with the version it read (`base`). Any step
may raise, be carried out with its answer lost, or be the last of its process.
`disturbed` records objects for which that happened or which two writers worked
on at once: `QuietObjectsAgree` promises nothing of those, and everything of
the rest. `ApprovalGate` splits a dispatch where another one can get in:
checks, consumption, handler, the two audit sinks, of which each may fail.

### DbMigration and Diagnosis

A task takes its ledger key as the database makes it: at the insert of an
uncommitted row a second task waits. Images may hold different texts of a file,
which is what drift is. In `Diagnosis` an action is what a coroutine does
between two awaits; `reclaimed` counts the jobs taken for dead, which go on.

### CiCycle

Heartbeat, heal and learning are separate steps since jobs and runners move
while the threads of a cycle are awaited. The kill asks for the *oldest* worker
process of the runner, whatever it runs by then. The instance is looked up by the
filter `*name*` (`ci_healer.py:68`), so that it may be that of a runner whose name
contains this one's: `Alike` is the relation, `Instances` what the look-up may
answer. Sightings may be wrong about any job (GitHub is read in pages); time
passes in units of the breaker's hour.

### What operators and agents command (MCOperations)

* `PatternLearner`: the four copies of a candidate are four variables; a
  restart keeps the graph and the file, a replaced container only the graph. The
  rewrite of the file may stop half-way and leave it `torn`, which no later
  approval can mend (`pattern_learner.py:262`). `hidden` names the candidates the
  last start did not load because the graph did not answer.
* `DeployGate`: every factor of both advisers as a function of a platform
  record, asked while the platform moves and the override lapses.
* `TenantRepair`: each request is a sequence of queries with a census it holds;
  the platform writes nodes in between. `Orphan` is the code's test, which a node
  of the default project passes too (section 5).
* `Loom`: a version row and a node per object, with the event; dispositions
  call it. `FounderAsks`: the answer's transaction and the resume after it.
* `ReadTools`: one dispatch through its guardrails; an answer is reduced to
  whether something is missing from it and whether it says so.

### How the server looks at its tenants (MCOutlook)

* `TenantWatch`: facts of a tenant, the banners in the graph, the verdict of
  each watcher as an operator of what it *read*. `PollTenant(failing, crashed,
  lost)` lets any one read fail, the check crash, or one banner's write be lost.
* `ForgewingApi`: `_get_api_key` looks at the cache, fetches the secret, stores
  what it fetched and reads the cache again, four points between which other
  threads get, so that a slow fetch may put the key of before a rotation over a
  newer one. `disturbed` says which calls were under way when that, a failed
  fetch or a rotation happened, or were about to read a cache that was dropped.
  `TenantOps`: one action per external call.
* `SyntheticTests`: each asker runs the journeys one after the other while the
  world moves, and stores its results over whatever is there.
* `AlertDispatch`, `FindingsTracker`: a poll, a cycle. `Worthiness`, window,
  budget and a failing send are separate conditions.
* `EchoTurns`: a transaction that reads `MAX(turn_index) + 1`, inserts, counts,
  and the recursion when it fails.
* `Research`: the run as its awaits divide it; each query may read nothing or
  lose its write. `FixProposals`: five calls to GitHub, each of which may fail
  or be done without an answer, by two servers.
* `Holograph`: definitions and edges over a graph that fails; a report reads
  dependency by dependency.

## 3. Runs

The suite is kept to a dozen runs that can be repeated at every change; each of
them ends within a few minutes on two workers.

| run | instance | checks |
|---|---|---|
| `heal_daemon` | the daemon source, its 3-step chain with waits 2, 1, 1, learned candidates, a Telegram that refuses and answers; cooldown, grace and deduplication of one unit, budget of 2 calls in 3 units; fairness | `AttemptsWithinCap`, `GivesUpLoudly`, `EveryHealIsBudgeted`, `ChainEnds`, `HealthResolves`, `FaultReachesOperator` |
| `batch_slots` | one batch of two queued by a request, one sensor and two kick threads, timeouts, restarts, both cancel routes, a graph that goes away | `BatchNotOverfired`, `KeepsLedger` |
| `batch_life` | two batches of one, two runs, one thread of each kind, every request but `batch/cancel`, the schedule's batches, a graph that goes away, no timeouts or restarts; a sensor pass lists one run; fairness | `BatchDrains`, `RunsEnd` |
| `substrate` | three writers or attempts, two objects or tokens, two calls, three versions, a lifetime of two units | `GraphIsBacked`, `QuietObjectsAgree`, `ImplementsVersionLog`; `OneMutationPerApproval`, `AuditIsTrue` |
| `ci` | two jobs on two runners of which one's name begins the other's, one kill in two units, an antipattern at three hangs; fairness | `HealedWasSeenTwice`, `WedgedJobIsHandled` |
| `tasks` | two migration tasks over two files with two texts each; three diagnoses, one scheduled; fairness | `LedgerInSync`, `ReportsHold`, `WorkGoesOn` |
| `operations` | six components, below | `GraduationIsEarned`, `JudgementsAreDurable`, `WorseIsNeverBetter`, `CleansUp`, `GraphIsRecorded`, `ResumedWithTheRecord`, `ForeignNeverRead` |
| `outlook` | ten components, below | `TenantsAreSeen`, `RefusedOnlyWhenDisturbed`, `TokenMatchesInstallation`, `ServedIsCurrent`, `OperatorsKnow`, `AnsweredIsOnRecord`, `ResearchingMeansRunning`, `ShowsItsOwnPatch` |
| `find_healed`, `find_accept`, `find_progress`, `find_cancelled` | small instances | one statement of the code's own text each, violated: section 5 |

Three properties are conjunctions of what several components promise:
`TenantsAreSeen` is `NoStallUnseen /\ BannersSettle`, `OperatorsKnow` is
`StandingIsTold /\ ReaderIsRight /\ GreenIsEarned`, `WorkGoesOn` is
`TasksEnd /\ QueueDrains`.

**What the properties leave out**, because the code does not provide it:
`GivesUpLoudly` excepts a chain that ends before Telegram has answered for one
whole deduplication window, since a lost message keeps its window, and
`FaultReachesOperator` asks for a Telegram that answers for good;
`EveryHealIsBudgeted` says nothing of the step that is refused; `KeepsLedger`
allows a run to be counted more than once or never, and a slot to be wasted;
`BatchDrains` and `RunsEnd` ask for a graph that answers for good;
`HealedWasSeenTwice` is about the job queued for healing and not the process
killed for it; `JudgementsAreDurable` excepts a name that was captured after a
start that could not read the graph; `CleansUp` excepts what was written after
the repair began and what a repair relabels for the default project;
`NoStallUnseen` excepts the brief of a second project, which no watcher covers;
`BannersSettle` excepts the cloud banner of a customer who starts over;
`RefusedOnlyWhenDisturbed` and `QuietObjectsAgree` except what was disturbed,
section 2 says by what; `OperatorsKnow` excepts an alert whose send failed and a report of a feature
that has two nodes or for which the graph failed; `AnsweredIsOnRecord` allows a
turn to be there more than once;
`ResearchingMeansRunning` excepts projects left by a restart or a lost write.
Most of these exceptions are shortcomings named in section 5.

**Why these bounds.** Any number of polls fits in a unit, so that a countdown of
one unit is running or over at any point of a chain. The third case of a
cooldown, past the grace period of a failure and still running, needs two units
and more states than the run has time for; `SingleActionsCoolDown` is proved for
every length. The budget's window is longer than the others, so that calls leave
it one by one. The chains are the code's own, at their real
lengths and waits. Sources interact only through the budget (and shared
cooldown targets), which a budget of one or two slots exhausts with one source;
the proofs cover any number. For batches, two slots are the fewest for which a
last slot is contended after another was used; two kicks are the
fewest that overlap, and a third would wait for the same slot; one sensor that a
timeout leaves behind still meets the cycle, restarts and kicks of after it. Two
batches, in `batch_life`, are the fewest of which one is queued while another is
active or ends. Completions are counted up to one in `batch_slots` (whether a
batch is counted for at all is what the ledger asks) and not at all in
`batch_life`, whose properties do not read them. The proofs have none of these
bounds. `CIRCUIT_WINDOW = 10` with 2 successes is
scaled to 1 and 1, so that one failed run opens the circuit and run_batch's
reset closes it; the look-back limits are scaled with it. In `batch_life` the
pending list is cut to one run so that the limit of 50 bites.

For `substrate`, three writers let one supersede, one be refused by the primary
key and one come after; three versions are the fewest with a predecessor that is not
the first. The kill limit
in `ci` is one, so that a second hung job meets the closed breaker. In `tasks`
three diagnoses are one that runs, one that reclaims it and one that waits;
`MaxRun = 0` lets any running diagnosis be taken for dead. `operations` has a
threshold of two approvals, three nodes of which one is no orphan, two founders
and two answers, an override of one or two units, a source that holds more
events than the caller asks for. `outlook` has three API callers and one
rotation, at any point of a fetch, a call or a resend (three callers are the
fewest of which one holds an old key fetched, one has fetched the new one and one
is refused), one operation of a tenant's
capabilities at a time against a customer with two installations, two askers
over a cache that ages in one unit, a window of two ticks, three findings, two
chats of up to four turns, two research runs of one project, two servers that
propose one finding with one concurrent edit, and a graph with room for a
duplicate of a feature.

**Fairness.** `heal_daemon`: time passes, and every source the route polls is
polled again and again, which the dashboard's `setInterval(loadAll, REFRESH_MS)`
provides for as long as somebody has it open; nothing is assumed of reports,
Telegram, restarts or `close-stale`: where a property needs them to settle, it
says so as its premise. `batch_life`: threads run, requests finish, and runs
grow old (weak fairness); the loop's steps get *strong* fairness because a
request holds the event loop and asyncio serves ready callbacks in order, so
that a stream of requests cannot starve the loop; requests, midnight, restarts
and the graph owe nothing, and the premise `<>[]answers` of the two properties
says what they ask of the last. `ci`: the loop's three parts go on, GitHub is now and then
read completely twice in a row, and of each hung job the instance is found and
its worker answers. `tasks`: a started task is carried on, strongly, because the
database wakes those that wait for a key and passes none over for ever; each
coroutine that is ready runs.

**Deadlock** is checked in every run but six. `substrate`, `tasks`,
`operations` and `outlook` are made of components that really come to rest: a
call, a task or a request ends, and a bound (versions, jobs, runs, turns) keeps
new ones from coming. `find_accept` and `find_progress` are instances of such
components. The heal loop, the deploy loop and the CI loop never stop, and
deadlock is on for them.

## 4. Proofs

Every theorem holds for every value of the constants that satisfies the named
assumptions of its modules. Each is proved along the same line: an inductive
invariant, which a lemma per action preserves, implies the property. The
assumptions say that bounds and thresholds are natural numbers, that a name for
"nothing" is none of the values it stands beside, and, where the code has such a
table, that it is well formed: `ConstantsAssumption`, `ChainAssumption`,
`BoundsAssumption`, `SizesAssumption`, `BoundAssumption`, `LifetimeAssumption`,
`NamesAssumption`, `FileAssumption`, `TextAssumption`, `NumbersAssumption`,
`AlertAssumption`, `ChatAssumption`, `ForgeAssumption`, `HolographAssumption`,
`TtlAssumption`, `ThresholdAssumption`, `NoneAssumption`, `LabelAssumption`,
`ProjectAssumption`, `DurationAssumption`, `ReadAssumption`, `AlikeAssumption`,
`DiagnosisAssumption`. TLC evaluates each on the instance of its run. No theorem
of a component has a hypothesis beside them.

**Heal chains** (`HealExecutorProofs`; `ChainAssumption` says that every chain
has between one and `MaxTotalAttempts` steps).
`TypeCorrect`, `WaitsCorrect`, `AttemptsCapped`. The cap is declared in the code
and compared nowhere, so it is true only because of how chains are walked. It is
not inductive: a state may satisfy it with an attempt too many for the step it
is at. `Inv` adds `ProperChain`: at its k-th step a chain has made at most k
attempts, since an attempt is made only on *entering* a step; together with
`step < Len(chain) <= cap` this gives the cap. `EndsAreLoud` needs more: that the
window is taken says nothing, since its message may be lost. `Inv` therefore
orders two clocks (`LossIsOld`): what is left of a window whose message was lost
is at most what Telegram's streak of answers leaves of one window, so that once
Telegram has answered for a whole window no lost message holds one. From it and a
case analysis of `Next` follow `EndsAreLoud`, `DangerIsRefused`,
`HealsAreBudgeted` and `SingleActionsCoolDown`.

**Batches** (`DogfoodBatchProofs`, any number of batches, runs, threads and
sizes, with threads left behind by timeouts, restarts, every request and a graph
that answers or not).

* `TypeCorrect`: in particular `remaining` never goes below zero.
* `NeverOverfired`: `BatchNotOverfired` relates two cardinalities (runs stamped
  with a batch; kicks that hold a slot of it) to a counter. With the types it is
  inductive. `QuietFields` disposes of all steps that leave the three fields
  alone or only shrink the sets; `ReserveStep` shows that taking a slot adds one
  holder and one to what was given out; `StampStep` that a stamp moves one kick
  from the holders to at most one new run.
* `LedgerIsKept`: `DogfoodBatch` implements `BatchLedger`, every step being a
  step of the ledger or none. The refinement mapping counts holders and stamped
  runs, so each step needs the two cardinalities before and after it; and a count
  needs a run that was fired. `FiredInv`: the runs a sensor has listed still have
  the batch they were listed with (`JobsAreCurrent`), what it is about to count for
  has fired (`CountsFired`), and the run a kick is to stamp is recorded, has no
  batch, and is no other kick's (`StampsFresh`).
* `CountedWereFired`: composed with `BatchLedgerProofs!LedgerPromise`, which is
  proved of the ledger alone: free slots, kicks under way and runs fired fit in
  what was requested, and what shows a completion has fired.

**Ontology** (`SubstrateProofs`, first part). `LogInv`: the versions of an
object are `1..n` and only `n` can be current (`Gapless`), and a write that is
under way finds what it prepared (`Prepared`: what a writer will insert follows
a version that is superseded by then). From it `CurrentIsNewest`, `GraphBacked`,
and `StoreImplementsLog`: the three-transaction update implements `VersionLog`,
step by step. `QuietAgreement` needs more: an undisturbed object has at most one
writer, and that one stands where its step says (`Tracked`, `OnTrack`).

**Approvals** (`SubstrateProofs`, second part). `ApprovalsAreSingleUse` and
`AuditTells`, from `GateInv`: a dispatch past the gate's checks presents a token
given for its call, two dispatches that won do not share a token (`Alone`), and
what has not happened yet to a dispatch is neither performed nor recorded
(`InOrder`).

**Migrations** (`DbMigrationProofs`). `LedgerAgrees`, `ReportsAreTrue`,
`LedgerGrows`, from `MigrationInv`: a task about to commit holds its key alone
and the key is free; only a task that found or made its row goes on to verify.

**CI** (`CiCycleProofs`). `NoSpuriousKill`: what is being healed was hung in
this process's last two listings. `CiInv` ties three pieces of state that the
loop's parts write at different times: the last listing holds exactly the jobs
with a streak, and whatever is still to be healed has a streak of two. It is the
second that a failed listing or a restart between the parts could break.

**Operations** (`OperationsProofs`, one part for each component of that run).

* *The learner.* `GraduatesAreApproved`, `SavedJudgementsLast`. A candidate is
  kept in memory, in the graph and, once trusted, in a file, and each is lost or
  lags in its own way. `LearnerInv`: no copy counts more approvals than were
  given (`Owed`), everything in the file or learnt from it had them all, and the
  copy in memory is never behind the one in the graph, except of names the last
  start could not read.
* *The deploy gate.* `NeverForTheBetter` and `DeadHolds` compare what one step
  changes: the gate keeps nothing but the facts it reads (`FieldsKept`). The
  lemmas show factor by factor that a worse fact gives no better level, and that
  both answers are monotone in the levels. `DeadHolds` is true of every set of
  facts: a dead daemon makes the platform's health critical for the one adviser
  and blocks stability for the other, and either holds alone.
* *Repairs.* `RepairsCleanUp` is about
  the end of an operation of several queries, and needs what holds in between
  (`RepairInv`): a label that is behind the census without a find was clean
  (`Behind`), one that is behind the repair is clean now (`Worked`), and at the
  end all are (`Left`), each of orphans that were there when it began.
* *The first loom.* `GraphOnRecord`, from `LoomInv`: a request about to merge a
  node has that version on record (`Merges`).
* *Questions to founders.* `AnswersAreOnRecord`, from `AsksInv`: an execution
  that still runs has no answer, and what a founder's request is about to send
  is the answer on record.
* *Read tools.* `TenantsAreKeptApart`, from `ReadInv`: what a call is about to
  read passed the assertion, and is its tenant's own as far as its tool reads it.

**The outlook** (`OutlookProofs`, one part for each component, then the whole).

* *API calls.* `RefusalsAreExplained`, from `ApiInv`, which says for each of the
  points a call can be at what an undisturbed one finds there (`Proper`): it was
  refused for a key no longer in force, and from then on fetches, finds in the
  cache and reads the key in force.
* *Tenants.* `TokensMatch`: the property is inductive as it stands, because the
  token and the installation it is for are written together.
  `OutlookSeesTenants` rests on `WatchInv`: a tenant with pull requests has the
  date of the last (`Dated`); a check that lacks a date passes, and would let a
  tenant stand still unseen.
* *Alerts.* `NoKeyFloods` and, for the whole, `OutlookTellsOperators`, from
  `AlertInv`: while a window runs, either the message that opened it arrived, or
  the condition stands no longer than the window does (`ToldInTime`).
  `FindingsInv`: what the last cycle found is open in the registry.
* *Features.* `HolographInv`: every edge of the graph is a declared dependency
  (`EdgesAreDeclared`), and a feature that is shown green was green in *one* node of
  it (`GreenOfOneNode`), even when the graph holds a duplicate.
* *Synthetic tests.* `ServedAsOfNow`, from `TestInv`, which orders two clocks: a
  cache younger than the time since the world last moved holds what the
  journeys would say now; and an asker in the middle of its questions has
  answers of the world it began in (`AskedRight`).
* *Chats.* `AnswersKept`, for every depth of the retry: `EchoInv` says for each
  point of a turn what is on record by then (`ChatRight`), and that the indices
  of turns have a greatest (`HasTop`), which the next index is computed from.
* *Research.* `ResearchIsUnderWay`: the property with the types.
* *Fixes.* `OwnPatchShown`, from `ForgeInv`: who is about to commit or to open a
  request works on a branch it cut itself, with no patch or only its own on it
  (`OwnsItsBranch`), since the name of a branch is taken by the first who makes
  it; and an open request shows one patch of its opener.
* *The whole.* The run's `TenantsAreSeen` and `OperatorsKnow` join properties of
  several components. `StartOfParts` and `StepOfParts` show that each step of
  the whole is a step of each part or leaves it alone; the theorems of the parts
  then carry over.

**Only model-checked.** The seven liveness properties (`ChainEnds`,
`HealthResolves`, `FaultReachesOperator`, `BatchDrains`, `RunsEnd`,
`WedgedJobIsHandled`, `WorkGoesOn`): fairness is out of the prover's reach.
Every other property of a passing run has a theorem. Two more things stay with
TLC: the bound that the circuit breaker of `CiCycle` keeps, since the list of
recent kills is filtered by time on every step and what `SelectSeq` leaves needs
an induction over the list; and `Triage` and `SensorReports`, exercised through
the runs by every observation of a source. Type invariants that no theorem
states (`CiCycle!TypeOK` and the like) document the values a variable takes.

**Proved and not run**, since the runs check what they rest on or what follows:
`WaitsCorrect`, `TypeCorrect`, `DangerIsRefused`, `SingleActionsCoolDown`,
`CurrentIsNewest`, `LedgerGrows`, `LedgerPromise`, `CountedWereFired`,
`NoKeyFloods`, `DeadHolds`.

## 5. What the runs and the modelling found

Four disagreements between the code and its own text are runs:

| run | what happens |
|---|---|
| `find_healed` | a stuck deploy is declared healed after the first step, because `sensor_healthy` (`routes.py:121`) ignores it; the chain starts again and its fix is never reached |
| `find_accept` | the classifier stores `'feature'`, `'decision'`, `'hypothesis'` (`classifier.py:25`); `propose_object` takes capitalised names only (`ontology/types.py:12`): no accepted proposal can create its object |
| `find_cancelled` | `/dogfood/batch/cancel` answers "cancelled" and sets `status` and `cancelled_at`; `get_active_batch` and `reserve_batch_slot` read `remaining` alone, so the batch goes on starting runs (`routes.py:657`: "Cancel the currently-active batch, if any.") |
| `find_progress` | when Postgres fails, `append_turn` calls itself into Postgres again, to the recursion limit, and raises (`aria_v2/persistence.py:144-145`: "so the reasoner still progresses") |

The rest was met while modelling. The models have the behaviour, and the
properties above are stated so as not to promise otherwise.

*Heals, alerts, advice*
* An escalation takes its deduplication window before it is sent; one that
  Telegram refuses, or for which it is not configured, raises nothing, is reported
  as "alert_sent" (`executor.py:222`), and nothing is sent again until the window
  ends: a chain may end, and a fault stand for a window, in silence.
* The chain in progress is looked up by source, whatever the new report says: a
  chain that one fault began is gated, escalated and reported with the decision
  of another.
* A chain step refused by the hourly budget is waited for and passed as if it
  had run, and the exhaustion message says it did not help.
* A capability source is polled only while bad: once good, its chain stays
  active for ever, which also counts in the deploy decision.
* A chain step sets a cooldown and reads none (`executor.py:13` says the pair
  cannot fire twice in the window); chains test the blast radius and not the
  confidence; a chain in progress advances on a report triage suppressed;
  starting a chain opens no incident.
* `send_alert` may return `False` and `maybe_alert` still returns that an alert
  "was actually sent" (`alert_dispatcher.py:124`). `send_trajectory_alert`,
  `platform_healer.evaluate_heal_chains`, `rollback_service`, `propose_fix`,
  `neptune_integrity.auto_repair`, `mark_surfaced` and `mark_acknowledged` have
  no caller.
* A finding that returns after its resolution is never "new" (`findings.py:79`).
* A start that finds no answer from the graph begins with no candidates
  (`pattern_learner.py:96-106`); the next capture of a known name writes a new
  candidate over the approvals saved there. A rewrite of the file of learned
  patterns that stops half-way leaves what `json.load` refuses, so that every
  earlier graduate is lost at the next load and no later one is written
  (`pattern_learner.py:262`).
* The deploy decision counts heal chains and then incidents, by queries between
  which polls move both.
* The instance of a runner is looked up by `*name*` and the first answer taken
  (`ci_healer.py:68`): the worker of `ci-10` may be killed for a job of `ci-1`.
  And the worker killed is the oldest of its machine, whatever job it runs by then.
* What the learner graduates never matches: its entry in `KNOWN_PATTERNS`
  compares `_source` and `_original_action`, which nothing sets
  (`triage.py:480`).

*Batches*
* A run may be counted twice: by a sensor left behind by a timeout and the next
  one, or by one sensor in two passes when the graph lost the status it wrote
  (`dogfood_sensor.py:139`, `:162`, `:168`, `:184` go through `query`, which raises
  nothing). `completed` can exceed what was requested.
* Two batches may be active at once: `run_batch` asks and acts in two queries, on
  the event loop and in the schedule's thread; and a `get_active_batch` that the
  graph does not answer says that none is active (`learning_overview.py:318`).
* A slot whose reservation was committed and its answer lost is given to nobody.
* The completion check pauses the runner of a batch queued after it looked, and
  also of one it did not see; a schedule of 50 runs a day is valid and no valid
  batch size, so `next_run` moves on and nothing is queued.
* A kick that skips or fails after `reserve_batch_slot` keeps the slot; a run
  listed between its record and its stamp ends without being counted.

*Tenants*
* The watchdog's brief and approval stages exist nowhere; the report has no
  `active_project`, so the auditor always finds "no active Project"; the banner
  for pull requests that await review looks for names the report lacks.
* A crashed check or a failed read clears banners (`tenant_actions.py:124`); a
  failed graph read makes a live tenant "not_started"; a second project that
  waits for its brief is seen by nobody.
* `get_tenant_context` lacks `pending_restart`, so `stale_restart` never fires;
  an empty `github_token` in a JSON secret goes unnoticed (`aws_client.py:116`);
  `verify_write_access` leaves its test ref if the deletion fails. A refresh of
  the token that began before the customer reinstalled the app writes the older
  installation and its token over the newer.
* A call of the Forgewing API that fetched the key before a rotation may store it
  over the key another call has fetched since (`forgewing_api.py:40-44`), and both
  are then refused; a fetch that fails is cached as "no key" until the next
  refusal.
* `repair_orphan_nodes` and `purge_orphan_nodes` take every node whose
  `project_id` is the tenant's id for an orphan. That is also the id of the
  project `create_default_project` makes (`operator_actions.py:66`), so that a purge
  deletes the nodes of that project. The tests mean it
  (`tests/test_purge_orphan_nodes.py:115-128`: the `tid_fallback` pattern), so it is
  told and not a finding.

*Diagnoses and research*
* "Only one diagnosis runs at a time" is untrue after a reclaim, and a new
  request then starts before those that wait. A failed synthesis (confidence 0)
  is read as 60, so that phase 3 does not run (`feature_diagnosis.py:15-17`).
  Findings carry counts in their text, so that a change from 3 to 2 is shown as
  resolved, and a scheduled diagnosis reads its result before it is written
  (`scheduled_diagnosis.py:99` against `timeline_resolution.py:9`).
* The "hard timeout" of tenant and goal checks waits for the executor to exit.
* A restart or a lost final write leaves a project "researching" for ever, and
  every later run is refused as "already_running"; archiving during a run is
  overwritten by "complete"; two requests before the first run begins start two.
* `_sanitize_cypher` refuses reads that name `created_at`, which holds CREATE.

*Stores, approvals, agents*
* A proposal is not asked whether it was disposed of already: a retry, or a second
  reviewer, creates a second object.
* `VersionConflictError` and `GraphWriteError` are raised nowhere. An update
  that is refused by the primary key leaves an object with no current version.
* `_fetch_candidate` locks `FOR UPDATE` in a transaction that ends at once.
* A failed `send_task_success` is logged, and the execution waits for ever; the
  Lambda handler returns 400 or 500 where its caller expects it to raise.
* Some read tools cut an answer without saying so (the log reader at 4000
  characters a message). A scoped read that fails half-way, or whose audit event
  cannot be written, leaves none (`_tenant_scope.py:17` says every call writes
  one). Of several CloudTrail filters only one is applied: the post-filter that
  `read_cloudtrail.py:91` speaks of does not exist.
* `list_turns` returns the *oldest* N turns, so that "# Recent conversation"
  never shows recent turns after the first 20; a commit whose answer is lost
  is appended twice; `turn_index` has no unique constraint.

*Forge and features*
* A commit that fails after its branch was made leaves the branch, and the
  finding can never be proposed again. `old_content` (`aria_repo.py:35-39`) is
  never compared, so that a stale patch reverts a concurrent edit. The hourly
  cap is in memory and does not count a request whose answer was lost.
* A failed look-up, or two bootstraps at once, make a second node for one
  feature (`bootstrap_operator_features.py:18` says it is idempotent); a failed
  edge query makes a report weigh no dependencies, so it can be green while one
  is red.
* Every graph journey passes when Neptune is down; `project_separation` writes
  although the module says READ-ONLY (`synthetic_tests.py:8-11`).

Hazards that no property of a run covers: two paths that share a cooldown only
one of them reads (`executor.py:404`) and the grace period of a failed action
(`executor.py:107`), of which `SingleActionsCoolDown` proves what holds; a run
listed before its stamp (`deploy_cycle.py:144`), the refused `run_batch` nobody
looks at (`:199`) and the auto-pause of a batch queued meanwhile (`:225`), all
three told above; a graduate nobody matches (`triage.py:472`), likewise; the
catalogue cursor that overlapping kicks read twice (`dogfood_capability.py:229`),
which costs one repeated app; and repositories the reconciler spares
(`sensors/dogfood_reconciler.py:101`).

## 6. Not modelled, and why

* **Runner health, code auditor, reports, AWS client, front ends,
  infrastructure** (status `not_modelled`): text rules, renderings of records,
  thin clients and templates; none keeps state that a step of another could
  disturb. What a capability of the platform healer does is one external call,
  whose success or failure is an outcome in `HealExecutor`.
* **Of modelled components**: the dogfood catalogue, reconciler and
  auto-approval; graduated patterns as rows of `Triage`; the CI and diagnosis
  loops' start-up and the watchdog that respawns loops; `incident_learner`;
  `reingest_tenant`, whose hourly limit reads a node another service writes;
  mechanism 3, most of which has no producer or no caller; the audit log's
  reader; analyses of trends, predictions and sprints; what models are told and
  answer, which is an outcome wherever it decides something.
* **External**: GitHub, AWS, Neptune, Postgres, Telegram and Forgewing are
  modelled by how the code uses them: calls that succeed, fail, or are done with
  their answer lost.

## 7. What is left

1. `AlertDispatch` and `PatternLearner` composed with `HealExecutor`: both
   deduplications of one decision, and candidates the learner really made.
   `DeployGate` over the executor's chains and incidents.
2. What the proofs have not reached: that the circuit breaker of `CiCycle` keeps
   its bound, and the type invariants of the parts whose theorems need less.
3. `DogfoodBatch`: the reconciler, the cursor and auto-approval as actions; the
   respawning watchdog over the loops.
4. `repair_orphan_nodes` and the platform healer's step table once their
   callers exist.
