---------------------------- MODULE DogfoodBatch ----------------------------
(***************************************************************************)
(* A batch of dogfood runs, from the request that queues it to the counter *)
(* of its last run: the deploy cycle with its sensor, kick, schedule and   *)
(* completion steps, the requests that start and stop batches, and the     *)
(* graph rows they share.                                                  *)
(*                                                                         *)
(* A query of the graph is one step; between two queries anybody may run.  *)
(* overwatch_graph.query never raises: while the graph is away, what reads *)
(* gets no rows and what writes does nothing, and nobody is told.          *)
(* A request holds the event loop to its end, the threads of the cycle do  *)
(* not stop for it.  A cycle waits for its sensor and its kick with a      *)
(* timeout, after which it goes on and the thread goes on too.             *)
(***************************************************************************)
EXTENDS Integers, FiniteSets

CONSTANTS
    SensorThread,   \* threads for the sensor
    KickThread,     \* threads for kicks
    Requests,       \* the operations the dashboard's users call
    BatchSizes,     \* learning_overview.VALID_BATCH_SIZES
    DailyRuns,      \* learning_overview.VALID_DAILY_RUNS
    CircuitWindow,  \* CIRCUIT_WINDOW
    CircuitMin,     \* CIRCUIT_MIN_SUCCESSES
    ResetLimit,     \* the runs run_batch looks back over
    PendingLimit,   \* the pending runs a sensor pass lists
    MayTimeOut,     \* whether a cycle may leave a thread behind
    MayRestart,     \* whether the process may be restarted
    MaxBatches,     \* bound: batches ever queued
    MaxCounted,     \* bound: the completions of a batch, counted no further
    MaxRuns         \* bound: runs ever recorded, a slot of a batch each

Batch   == 1 .. MaxBatches   \* in the order of started_at
Run     == 1 .. MaxRuns      \* in the order of started_at
Nothing == 0                 \* no batch, no run
Caller  == {"request", "schedule", "completion"}

ASSUME BoundsAssumption == MaxBatches \in Nat /\ MaxRuns \in Nat /\ MaxCounted \in Nat
ASSUME SizesAssumption ==
    /\ BatchSizes \subseteq Nat \ {0}
    /\ DailyRuns \subseteq Nat
    /\ IsFiniteSet(KickThread)

VARIABLES
    batch,     \* OverwatchDogfoodBatch rows
    run,       \* OverwatchDogfoodRun rows; late: older than the maximal wait
    config,    \* OverwatchDogfoodConfig
    schedule,  \* OverwatchDogfoodSchedule; due: next_run has passed
    answers,   \* whether the graph answers its queries
    cycle,     \* the step of the deploy loop and the thread it waits for
    sensor,    \* sensor threads: runs left to poll, the batch to count for
    kick,      \* kick threads
    call       \* the request, the schedule check, the completion check

vars == <<batch, run, config, schedule, answers, cycle, sensor, kick, call>>

NotQueued   == [requested |-> 0, remaining |-> 0, completed |-> 0, cancelled |-> FALSE]
NotRecorded == [status |-> "none", batch |-> Nothing, late |-> FALSE]
IdleSensor  == [todo |-> {}, count |-> Nothing]
IdleKick    == [at |-> "idle", batch |-> Nothing, run |-> Nothing]
IdleCall    == [at |-> "idle", count |-> 0, todo |-> {}, batch |-> Nothing]
CycleStart  == [step |-> "sensor", thread |-> {}]

Volatile ==
    /\ cycle = CycleStart
    /\ sensor = [t \in SensorThread |-> IdleSensor]
    /\ kick = [t \in KickThread |-> IdleKick]
    /\ call = [c \in Caller |-> IdleCall]

Init ==
    /\ batch = [b \in Batch |-> NotQueued]
    /\ run = [r \in Run |-> NotRecorded]
    /\ config = [enabled |-> FALSE, by |-> "operator"]
    /\ schedule = [rpd |-> 0, due |-> TRUE]
    /\ answers \in BOOLEAN
    /\ Volatile

-----------------------------------------------------------------------------
(* The graph                                                               *)

Active(b) == batch[b].remaining > 0
NoActive  == \A b \in Batch : ~Active(b)

\* get_active_batch: the newest batch with slots left.
IsActiveBatch(b) == Active(b) /\ \A c \in Batch : Active(c) => c <= b

\* The n newest of a set of runs.
Newest(S, n) == {r \in S : Cardinality({q \in S : q > r}) < n}

WithStatus(S) == {r \in Run : run[r].status \in S}
Recorded      == {r \in Run : run[r].status # "none"}

\* The rows a query returns.
Found(S) == IF answers THEN S ELSE {}

\* The graph goes away or comes back.
GraphChanges ==
    /\ answers' = ~answers
    /\ UNCHANGED <<batch, run, config, schedule, cycle, sensor, kick, call>>

\* circuit_open: too few successes among the last runs that ended.
CircuitOpen ==
    LET ended == Newest(Recorded, 3 * CircuitWindow)
                   \cap WithStatus({"success", "failed", "timeout"})
        last  == Newest(ended, CircuitWindow)
    IN  /\ Cardinality(last) = CircuitWindow
        /\ Cardinality(last \cap WithStatus({"success"})) < CircuitMin

-----------------------------------------------------------------------------
(* check_dogfood_runs                                                      *)

\* Mutant: the age of a run is never computed.
ListedYoung(S) == {[run |-> r, batch |-> run[r].batch, late |-> FALSE] : r \in S}

\* The pass lists the pending runs once, with what it needs of each.
Listed(S) == {[run |-> r, batch |-> run[r].batch, late |-> run[r].late] : r \in S}

SensorStart(t) ==
    /\ cycle.step = "sensor"
    /\ call["request"].at = "idle"
    /\ sensor[t] = IdleSensor
    /\ sensor' = [sensor EXCEPT ![t].todo =
                    Listed(Found(Newest(WithStatus({"pending"}), PendingLimit)))]
    /\ cycle' = [step |-> "sensing", thread |-> {t}]
    /\ UNCHANGED <<batch, run, config, schedule, kick, call, answers>>

IsNextJob(t, j) ==
    /\ sensor[t].count = Nothing
    /\ j \in sensor[t].todo
    /\ \A i \in sensor[t].todo : i.run <= j.run

\* update_dogfood_run, which is not told whether the row was written.
SetRun(r, record) == run' = IF answers THEN [run EXCEPT ![r] = record] ELSE run

\* The run is late, or its deploy has come to an end, or it stalled: it is given
\* its status, and counted, written or not.
SensorEnds(t, j) ==
    /\ IsNextJob(t, j)
    /\ \E status \in IF j.late THEN {"timeout"} ELSE {"success", "failed"} :
         SetRun(j.run, [run[j.run] EXCEPT !.status = status])
    /\ sensor' = [sensor EXCEPT ![t] = [todo |-> @.todo \ {j}, count |-> j.batch]]
    /\ UNCHANGED <<batch, config, schedule, cycle, kick, call, answers>>

\* The deploy goes on, or its progress could not be read.
SensorPasses(t, j) ==
    /\ IsNextJob(t, j)
    /\ ~j.late
    /\ sensor' = [sensor EXCEPT ![t].todo = @ \ {j}]
    /\ UNCHANGED <<batch, run, config, schedule, cycle, kick, call, answers>>

\* update of one batch's row
SetBatch(b, record) == batch' = IF answers THEN [batch EXCEPT ![b] = record] ELSE batch

\* record_batch_completion
SensorCounts(t) ==
    LET b == sensor[t].count
    IN  /\ b # Nothing
        /\ IF batch[b].completed < MaxCounted
           THEN SetBatch(b, [batch[b] EXCEPT !.completed = @ + 1])
           ELSE UNCHANGED batch
        /\ sensor' = [sensor EXCEPT ![t].count = Nothing]
        /\ UNCHANGED <<run, config, schedule, cycle, kick, call, answers>>

SensorStep(t) ==
    \/ SensorCounts(t)
    \/ \E j \in sensor[t].todo : SensorEnds(t, j) \/ SensorPasses(t, j)

\* A run passes the maximal wait.
Age(r) ==
    /\ run[r].status = "pending"
    /\ ~run[r].late
    /\ run' = [run EXCEPT ![r].late = TRUE]
    /\ UNCHANGED <<batch, config, schedule, cycle, sensor, kick, call, answers>>

-----------------------------------------------------------------------------
(* _kick_dogfood_if_needed                                                 *)

SetKick(t, k) ==
    /\ kick' = [kick EXCEPT ![t] = k]
    /\ UNCHANGED <<config, schedule, sensor, call, answers>>

KickStart(t) ==
    /\ cycle.step = "kick"
    /\ call["request"].at = "idle"
    /\ kick[t] = IdleKick
    /\ cycle' = [step |-> "kicking", thread |-> {t}]
    /\ SetKick(t, IF config.enabled /\ answers THEN [IdleKick EXCEPT !.at = "find"] ELSE IdleKick)
    /\ UNCHANGED <<batch, run>>

KickFinds(t) ==
    /\ kick[t].at = "find"
    /\ \/ /\ NoActive \/ ~answers
          /\ SetKick(t, IdleKick)
       \/ /\ answers
          /\ \E b \in Batch :
               /\ IsActiveBatch(b)
               /\ SetKick(t, [kick[t] EXCEPT !.at = "reserve", !.batch = b])
    /\ UNCHANGED <<batch, run, cycle>>

\* Mutant: a slot is taken whether or not one is left.
KickReservesUnchecked(t) ==
    LET b == kick[t].batch
    IN  /\ kick[t].at = "reserve"
        /\ answers
        /\ batch' = [batch EXCEPT ![b].remaining = @ - 1]
        /\ SetKick(t, [kick[t] EXCEPT !.at = "launch"])
        /\ UNCHANGED <<run, cycle>>

\* Mutant: the slot is seen and not taken.
KickReservesNothing(t) ==
    /\ kick[t].at = "reserve"
    /\ Active(kick[t].batch)
    /\ SetKick(t, [kick[t] EXCEPT !.at = "launch"])
    /\ UNCHANGED <<batch, run, cycle>>

\* reserve_batch_slot
KickReserves(t) ==
    LET b == kick[t].batch
    IN  /\ kick[t].at = "reserve"
        /\ answers
        /\ Active(b)
        /\ batch' = [batch EXCEPT ![b].remaining = @ - 1]
        /\ SetKick(t, [kick[t] EXCEPT !.at = "launch"])
        /\ UNCHANGED <<run, cycle>>

\* No row comes back: no slot is left, the query failed, or the slot was taken
\* and the answer lost.
KickFindsExhausted(t) ==
    LET b == kick[t].batch
    IN  /\ kick[t].at = "reserve"
        /\ \/ UNCHANGED batch /\ (~Active(b) \/ ~answers)
           \/ batch' = [batch EXCEPT ![b].remaining = @ - 1] /\ Active(b) /\ ~answers
        /\ SetKick(t, IdleKick)
        /\ UNCHANGED <<run, cycle>>

\* run_dogfood_cycle: enabled or a batch active, the circuit closed, as it is
\* also found when its runs cannot be listed.
KickLaunches(t) ==
    /\ kick[t].at = "launch"
    /\ config.enabled \/ ~NoActive
    /\ ~CircuitOpen \/ ~answers
    /\ SetKick(t, [kick[t] EXCEPT !.at = "record"])
    /\ UNCHANGED <<batch, run, cycle>>

\* Nothing that allows the run was read, or the circuit is open.
KickSkips(t) ==
    /\ kick[t].at = "launch"
    /\ CircuitOpen \/ (~config.enabled /\ NoActive) \/ ~answers
    /\ SetKick(t, IdleKick)
    /\ UNCHANGED <<batch, run, cycle>>

\* No tenant, no token, the repository or the project was not made, or its row
\* was not written.
KickFails(t) ==
    /\ kick[t].at = "record"
    /\ SetKick(t, IdleKick)
    /\ UNCHANGED <<batch, run, cycle>>

\* record_dogfood_run
KickRecords(t) ==
    /\ kick[t].at = "record"
    /\ answers
    /\ \E r \in Run \ Recorded :
         /\ \A q \in Run \ Recorded : r <= q
         /\ run' = [run EXCEPT ![r] = [NotRecorded EXCEPT !.status = "pending"]]
         /\ SetKick(t, [kick[t] EXCEPT !.at = "stamp", !.run = r])
    /\ UNCHANGED <<batch, cycle>>

\* The run is told its batch.
KickStamps(t) ==
    /\ kick[t].at = "stamp"
    /\ SetRun(kick[t].run, [run[kick[t].run] EXCEPT !.batch = kick[t].batch])
    /\ SetKick(t, IdleKick)
    /\ UNCHANGED <<batch, cycle>>

KickStep(t) ==
    \/ KickFinds(t)
    \/ KickReserves(t)
    \/ KickFindsExhausted(t)
    \/ KickLaunches(t)
    \/ KickSkips(t)
    \/ KickFails(t)
    \/ KickRecords(t)
    \/ KickStamps(t)

-----------------------------------------------------------------------------
(* Requests, the schedule check, the completion check                      *)

SetCall(c, s) ==
    /\ call' = [call EXCEPT ![c] = s]
    /\ UNCHANGED <<cycle, sensor, kick, answers>>

At(c, place) == call[c].at = place

\* run_batch returns: a request is answered, the schedule check writes next_run.
Return(c) ==
    IF c = "schedule"
    THEN [IdleCall EXCEPT !.at = "next"]
    ELSE IdleCall

\* Bound: no more run_batch calls than batches left to create.
MayQueue ==
    Cardinality({c \in {"request", "schedule"} :
                   call[c].at \in {"find", "check", "list", "reset"}})
      < Cardinality({b \in Batch : batch[b] = NotQueued})

\* run_batch: the size is valid and no active batch is found.
ChecksBatch(c) ==
    /\ At(c, "check")
    /\ SetCall(c, IF call[c].count \in BatchSizes /\ (NoActive \/ ~answers)
                  THEN [call[c] EXCEPT !.at = "list"]
                  ELSE Return(c))
    /\ UNCHANGED <<batch, run, config, schedule>>

\* The failed runs that hold the circuit open are listed ...
ListsFailures(c) ==
    /\ At(c, "list")
    /\ SetCall(c, [call[c] EXCEPT
                     !.at = "reset",
                     !.todo = Found(Newest(Recorded, ResetLimit)
                                      \cap WithStatus({"failed", "timeout"}))])
    /\ UNCHANGED <<batch, run, config, schedule>>

\* ... and reset, newest first.
ResetsRun(c) ==
    /\ At(c, "reset")
    /\ \E r \in call[c].todo :
         /\ \A q \in call[c].todo : q <= r
         /\ SetRun(r, [run[r] EXCEPT !.status = "reset"])
         /\ SetCall(c, [call[c] EXCEPT !.todo = @ \ {r}])
    /\ UNCHANGED <<batch, config, schedule>>

\* create_dogfood_batch, which returns the identifier it was given.
CreatesBatch(c) ==
    /\ At(c, "reset")
    /\ call[c].todo = {}
    /\ \E b \in Batch :
         /\ batch[b] = NotQueued
         /\ \A a \in Batch : batch[a] = NotQueued => b <= a
         /\ SetBatch(b, [NotQueued EXCEPT !.requested = call[c].count,
                                          !.remaining = call[c].count])
    /\ SetCall(c, [call[c] EXCEPT !.at = "enable"])
    /\ UNCHANGED <<run, config, schedule>>

SetConfig(c) == config' = IF answers THEN c ELSE config

EnablesRunner(c) ==
    /\ At(c, "enable")
    /\ SetConfig([enabled |-> TRUE, by |-> "batch"])
    /\ SetCall(c, Return(c))
    /\ UNCHANGED <<batch, run, schedule>>

\* cancel_batch: every active batch gives its slots up.
CancelsBatches ==
    /\ At("request", "cancel")
    /\ batch' = [b \in Batch |->
                   IF Active(b) /\ answers
                   THEN [batch[b] EXCEPT !.remaining = 0, !.cancelled = TRUE]
                   ELSE batch[b]]
    /\ SetCall("request", [IdleCall EXCEPT !.at = "config"])
    /\ UNCHANGED <<run, config, schedule>>

\* /dogfood/batch/cancel: the active batch it read gets a status.
MarksCancelled ==
    /\ At("request", "mark")
    /\ LET b == call["request"].batch
       IN  SetBatch(b, [batch[b] EXCEPT !.cancelled = TRUE])
    /\ SetCall("request", IdleCall)
    /\ UNCHANGED <<run, config, schedule>>

\* _check_batch_completion and the schedule check ask for the active batch.
FindsBatch(c) ==
    /\ At(c, "find")
    /\ SetCall(c, CASE ~NoActive /\ answers -> IdleCall
                    [] c = "schedule" -> [call[c] EXCEPT !.at = "check"]
                    [] OTHER -> [call[c] EXCEPT !.at = "config"])
    /\ UNCHANGED <<batch, run, config, schedule>>

\* A runner that a batch switched on is paused, by the completion check only
\* while it is on.
ReadsConfig(c) ==
    /\ At(c, "config")
    /\ SetCall(c, IF answers /\ config.by = "batch" /\ (c = "completion" => config.enabled)
                  THEN [call[c] EXCEPT !.at = "pause"]
                  ELSE IdleCall)
    /\ UNCHANGED <<batch, run, config, schedule>>

\* set_dogfood_config(enabled=False) leaves activated_by as it was.
PausesRunner(c) ==
    /\ At(c, "pause")
    /\ SetConfig([config EXCEPT !.enabled = FALSE])
    /\ SetCall(c, IdleCall)
    /\ UNCHANGED <<batch, run, schedule>>

\* _check_schedule moves next_run to tomorrow.
MovesNextRun ==
    /\ At("schedule", "next")
    /\ schedule' = IF answers THEN [schedule EXCEPT !.due = FALSE] ELSE schedule
    /\ SetCall("schedule", IdleCall)
    /\ UNCHANGED <<batch, run, config>>

CallStep(c) ==
    \/ ChecksBatch(c)
    \/ ListsFailures(c)
    \/ ResetsRun(c)
    \/ CreatesBatch(c)
    \/ EnablesRunner(c)
    \/ c = "request" /\ (CancelsBatches \/ MarksCancelled)
    \/ FindsBatch(c)
    \/ ReadsConfig(c)
    \/ PausesRunner(c)
    \/ c = "schedule" /\ MovesNextRun

Serves(operation) == operation \in Requests /\ At("request", "idle")

\* POST /dogfood/run-batch
PostRunBatch(n) ==
    /\ Serves("run-batch")
    /\ MayQueue
    /\ SetCall("request", [IdleCall EXCEPT !.at = "check", !.count = n])
    /\ UNCHANGED <<batch, run, config, schedule>>

\* POST /dogfood/batch switches the runner on first.
PostBatch(n) ==
    /\ Serves("batch")
    /\ MayQueue
    /\ SetConfig([enabled |-> TRUE, by |-> "operator"])
    /\ SetCall("request", [IdleCall EXCEPT !.at = "check", !.count = n])
    /\ UNCHANGED <<batch, run, schedule>>

\* POST /dogfood/cancel-batch and /dogfood/batch/cancel read the active batch.
PostCancel ==
    /\ answers
    /\ \E b \in Batch :
         /\ IsActiveBatch(b)
         /\ \/ Serves("cancel-batch") /\ SetCall("request", [IdleCall EXCEPT !.at = "cancel"])
            \/ /\ Serves("batch/cancel")
               /\ SetCall("request", [IdleCall EXCEPT !.at = "mark", !.batch = b])
    /\ UNCHANGED <<batch, run, config, schedule>>

\* POST /dogfood/config
PostConfig(on) ==
    /\ Serves("config")
    /\ answers
    /\ config' = [enabled |-> on, by |-> IF on THEN "operator" ELSE config.by]
    /\ UNCHANGED <<batch, run, schedule, cycle, sensor, kick, call, answers>>

\* POST /dogfood/schedule
PostSchedule(n) ==
    /\ Serves("schedule")
    /\ answers
    /\ schedule' = [schedule EXCEPT !.rpd = n]
    /\ UNCHANGED <<batch, run, config, cycle, sensor, kick, call, answers>>

\* next_run comes.
Midnight ==
    /\ ~schedule.due
    /\ schedule' = [schedule EXCEPT !.due = TRUE]
    /\ UNCHANGED <<batch, run, config, cycle, sensor, kick, call, answers>>

Request ==
    \/ \E n \in BatchSizes : PostRunBatch(n)
    \/ \E n \in BatchSizes \cup DailyRuns : PostBatch(n)
    \/ PostCancel
    \/ \E on \in BOOLEAN : PostConfig(on)
    \/ \E n \in DailyRuns : PostSchedule(n)

-----------------------------------------------------------------------------
(* run_deploy_cycle: a coroutine of the event loop                         *)

Proceed(step) == cycle' = [step |-> step, thread |-> {}]

\* The thread is done, or the wait for it timed out.
SensorAwaited ==
    /\ cycle.step = "sensing"
    /\ MayTimeOut \/ \A t \in cycle.thread : sensor[t] = IdleSensor
    /\ Proceed("kick")
    /\ UNCHANGED call

KickAwaited ==
    /\ cycle.step = "kicking"
    /\ MayTimeOut \/ \A t \in cycle.thread : kick[t] = IdleKick
    /\ Proceed("schedule")
    /\ UNCHANGED call

\* The call was cancelled while it waited for a thread.
NoThread ==
    /\ \/ cycle.step = "sensor" /\ (\A t \in SensorThread : sensor[t] # IdleSensor)
            /\ Proceed("kick")
       \/ cycle.step = "kick" /\ (\A t \in KickThread : kick[t] # IdleKick)
            /\ Proceed("schedule")
    /\ UNCHANGED call

\* _check_schedule begins.
ScheduleStarts ==
    /\ cycle.step = "schedule"
    /\ Proceed("scheduling")
    /\ IF answers /\ schedule.rpd > 0 /\ schedule.due /\ MayQueue
       THEN call' = [call EXCEPT !["schedule"] =
                       [IdleCall EXCEPT !.at = "find", !.count = schedule.rpd]]
       ELSE UNCHANGED call

CompletionStarts ==
    /\ cycle.step = "scheduling"
    /\ At("schedule", "idle")
    /\ Proceed("completing")
    /\ call' = [call EXCEPT !["completion"] = [IdleCall EXCEPT !.at = "find"]]

CycleEnds ==
    /\ cycle.step = "completing"
    /\ At("completion", "idle")
    /\ Proceed("sensor")
    /\ UNCHANGED call

LoopTurns ==
    /\ At("request", "idle")
    /\ SensorAwaited \/ KickAwaited \/ NoThread
         \/ ScheduleStarts \/ CompletionStarts \/ CycleEnds
    /\ UNCHANGED <<batch, run, config, schedule, sensor, kick, answers>>

LoopStep ==
    \/ LoopTurns
    \/ \E t \in SensorThread : SensorStart(t)
    \/ \E t \in KickThread : KickStart(t)

\* The process is replaced: its threads and requests are gone.
Restart ==
    /\ MayRestart
    /\ cycle' = CycleStart
    /\ sensor' = [t \in SensorThread |-> IdleSensor]
    /\ kick' = [t \in KickThread |-> IdleKick]
    /\ call' = [c \in Caller |-> IdleCall]
    /\ UNCHANGED <<batch, run, config, schedule, answers>>

Next ==
    \/ LoopStep
    \/ \E t \in SensorThread : SensorStep(t)
    \/ \E t \in KickThread : KickStep(t)
    \/ \E c \in Caller : CallStep(c)
    \/ Request
    \/ Midnight
    \/ \E r \in Run : Age(r)
    \/ GraphChanges
    \/ Restart

Spec == Init /\ [][Next]_vars

(* Threads run, requests end, time passes.  The event loop takes its ready  *)
(* callbacks in turn, so that requests cannot keep the cycle away for ever; *)
(* requests themselves and midnight owe nobody anything.                    *)
Fairness ==
    /\ SF_vars(LoopStep)
    /\ \A t \in SensorThread : WF_vars(SensorStep(t))
    /\ \A t \in KickThread : WF_vars(KickStep(t))
    /\ \A c \in Caller : WF_vars(CallStep(c))
    /\ \A r \in Run : WF_vars(Age(r))

FairSpec == Spec /\ Fairness

-----------------------------------------------------------------------------
(* Invariants                                                              *)

RunRecord ==
    [status: {"none", "pending", "success", "failed", "timeout", "reset"},
     batch: Batch \cup {Nothing}, late: BOOLEAN]

BatchRecord == [requested: Nat, remaining: Nat, completed: Nat, cancelled: BOOLEAN]

Job == [run: Run, batch: Batch \cup {Nothing}, late: BOOLEAN]

SensorRecord == [todo: SUBSET Job, count: Batch \cup {Nothing}]

KickRecord ==
    [at: {"idle", "find", "reserve", "launch", "record", "stamp"},
     batch: Batch \cup {Nothing}, run: Run \cup {Nothing}]

CallRecord ==
    [at: {"idle", "check", "list", "reset", "enable", "cancel", "mark",
          "find", "config", "pause", "next"},
     count: Nat, todo: SUBSET Run, batch: Batch \cup {Nothing}]

Step == {"sensor", "sensing", "kick", "kicking", "schedule", "scheduling", "completing"}

\* Every variable has its type; no batch is ever left with fewer than no slots.
TypeOK ==
    /\ batch \in [Batch -> BatchRecord]
    /\ run \in [Run -> RunRecord]
    /\ config \in [enabled: BOOLEAN, by: {"operator", "batch"}]
    /\ schedule \in [rpd: Nat, due: BOOLEAN]
    /\ answers \in BOOLEAN
    /\ cycle \in [step: Step, thread: SUBSET (SensorThread \cup KickThread)]
    /\ sensor \in [SensorThread -> SensorRecord]
    /\ kick \in [KickThread -> KickRecord]
    /\ call \in [Caller -> CallRecord]

\* The runs that were told they belong to a batch, and the kicks that hold a
\* slot of it.
Stamped(b) == {r \in Run : run[r].batch = b}
Holding    == {"launch", "record", "stamp"}
Holders(b) == {t \in KickThread : kick[t].at \in Holding /\ kick[t].batch = b}

\* A batch never fires more runs than it was asked for, whatever cycles overlap,
\* requests interfere and processes die: the runs stamped with it and the kicks
\* under way fit in the slots it gave out (reserve_batch_slot).
BatchNotOverfired ==
    \A b \in Batch :
        Cardinality(Stamped(b)) + Cardinality(Holders(b))
          <= batch[b].requested - batch[b].remaining

-----------------------------------------------------------------------------
(* The ledger a batch implements: a launch is a kick that holds a slot, a  *)
(* fired run one that was told its batch.                                  *)

Ledger == INSTANCE BatchLedger WITH
    Size <- BatchSizes,
    slots <- [b \in Batch |->
               [requested |-> batch[b].requested, free |-> batch[b].remaining,
                launching |-> Cardinality(Holders(b)), fired |-> Cardinality(Stamped(b)),
                counted |-> batch[b].completed]]

\* Whatever threads overlap and processes die, and whichever queries the graph
\* answers, does without answering or ignores, batches keep the ledger: no slot
\* is given out twice or comes back, no run changes its batch, and no batch is
\* counted for that fired nothing.
KeepsLedger == Ledger!Spec

-----------------------------------------------------------------------------
(* Liveness                                                                *)

\* A batch gives out its last slot unless the runner is switched off, once the
\* graph answers.
BatchDrains ==
    <>[]answers => \A b \in Batch : Active(b) ~> (~Active(b) \/ ~config.enabled)

\* Every recorded run ends, at the latest when a sensor sees that it is late,
\* also when the ends it was given while the graph was away were lost.
RunsEnd ==
    <>[]answers => \A r \in Run : run[r].status = "pending" ~> run[r].status # "pending"

-----------------------------------------------------------------------------
(* What docstrings of the code say, and the code does not do.              *)

\* "Cancel the currently-active batch": no kick takes a slot of a batch once it
\* is cancelled.
CancelledStaysQuiet ==
    [][\A b \in Batch : batch[b].cancelled => Holders(b)' \subseteq Holders(b)]_vars
=============================================================================
