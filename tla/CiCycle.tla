------------------------------ MODULE CiCycle ------------------------------
(***************************************************************************)
(* The CI cycle: every two minutes the heartbeat lists the jobs past their *)
(* budget, those listed by two cycles in a row have their runner's worker  *)
(* killed by the healer, and the hangs recorded so far become patterns.    *)
(* Each part runs in a thread the cycle awaits, so jobs and runners go on  *)
(* between its queries.                                                    *)
(***************************************************************************)
EXTENDS Naturals, Sequences, FiniteSets

CONSTANTS
    Job,           \* GitHub job ids, all of one job name and step
    Runner,        \* self-hosted runners, each an instance of its own
    Alike,         \* <<r, i>>: the name of r is part of the name of i's instance
    MaxKills,      \* MAX_KILLS_PER_HOUR_PER_RUNNER
    Hour,          \* the breaker's hour, in units of time
    Recurring,     \* _MIN_OCCURRENCES_FOR_ANTIPATTERN
    MaxRestarts    \* bound on restarts of the process

ASSUME AlikeAssumption == Alike \subseteq Runner \X Runner

ASSUME NumbersAssumption == {MaxKills, Hour, Recurring} \subseteq Nat \ {0} /\ MaxRestarts \in Nat

VARIABLES
    job,        \* each job's state and the runner that picked it up
    cycle,      \* where the cycle is
    prevHung,   \* _prev_hung
    kills,      \* _kill_history: the time left of each kill
    raised,     \* the jobs for which ci_healer_circuit_open was recorded
    incidents,  \* how many ci_hung events were recorded, up to Recurring
    learned,    \* the anti-pattern of this job and step was recorded
    streak,     \* in how many heartbeats in a row a job was listed, up to 2
    restarts

vars == <<job, cycle, prevHung, kills, raised, incidents, learned, streak, restarts>>

\* A job within its budget, past it, idle for long within it, or past it with
\* an idle worker.
Running == {"working", "slow", "quiet", "wedged"}
Past    == {"slow", "wedged"}
Sleeping == [at |-> "sleep", todo |-> {}]

Init ==
    /\ job = [j \in Job |-> [state |-> "queued"]]
    /\ cycle = Sleeping
    /\ prevHung = {}
    /\ kills = [r \in Runner |-> <<>>]
    /\ raised = {}
    /\ incidents = 0
    /\ learned = FALSE
    /\ streak = [j \in Job |-> 0]
    /\ restarts = 0

Busy(r) == {j \in Job : job[j].state \in Running /\ job[j].runner = r}
Hung    == {j \in Job : job[j].state \in Past}

-----------------------------------------------------------------------------
(* The runners.                                                            *)

Starts(j, r) ==
    /\ job[j].state = "queued"
    /\ Busy(r) = {}
    /\ job' = [job EXCEPT ![j] = [state |-> "working", runner |-> r]]

\* It passes its budget, or its worker turns idle; it ends unless it is wedged.
Changes(j) ==
    /\ \E s \in Running \union {"done"} :
        /\ <<job[j].state, s>> \in
             {<<"working", "slow">>, <<"working", "quiet">>, <<"slow", "wedged">>,
              <<"quiet", "wedged">>, <<"working", "done">>, <<"slow", "done">>,
              <<"quiet", "done">>}
        /\ job' = [job EXCEPT ![j].state = s]

JobStep ==
    /\ \E j \in Job : (\E r \in Runner : Starts(j, r)) \/ Changes(j)
    /\ UNCHANGED <<cycle, prevHung, kills, raised, incidents, learned, streak, restarts>>

-----------------------------------------------------------------------------
(* The cycle.                                                              *)

AtMost(n, top) == IF n > top THEN top ELSE n

\* Mutant: what was ever seen hung stays in the set.
Remembered(seen) == prevHung \union seen

\* "only escalate on the second consecutive reading"
Seen(seen) == seen

\* check_ci_heartbeat: each job past its budget is recorded and listed; a page
\* that cannot be read hides its jobs, a crash all of them.
Heartbeat(seen) ==
    /\ cycle.at = "sleep"
    /\ seen \subseteq Hung
    /\ cycle' = [at |-> "heal", todo |-> seen \intersect prevHung]
    /\ prevHung' = Seen(seen)
    /\ incidents' = AtMost(incidents + Cardinality(seen), Recurring)
    /\ streak' = [j \in Job |-> IF j \in seen THEN AtMost(streak[j] + 1, 2) ELSE 0]
    /\ UNCHANGED <<job, kills, raised, learned, restarts>>

Skip(j) == cycle' = [at |-> "heal", todo |-> cycle.todo \ {j}]

\* Mutant: the limit itself is let through.
Exhausted(r) == Len(kills[r]) > MaxKills

BreakerOpen(r) == Len(kills[r]) >= MaxKills

\* Mutant: the refusal is only logged.
RefuseKillSilently(j) ==
    /\ cycle.at = "heal" /\ j \in cycle.todo
    /\ BreakerOpen(job[j].runner)
    /\ Skip(j)
    /\ UNCHANGED <<job, prevHung, kills, raised, incidents, learned, streak, restarts>>

\* heal_hung_ci refuses a fourth kill in an hour and says so.
RefuseKill(j) ==
    /\ cycle.at = "heal" /\ j \in cycle.todo
    /\ BreakerOpen(job[j].runner)
    /\ raised' = raised \union {j}
    /\ Skip(j)
    /\ UNCHANGED <<job, prevHung, kills, incidents, learned, streak, restarts>>

\* The instances whose Name tag is the runner's name or contains it.
Instances(r) == {i \in Runner : i = r \/ <<r, i>> \in Alike}

\* The runner's instance is resolved, to the first that matches; it may not be
\* found.
FindInstance(j) ==
    /\ cycle.at = "heal" /\ j \in cycle.todo
    /\ ~BreakerOpen(job[j].runner)
    /\ \/ Skip(j)
       \/ \E i \in Instances(job[j].runner) :
            cycle' = [at |-> "look", todo |-> cycle.todo \ {j}, job |-> j, runner |-> i]
    /\ UNCHANGED <<job, prevHung, kills, raised, incidents, learned, streak, restarts>>

Killable(i) == job[i].state \in {"quiet", "wedged"}

\* ps on the instance: the worker of whatever job runs there now, if it is idle
\* and old enough; nothing when the command fails.
FindWorker ==
    /\ cycle.at = "look"
    /\ \/ Skip(cycle.job)
       \/ \E i \in Busy(cycle.runner) :
            /\ Killable(i)
            /\ cycle' = [at |-> "kill", todo |-> cycle.todo, job |-> cycle.job, pid |-> i]
    /\ UNCHANGED <<job, prevHung, kills, raised, incidents, learned, streak, restarts>>

\* The kill is recorded whether or not the command was carried out; a process
\* that ended in the meantime is not there to be killed.
Kill ==
    LET r == job[cycle.job].runner
    IN  /\ cycle.at = "kill"
        /\ job' \in {job, [job EXCEPT ![cycle.pid].state = "done"]}
        /\ kills' = [kills EXCEPT ![r] = Append(@, Hour)]
        /\ Skip(cycle.job)
        /\ UNCHANGED <<prevHung, raised, incidents, learned, streak, restarts>>

\* learn_ci_patterns counts the events of a job and step.
LearnPatterns ==
    /\ cycle.at = "heal" /\ cycle.todo = {}
    /\ learned' = (learned \/ incidents >= Recurring)
    /\ cycle' = Sleeping
    /\ UNCHANGED <<job, prevHung, kills, raised, incidents, streak, restarts>>

\* A unit of time passes; kills leave the window.
Tick ==
    /\ \E r \in Runner : kills[r] # <<>>
    /\ kills' = [r \in Runner |->
          LET left == [i \in 1..Len(kills[r]) |-> kills[r][i] - 1]
          IN  SelectSeq(left, LAMBDA t : t > 0)]
    /\ UNCHANGED <<job, cycle, prevHung, raised, incidents, learned, streak, restarts>>

\* The process is replaced; only the events and the pattern are in the graph.
Restart ==
    /\ restarts < MaxRestarts
    /\ restarts' = restarts + 1
    /\ cycle' = Sleeping
    /\ prevHung' = {}
    /\ kills' = [r \in Runner |-> <<>>]
    /\ streak' = [j \in Job |-> 0]
    /\ UNCHANGED <<job, raised, incidents, learned>>

Heal == (\E j \in Job : RefuseKill(j) \/ FindInstance(j)) \/ FindWorker \/ Kill

Next ==
    \/ JobStep
    \/ \E seen \in SUBSET Job : Heartbeat(seen)
    \/ Heal
    \/ LearnPatterns
    \/ Tick
    \/ Restart

Spec == Init /\ [][Next]_vars

\* The loop goes on; now and then GitHub can be read twice in a row, and of each
\* job the runner's instance is found, its worker answers and the kill is carried
\* out.
FairSpec ==
    /\ Spec
    /\ WF_vars(Heal) /\ WF_vars(LearnPatterns)
    /\ WF_vars(\E seen \in SUBSET Job : Heartbeat(seen))
    /\ SF_vars(Heartbeat(Hung))
    /\ SF_vars(Hung \subseteq prevHung /\ Heartbeat(Hung))
    /\ \A j \in Job :
        /\ SF_vars(RefuseKill(j) \/ (FindInstance(j) /\ cycle'.at = "look"))
        /\ SF_vars(FindWorker /\ cycle.job = j /\ cycle'.at = "kill")
        /\ SF_vars(Kill /\ cycle.job = j /\ job' # job)

-----------------------------------------------------------------------------
TypeOK ==
    /\ job \in [Job -> [state: {"queued"}] \union [state: Running \union {"done"}, runner: Runner]]
    /\ cycle \in [at: {"sleep", "heal"}, todo: SUBSET Job]
           \union [at: {"look"}, todo: SUBSET Job, job: Job, runner: Runner]
           \union [at: {"kill"}, todo: SUBSET Job, job: Job, pid: Job]
    /\ prevHung \subseteq Job /\ raised \subseteq Job
    /\ \A r \in Runner : kills[r] \in Seq(1..Hour)
    /\ incidents \in 0..Recurring /\ learned \in BOOLEAN
    /\ streak \in [Job -> 0..2] /\ restarts \in 0..MaxRestarts

\* One spurious reading never reaches a runner: what is being healed was listed
\* by the last two heartbeats, of one process, in a row.
HealedWasSeenTwice ==
    cycle.at \in {"look", "kill"} => streak[cycle.job] = 2

\* At most MaxKills workers of a runner are killed in an hour, although the
\* breaker is tested long before the kill is recorded.
KillsAreBounded == \A r \in Runner : Len(kills[r]) <= MaxKills

\* A wedged job is ended, or an operator hears of it, also while the healer kills
\* on its runner for the sake of another; unless another instance may be taken
\* for its runner's.
WedgedJobIsHandled ==
    \A j \in Job :
        job[j].state = "wedged" /\ Instances(job[j].runner) = {job[j].runner}
            ~> job[j].state = "done" \/ j \in raised

\* "If the same (job, step) pair hangs 3+ times in 24h": a pattern is learned of
\* as many jobs that ran at least.
LearnedIsRecurring ==
    learned => Cardinality({j \in Job : job[j].state # "queued"}) >= Recurring
=============================================================================
