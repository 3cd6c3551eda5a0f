------------------------------- MODULE Diagnosis -------------------------------
(***************************************************************************)
(* Diagnoses of features, tenants and the platform's goals                 *)
(* (capabilities/feature_diagnosis): coroutines of one event loop, meant   *)
(* to run one at a time, with a queue and the reclaim of what runs too     *)
(* long; the scheduler that asks for one every few hours, polls it and     *)
(* writes the timeline (scheduled_diagnosis, timeline_resolution).  An     *)
(* action is what happens between two awaits.                              *)
(***************************************************************************)
EXTENDS Naturals, Sequences, FiniteSets

CONSTANTS Jobs,     \* bound: the diagnoses asked for between two restarts
          Scheduled, \* bound: those of them the scheduler may ask for
          Level,    \* VALID_LEVELS, or those an instance asks for
          MaxRun,   \* DIAGNOSIS_MAX_RUN_SEC, in ticks
          PollMax   \* _POLL_MAX_SEC, in ticks

ASSUME DiagnosisAssumption ==
    /\ Jobs \in Nat /\ Scheduled \subseteq 1..Jobs /\ Level \subseteq {"feature", "tenant", "goal"}
    /\ MaxRun \in Nat /\ PollMax \in Nat /\ MaxRun < PollMax

VARIABLES
    jobs,        \* _active_diagnoses: per job, numbered as they come, its record and
                \* where its coroutine is
    waiting,    \* _diagnosis_queue
    reclaimed,  \* how often a running job was taken for dead
    schedule,   \* the job run_scheduled_diagnosis polls, and for how long it has
    timeline    \* the newest OverwatchDiagnosisHistory node, and whether its job was complete

diagnosisVars == <<jobs, waiting, reclaimed, schedule, timeline>>

JobId == 1..Jobs

NoJob == [status |-> "none", level |-> "none", at |-> "over", age |-> 0, findings |-> 0]

NotPolling == [job |-> {}, waited |-> 0]

DiagnosisInit ==
    /\ jobs = [j \in JobId |-> NoJob]
    /\ waiting = <<>>
    /\ reclaimed = 0
    /\ schedule = NotPolling
    /\ timeline = [resolution |-> "none", complete |-> FALSE]

Live(j) == jobs[j].status \in {"starting", "running"}

Overdue(j) == jobs[j].age > MaxRun

\* The loop over the records ends at the first that is live and not overdue.
Reclaimed == {j \in JobId : Live(j) /\ Overdue(j)
                /\ \A i \in JobId : i < j /\ Live(i) => Overdue(i)}

AnotherRuns == \E j \in JobId : Live(j) /\ ~Overdue(j)

Fresh(j) == jobs[j].status = "none" /\ \A i \in JobId : i < j => jobs[i].status # "none"

Enters(level, busy) ==
    IF busy THEN [NoJob EXCEPT !.status = "queued", !.level = level]
            ELSE [NoJob EXCEPT !.status = "starting", !.level = level, !.at = "created"]

\* Mutant: a job that has not begun to run yet counts for nothing.
RequestsUnlessRunning(j, level) ==
    LET busy == \E i \in JobId : jobs[i].status = "running" /\ ~Overdue(i)
    IN  /\ Fresh(j)
        /\ jobs' = [i \in JobId |-> IF i = j THEN Enters(level, busy)
                                 ELSE IF i \in Reclaimed THEN [jobs[i] EXCEPT !.status = "timeout"]
                                 ELSE jobs[i]]
        /\ waiting' = IF busy THEN Append(waiting, j) ELSE waiting
        /\ reclaimed' = reclaimed + Cardinality(Reclaimed)

\* start_diagnosis: what runs too long is given up, its coroutine runs on; the new
\* job starts at once when no other is live, before whoever is waiting.
Requests(j, level) ==
    LET busy == AnotherRuns
    IN  /\ Fresh(j)
        /\ jobs' = [i \in JobId |-> IF i = j THEN Enters(level, busy)
                                 ELSE IF i \in Reclaimed THEN [jobs[i] EXCEPT !.status = "timeout"]
                                 ELSE jobs[i]]
        /\ waiting' = IF busy THEN Append(waiting, j) ELSE waiting
        /\ reclaimed' = reclaimed + Cardinality(Reclaimed)

Ask(j) ==
    /\ \E level \in Level : Requests(j, level)
    /\ UNCHANGED <<schedule, timeline>>

Began(r) == [r EXCEPT !.status = "running", !.at = "phase 1", !.age = 0]

Begin(j) ==
    /\ jobs[j].at = "created"
    /\ jobs' = [jobs EXCEPT ![j] = Began(@)]
    /\ UNCHANGED <<waiting, reclaimed, schedule, timeline>>

Ended(r, status) == [r EXCEPT !.status = status, !.at = "over", !.age = 0]

Started(r) == [r EXCEPT !.status = "starting", !.at = "created", !.age = 0]

\* _start_next_queued, in the finally clause of _run_diagnosis.
Ends(j, status, findings) ==
    LET record == [Ended(jobs[j], status) EXCEPT !.findings = findings]
    IN  IF waiting = <<>>
        THEN jobs' = [jobs EXCEPT ![j] = record] /\ UNCHANGED waiting
        ELSE /\ jobs' = [jobs EXCEPT ![j] = record, ![Head(waiting)] = Started(@)]
             /\ waiting' = Tail(waiting)

\* Mutant: the queue is only drained after a success.
EndsUndrained(j, findings) ==
    /\ jobs' = [jobs EXCEPT ![j] = [Ended(@, "failed") EXCEPT !.findings = findings]]
    /\ UNCHANGED waiting

\* The except clause: a confidence that is no number cannot be compared.
Fails(j, findings) == Ends(j, "failed", findings)

\* The findings of phase 1: journeys and checks of a feature may find nothing, and an
\* error of one is a finding; a tenant's sensors always say something of it; the
\* platform's, each with a timeout of its own, may have nothing to say.
FeatureFindings == {0, 1}
TenantFindings  == {1}
GoalFindings    == {0, 1}

QuickFindings(level) ==
    CASE level = "feature" -> FeatureFindings
      [] level = "tenant"  -> TenantFindings
      [] level = "goal"    -> GoalFindings

\* A feature without findings is reported at once; everything else is investigated.
Phase1(j) ==
    /\ jobs[j].at = "phase 1"
    /\ \E n \in QuickFindings(jobs[j].level) :
         IF jobs[j].level = "feature" /\ n = 0
         THEN Ends(j, "complete", 0)
         ELSE /\ jobs' = [jobs EXCEPT ![j].at = "phase 2", ![j].findings = n]
              /\ UNCHANGED waiting
    /\ UNCHANGED <<reclaimed, schedule, timeline>>

\* investigate: whatever the gatherers return, time out or raise, there is a synthesis
\* or its fallback, which recommends to look at the evidence and is 0% sure.
Synthesis == {"sure", "unsure", "fallback", "garbled"}

Recommends(s) == IF s = "fallback" THEN {1} ELSE {0, 1}

\* A confidence of 0 is read as 60, so that only an unsure synthesis asks for phase 3.
Phase2(j) ==
    /\ jobs[j].at = "phase 2"
    /\ \E s \in Synthesis : \E n \in Recommends(s) :
         LET findings == IF jobs[j].findings + n > 0 THEN 1 ELSE 0
         IN  CASE s = "garbled" -> Fails(j, findings)
               [] s = "unsure" -> /\ jobs' = [jobs EXCEPT ![j].at = "phase 3", ![j].findings = findings]
                                  /\ UNCHANGED waiting
               [] OTHER -> Ends(j, "complete", findings)
    /\ UNCHANGED <<reclaimed, schedule, timeline>>

\* _phase3_agent starts an execution, or fails to; the report is built either way.
Phase3(j) ==
    /\ jobs[j].at = "phase 3"
    /\ Ends(j, "complete", jobs[j].findings)
    /\ UNCHANGED <<reclaimed, schedule, timeline>>

\* run_scheduled_diagnosis.
ScheduleOne(j) ==
    /\ schedule = NotPolling /\ j \in Scheduled
    /\ Requests(j, "goal")
    /\ schedule' = [job |-> {j}, waited |-> 0]
    /\ UNCHANGED timeline

\* _record_diagnosis, of a job that ended or has been polled for long enough: no
\* findings are RESOLVED, and supersede what was active before (supersede_prior_active).
RecordDiagnosis(j) ==
    /\ schedule.job = {j}
    /\ jobs[j].status \in {"complete", "failed", "timeout"} \/ schedule.waited >= PollMax
    /\ timeline' = [resolution |-> IF jobs[j].findings > 0 THEN "ACTIVE" ELSE "RESOLVED",
                    complete |-> jobs[j].status = "complete"]
    /\ schedule' = NotPolling
    /\ UNCHANGED <<jobs, waiting, reclaimed>>

DiagnosisTick ==
    /\ jobs' = [j \in JobId |-> IF Live(j) /\ ~Overdue(j) THEN [jobs[j] EXCEPT !.age = @ + 1] ELSE jobs[j]]
    /\ schedule' = IF schedule # NotPolling /\ schedule.waited < PollMax
                   THEN [schedule EXCEPT !.waited = @ + 1] ELSE schedule
    /\ UNCHANGED <<waiting, reclaimed, timeline>>

\* The store is in the process; the timeline is in the graph.
DiagnosisRestart ==
    /\ jobs' = [j \in JobId |-> NoJob]
    /\ waiting' = <<>>
    /\ reclaimed' = 0
    /\ schedule' = NotPolling
    /\ UNCHANGED timeline

Runs(j) == Begin(j) \/ Phase1(j) \/ Phase2(j) \/ Phase3(j)

DiagnosisNext ==
    \/ \E j \in JobId : Ask(j) \/ Runs(j) \/ ScheduleOne(j) \/ RecordDiagnosis(j)
    \/ DiagnosisTick \/ DiagnosisRestart

\* Every await of a coroutine has a timeout, its own or its client's.
DiagnosisFairness == \A j \in JobId : WF_diagnosisVars(Runs(j))

DiagnosisSpec == DiagnosisInit /\ [][DiagnosisNext]_diagnosisVars /\ DiagnosisFairness

-----------------------------------------------------------------------------
\* A second diagnosis runs beside a first only if one that ran was taken for dead;
\* each reclaim lets in one (start_diagnosis: one at a time).
OverlapNeedsReclaim ==
    Cardinality({j \in JobId : jobs[j].at # "over"}) <= 1 + reclaimed

\* Whoever waits is started in the end, however the jobs before it ended
\* (the finally clause of _run_diagnosis).
QueueDrains == \A j \in JobId : jobs[j].status = "queued" ~> jobs[j].status # "queued"

\* What the timeline shows as resolved was diagnosed, and found gone
\* (timeline_resolution: present-then-absent in the new run).
ResolvedWasDiagnosed == timeline.resolution = "RESOLVED" => timeline.complete
=============================================================================
