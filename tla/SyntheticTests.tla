---------------------------- MODULE SyntheticTests ----------------------------
(***************************************************************************)
(* The synthetic journeys (synthetic_tests.py and the journeys kept beside *)
(* their capabilities), run by the event loop and by worker threads, the   *)
(* cache they share, and what auto_remediation does about failures.  A     *)
(* journey reads the world in one step; a run judges one journey after     *)
(* another while the world moves.                                          *)
(***************************************************************************)
EXTENDS Naturals, Sequences, SequencesExt

CONSTANTS Asker,     \* the threads that ask for results
          Chosen,    \* the journeys an instance runs, of those in Suite
          ApiState,  \* how the Forgewing API answers, of "up", "5xx", "missing" and "silent"
          Fact,      \* what may be the case of the platform, of the facts below
          Ttl        \* _CACHE_TTL in ticks of the clock

ASSUME TtlAssumption == Ttl \in Nat

VARIABLES
    world,      \* the services and the facts the journeys read
    quiet,      \* ticks since the world moved, counted to Ttl
    cache,      \* _cache: the results and their age, counted to Ttl
    asked       \* per caller: its run, what it was served, and whether the world
                \* had been quiet for Ttl when it asked and has been since

testVars == <<world, quiet, cache, asked>>

\* run_all_journeys, in its order.
Suite == <<"health", "project_list", "project_separation", "conversation_scoping",
    "brief_exists", "deploy_readiness", "sfs_detection", "conversation_no_bleed",
    "conversation_scoped", "status_scoped", "brief_scoped", "actions_reflect_reality",
    "brief_project_isolation", "github_banner_consistency", "action_banner_freshness",
    "sfs_project_creation", "project_delete_cleanup", "ingestion_completion",
    "connect_flow_health", "sfs_flow_health", "ci_monitoring_health",
    "ci_healer_readiness", "neptune_integrity", "cost_monitoring", "bedrock_health",
    "healer_operational", "project_isolation_audit", "deploy_consistency",
    "version_drift", "merge_key_audit", "orphan_zero_invariant">>

\* What fails a journey when everything it reads answers.
Guards == {
    <<"project_separation", "briefs leak">>, <<"brief_exists", "brief empty">>,
    <<"conversation_no_bleed", "unscoped message">>, <<"conversation_scoped", "foreign message">>,
    <<"status_scoped", "status of another repo">>, <<"actions_reflect_reality", "false cloud banner">>,
    <<"brief_project_isolation", "brief names another project">>,
    <<"github_banner_consistency", "stale github banner">>,
    <<"action_banner_freshness", "banner on a young project">>,
    <<"sfs_project_creation", "scaffold without repo">>,
    <<"project_delete_cleanup", "nodes of a deleted project">>,
    <<"ingestion_completion", "connect project stuck">>, <<"ingestion_completion", "sfs project stuck">>,
    <<"ingestion_completion", "other project stuck">>,
    <<"connect_flow_health", "connect project stuck">>, <<"sfs_flow_health", "sfs project stuck">>,
    <<"ci_monitoring_health", "no github token">>, <<"ci_healer_readiness", "no runner">>,
    <<"project_isolation_audit", "null project">>, <<"deploy_consistency", "deploy of another repo">>,
    <<"deploy_consistency", "unscoped deploy">>, <<"version_drift", "old frontend">>,
    <<"merge_key_audit", "null project of several">>, <<"orphan_zero_invariant", "null project">>,
    <<"orphan_zero_invariant", "child without parent">>}

\* What a journey needs to have something to judge, or is skipped.
Needs == {
    <<"conversation_scoped", "active project">>, <<"status_scoped", "active project">>,
    <<"brief_scoped", "active project">>, <<"brief_project_isolation", "two briefs">>,
    <<"github_banner_consistency", "github connected">>, <<"action_banner_freshness", "a project">>,
    <<"sfs_project_creation", "sfs project">>, <<"version_drift", "deploy stamps">>}

\* Who asks the API for its projects first finds none when it does not answer.
OfProjects == {"conversation_scoped", "status_scoped", "brief_scoped",
    "brief_project_isolation", "action_banner_freshness", "sfs_project_creation"}

FailOnAnyError == {"health", "project_list", "brief_exists"}

FailOn5xx == {"conversation_scoping", "deploy_readiness", "sfs_detection",
    "conversation_no_bleed", "actions_reflect_reality", "github_banner_consistency"}

\* A graph that is down answers every query with no rows.
OfGraph == {"project_separation", "github_banner_consistency", "action_banner_freshness",
    "project_delete_cleanup", "ingestion_completion", "connect_flow_health",
    "sfs_flow_health", "project_isolation_audit", "deploy_consistency",
    "merge_key_audit", "orphan_zero_invariant"}

\* AWS, GitHub and the web sites, whose failures raise.
Raises == {"ci_monitoring_health", "ci_healer_readiness", "version_drift"}

OfApi == FailOnAnyError \union FailOn5xx \union OfProjects \union {"project_separation"}

\* _active_project, _stuck_ingestions and the journeys' own conditions.
Meets(j, w) == \A n \in Needs : n[1] = j => n[2] \in w.facts

Defective(j, w) == \E g \in Guards : g[1] = j /\ g[2] \in w.facts

\* A mismatch of repositories takes CodeBuild's word; its errors are passed over.
Hidden(j, w) ==
    \/ j \in OfGraph /\ ~w.graph
    \/ j = "deploy_consistency" /\ ~w.cloud /\ "unscoped deploy" \notin w.facts

\* Bedrock is sent a prompt.
PingVerdicts(w) == IF w.cloud THEN {"pass"} ELSE {"fail"}

\* Cost Explorer's last answer is kept for hours.
CostVerdicts(w) == IF w.cloud THEN {"pass"} ELSE {"fail", "pass"}

\* What the scan finds is a warning at most, and a query that fails counts nothing.
IntegrityVerdicts(w) == {"pass"}

\* The statuses a journey may come to.
Verdicts(j, w) ==
    CASE j \in Raises /\ ~w.cloud -> {"error"}
      [] j = "bedrock_health" -> PingVerdicts(w)
      [] j = "cost_monitoring" -> CostVerdicts(w)
      [] j = "neptune_integrity" -> IntegrityVerdicts(w)
      [] j \in FailOnAnyError /\ w.api # "up" -> {"fail"}
      [] j \in FailOn5xx /\ w.api = "5xx" -> {"fail"}
      [] j \in OfProjects /\ w.api # "up" -> {"skip"}
      [] j = "actions_reflect_reality" /\ w.api = "missing" -> {"skip"}
      [] j = "github_banner_consistency" /\ w.api # "up" -> {"skip"}
      [] j \in OfApi /\ w.api # "up" -> {"pass"}
      [] ~Meets(j, w) -> {"skip"}
      [] Defective(j, w) /\ ~Hidden(j, w) -> {"fail"}
      [] OTHER -> {"pass"}

Order == SelectSeq(Suite, LAMBDA j : j \in Chosen)

NoResults == <<>>

Idle == [at |-> "idle", results |-> NoResults, age |-> 0, settled |-> FALSE]

TestInit ==
    /\ world \in [api : ApiState, graph : BOOLEAN, cloud : BOOLEAN, facts : SUBSET Fact]
    /\ quiet = 0
    /\ cache = [results |-> NoResults, age |-> Ttl]
    /\ asked = [c \in Asker |-> Idle]

Running(c) == asked[c].at = "running"

\* get_summary and the advisers take the cache while it is fresh.
ServeCached(c) ==
    /\ ~Running(c) /\ cache.age < Ttl
    /\ asked' = [asked EXCEPT ![c] =
           [at |-> "served", results |-> cache.results, age |-> 0, settled |-> quiet = Ttl]]
    /\ UNCHANGED <<world, quiet, cache>>

\* Everyone runs the journeys when it is not, and the suite of a deploy, the
\* remediation and the operator (force) always do.
StartRun(c) ==
    /\ ~Running(c)
    /\ asked' = [asked EXCEPT ![c] =
           [at |-> "running", results |-> NoResults, age |-> 0, settled |-> quiet = Ttl]]
    /\ UNCHANGED <<world, quiet, cache>>

Judge(c) ==
    /\ Running(c) /\ Len(asked[c].results) < Len(Order)
    /\ \E status \in Verdicts(Order[Len(asked[c].results) + 1], world) :
         asked' = [asked EXCEPT ![c].results = Append(@, status)]
    /\ UNCHANGED <<world, quiet, cache>>

\* Mutant: the results are stamped when the run ends.
FinishStampedLate(c) ==
    /\ Running(c) /\ Len(asked[c].results) = Len(Order)
    /\ cache' = [results |-> asked[c].results, age |-> 0]
    /\ asked' = [asked EXCEPT ![c].at = "ran", ![c].age = 0]
    /\ UNCHANGED <<world, quiet>>

\* The results are stamped with the time the run began, whoever stored some since.
Finish(c) ==
    /\ Running(c) /\ Len(asked[c].results) = Len(Order)
    /\ cache' = [results |-> asked[c].results, age |-> asked[c].age]
    /\ asked' = [asked EXCEPT ![c].at = "ran", ![c].age = 0]
    /\ UNCHANGED <<world, quiet>>

Moved(w) ==
    /\ world' = w /\ w # world
    /\ quiet' = 0
    /\ asked' = [c \in Asker |-> [asked[c] EXCEPT !.settled = FALSE]]
    /\ UNCHANGED cache

Statuses(c) == {<<Order[i], asked[c].results[i]>> : i \in 1..Len(asked[c].results)}

\* remediate, of what run_and_remediate saw fail: the API restarted for its journeys,
\* the brief written anew; a readiness check and the rest change nothing.
Remediate(c) ==
    /\ asked[c].at = "ran"
    /\ \/ /\ \E j \in {"health", "conversation_scoping", "sfs_detection"} :
               <<j, "fail">> \in Statuses(c)
          /\ Moved([world EXCEPT !.api = "up"])
       \/ /\ <<"brief_exists", "fail">> \in Statuses(c) /\ world.api = "up"
          /\ Moved([world EXCEPT !.facts = @ \ {"brief empty"}])

WorldMoves ==
    \/ \E a \in ApiState : Moved([world EXCEPT !.api = a])
    \/ Moved([world EXCEPT !.graph = ~@]) \/ Moved([world EXCEPT !.cloud = ~@])
    \/ \E f \in Fact : Moved([world EXCEPT !.facts = (@ \ {f}) \union ({f} \ @)])

Aged(age) == IF age < Ttl THEN age + 1 ELSE age

TestTick ==
    /\ quiet' = Aged(quiet)
    /\ cache' = [cache EXCEPT !.age = Aged(@)]
    /\ asked' = [c \in Asker |->
           IF Running(c) THEN [asked[c] EXCEPT !.age = Aged(@)] ELSE asked[c]]
    /\ UNCHANGED world

TestNext ==
    \/ \E c \in Asker :
         ServeCached(c) \/ StartRun(c) \/ Judge(c) \/ Finish(c) \/ Remediate(c)
    \/ WorldMoves \/ TestTick

TestSpec == TestInit /\ [][TestNext]_testVars

-----------------------------------------------------------------------------
\* Whoever is served, from the cache or from a run of its own, while other threads
\* run the suite too and store what they found in any order: unless the world moved
\* since, or within the cache's lifetime before it asked, the results are what the
\* journeys would say of the world now (run_all_journeys, _cache).
ServedIsCurrent ==
    \A c \in Asker : asked[c].at \in {"served", "ran"} /\ asked[c].settled =>
        \A i \in 1..Len(Order) : asked[c].results[i] \in Verdicts(Order[i], world)

\* The docstring of journey_orphan_zero_invariant: it fails if any orphan exists.
OrphansFail ==
    \A c \in Asker : asked[c].at \in {"served", "ran"} /\ asked[c].settled
            /\ Defective("orphan_zero_invariant", world) =>
        <<"orphan_zero_invariant", "pass">> \notin Statuses(c)
=============================================================================
