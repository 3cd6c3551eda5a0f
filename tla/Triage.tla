------------------------------- MODULE Triage -------------------------------
(***************************************************************************)
(* The decision layer: a sensor report (or an event) in, one decision out. *)
(* A decision carries the action, the known pattern it came from (the heal *)
(* chain is looked up under that name), the blast radius and a confidence  *)
(* in percent.  Reports keep the fields a branch reads; an event is the    *)
(* set of facts a pattern's match() can test.                              *)
(***************************************************************************)
EXTENDS Naturals, Sequences

NoPattern == "none"     \* no pattern_name in the decision's metadata

Decision(action, pattern, blast, conf) ==
    [action |-> action, pattern |-> pattern, blast |-> blast, conf |-> conf]

\* AUTO_HEAL_CONFIDENCE_THRESHOLD, in percent.
AutoHealConfidence == 80

-----------------------------------------------------------------------------
(* KNOWN_PATTERNS: "when" lists the alternative sets of facts of match().  *)

Pattern(name, when, action, blast, conf) ==
    [name |-> name, when |-> when, decision |-> Decision(action, name, blast, conf)]

KNOWN_PATTERNS ==
  << Pattern("github_permission_denied",
             {{"permission", "denied"}, {"403"}}, "escalate_to_operator", "moderate", 95),
     Pattern("bedrock_json_parse",
             {{"cannot parse", "bedrock"}, {"cannot parse", "json"}},
             "retry_with_fence_stripping", "safe", 90),
     Pattern("step_functions_access_denied",
             {{"AccessDeniedException", "states:"}}, "escalate_to_operator", "dangerous", 85),
     Pattern("daemon_stale",
             {{"daemon_stale"}, {"daemon stale"}, {"cycle stale"}, {"no recent cycle"}},
             "restart_daemon_service", "safe", 90),
     Pattern("ci_failing",
             {{"ci failing"}, {"workflow failed"}, {"green rate"}}, "retrigger_ci", "safe", 85),
     Pattern("tenant_no_prs_after_tasks",
             {{"tenant_health", "has tasks", "no prs", "first task older than 2h"}},
             "validate_tenant_onboarding", "safe", 90),
     Pattern("missing_repo_files",
             {{"tenant_health", "no repo files", "ingestion complete"}},
             "retrigger_ingestion", "moderate", 90),
     Pattern("empty_tenant_token",
             {{"tenant_health", "token empty"}}, "refresh_tenant_token", "safe", 95),
     Pattern("write_access_denied",
             {{"tenant_health", "no write access"}}, "escalate_to_operator", "moderate", 95),
     Pattern("tenant_capability_blocked",
             {{"capability_report", "blocked"}}, "validate_tenant_onboarding", "safe", 90),
     Pattern("tenant_capability_degraded",
             {{"capability_report", "degraded"}}, "check_pipeline_health", "safe", 80),
     Pattern("daemon_timeout_recurring",
             {{"daemon_health", "3 timeouts in 1h"}}, "restart_daemon_service", "moderate", 85),
     Pattern("daemon_cycle_drift",
             {{"performance_alert", "daemon_cycle_duration", "anomalous"}},
             "diagnose_daemon_timeout", "safe", 85),
     Pattern("pr_generation_slowdown",
             {{"performance_alert", "pr_generation_time", "degrading"}},
             "investigate_stuck_tasks", "safe", 75),
     Pattern("tenant_velocity_drop",
             {{"performance_alert", "task_velocity", "no tasks per day", "was active"}},
             "validate_tenant_onboarding", "safe", 80),
     Pattern("context_health_decline",
             {{"performance_alert", "context_health", "active < 4"}},
             "validate_tenant_onboarding", "safe", 70),
     Pattern("tenant_deploy_stuck",
             {{"tenant_health", "deploy_stuck"}}, "diagnose_and_fix_deploy", "moderate", 85),
     Pattern("tenant_deploy_precondition_failed",
             {{"deploy_readiness", "user action needed"}}, "escalate_to_operator", "safe", 90),
     Pattern("tenant_project_archived",
             {{"project_lifecycle", "archived"}}, "noop", "safe", 100),
     Pattern("tenant_project_restart",
             {{"project_lifecycle", "restart"}}, "validate_tenant_onboarding", "safe", 80),
     Pattern("tenant_no_active_project",
             {{"project_lifecycle", "no_active_project"}}, "monitor", "safe", 70),
     Pattern("tenant_pending_restart_stale",
             {{"project_lifecycle", "stale_restart"}}, "escalate_to_operator", "safe", 75),
     Pattern("smoke_test_failures",
             {{"tenant_health", "smoke pass rate < 80"}}, "escalate_to_operator", "safe", 75) >>

Matches(pattern, event) == \E facts \in pattern.when : facts \subseteq event

MatchedPatterns(event) == { i \in DOMAIN KNOWN_PATTERNS : Matches(KNOWN_PATTERNS[i], event) }

\* _match_pattern and _decision_from_pattern: the first pattern that matches,
\* or the caller's own decision when none does.
MatchOr(event, otherwise) ==
    IF MatchedPatterns(event) = {} THEN otherwise
    ELSE KNOWN_PATTERNS[CHOOSE i \in MatchedPatterns(event) :
                            \A j \in MatchedPatterns(event) : i <= j].decision

PatternNamed(name) ==
    KNOWN_PATTERNS[CHOOSE i \in DOMAIN KNOWN_PATTERNS : KNOWN_PATTERNS[i].name = name].decision

Noop       == Decision("noop", NoPattern, "safe", 100)
Monitor(c) == Decision("monitor", NoPattern, "safe", c)
Escalation(blast, c) == Decision("escalate_to_operator", NoPattern, blast, c)

\* A learned candidate takes an escalation over when there is one.  Its action
\* is the CAPABILITY the operator named, not a triage action.
NoCandidate == [capability |-> NoPattern, blast |-> "safe", conf |-> 0]

CandidateOr(candidate, otherwise) ==
    IF candidate = NoCandidate THEN otherwise
    ELSE Decision(candidate.capability, NoPattern, candidate.blast, candidate.conf)

-----------------------------------------------------------------------------
(* One operator per triage_* function.                                     *)

\* Reports of check_daemon: [healthy, stale, running].
TriageDaemon(report, candidate) ==
    CASE report.healthy -> Noop
      [] ~report.healthy /\ report.stale -> PatternNamed("daemon_stale")
      [] ~report.healthy /\ ~report.stale /\ ~report.running ->
            Decision("restart_daemon_service", NoPattern, "safe", 90)
      [] OTHER -> CandidateOr(candidate, Escalation("moderate", 60))

\* Reports of check_ci: [healthy, recovering].
TriageCi(report) ==
    CASE report.healthy -> Noop
      [] ~report.healthy /\ report.recovering -> Monitor(80)
      [] OTHER -> PatternNamed("ci_failing")

\* Why a stuck deploy is nobody's incident: a pull request waits for its user,
\* or the tenant is finished, a demo, or asleep.
SuppressDeployStuck(report) ==
    \/ report.inReview
    \/ report.stageComplete /\ (report.fewMessages \/ ~report.inProgress)
    \/ report.idle /\ ~report.inProgress

TriageTenant(report, candidate) ==
    CASE report.deployStuck /\ SuppressDeployStuck(report) ->
            Decision("noop", NoPattern, "safe", 95)
      [] report.deployStuck /\ ~SuppressDeployStuck(report) ->
            MatchOr({"tenant_health", "deploy_stuck"}, Noop)
      [] ~report.deployStuck /\ report.status \in {"healthy", "pending"} -> Noop
      [] ~report.deployStuck /\ report.status = "degraded" ->
            IF report.stuckTasks THEN Decision("investigate_stuck_tasks", NoPattern, "safe", 70)
            ELSE Monitor(80)
      [] ~report.deployStuck /\ report.status = "critical" ->
            IF ~report.deploymentHealthy
            THEN Decision("restart_tenant_service", NoPattern, "moderate", 82)
            ELSE CandidateOr(candidate, Escalation("dangerous", 90))
      [] OTHER -> Escalation("moderate", 50)

\* Reports of the capability validator: its overall verdict.
TriageCapability(overall) ==
    CASE overall \in {"fully_operational", "onboarding"} -> Noop
      [] overall = "blocked" ->
            MatchOr({"capability_report", "blocked"},
                    Decision("validate_tenant_onboarding", NoPattern, "safe", 90))
      [] overall = "degraded" ->
            MatchOr({"capability_report", "degraded"}, Monitor(70))
      [] OTHER -> Monitor(50)

TriagePerformance(facts) == MatchOr({"performance_alert"} \cup facts, Monitor(60))

TriageEvent(facts, candidate) ==
    MatchOr(facts, CandidateOr(candidate, Escalation("moderate", 40)))

ShouldAutoHeal(decision) ==
    \/ decision.action = "noop"
    \/ decision.conf >= AutoHealConfidence /\ decision.blast = "safe"
=============================================================================
