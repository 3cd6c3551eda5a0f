---------------------------- MODULE HealCatalogue ----------------------------
(***************************************************************************)
(* The tables the autonomous loop is driven by: the heal chains, the map   *)
(* from triage actions to capabilities, and the capabilities the registry  *)
(* exempts from its hourly budget.  They are data of the code; the modules *)
(* that use them take them as constants, so that nothing proved about the  *)
(* executor depends on what the tables hold.                               *)
(***************************************************************************)
EXTENDS Naturals, Sequences

\* A step names its capability and the poll cycles to wait before verifying.
HealStep(capability, verifyAfterCycles) ==
    [cap |-> capability, verify |-> verifyAfterCycles]

\* heal_chain.CHAINS, by the pattern that starts the chain.
CHAINS ==
    [ daemon_stale |->
        << HealStep("restart_daemon", 2),
           HealStep("diagnose_daemon_timeout", 1),
           HealStep("check_daemon_code_version", 1) >>,
      ci_failing |->
        << HealStep("retrigger_workflow", 5) >>,
      empty_tenant_token |->
        << HealStep("refresh_tenant_token", 1),
           HealStep("validate_tenant_onboarding", 1) >>,
      missing_repo_files |->
        << HealStep("retrigger_ingestion", 3),
           HealStep("validate_repo_indexing", 1) >>,
      tenant_no_prs_after_tasks |->
        << HealStep("validate_tenant_onboarding", 1),
           HealStep("check_pipeline_health", 1) >>,
      tenant_capability_blocked |->
        << HealStep("validate_tenant_onboarding", 1),
           HealStep("refresh_tenant_token", 1) >>,
      daemon_cycle_drift |->
        << HealStep("diagnose_daemon_timeout", 3),
           HealStep("check_daemon_code_version", 1) >>,
      pr_generation_slowdown |->
        << HealStep("check_pipeline_health", 2),
           HealStep("validate_tenant_onboarding", 1) >>,
      tenant_velocity_drop |->
        << HealStep("validate_tenant_onboarding", 1),
           HealStep("check_pipeline_health", 1) >>,
      context_health_decline |->
        << HealStep("validate_tenant_onboarding", 1) >>,
      tenant_deploy_stuck |->
        << HealStep("check_deploy_readiness", 1),
           HealStep("diagnose_and_fix_deploy", 10),
           HealStep("validate_tenant_onboarding", 2) >> ]

\* HealChain.max_total_attempts: declared for every chain, tested nowhere.
MAX_TOTAL_ATTEMPTS == 3

\* executor.ACTION_CAPABILITY_MAP: an action outside its domain runs nothing.
ACTION_CAPABILITY_MAP ==
    [ restart_daemon_service     |-> "restart_daemon",
      retrigger_ci               |-> "retrigger_workflow",
      validate_tenant_onboarding |-> "validate_tenant_onboarding",
      refresh_tenant_token       |-> "refresh_tenant_token",
      retrigger_ingestion        |-> "retrigger_ingestion",
      restart_tenant_service     |-> "restart_service",
      investigate_stuck_tasks    |-> "check_pipeline_health",
      verify_write_access        |-> "verify_write_access",
      retry_tenant_deploy        |-> "retry_tenant_deploy",
      diagnose_tenant_deploy     |-> "diagnose_tenant_deploy",
      diagnose_and_fix_deploy    |-> "diagnose_and_fix_deploy",
      check_deploy_readiness     |-> "check_deploy_readiness" ]

\* CapabilityRegistry._RATE_LIMIT_EXEMPT.
RATE_LIMIT_EXEMPT ==
    { "send_telegram_alert", "send_escalation", "get_service_logs",
      "get_failing_workflows", "diagnose_daemon_timeout",
      "check_daemon_code_version", "validate_tenant_onboarding",
      "validate_repo_indexing", "check_pipeline_health", "verify_write_access" }

\* Every capability the executor can reach, through a chain or the map.
ExecutorCapabilities ==
    { ACTION_CAPABILITY_MAP[a] : a \in DOMAIN ACTION_CAPABILITY_MAP }
      \cup UNION { { CHAINS[p][i].cap : i \in DOMAIN CHAINS[p] }
                     : p \in DOMAIN CHAINS }
=============================================================================
