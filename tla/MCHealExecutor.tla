--------------------------- MODULE MCHealExecutor ---------------------------
(* Instances of HealExecutor: the code's tables, and the observations the   *)
(* sensors of the chosen sources can deliver.                               *)
EXTENDS HealExecutor

Tables  == INSTANCE HealCatalogue
Sensors == INSTANCE SensorReports

MCTarget ==
    [s \in Source |->
        CASE s \in {"daemon", "learning daemon", "performance:daemon_cycle"} -> "aria-daemon"
          [] s = "ci" -> "ci"
          [] OTHER -> "T"]

\* A candidate an operator's resolution left behind: its capability may be named
\* as triage names the action, with a confidence the gate lets through or not;
\* its blast radius is what the request that captured it said.
Learned(conf, blast) == [capability |-> "restart_daemon_service", blast |-> blast, conf |-> conf]

Unlearned == {Sensors!T!NoCandidate}
Candidates == Unlearned \cup {Learned(65, "safe"), Learned(80, "safe"), Learned(80, "dangerous")}

DaemonObservations        == Sensors!DaemonObservations(Unlearned)
LearnedDaemonObservations == Sensors!DaemonObservations(Candidates)
TenantObservations        == Sensors!TenantObservations(Unlearned)

MCObservations ==
    [s \in Source |->
        CASE s = "daemon" -> DaemonObservations
          [] s = "learning daemon" -> LearnedDaemonObservations
          [] s = "ci" -> Sensors!CiObservations
          [] s = "tenant:T" -> TenantObservations
          [] s = "capability:T" -> Sensors!CapabilityObservations
          [] s = "performance:daemon_cycle" -> Sensors!CycleObservations
          [] OTHER -> Sensors!ContextObservations]

\* The tables, whole.  The actions are those of the known patterns and of the
\* triage functions.
MCChain            == Tables!CHAINS
MCActionCapability == Tables!ACTION_CAPABILITY_MAP
MCCapability       == Tables!ExecutorCapabilities
MCExempt           == Tables!RATE_LIMIT_EXEMPT

MCAction ==
    DOMAIN Tables!ACTION_CAPABILITY_MAP
      \cup {"noop", "monitor", "escalate_to_operator", "check_pipeline_health",
            "diagnose_daemon_timeout"}

=============================================================================
