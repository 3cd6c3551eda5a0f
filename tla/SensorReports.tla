---------------------------- MODULE SensorReports ----------------------------
(***************************************************************************)
(* What the sensors make of the facts they read, and which of their        *)
(* reports platform_status hands to the executor.  The operators at the    *)
(* end give every observation a source can deliver: the triage decision,   *)
(* the sensor_healthy argument and whether the executor is called.         *)
(***************************************************************************)
EXTENDS Naturals

T == INSTANCE Triage

Observe(decision, healthy, polled) ==
    [action |-> decision.action, pattern |-> decision.pattern,
     blast |-> decision.blast, conf |-> decision.conf,
     healthy |-> healthy, polled |-> polled]

-----------------------------------------------------------------------------
\* check_daemon: a daemon with no task running is reported stale as well, and
\* a sensor that crashes reports a stopped, stale daemon.
DaemonReport(running, lastCycleOld, errors) ==
    [running |-> running,
     stale   |-> running => lastCycleOld,
     healthy |-> running /\ ~lastCycleOld /\ ~errors]

DaemonReports == { DaemonReport(r, o, e) : r, o, e \in BOOLEAN }

\* check_ci: the 24h window may still be red when the latest runs are green.
CiReports == { r \in [healthy: BOOLEAN, recovering: BOOLEAN] : ~(r.healthy /\ r.recovering) }

\* _rollup of the deployment, pipeline and conversation snapshots.
Rollup(t) ==
    CASE ~t.provisioned -> "pending"
      [] t.provisioned /\ (~t.infraHealthy \/ t.stuckCount > 2) -> "critical"
      [] t.provisioned /\ t.infraHealthy /\ t.stuckCount \in 1..2 -> "degraded"
      [] OTHER -> IF t.idle THEN "degraded" ELSE "healthy"

\* Only a task in progress can be stuck; a tenant without a stack has no
\* service to be unhealthy.
TenantFacts ==
    { t \in [provisioned: BOOLEAN, infraHealthy: BOOLEAN, stuckCount: 0..3,
             deployStuck: BOOLEAN, inReview: BOOLEAN, inProgress: BOOLEAN,
             stageComplete: BOOLEAN, fewMessages: BOOLEAN, idle: BOOLEAN] :
        t.stuckCount > 0 => t.inProgress }

TenantReport(t) ==
    [status |-> Rollup(t), deploymentHealthy |-> t.provisioned /\ t.infraHealthy,
     stuckTasks |-> t.stuckCount > 0, deployStuck |-> t.deployStuck,
     inReview |-> t.inReview, inProgress |-> t.inProgress,
     stageComplete |-> t.stageComplete, fewMessages |-> t.fewMessages, idle |-> t.idle]

\* validate_tenant_capabilities: the verdict of the checks that failed or warned.
CapabilityVerdict(onboarding, failed, warned) ==
    CASE onboarding -> "onboarding"
      [] ~onboarding /\ failed > 0 -> "blocked"
      [] ~onboarding /\ failed = 0 /\ warned > 2 -> "degraded"
      [] OTHER -> "fully_operational"

\* context_health: a tenant with few completed tasks is ramping up, and
\* healthy whatever its sources.
ContextHealthy(active, ramping) == active >= 4 \/ ramping

-----------------------------------------------------------------------------
(* platform_status, by source.                                             *)

DaemonObservations(candidates) ==
    { Observe(T!TriageDaemon(r, c), r.healthy, TRUE) : r \in DaemonReports, c \in candidates }

CiObservations == { Observe(T!TriageCi(r), r.healthy, TRUE) : r \in CiReports }

TenantObservations(candidates) ==
    { Observe(T!TriageTenant(TenantReport(t), c), Rollup(t) = "healthy", TRUE)
        : t \in TenantFacts, c \in candidates }

\* The executor hears of a capability report only when it is bad and the
\* tenant's deployment is provisioned.
CapabilityObservations ==
    { LET overall == CapabilityVerdict(onboarding, failed, warned)
      IN  Observe(T!TriageCapability(overall), overall = "fully_operational",
                  overall \in {"blocked", "degraded"} /\ provisioned)
        : onboarding, provisioned \in BOOLEAN, failed \in 0..1, warned \in 0..3 }

CycleObservations ==
    { Observe(IF anomalous THEN T!TriagePerformance({"daemon_cycle_duration", "anomalous"})
              ELSE T!Noop, ~anomalous, anomalous) : anomalous \in BOOLEAN }

ContextObservations ==
    { Observe(IF active < 4 THEN T!TriagePerformance({"context_health", "active < 4"})
              ELSE T!Noop, ContextHealthy(active, ramping), active < 4)
        : active \in 0..8, ramping \in BOOLEAN }
=============================================================================
