----------------------------- MODULE DeployGate -----------------------------
(***************************************************************************)
(* The two advisers a pipeline asks before it deploys: the CI gate         *)
(* (ci_decision_engine behind ci_cd_gates and the operator's override) and *)
(* the deploy decision (deploy_decision).  Both read the platform at the   *)
(* moment they are asked and keep nothing; the override is a row that is   *)
(* never swept, only read as lapsed.                                       *)
(***************************************************************************)
EXTENDS Naturals, FiniteSets

CONSTANTS
    Value,      \* the values of each factor of the platform
    Duration    \* the override's possible durations, in units of time

ASSUME DurationAssumption == Duration \subseteq Nat \ {0}

VARIABLES
    fact,      \* what the sensors, feeds and graph hold now
    override   \* the OverwatchCIGateOverride node

deployVars == <<fact, override>>

Fact ==
    [ci: Value.ci, audit: Value.audit, tenants: Value.tenants, synthetic: Value.synthetic,
     lastDeploy: Value.lastDeploy, daemon: Value.daemon, risk: Value.risk,
     incidents: Value.incidents, chains: Value.chains, failures: Value.failures,
     offHours: Value.offHours, buried: Value.buried]

NoRow == [decision |-> "none", left |-> 0]

-----------------------------------------------------------------------------
(* The factors of evaluate_deploy_readiness.                               *)

CiTests(f) ==
    CASE f.ci = "unavailable" -> "warn"
      [] f.ci = "failed" -> "block"
      [] f.ci = "passed" -> "pass"

CodeHealth(f) == IF f.audit \in {"none", "over 200 critical"} THEN "warn" ELSE "pass"

\* Mutant: the comparison of the blocking threshold is strict.
IncidentsStrict(f) ==
    CASE f.incidents > 3 -> "block"
      [] f.incidents \in 1..2 -> "warn"
      [] OTHER -> "pass"

Incidents(f) ==
    CASE f.incidents >= 3 -> "block"
      [] f.incidents \in 1..2 -> "warn"
      [] OTHER -> "pass"

TenantHealth(f) == IF f.tenants \in {"none", "two critical"} THEN "warn" ELSE "pass"

SyntheticTests(f) == IF f.synthetic \in {"none run", "below 80%"} THEN "warn" ELSE "pass"

DeployHistory(f) == IF f.lastDeploy = "failed" THEN "warn" ELSE "pass"

HealChains(f) == IF f.chains >= 3 THEN "warn" ELSE "pass"

\* check_daemon: a sensor that fails reports a stopped, stale daemon, and a graph
\* that cannot be read a stale one.
Stale(f)   == f.daemon \in {"stale", "down", "unreadable"}
Stopped(f) == f.daemon \in {"down", "unreadable"}

\* Mutant: only the age of the last cycle is looked at, as the graph has it.
StabilityByAge(f) ==
    CASE f.daemon = "stale" -> "block"
      [] f.daemon = "over 5 errors" -> "warn"
      [] OTHER -> "pass"

SystemStability(f) ==
    CASE Stale(f) \/ Stopped(f) -> "block"
      [] f.daemon = "over 5 errors" -> "warn"
      [] OTHER -> "pass"

\* A factor that raises warns.
Factors(f) ==
    [ci_tests |-> CiTests(f), code_health |-> CodeHealth(f), incidents |-> Incidents(f),
     tenant_health |-> TenantHealth(f), synthetic_tests |-> SyntheticTests(f),
     deploy_history |-> DeployHistory(f), heal_chains |-> HealChains(f),
     system_stability |-> SystemStability(f)]

Having(f, status) == {k \in DOMAIN Factors(f) : Factors(f)[k] = status}

EvaluateDeployReadiness(f) ==
    CASE Having(f, "block") # {} -> "HOLD"
      [] Having(f, "block") = {} /\ Cardinality(Having(f, "warn")) >= 3 -> "CANARY"
      [] OTHER -> "DEPLOY"

-----------------------------------------------------------------------------
(* deploy_decision.                                                        *)

PlatformHealth(f) ==
    CASE Stopped(f) -> "critical"
      [] ~Stopped(f) /\ (Stale(f) \/ f.ci = "failed") -> "degraded"
      [] OTHER -> "healthy"

\* get_deploy_failure_count looks for failures among the last 200 events of every
\* type; triage records one at each poll.
RecentDeployFailures(f) == IF f.buried THEN 0 ELSE f.failures

HoldReasons(f) ==
    {r \in {"platform", "chains", "failures", "risk", "incidents"} :
        CASE r = "platform"  -> PlatformHealth(f) = "critical"
          [] r = "chains"    -> f.chains >= 3
          [] r = "failures"  -> RecentDeployFailures(f) >= 3
          [] r = "risk"      -> f.risk = "above 0.7"
          [] r = "incidents" -> f.incidents >= 2}

EvaluateDeployRequest(f) ==
    CASE HoldReasons(f) # {} -> "HOLD"
      [] HoldReasons(f) = {} /\ (f.risk # "up to 0.4" \/ f.chains > 0 \/ f.offHours) -> "CANARY"
      [] OTHER -> "DEPLOY"

-----------------------------------------------------------------------------
DeployInit ==
    /\ fact \in Fact
    /\ override = NoRow

\* One thing about the platform changes.
FactChanges ==
    /\ \E k \in DOMAIN fact : \E v \in Value[k] : fact' = [fact EXCEPT ![k] = v]
    /\ UNCHANGED override

\* set_override replaces the row, whatever it holds.
SetOverride(decision, duration) ==
    /\ override' = [decision |-> decision, left |-> duration]
    /\ UNCHANGED fact

ClearOverride ==
    /\ override # NoRow
    /\ override' = NoRow
    /\ UNCHANGED fact

\* Time passes; a lapsed row stays where it is.
Tick ==
    /\ override.left > 0
    /\ override' = [override EXCEPT !.left = @ - 1]
    /\ UNCHANGED fact

\* Mutant: the row decides for as long as it is there.
ActiveOverrideUnexpired == override # NoRow

\* get_active_override
ActiveOverride == override # NoRow /\ override.left > 0

\* evaluate_ci_gate: an override in force decides, unless it cannot be read; a
\* CANARY of the engine deploys.
CiGate ==
    {IF EvaluateDeployReadiness(fact) = "HOLD" THEN "HOLD" ELSE "DEPLOY"}
      \union (IF ActiveOverride THEN {override.decision} ELSE {})

DeployNext ==
    \/ FactChanges
    \/ \E d \in {"DEPLOY", "HOLD"}, n \in Duration : SetOverride(d, n)
    \/ ClearOverride
    \/ Tick

DeploySpec == DeployInit /\ [][DeployNext]_deployVars

DeployFairSpec == DeploySpec /\ WF_deployVars(Tick)

-----------------------------------------------------------------------------
Rank(decision) ==
    CASE decision = "HOLD" -> 0
      [] decision = "CANARY" -> 1
      [] decision = "DEPLOY" -> 2

Badness ==
    [ci |-> <<"passed", "unavailable", "failed">>,
     audit |-> <<"ok", "over 200 critical">>,
     tenants |-> <<"ok", "two critical">>,
     synthetic |-> <<"ok", "below 80%">>,
     lastDeploy |-> <<"ok", "failed">>,
     daemon |-> <<"ok", "over 5 errors", "stale", "down">>,
     risk |-> <<"up to 0.4", "up to 0.7", "above 0.7">>,
     incidents |-> <<0, 1, 2, 3>>,
     chains |-> <<0, 1, 2, 3>>,
     failures |-> <<0, 1, 2, 3>>,
     offHours |-> <<FALSE, TRUE>>,
     buried |-> <<>>]

\* One field moves to a worse value.
Worsens(f, g) ==
    /\ f # g
    /\ \E k \in DOMAIN f :
         /\ \A m \in DOMAIN f \ {k} : g[m] = f[m]
         /\ \E i, j \in DOMAIN Badness[k] :
              i < j /\ f[k] = Badness[k][i] /\ g[k] = Badness[k][j]

\* The factors interact (warnings add up, hold reasons hide canaries): nothing
\* that gets worse ever turns an answer of either adviser for the better.
WorseIsNeverBetter ==
    [][Worsens(fact, fact') =>
         /\ Rank(EvaluateDeployReadiness(fact')) <= Rank(EvaluateDeployReadiness(fact))
         /\ Rank(EvaluateDeployRequest(fact')) <= Rank(EvaluateDeployRequest(fact))]_deployVars

\* A deploy on a platform whose daemon is down is let through by an operator's
\* override in force or by nobody.
DeadPlatformHolds ==
    Stopped(fact) =>
        /\ EvaluateDeployRequest(fact) = "HOLD"
        /\ "DEPLOY" \in CiGate => override.decision = "DEPLOY" /\ override.left > 0

\* "no forever overrides": one that is in force for ever is renewed for ever.
OverrideRunsOut ==
    <>[]("DEPLOY" \in CiGate /\ Stopped(fact))
      => []<><<\E d \in {"DEPLOY", "HOLD"}, n \in Duration : SetOverride(d, n)>>_deployVars

\* "Fail-open convention: telemetry outage warns, never blocks."
OutageNeverBlocks ==
    fact.daemon = "unreadable" /\ fact.ci = "unavailable" /\ fact.incidents = 0
        => EvaluateDeployReadiness(fact) # "HOLD"
=============================================================================
