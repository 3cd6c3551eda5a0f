---------------------------- MODULE TenantWatch ----------------------------
(***************************************************************************)
(* Who notices that a tenant is stuck: the banners a poll leaves in the    *)
(* graph (tenant_actions), the lifecycle watchdog, the onboarding funnel,  *)
(* the tenant validator and the consistency auditor.  Each derives its     *)
(* verdict from what it reads; a read that fails is read as nothing.       *)
(* Ages are recent (within every threshold) or old (beyond every one).     *)
(***************************************************************************)
EXTENDS Naturals

VARIABLES
    tenant,    \* what graph, secret store and AWS hold of the tenant
    banners,   \* its ActionRequired nodes
    current    \* the last poll read and wrote everything, and nothing moved since

watchVars == <<tenant, banners, current>>

Banner == {"ingestion_stuck", "no_cloud_connected", "deploy_stuck"}

IngestionStages  == {"ingestion_pending", "ingesting"}
PostBriefStages  == {"executing", "complete", "brief_pending_approval", "brief_approved",
                     "deploying"}

\* What is known of a tenant when nothing is.
Unread ==
    [stage |-> "", created |-> "unknown", updated |-> "unknown", repo |-> FALSE,
     files |-> 0, brief |-> FALSE, open |-> "none", review |-> FALSE, prs |-> FALSE,
     merged |-> FALSE, work |-> "unknown", lastPr |-> "unknown",
     secret |-> FALSE, url |-> "none", progress |-> "none", stuck |-> FALSE]

\* The queries of a report and the facts each answers; one that fails is read as
\* empty.  The deployment is asked for three times: where the app is, how far the
\* deploy got, and whether it is stuck.
Reads ==
    [context  |-> {"stage", "created", "updated", "repo"},
     pipeline |-> {"files", "brief", "open", "review", "prs", "merged", "work", "lastPr"},
     secret   |-> {"secret"},
     app      |-> {"url"},
     deploy   |-> {"progress"},
     stuck    |-> {"stuck"}]

Seen(t, failing) ==
    [k \in DOMAIN t |-> IF \E r \in failing : k \in Reads[r] THEN Unread[k] ELSE t[k]]

\* ground_truth: an app that answers is deployed whatever the graph says.
Provisioned(t) ==
    \/ t.url = "up"
    \/ t.progress \notin {"none", "not_started"}
    \/ t.progress = "none" /\ t.url = "down"

WatchInit ==
    /\ tenant = [Unread EXCEPT !.created = "recent", !.updated = "recent"]
    /\ banners = {}
    /\ current = FALSE

-----------------------------------------------------------------------------
(* tenant_actions: the banners a report asks for and those it clears.      *)

SinceUpdate(r) == IF r.updated = "unknown" THEN r.created ELSE r.updated

\* The report counts reviews as tasks_in_review, and the banner looks for other
\* names: it is never warranted.
Warranted(r) ==
    {b \in Banner :
        CASE b = "ingestion_stuck"    -> r.stage \in IngestionStages /\ SinceUpdate(r) = "old"
          [] b = "no_cloud_connected" -> r.stage \in PostBriefStages /\ ~Provisioned(r)
          [] b = "deploy_stuck"       -> r.stuck}

\* Mutant: taken back only where it could be put up.
ClearedInStage(r, crashed) ==
    {"deploy_stuck", "pr_awaiting_review"} \union {b \in {"ingestion_stuck"} : r.stage \in IngestionStages}

\* A report without a deployment, of a sensor that crashed, leaves the cloud banner
\* alone; else it is taken back only once there is a cloud.
Cleared(r, crashed) ==
    {"ingestion_stuck", "deploy_stuck", "pr_awaiting_review"}
      \union {b \in {"no_cloud_connected"} : ~crashed /\ Provisioned(r)}

-----------------------------------------------------------------------------
(* The detectors.                                                          *)

ApprovedStages == {"executing", "complete"}

\* lifecycle_watchdog.check_lifecycle; "brief_generating", "analyzing" and
\* "awaiting_approval" are no stages of a tenant.
LifecycleFindings(r) ==
    {c \in {"signup_stalled", "ingestion_stuck", "brief_stuck", "approval_stalled",
            "no_prs_after_approval", "pr_review_stalled", "deploy_not_started"} :
        CASE c = "signup_stalled"        -> r.stage \in {"", "awaiting_repo"} /\ r.created = "old"
          [] c = "ingestion_stuck"       -> /\ r.stage \in IngestionStages \union {"awaiting_repo"}
                                            /\ SinceUpdate(r) = "old"
          [] c = "brief_stuck"           -> /\ r.stage \in {"brief_generating", "analyzing"}
                                            /\ r.updated = "old"
          [] c = "approval_stalled"      -> r.stage = "awaiting_approval" /\ r.updated = "old"
          [] c = "no_prs_after_approval" -> r.stage \in ApprovedStages /\ ~r.prs /\ r.updated = "old"
          [] c = "pr_review_stalled"     -> r.prs /\ r.lastPr = "old"
          [] c = "deploy_not_started"    -> /\ r.stage \in ApprovedStages
                                            /\ ~Provisioned(r) /\ r.updated = "old"}

\* onboarding_monitor: the funnel counts nodes, whatever the tenant's stage is.
StagesPending(r) ==
    {s \in {"repo_connected", "ingestion_complete", "brief_generated", "tasks_created",
            "first_pr", "first_merge"} :
        CASE s = "repo_connected"     -> ~r.repo
          [] s = "ingestion_complete" -> r.files < 5
          [] s = "brief_generated"    -> ~r.brief
          [] s = "tasks_created"      -> r.open = "none" /\ ~r.prs
          [] s = "first_pr"           -> ~r.prs
          [] s = "first_merge"        -> ~r.merged}

\* Mutant: the tenant's own date is not fallen back on.
FunnelAgeOfWork(r) == r.work

\* The newest date among what is done; without any date nothing is late.
FunnelAge(r) == IF r.work = "unknown" THEN r.created ELSE r.work

OnboardingStalled(r) == StagesPending(r) # {} /\ FunnelAge(r) = "old"

\* tenant_validator.validate_tenant: a fresh review excuses what is pending.
ValidatorAlerts(r) ==
    {a \in {"token_empty", "missing_repo_files", "task_stuck", "task_review_abandoned"} :
        CASE a = "token_empty"           -> ~r.secret
          [] a = "missing_repo_files"    -> r.files = 0 /\ r.stage \in {"brief_pending",
                                              "brief_pending_approval", "executing", "complete"}
          [] a = "task_stuck"            -> /\ r.open # "none" /\ r.work = "old"
                                             /\ ~(r.open = "pending" /\ r.review /\ r.lastPr = "recent")
          [] a = "task_review_abandoned" -> r.review /\ r.lastPr = "old"}

\* consistency_auditor.audit_tenant: no report has an active_project, so every
\* tenant past ingestion lacks one, and no repository ever differs from it.
ConsistencyFindings(r) ==
    {c \in {"active_project_exists", "ingest_stage_sync", "cloud_connection_valid"} :
        CASE c = "active_project_exists"  -> r.stage \notin {"", "awaiting_repo", "ingestion_pending"}
          [] c = "ingest_stage_sync"      -> /\ r.stage \in {"awaiting_repo"} \union IngestionStages
                                             /\ r.files >= 10
          [] c = "cloud_connection_valid" -> r.stage \notin {"", "awaiting_repo"} /\ ~r.secret}

-----------------------------------------------------------------------------
(* The customer and the platform move the tenant along.                    *)

Becomes(t) == tenant' = t /\ current' = FALSE /\ UNCHANGED banners

ConnectsRepo(stored) ==
    /\ tenant.stage \in {"", "awaiting_repo"}
    /\ Becomes([tenant EXCEPT !.stage = "ingestion_pending", !.repo = TRUE, !.secret = stored,
                              !.updated = "recent"])

Ingests(n) ==
    /\ tenant.stage \in IngestionStages
    /\ Becomes([tenant EXCEPT !.stage = "ingesting", !.files = n, !.updated = "recent",
                              !.work = IF n >= 5 THEN "recent" ELSE @])

MovesOn ==
    \/ /\ tenant.stage = "ingesting" /\ tenant.files > 0
       /\ Becomes([tenant EXCEPT !.stage = "brief_pending", !.updated = "recent"])
    \/ /\ tenant.stage = "brief_pending"
       /\ Becomes([tenant EXCEPT !.stage = "brief_pending_approval", !.brief = TRUE,
                                 !.work = "recent", !.updated = "recent"])
    \/ /\ tenant.stage = "brief_pending_approval"
       /\ Becomes([tenant EXCEPT !.stage = "executing", !.updated = "recent"])
    \/ /\ tenant.stage = "executing" /\ tenant.merged
       /\ Becomes([tenant EXCEPT !.stage = "complete", !.updated = "recent"])

\* One open task, of the age of the newest, and the reviews it ends in.
Works ==
    /\ tenant.stage = "executing"
    /\ \/ /\ tenant.open = "none"
          /\ Becomes([tenant EXCEPT !.open = "pending", !.work = "recent"])
       \/ tenant.open = "pending" /\ Becomes([tenant EXCEPT !.open = "in_progress"])
       \/ /\ tenant.open = "in_progress"
          /\ Becomes([tenant EXCEPT !.open = "none", !.prs = TRUE, !.review = TRUE,
                                    !.lastPr = "recent"])
       \/ tenant.review /\ Becomes([tenant EXCEPT !.review = FALSE, !.merged = TRUE])

Deploys ==
    /\ tenant.stage \in PostBriefStages
    /\ \/ /\ tenant.progress # "building"
          /\ Becomes([tenant EXCEPT !.progress = "building", !.stuck = TRUE])
       \/ /\ tenant.progress = "building"
          /\ Becomes([tenant EXCEPT !.progress = "live", !.url = "up", !.stuck = FALSE])
       \/ tenant.url = "up" /\ Becomes([tenant EXCEPT !.url = "down"])

\* A secret that can be read always counts as a token: it is its own `_raw`.
LosesSecret == tenant.secret /\ Becomes([tenant EXCEPT !.secret = FALSE])

\* A new project: the first one's nodes stay, or are cleared with its deployment.
StartsOver(wiped) ==
    /\ tenant.stage \in {"executing", "complete"}
    /\ Becomes(IF wiped
               THEN [Unread EXCEPT !.stage = "awaiting_repo", !.created = tenant.created,
                                   !.updated = "recent", !.repo = tenant.repo,
                                   !.secret = tenant.secret]
               ELSE [tenant EXCEPT !.stage = "awaiting_repo", !.updated = "recent"])

GrowsOld ==
    \E k \in {"created", "updated", "work", "lastPr"} :
        tenant[k] = "recent" /\ Becomes([tenant EXCEPT ![k] = "old"])

-----------------------------------------------------------------------------
\* platform_status looks at the tenant: reads fail singly, or the sensor crashes;
\* a banner's write may be lost.
PollTenant(failing, crashed, lost) ==
    LET r == IF crashed THEN Unread ELSE Seen(tenant, failing)
        asked == Warranted(r) \ {b \in {"no_cloud_connected"} : crashed}
    IN  /\ banners' = (banners \ (Cleared(r, crashed) \ lost)) \union (asked \ lost)
        /\ current' = (failing = {} /\ ~crashed /\ lost = {})
        /\ UNCHANGED tenant

WatchNext ==
    \/ \E stored \in BOOLEAN : ConnectsRepo(stored)
    \/ \E n \in {1, 5, 10} : Ingests(n)
    \/ MovesOn
    \/ Works
    \/ Deploys
    \/ LosesSecret
    \/ \E wiped \in BOOLEAN : StartsOver(wiped)
    \/ GrowsOld
    \/ PollTenant({}, FALSE, {})
    \* Bound: one fault to a poll.
    \/ \E r \in DOMAIN Reads : PollTenant({r}, FALSE, {})
    \/ \E b \in Banner : PollTenant({}, FALSE, {b})
    \/ PollTenant({}, TRUE, {})

WatchSpec == WatchInit /\ [][WatchNext]_watchVars

-----------------------------------------------------------------------------
\* A cleared banner is looked for in every set of Cleared: a poll that put one up
\* by a failed read is set right by the next poll that reads everything.  The cloud
\* banner is not, for a customer who starts over.
BannersSettle ==
    current => banners \ {"no_cloud_connected"} = Warranted(tenant) \ {"no_cloud_connected"}

\* Nothing about the tenant moved for longer than every threshold, and its first
\* merge or its deployment is missing.
Stuck(t) ==
    /\ \A k \in {"created", "updated", "work", "lastPr"} : t[k] # "recent"
    /\ StagesPending(t) # {} \/ ~Provisioned(t)

\* What the auditor finds of every tenant past ingestion says nothing.
AlwaysFound(t) == ConsistencyFindings(t) \intersect {"active_project_exists"}

\* The watchdog, the funnel, the validator and the auditor each look at different
\* facts and none covers every stage; together they leave no tenant stuck unseen, but for a
\* brief of a second project.
NoStallUnseen ==
    Stuck(tenant) /\ ~(tenant.stage \in {"brief_pending", "brief_pending_approval"} /\ tenant.prs)
      => \/ LifecycleFindings(tenant) # {}
         \/ OnboardingStalled(tenant)
         \/ ValidatorAlerts(tenant) # {}
         \/ ConsistencyFindings(tenant) # AlwaysFound(tenant)

\* The watchdog's findings cover every stage between signup and delivery.
StageIsWatched ==
    tenant.stage \notin ApprovedStages /\ tenant.created = "old" /\ tenant.updated = "old"
      => LifecycleFindings(tenant) # {}
=============================================================================
