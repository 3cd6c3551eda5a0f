----------------------------- MODULE ReadTools -----------------------------
(***************************************************************************)
(* One dispatch of a read tool of Overwatch V2, request by request: the    *)
(* windowed and paged sources, the catalogues, the code readers behind the *)
(* GitHub App, and the readers of a customer's tenant with their three     *)
(* guardrails.  An event is a unit of a count; what a caller is to know of *)
(* an answer is whether something is missing from it and whether it says so*)
(***************************************************************************)
EXTENDS Naturals

CONSTANTS
    MaxHeld,    \* bound: events a source holds for a request
    MaxCap      \* bound: events a caller asks for

ASSUME ReadAssumption == MaxHeld \in Nat \ {0} /\ MaxCap \in Nat \ {0}

VARIABLES
    call,       \* the tool call in progress, or the last one
    github      \* the GitHub App's key and installation token as the process keeps them

readVars == <<call, github>>

Lower(a, b) == IF a <= b THEN a ELSE b

NoCall ==
    [tool |-> "none", step |-> "idle", cap |-> 1, wide |-> FALSE, extra |-> FALSE,
     left |-> 0, got |-> 0, unmatched |-> FALSE, missing |-> FALSE, told |-> FALSE,
     seen |-> {}, read |-> {}, audit |-> FALSE]

CodeTools   == {"read_github", "read_repo_file", "list_repo_files", "search_codebase",
                "read_git_diff"}
TenantTools == {"read_customer_tenant_state", "read_customer_pipeline",
                "read_customer_ontology", "read_aria_conversations"}
SingleTools == {"read_aws_resource", "query_engineering_ontology", "query_pipeline_truth",
                "read_overwatch_metrics"}

Kind == {"ecs", "targetgroup", "stack", "project", "other"}
Tag  == {"own", "foreign", "untagged"}

ReadInit ==
    /\ call = NoCall
    /\ github = [creds |-> "none", token |-> "none"]

Pending(tool, step) == call.tool = tool /\ call.step = step

Keeps == UNCHANGED github

BeginRead(c) == call.step = "idle" /\ call' = c /\ Keeps

\* The reasoner takes the result.
Taken == call.step \in {"answered", "failed"} /\ call' = NoCall /\ Keeps

\* A handler that raises: the error is classified by its code, and what was gathered
\* is lost with it.
Fails == call' = [call EXCEPT !.step = "failed"] /\ Keeps

\* The gate, the service or the network refuses a step.
StepFails ==
    /\ call.step \in {"paging", "objects", "sources", "github", "listing", "reading", "querying"}
    /\ Fails

Answered(c) == call' = [c EXCEPT !.step = "answered"] /\ Keeps

-----------------------------------------------------------------------------
(* Events within a window, of which at most `cap` are wanted.              *)

\* What is refused there (a cap over the limit of read_cloudwatch_logs, a window that
\* ends before it starts) is a step that fails.
BeginWindow(tool, n, cap, wide, extra) ==
    /\ tool \in {"read_cloudtrail", "read_cloudwatch_logs", "read_cloudwatch_metrics",
                 "list_aws_resources"}
    /\ BeginRead([NoCall EXCEPT !.tool = tool, !.step = "paging", !.left = n, !.cap = cap,
                            !.wide = wide, !.missing = wide, !.extra = extra])

\* A page has at most what was asked for; there is a next one whenever something is
\* left, and there may be one when nothing is.
Page(most, k, more) == k <= Lower(most, call.left) /\ (k < call.left => more)

\* LookupEvents takes one attribute: events that miss the caller's other filters come
\* back with the rest, and nothing drops them.
Shaped(k, odd) ==
    [call EXCEPT !.left = @ - k, !.got = @ + k,
                 !.unmatched = @ \/ (call.extra /\ odd /\ k > 0)]

\* Mutant: only the window is told.
WindowOnly(c, more) == [c EXCEPT !.missing = @ \/ c.left > 0, !.told = c.wide]

Truncates(c, more) ==
    [c EXCEPT !.missing = @ \/ c.left > 0, !.told = c.wide \/ more]

LookupEvents ==
    /\ Pending("read_cloudtrail", "paging")
    /\ \E k \in 0..MaxHeld, more, odd \in BOOLEAN :
        LET c == Shaped(k, odd)
        IN  /\ Page(call.cap - call.got, k, more)
            /\ IF more /\ c.got < c.cap
               THEN call' = c /\ Keeps
               ELSE Answered(Truncates(c, more))

\* One page, however short, is the answer.
FilterLogEvents ==
    /\ Pending("read_cloudwatch_logs", "paging")
    /\ \E k \in 0..MaxHeld, more \in BOOLEAN :
        /\ Page(call.cap, k, more)
        /\ Answered(Truncates(Shaped(k, FALSE), more))

GetMetricStatistics ==
    /\ Pending("read_cloudwatch_metrics", "paging")
    /\ Answered([Shaped(call.left, FALSE) EXCEPT !.told = call.wide])

\* Every page is read, and then the list is cut.
ListPage ==
    /\ Pending("list_aws_resources", "paging") /\ ~call.wide
    /\ \E k \in 0..MaxHeld, more \in BOOLEAN :
        LET c == Shaped(k, FALSE)
            over == c.got > c.cap
        IN  /\ Page(MaxHeld, k, more)
            /\ IF more
               THEN call' = c /\ Keeps
               ELSE Answered([c EXCEPT !.got = Lower(c.got, c.cap), !.missing = over,
                                       !.told = over])

-----------------------------------------------------------------------------
(* ALB logs in S3, and the correlator over three sources.                  *)

BeginAlb(objects, cap, wide) ==
    BeginRead([NoCall EXCEPT !.tool = "read_alb_logs", !.step = "objects", !.left = objects,
                         !.cap = cap, !.wide = wide, !.missing = wide, !.told = wide])

\* An object over 5 MB is passed over in silence; one near the window is read whole, up
\* to ten minutes to either side.
ReadObject ==
    /\ Pending("read_alb_logs", "objects") /\ call.left > 0
    /\ \E n \in 0..MaxHeld, big, odd \in BOOLEAN :
        LET all == call.got + (IF big THEN 0 ELSE n)
            c   == [call EXCEPT !.left = @ - 1, !.got = Lower(all, call.cap),
                                !.missing = @ \/ (big /\ n > 0),
                                !.unmatched = @ \/ (odd /\ ~big /\ n > 0)]
        IN  IF ~big /\ n > 0 /\ all >= call.cap
            THEN Answered([c EXCEPT !.missing = @ \/ all > c.cap \/ c.left > 0, !.told = TRUE])
            ELSE call' = c /\ Keeps

AlbDone == Pending("read_alb_logs", "objects") /\ call.left = 0 /\ Answered(call)

Sources == 3

\* No window of the correlator is over its sources' limits.
BeginCorrelated(cap) ==
    BeginRead([NoCall EXCEPT !.tool = "query_correlated_events", !.step = "sources",
                         !.left = Sources, !.cap = cap])

PerSource(cap) == Lower(cap, IF cap \div Sources = 0 THEN 1 ELSE cap \div Sources)

\* The parts' own `truncated` is dropped with their envelopes.  CloudTrail is read to
\* its share, the logs' single page and the ALB's objects may give less.
ReadSource ==
    /\ Pending("query_correlated_events", "sources") /\ call.left > 0
    /\ \E n \in 0..MaxHeld : \E k \in 0..Lower(n, PerSource(call.cap)) :
        /\ call.left = Sources => k = Lower(n, PerSource(call.cap))
        /\ call' = [call EXCEPT !.left = @ - 1, !.got = @ + k, !.missing = @ \/ k < n]
        /\ Keeps

Correlate ==
    /\ Pending("query_correlated_events", "sources") /\ call.left = 0
    /\ Answered([call EXCEPT !.got = Lower(@, call.cap), !.missing = @ \/ call.got > call.cap,
                             !.told = call.got > call.cap])

-----------------------------------------------------------------------------
(* Code behind the GitHub App.                                             *)

\* The token is dropped by its age alone, ten minutes before GitHub drops it.
TokenAges ==
    github.token # "none" /\ github' = [github EXCEPT !.token = "none"] /\ UNCHANGED call

TokenRevoked ==
    github.token = "good" /\ github' = [github EXCEPT !.token = "revoked"] /\ UNCHANGED call

KeyReplaced ==
    github.creds = "good" /\ github' = [github EXCEPT !.creds = "replaced"] /\ UNCHANGED call

ProcessStarts == github' = [creds |-> "none", token |-> "none"] /\ call' = NoCall

\* get_installation_token, for every request anew: the key is read once per process.
Authorised(outcome) ==
    \/ github.token = "good" /\ outcome = "sent" /\ UNCHANGED github
    \/ github.token = "revoked" /\ outcome = "refused" /\ UNCHANGED github
    \/ /\ github.token = "none" /\ github.creds # "replaced" /\ outcome = "sent"
       /\ github' = [github EXCEPT !.creds = "good", !.token = "good"]
    \/ github.token = "none" /\ github.creds = "replaced" /\ outcome = "refused"
       /\ UNCHANGED github

\* A repository outside the allowlist is refused before anything is asked of GitHub.
BeginCode(tool, repos, cap, allowed) ==
    /\ tool \in CodeTools
    /\ tool # "search_codebase" => repos = 1
    /\ BeginRead([NoCall EXCEPT !.tool = tool, !.left = repos, !.cap = cap, !.wide = (repos = 2),
                            !.step = IF allowed THEN "github" ELSE "failed"])

CodeRefused ==
    /\ call.tool \in CodeTools /\ call.step = "github"
    /\ Authorised("refused")
    /\ call' = [call EXCEPT !.step = "failed"]

PerPage == IF call.wide THEN (call.cap + 1) \div 2 ELSE call.cap

\* search_codebase: one request to each repository, which also says how many there are.
SearchRepo ==
    /\ Pending("search_codebase", "github") /\ Authorised("sent")
    /\ \E n \in 0..MaxHeld :
        LET items == call.got + Lower(n, PerPage)
            found == call.missing \/ n > PerPage
        IN  call' = IF call.left > 1
                    THEN [call EXCEPT !.left = @ - 1, !.got = items, !.missing = found]
                    ELSE [call EXCEPT !.left = 0, !.step = "answered",
                                      !.got = Lower(items, call.cap),
                                      !.missing = found \/ items > call.cap,
                                      !.told = items > call.cap \/ found]

FileSize == {"small", "over 64k", "over 1M", "over 10M"}

\* read_repo_file says that GitHub stripped or cut the content; read_github cuts at
\* 64 000 characters and says nothing.  A directory is refused.
ReadFile ==
    /\ call.tool \in {"read_repo_file", "read_github"} /\ call.step = "github"
    /\ Authorised("sent")
    /\ \E size \in FileSize, dir \in BOOLEAN :
        call' = IF dir \/ (call.tool = "read_repo_file" /\ size = "over 10M")
                THEN [call EXCEPT !.step = "failed"]
                ELSE [call EXCEPT !.step = "answered",
                                  !.missing = IF call.tool = "read_github" THEN size # "small"
                                              ELSE size = "over 1M",
                                  !.told = call.tool = "read_repo_file" /\ size = "over 1M"]

\* A patch over 50 000 characters is cut and said to be; one GitHub leaves out is empty.
ReadDiff ==
    /\ Pending("read_git_diff", "github") /\ Authorised("sent")
    /\ \E cut, leftOut \in BOOLEAN :
        call' = [call EXCEPT !.step = "answered", !.missing = cut \/ leftOut, !.told = cut]

ListFiles ==
    /\ Pending("list_repo_files", "github") /\ Authorised("sent")
    /\ \E file \in BOOLEAN :
        call' = [call EXCEPT !.step = IF file THEN "failed" ELSE "answered"]

-----------------------------------------------------------------------------
(* One thing named by the caller.                                          *)

BeginSingle(tool) ==
    tool \in SingleTools /\ BeginRead([NoCall EXCEPT !.tool = tool, !.step = "asking"])

\* What is not there is reported as an error; a list of ontology objects ends at its limit.
ReadSingle ==
    /\ call.tool \in SingleTools /\ call.step = "asking"
    /\ \/ \E cut \in BOOLEAN :
            /\ cut => call.tool = "query_engineering_ontology"
            /\ Answered([call EXCEPT !.got = 1, !.missing = cut])
       \/ Fails

-----------------------------------------------------------------------------
(* A customer's tenant: list by tag, assert, read, audit.                  *)

\* Guardrail 1: an id of another form is refused.
BeginTenant(tool, wellFormed) ==
    /\ tool \in TenantTools
    /\ BeginRead([NoCall EXCEPT !.tool = tool,
                            !.step = IF ~wellFormed THEN "failed"
                                     ELSE IF tool \in {"read_customer_tenant_state",
                                                       "read_customer_pipeline"}
                                     THEN "listing" ELSE "querying"])

KindsOf(tool) == IF tool = "read_customer_pipeline" THEN {"project", "stack"}
                 ELSE {"ecs", "targetgroup", "stack"}

\* The filter is by tag, and is not trusted to be right.
ListTenantResources ==
    /\ call.step = "listing"
    /\ \E a, b \in [kind : Kind, tag : Tag] : \* Bound: two resources.
        call' = [call EXCEPT !.seen = {a, b}, !.step = "asserting"]
    /\ Keeps

\* Mutant: the assertion of another tool's kinds.
AssertedElsewhere(tool) == {"ecs", "targetgroup", "project"}

Asserted(tool) == KindsOf(tool)

\* Guardrail 2.
AssertBelongs ==
    /\ call.step = "asserting"
    /\ IF \E r \in call.seen : r.kind \in Asserted(call.tool) /\ r.tag # "own"
       THEN Fails
       ELSE call' = [call EXCEPT !.step = "reading"] /\ Keeps

\* Kind by kind; what fails for one target group, build or stack is left out.
ReadKind ==
    /\ call.step = "reading"
    /\ \E kind \in KindsOf(call.tool) :
        \E got \in SUBSET {r \in call.seen : r.kind = kind} :
            call' = [call EXCEPT !.read = @ \union got]
    /\ Keeps

KindsRead ==
    /\ call.step = "reading"
    /\ call' = [call EXCEPT !.step = "auditing"] /\ Keeps

\* The graph's four queries and the two log groups answer by tenant id; one that fails
\* is empty.
QueryTenant ==
    /\ call.step = "querying"
    /\ call' = [call EXCEPT !.step = "auditing", !.got = 1] /\ Keeps

\* Guardrail 3, best effort.
WriteAuditEvent ==
    /\ call.step = "auditing"
    /\ \E written \in BOOLEAN : Answered([call EXCEPT !.audit = written])

-----------------------------------------------------------------------------
Cap == 1..MaxCap
Held == 0..MaxHeld

ReadBegin ==
    \/ \E tool \in {"read_cloudtrail", "read_cloudwatch_logs", "read_cloudwatch_metrics",
                    "list_aws_resources"}, n \in Held, cap \in Cap, wide, extra \in BOOLEAN :
            /\ extra => tool = "read_cloudtrail"
            /\ wide => tool # "list_aws_resources"
            /\ BeginWindow(tool, n, cap, wide, extra)
    \/ \E objects \in 0..2, cap \in Cap, wide \in BOOLEAN : BeginAlb(objects, cap, wide)
    \/ \E cap \in Cap : BeginCorrelated(cap)
    \/ \E tool \in CodeTools, repos \in 1..2, cap \in Cap, allowed \in BOOLEAN :
            BeginCode(tool, repos, cap, allowed)
    \/ \E tool \in SingleTools : BeginSingle(tool)
    \/ \E tool \in TenantTools, wellFormed \in BOOLEAN : BeginTenant(tool, wellFormed)

ReadNext ==
    \/ ReadBegin
    \/ Taken \/ StepFails
    \/ LookupEvents \/ FilterLogEvents \/ GetMetricStatistics \/ ListPage
    \/ ReadObject \/ AlbDone \/ ReadSource \/ Correlate
    \/ TokenAges \/ TokenRevoked \/ KeyReplaced \/ ProcessStarts
    \/ CodeRefused \/ SearchRepo \/ ReadFile \/ ReadDiff \/ ListFiles
    \/ ReadSingle
    \/ ListTenantResources \/ AssertBelongs \/ ReadKind \/ KindsRead \/ QueryTenant
    \/ WriteAuditEvent

ReadSpec == ReadInit /\ [][ReadNext]_readVars

-----------------------------------------------------------------------------
\* The tools that page, list, search or fetch say so whenever a bound, a page or GitHub
\* kept something from the answer.
Silent == {"query_correlated_events", "read_alb_logs", "read_github", "read_git_diff",
           "query_engineering_ontology"}

MissingIsTold ==
    call.step = "answered" /\ call.missing => call.told \/ call.tool \in Silent

\* The same of every tool.
TruncationIsSeen == call.step = "answered" /\ call.missing => call.told

\* No detail of a resource is read that is not tagged with the caller's tenant, whatever
\* the listing gave.
ForeignNeverRead == \A r \in call.read : r.tag = "own"

\* Every cross-tenant call that read something has its audit event.
ReadOfTenant ==
    /\ call.tool \in TenantTools
    /\ call.step \in {"answered", "failed"}
    /\ call.read # {} \/ call.got > 0

AuditedReads == ReadOfTenant => call.audit

\* Every event returned matches every filter given.
FiltersHold == call.step = "answered" => ~call.unmatched
=============================================================================
