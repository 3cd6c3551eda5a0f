----------------------------- MODULE TenantOps -----------------------------
(***************************************************************************)
(* The capabilities that act on one tenant (capabilities/tenant_ops): they *)
(* refresh its GitHub token, test that its repository can be written,      *)
(* diagnose and retry its deployment, have it ingested again.  Each is a   *)
(* sequence of calls to the secret store, GitHub, the graph and the        *)
(* Forgewing API, between which the customer and the platform move on; any *)
(* call may fail, and the process may stop between two.                    *)
(***************************************************************************)
EXTENDS Naturals

CONSTANTS Call,         \* capability calls under way at a time
          Installation, \* the installations of the GitHub App a customer makes
          NoInstallation

VARIABLES
    secret,  \* the tenant's secret: a token, by the installation it was minted for
    github,  \* the installation in force, write permission, the test ref
    deploy,  \* stage of the tenant's deployment
    files,   \* the tenant's repository is indexed
    call,    \* per call its capability, step and what it read
    shown,   \* the last answer of a capability
    healing  \* healing actions on record

opsVars == <<secret, github, deploy, files, call, shown, healing>>

Stored(token, inst) == [readable |-> TRUE, token |-> token, inst |-> inst]
Unreadable == [readable |-> FALSE, token |-> NoInstallation, inst |-> NoInstallation]

Free == [op |-> "none", at |-> "idle", read |-> Unreadable, stuck |-> FALSE]

OpsInit ==
    /\ secret = Unreadable
    /\ github = [inst |-> NoInstallation, writable |-> FALSE, testRef |-> FALSE]
    /\ deploy = "none"
    /\ files = FALSE
    /\ call = [c \in Call |-> Free]
    /\ shown = "none"
    /\ healing = {}

-----------------------------------------------------------------------------
(* aws_client.get_secret: a secret that is JSON is also its own `_raw`, so *)
(* a token is found in every secret that can be read.                      *)

TokenPresent(s) == s.readable

\* Only what GitHub minted for the installation in force opens the repository.
Usable(s) == s.token # NoInstallation /\ s.token = github.inst

At(c, op, at) == call[c].op = op /\ call[c].at = at

Goes(c, at) == call' = [call EXCEPT ![c].at = at] /\ UNCHANGED shown

Answers(c, answer) == call' = [call EXCEPT ![c] = Free] /\ shown' = answer

Records(action) == healing' = healing \union {action}

Fails(c) == Answers(c, "error")

Start(c, op) ==
    /\ call[c].at = "idle"
    /\ call' = [call EXCEPT ![c] = [Free EXCEPT !.op = op, !.at = "start"]]
    /\ UNCHANGED <<secret, github, deploy, files, shown, healing>>

\* A read that fails is read as nothing.
ReadSecret(c, op) ==
    /\ At(c, op, "start")
    /\ \E s \in {secret, Unreadable} :
         call' = [call EXCEPT ![c].at = "read", ![c].read = s]
    /\ UNCHANGED <<secret, github, deploy, files, shown, healing>>

-----------------------------------------------------------------------------
(* refresh_tenant_token                                                    *)

\* _github_app_token_for: GitHub mints for an installation in force only.
Mint(c) ==
    /\ At(c, "refresh", "read")
    /\ \/ /\ call[c].read.inst # NoInstallation /\ call[c].read.inst = github.inst
          /\ Goes(c, "minted")
       \/ Fails(c)
    /\ UNCHANGED <<secret, github, deploy, files, healing>>

\* Mutant: only the token is put, beside the installation stored by now.
PutTokenOnly(c) ==
    /\ At(c, "refresh", "minted")
    /\ \/ secret' = Stored(call[c].read.inst, secret.inst) /\ Goes(c, "put")
       \/ UNCHANGED secret /\ Fails(c)
    /\ UNCHANGED <<github, deploy, files, healing>>

\* The whole secret is put, with the installation that was read.
PutSecret(c) ==
    /\ At(c, "refresh", "minted")
    /\ \/ secret' = Stored(call[c].read.inst, call[c].read.inst) /\ Goes(c, "put")
       \/ UNCHANGED secret /\ Fails(c)
    /\ UNCHANGED <<github, deploy, files, healing>>

RecordRefresh(c) ==
    /\ At(c, "refresh", "put")
    /\ Records("refresh_tenant_token")
    /\ Answers(c, "refreshed")
    /\ UNCHANGED <<secret, github, deploy, files>>

-----------------------------------------------------------------------------
(* verify_write_access: a test ref is created and deleted.                 *)

CreateRef(c) ==
    /\ At(c, "verify", "read")
    /\ \/ /\ Usable(call[c].read) /\ github.writable /\ ~github.testRef
          /\ github' = [github EXCEPT !.testRef = TRUE]
          /\ Goes(c, "created")
       \/ /\ ~(Usable(call[c].read) /\ github.writable) \/ github.testRef
          /\ Answers(c, IF Usable(call[c].read) THEN "create_ref" ELSE "no access")
          /\ UNCHANGED github
       \/ Fails(c) /\ UNCHANGED github
    /\ UNCHANGED <<secret, deploy, files, healing>>

\* What the deletion answers is not looked at.
DeleteRef(c) ==
    /\ At(c, "verify", "created")
    /\ \/ Usable(call[c].read) /\ github' = [github EXCEPT !.testRef = FALSE]
       \/ UNCHANGED github
    /\ Answers(c, "write access")
    /\ UNCHANGED <<secret, deploy, files, healing>>

-----------------------------------------------------------------------------
(* diagnose_tenant_deploy and retry_tenant_deploy                          *)

\* A graph that cannot be read shows no progress, which counts as never started;
\* what the API says adds an issue, and one that cannot be asked adds none.
Diagnoses(seen, api) ==
    CASE seen = "none"                  -> "stuck"
      [] seen \notin {"live", "none"}   -> "stuck"
      [] api \notin {"live", "none"}    -> "unknown"
      [] OTHER                          -> "healthy"

Diagnose(c) ==
    /\ At(c, "retry", "start")
    /\ \E seen \in {deploy, "none"}, api \in {deploy, "none"} :
         LET status == Diagnoses(seen, api)
         IN  IF status = "healthy" THEN Answers(c, "deploy is healthy")
             ELSE /\ call' = [call EXCEPT ![c].at = "read",
                                           ![c].stuck = deploy \notin {"live", "building"}]
                  /\ UNCHANGED shown
    /\ UNCHANGED <<secret, github, deploy, files, healing>>

PostDeploy(c) ==
    /\ At(c, "retry", "read")
    /\ \/ deploy' = "building" /\ Records("retry_tenant_deploy")
       \/ UNCHANGED <<deploy, healing>>
    /\ Answers(c, "deploy_triggered")
    /\ UNCHANGED <<secret, github, files>>

-----------------------------------------------------------------------------
(* retrigger_ingestion, and the read-only checks.                          *)

Retrigger(c) ==
    /\ At(c, "ingest", "start")
    /\ \/ files' = FALSE /\ Records("retrigger_ingestion") /\ Answers(c, "triggered")
       \/ UNCHANGED <<files, healing>> /\ Fails(c)
    /\ UNCHANGED <<secret, github, deploy>>

\* validate_tenant_onboarding: the tenant, its token, its files; checks that could
\* not be made are not passed.
ValidateOnboarding(c) ==
    /\ At(c, "validate", "read")
    /\ \E indexed \in {files, FALSE} :
         Answers(c, IF TokenPresent(call[c].read) /\ indexed THEN "all passed" ELSE "not passed")
    /\ UNCHANGED <<secret, github, deploy, files, healing>>

-----------------------------------------------------------------------------
(* The customer, the platform, and the process.                            *)

\* The customer installs the App anew, which revokes the installation before.
Installs(i, writable) ==
    /\ github.inst # i
    /\ github' = [github EXCEPT !.inst = i, !.writable = writable]
    /\ UNCHANGED <<secret, deploy, files, call, shown, healing>>

\* The platform stores the installation, with a token or still without.
PlatformStores ==
    /\ github.inst # NoInstallation
    /\ \E t \in {NoInstallation, github.inst} : secret' = Stored(t, github.inst)
    /\ UNCHANGED <<github, deploy, files, call, shown, healing>>

PlatformMoves ==
    /\ \/ deploy = "none" /\ deploy' = "building" /\ UNCHANGED files
       \/ deploy = "building" /\ deploy' \in {"live", "failed"} /\ UNCHANGED files
       \/ ~files /\ files' = TRUE /\ UNCHANGED deploy
    /\ UNCHANGED <<secret, github, call, shown, healing>>

Restart ==
    /\ call' = [c \in Call |-> Free]
    /\ UNCHANGED <<secret, github, deploy, files, shown, healing>>

OpsNext ==
    \/ \E c \in Call :
         \/ \E op \in {"refresh", "verify", "retry", "ingest", "validate"} : Start(c, op)
         \/ \E op \in {"refresh", "verify", "validate"} : ReadSecret(c, op)
         \/ Mint(c) \/ PutSecret(c) \/ RecordRefresh(c)
         \/ CreateRef(c) \/ DeleteRef(c)
         \/ Diagnose(c) \/ PostDeploy(c)
         \/ Retrigger(c) \/ ValidateOnboarding(c)
    \/ \E i \in Installation, w \in BOOLEAN : Installs(i, w)
    \/ PlatformStores \/ PlatformMoves \/ Restart

OpsSpec == OpsInit /\ [][OpsNext]_opsVars

-----------------------------------------------------------------------------
\* refresh_tenant_token races with a customer who installs the App anew: whoever
\* wins, the token in the secret was minted for the installation beside it.
TokenMatchesInstallation ==
    secret.token = NoInstallation \/ secret.token = secret.inst

\* retry_tenant_deploy: "Retry a stuck tenant deployment ... Runs diagnosis first to
\* confirm it's stuck."
RetriedOnlyStuck == \A c \in Call : At(c, "retry", "read") => call[c].stuck

\* validate_token: "Check that the tenant has a non-empty GitHub token."
EmptyTokenIsSeen ==
    secret.token = NoInstallation => ~TokenPresent(secret)
=============================================================================
