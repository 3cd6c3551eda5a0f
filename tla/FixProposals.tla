---------------------------- MODULE FixProposals ----------------------------
(***************************************************************************)
(* Fixes proposed to another repository (nexus/forge).  The fix agent      *)
(* reads a file of the default branch, has it patched by a model and opens *)
(* a draft pull request in five calls to GitHub (create_fix_pr), each of   *)
(* which may fail, or be done with its answer lost.  A server handles one  *)
(* proposal at a time; during a rollout there are two servers.  The fix    *)
(* templates are only reported, as suggestions, and the deploy manager     *)
(* restarts a service or puts it on another revision.                      *)
(***************************************************************************)
EXTENDS Naturals, Sequences, FiniteSets

CONSTANTS Server,     \* server processes
          Fault,      \* findings, each in a file of its own
          Fixable,    \* those FixAgent.can_fix takes: in scope, of its categories
          PrCap,      \* MAX_FIXES_PER_HOUR
          MaxEdits,   \* bound: how often the developers change a file
          Revisions   \* bound: task definition revisions

ASSUME ForgeAssumption ==
    /\ Fixable \subseteq Fault /\ PrCap \in Nat /\ MaxEdits \in Nat
    /\ "none" \notin Server   \* who cut no branch and opened no request

VARIABLES
    mainline,   \* per finding, the version of its file on the default branch
    fixBranch,  \* per finding, its branch: the version it was cut from, who cut it, the patches on it
    pullRequest,\* per finding, its pull request: none, open or closed, and whether it has the label
    proposing,  \* per server, where FixAgent.propose is
    recentFix,  \* per server, _recent_fixes: how long each opened request counts
    suggested,  \* OverwatchSuggestedFix: the findings with a template's suggestion
    service     \* a deployed service: the revision it runs, and the newest

forgeVars == <<mainline, fixBranch, pullRequest, proposing, recentFix, suggested, service>>

\* The name of the branch is the fingerprint of the finding.
NoBranch == [cut |-> 0, by |-> "none", patches |-> {}]
NoRequest == [state |-> "none", opener |-> "none", labelled |-> FALSE]
NotProposing == [at |-> "idle", of |-> "none", read |-> 0]

Counts == 2  \* an opened request counts for an hour, two steps of ForgeTick

ForgeInit ==
    /\ mainline = [f \in Fault |-> 1]
    /\ fixBranch = [f \in Fault |-> NoBranch]
    /\ pullRequest = [f \in Fault |-> NoRequest]
    /\ proposing = [s \in Server |-> NotProposing]
    /\ recentFix = [s \in Server |-> <<>>]
    /\ suggested = {}
    /\ service = [runs |-> 1, newest |-> 1]

StandsAt(s, at) == proposing[s].at = at
GoesOn(s, at) == proposing' = [proposing EXCEPT ![s].at = at]
EndsProposal(s) == proposing' = [proposing EXCEPT ![s] = NotProposing]

\* propose, as far as reading the file: a finding out of scope, one too many this
\* hour and a file that is missing, empty or too long are recorded and end it.
ReadForFix(s, f) ==
    /\ StandsAt(s, "idle")
    /\ f \in Fixable
    /\ Len(recentFix[s]) < PrCap
    /\ proposing' = [proposing EXCEPT ![s] = [at |-> "patch", of |-> f, read |-> mainline[f]]]
    /\ UNCHANGED <<mainline, fixBranch, pullRequest, recentFix, suggested, service>>

\* The model's answer is parsed and validated, or refused; then the base is read.
PatchFile(s) ==
    /\ StandsAt(s, "patch")
    /\ GoesOn(s, "branch") \/ EndsProposal(s)
    /\ UNCHANGED <<mainline, fixBranch, pullRequest, recentFix, suggested, service>>

Cut(s) ==
    LET f == proposing[s].of
    IN  fixBranch' = [fixBranch EXCEPT ![f] = [cut |-> mainline[f], by |-> s, patches |-> {}]]

\* Mutant: a branch that exists already is taken as it is.
CreateOrTakeBranch(s) ==
    /\ StandsAt(s, "branch")
    /\ \/ fixBranch[proposing[s].of] = NoBranch /\ Cut(s) /\ (GoesOn(s, "commit") \/ EndsProposal(s))
       \/ fixBranch[proposing[s].of] # NoBranch /\ UNCHANGED fixBranch /\ GoesOn(s, "commit")
       \/ UNCHANGED fixBranch /\ EndsProposal(s)
    /\ UNCHANGED <<mainline, pullRequest, recentFix, suggested, service>>

\* The call that creates the branch: done, refused, lost, or done with its answer lost.
CreateBranch(s) ==
    /\ StandsAt(s, "branch")
    /\ \/ fixBranch[proposing[s].of] = NoBranch /\ Cut(s) /\ (GoesOn(s, "commit") \/ EndsProposal(s))
       \/ UNCHANGED fixBranch /\ EndsProposal(s)
    /\ UNCHANGED <<mainline, pullRequest, recentFix, suggested, service>>

\* The file is put on the branch as it was patched, over what the branch has.
CommitFile(s) ==
    /\ StandsAt(s, "commit")
    /\ LET f == proposing[s].of
       IN  \/ /\ fixBranch[f] # NoBranch
              /\ fixBranch' = [fixBranch EXCEPT ![f].patches = @ \union {<<s, proposing[s].read>>}]
              /\ GoesOn(s, "open") \/ EndsProposal(s)
           \/ UNCHANGED fixBranch /\ EndsProposal(s)
    /\ UNCHANGED <<mainline, pullRequest, recentFix, suggested, service>>

\* Only a request whose answer arrives is counted; what becomes of its label is
\* not looked at.
OpenPullRequest(s) ==
    /\ StandsAt(s, "open")
    /\ LET f == proposing[s].of
       IN  \/ /\ fixBranch[f] # NoBranch /\ pullRequest[f].state # "open"
              /\ \/ /\ \E labelled \in BOOLEAN : pullRequest' = [pullRequest EXCEPT
                           ![f] = [state |-> "open", opener |-> s, labelled |-> labelled]]
                    /\ recentFix' = [recentFix EXCEPT ![s] = Append(@, Counts)]
                 \/ /\ pullRequest' = [pullRequest EXCEPT
                           ![f] = [state |-> "open", opener |-> s, labelled |-> FALSE]]
                    /\ UNCHANGED recentFix
           \/ UNCHANGED <<pullRequest, recentFix>>
    /\ EndsProposal(s)
    /\ UNCHANGED <<mainline, fixBranch, suggested, service>>

\* propose_pr: a record, whose loss is not told; GitHub is not called.
RecordSuggestion(f) ==
    \/ suggested' = suggested \union {f}
    \/ UNCHANGED suggested

\* A template that changes the file is kept as a suggestion, every time.
SuggestTemplate(f) ==
    /\ RecordSuggestion(f)
    /\ UNCHANGED <<mainline, fixBranch, pullRequest, proposing, recentFix, service>>

\* _rate_limited forgets what is older than an hour.
ForgeTick ==
    /\ recentFix' = [s \in Server |->
           SelectSeq([i \in DOMAIN recentFix[s] |-> recentFix[s][i] - 1], LAMBDA n : n > 0)]
    /\ UNCHANGED <<mainline, fixBranch, pullRequest, proposing, suggested, service>>

\* A process that starts has no proposal and counts nothing.
ForgeRestart(s) ==
    /\ EndsProposal(s)
    /\ recentFix' = [recentFix EXCEPT ![s] = <<>>]
    /\ UNCHANGED <<mainline, fixBranch, pullRequest, suggested, service>>

\* The developers change a file, merge or close a request, delete a branch.
DevelopersEdit(f) ==
    /\ mainline[f] <= MaxEdits
    /\ mainline' = [mainline EXCEPT ![f] = @ + 1]
    /\ UNCHANGED <<fixBranch, pullRequest, proposing, recentFix, suggested, service>>

CloseRequest(f) ==
    /\ pullRequest[f].state = "open"
    /\ pullRequest' = [pullRequest EXCEPT ![f].state = "closed"]
    /\ UNCHANGED <<mainline, proposing, recentFix, suggested, service>>
    /\ fixBranch' = [fixBranch EXCEPT ![f] = NoBranch] \/ UNCHANGED fixBranch

\* rollback_service puts the service on the second newest revision, whichever it
\* runs; deploy_service starts the one it runs again.
RollbackService ==
    /\ service.newest >= 2
    /\ service' = [service EXCEPT !.runs = service.newest - 1]
    /\ UNCHANGED <<mainline, fixBranch, pullRequest, proposing, recentFix, suggested>>

RevisionRegistered ==
    /\ service.newest < Revisions
    /\ service' = [runs |-> service.newest + 1, newest |-> service.newest + 1]
    /\ UNCHANGED <<mainline, fixBranch, pullRequest, proposing, recentFix, suggested>>

ForgeNext ==
    \/ \E f \in Fault : SuggestTemplate(f) \/ DevelopersEdit(f) \/ CloseRequest(f)
    \/ \E s \in Server :
         \/ \E f \in Fault : ReadForFix(s, f)
         \/ PatchFile(s) \/ CreateBranch(s) \/ CommitFile(s) \/ OpenPullRequest(s) \/ ForgeRestart(s)
    \/ ForgeTick \/ RollbackService \/ RevisionRegistered

ForgeSpec == ForgeInit /\ [][ForgeNext]_forgeVars

-----------------------------------------------------------------------------
\* An open pull request shows one patch, that of the attempt that opened it:
\* whatever earlier attempts left behind, and whoever proposed the same finding
\* at the same time.
ShowsItsOwnPatch ==
    \A f \in Fault : pullRequest[f].state = "open" =>
        /\ Cardinality(fixBranch[f].patches) = 1
        /\ \A patch \in fixBranch[f].patches : patch[1] = pullRequest[f].opener
=============================================================================
