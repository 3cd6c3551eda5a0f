------------------------------ MODULE Research ------------------------------
(***************************************************************************)
(* Research projects (capabilities/research, research_evidence): a run is  *)
(* started by a request and goes on in the background, gathers evidence    *)
(* from its sources side by side, has a brief written and stores both.     *)
(* Every query of the graph may fail: it then reads nothing, or what it    *)
(* was to write is lost, and no one is told (overwatch_graph.query).       *)
(***************************************************************************)
EXTENDS FiniteSets

CONSTANTS Project,   \* research projects
          RunId,     \* bound: the background runs
          Evidence   \* the sources a run asks

VARIABLES
    project,      \* per project, what the graph holds
    researchRun,  \* per run, where run_research is
    interrupted   \* the projects left by a restart, or whose last result was lost in writing

researchVars == <<project, researchRun, interrupted>>

NoBrief == [gathered |-> {}, brief |-> "none"]

NoProject == [status |-> "absent", result |-> NoBrief]
NoRun == [at |-> "idle", of |-> "none", gathered |-> {}]

ResearchInit ==
    /\ project = [p \in Project |-> NoProject]
    /\ researchRun = [r \in RunId |-> NoRun]
    /\ interrupted = {}

ProjectExists(p) == project[p].status # "absent"

\* _update, done or lost.
UpdateStatus(p, status) ==
    \/ /\ ProjectExists(p)
       /\ project' = [project EXCEPT ![p].status = status]
    \/ UNCHANGED project

\* What create_project returns is shown, whether or not it was stored.
CreateProject(p) ==
    /\ ~ProjectExists(p)
    /\ project' = [project EXCEPT ![p].status = "open"]
    /\ UNCHANGED <<researchRun, interrupted>>

\* "already_running" is answered from what the graph says, before any run of an
\* earlier request has begun to say so.
RequestRun(p, r) ==
    /\ researchRun[r].at = "idle"
    /\ ProjectExists(p) /\ project[p].status # "researching"
    /\ researchRun' = [researchRun EXCEPT ![r] = [NoRun EXCEPT !.at = "spawned", !.of = p]]
    /\ UNCHANGED <<project, interrupted>>

\* A run that cannot read its project is over.
BeginResearch(r) ==
    /\ researchRun[r].at = "spawned"
    /\ \/ /\ UpdateStatus(researchRun[r].of, "researching")
          /\ researchRun' = [researchRun EXCEPT ![r].at = "gathering"]
       \/ /\ researchRun' = [researchRun EXCEPT ![r].at = "over"]
          /\ UNCHANGED project
    /\ UNCHANGED interrupted

\* What the sources of its own may come back with.  A file or a query that fails is
\* answered by its error; a query that is no plain MATCH, or names a property such as
\* created_at that has the name of a clause in it, is answered as blocked.
SourceFiles == {"files", "no list", "failed"}
WebResearch == {"results", "no key", "refused", "failed"}
NeptuneDeep == {"rows", "blocked", "query failed", "no queries", "failed"}

\* Those of an investigation (logs, services, graph, CI, journeys, events) have
\* results or raise; a log group that cannot be read is an entry of the results.
InvestigationSource == {"results", "failed"}

Outcome(e) ==
    CASE e = "source_files" -> SourceFiles
      [] e = "web_research" -> WebResearch
      [] e = "neptune_deep" -> NeptuneDeep
      [] OTHER              -> InvestigationSource

Outcomes == {found \in [Evidence -> UNION {Outcome(e) : e \in Evidence}] :
                \A e \in Evidence : found[e] \in Outcome(e)}

Found(found) == {e \in Evidence : found[e] \in {"files", "results", "rows"}}

\* Mutant: the first source that fails ends the run.
GatherOrRaise(r) ==
    /\ researchRun[r].at = "gathering"
    /\ \E found \in Outcomes :
          researchRun' = [researchRun EXCEPT
              ![r].at = IF \E e \in Evidence : found[e] = "failed" THEN "over" ELSE "synthesizing",
              ![r].gathered = Found(found)]
    /\ UNCHANGED <<project, interrupted>>

\* All sources are asked side by side, and one that raises has gathered its exception.
GatherAllEvidence(r) ==
    /\ researchRun[r].at = "gathering"
    /\ \E found \in Outcomes :
          researchRun' = [researchRun EXCEPT ![r].at = "synthesizing", ![r].gathered = Found(found)]
    /\ UNCHANGED <<project, interrupted>>

\* The model writes a brief, writes none, or fails, which is the brief then; only
\* a written one has confidence (80).  One query stores the result.
SynthesizeAndStore(r) ==
    /\ researchRun[r].at = "synthesizing"
    /\ LET p == researchRun[r].of
       IN  \/ /\ \E brief \in {"written", "empty", "failed"} :
                     project' = [project EXCEPT ![p] =
                         [status |-> "complete",
                          result |-> [gathered |-> researchRun[r].gathered, brief |-> brief]]]
              /\ interrupted' = interrupted \ {p}
           \/ /\ UNCHANGED project
              /\ interrupted' = interrupted \union {p}
    /\ researchRun' = [researchRun EXCEPT ![r] = [NoRun EXCEPT !.at = "over"]]

\* archive_project looks at nothing, not even at whether the project is there.
ArchiveProject(p) ==
    /\ UpdateStatus(p, "archived")
    /\ UNCHANGED <<researchRun, interrupted>>

UnderWayFor(p) ==
    \E r \in RunId : researchRun[r].at \in {"gathering", "synthesizing"} /\ researchRun[r].of = p

ResearchRestart ==
    /\ interrupted' = interrupted \union {p \in Project : UnderWayFor(p)}
    /\ researchRun' = [r \in RunId |->
           IF researchRun[r].at = "idle" THEN NoRun ELSE [NoRun EXCEPT !.at = "over"]]
    /\ UNCHANGED project

ResearchNext ==
    \/ \E p \in Project :
         \/ CreateProject(p) \/ ArchiveProject(p)
         \/ \E r \in RunId : RequestRun(p, r)
    \/ \E r \in RunId : BeginResearch(r) \/ GatherAllEvidence(r) \/ SynthesizeAndStore(r)
    \/ ResearchRestart

ResearchSpec == ResearchInit /\ [][ResearchNext]_researchVars

-----------------------------------------------------------------------------
\* A project that is shown as being researched, and cannot be started again for
\* that, has a run under way, whatever its sources and its model did, unless the
\* process went away or its result was lost in writing.
ResearchingMeansRunning ==
    \A p \in Project :
        project[p].status = "researching" => UnderWayFor(p) \/ p \in interrupted
=============================================================================
