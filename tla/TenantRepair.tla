---------------------------- MODULE TenantRepair ----------------------------
(***************************************************************************)
(* The operator's actions on one tenant: create_default_project,           *)
(* repair_orphan_nodes and purge_orphan_nodes.  A request blocks the event *)
(* loop until it is answered, so requests do not overlap; the customer's   *)
(* platform writes to the same graph between the queries of a request, and *)
(* _graph_query turns every error into an empty answer.                    *)
(***************************************************************************)
EXTENDS Naturals

CONSTANTS
    Node,       \* graph nodes of the tenant
    LabelOf,    \* the label of each
    Scoped,     \* PROJECT_SCOPED_LABELS
    Project     \* projects of the tenant, besides its default project

Label == {LabelOf[n] : n \in Node}

ASSUME LabelAssumption == Scoped \subseteq Label

\* A node's project_id: null, the tenant's own id, or a project.
Absent    == "absent"
NoProject == "null"
Default   == "tenant id"

ASSUME ProjectAssumption == {Absent, NoProject, Default} \intersect Project = {}

VARIABLES
    node,       \* the project_id of each node of the graph
    projects,   \* the Project nodes; create_default_project gives its the tenant's id
    op,         \* the repair or purge under way, or the last one
    late,       \* the nodes written since that began
    failed      \* one of its queries failed

repairVars == <<node, projects, op, late, failed>>

Nothing == [kind |-> "none", at |-> "done"]

RepairInit ==
    /\ node = [n \in Node |-> Absent]
    /\ projects = {}
    /\ op = Nothing
    /\ late = {} /\ failed = FALSE

\* "null_pid" and "tid_fallback": a node of the default project, too, whose id is
\* the tenant's, counts as an orphan, whether or not that project exists.
Orphan(n) == node[n] \in {NoProject, Default}
OrphansOf(label) == {n \in Node : LabelOf[n] = label /\ Orphan(n)}
Counted(label, pattern) == \E n \in OrphansOf(label) : node[n] = pattern

-----------------------------------------------------------------------------
\* The customer's platform writes a node, for a project or without one; a label
\* outside Scoped has none by design.
PlatformWrites(n, p) ==
    /\ node[n] = Absent
    /\ p \in projects \union {NoProject, Default}
    /\ LabelOf[n] \notin Scoped => p = NoProject
    /\ node' = [node EXCEPT ![n] = p]
    /\ late' = late \union {n}
    /\ UNCHANGED <<projects, op, failed>>

PlatformAddsProject(p) ==
    /\ p \notin projects
    /\ projects' = projects \union {p}
    /\ UNCHANGED <<node, op, late, failed>>

\* The Project node is merged unless it is there; a failed write is not noticed.
CreateDefaultProject ==
    /\ op.at = "done"
    /\ projects' \in {projects, projects \union {Default}}
    /\ UNCHANGED <<node, op, late, failed>>

-----------------------------------------------------------------------------
(* repair_orphan_nodes and purge_orphan_nodes.                             *)

\* "Intersect with PROJECT_SCOPED_LABELS"
Accepted(labels) == labels \intersect Scoped

Begin(kind, labels, target, dryRun) ==
    /\ op.at = "done"
    /\ op' = [kind |-> kind, at |-> "census", todo |-> Accepted(labels), found |-> {},
              labels |-> Accepted(labels), target |-> target, dryRun |-> dryRun]
    /\ late' = {}
    /\ failed' = FALSE
    /\ UNCHANGED <<node, projects>>

\* The target is looked up before; a query that fails refuses it.  No labels
\* means all.
BeginRepair(labels, target, dryRun) ==
    /\ target \in projects
    /\ Begin("repair", IF labels = {} THEN Scoped ELSE labels, target, dryRun)

BeginPurge(labels, dryRun) ==
    /\ labels # {}
    /\ Begin("purge", labels, Absent, dryRun)

\* A label is counted, by one query for each pattern; a query that fails counts
\* none.
Census(label) ==
    /\ op.at = "census" /\ label \in op.todo
    /\ \E answered \in SUBSET {NoProject, Default} :
        /\ op' = [op EXCEPT !.todo = @ \ {label},
                            !.found = IF \E p \in answered : Counted(label, p)
                                         THEN @ \union {label} ELSE @]
        /\ failed' = (failed \/ answered # {NoProject, Default})
    /\ UNCHANGED <<node, projects, late>>

\* After the census a dry run ends, and any other goes on with what it found.
CensusDone ==
    /\ op.at = "census" /\ op.todo = {}
    /\ op' = IF op.dryRun THEN [op EXCEPT !.at = "done"]
                          ELSE [op EXCEPT !.at = "execute", !.todo = op.found]
    /\ UNCHANGED <<node, projects, late, failed>>

\* Mutant: only the nodes without any project_id are matched.
MatchedNull(label) == {n \in OrphansOf(label) : node[n] = NoProject}

\* WHERE n.project_id IS NULL OR n.project_id = $tid
Matched(label) == OrphansOf(label)

\* The label's orphans are relabelled or deleted by one query, which may fail.
Execute(label) ==
    /\ op.at = "execute" /\ label \in op.todo
    /\ op' = [op EXCEPT !.todo = @ \ {label}]
    /\ \/ /\ failed' = TRUE
          /\ UNCHANGED node
       \/ /\ node' = [n \in Node |-> IF n \in Matched(label) THEN op.target ELSE node[n]]
          /\ UNCHANGED failed
    /\ UNCHANGED <<projects, late>>

\* The audit node is written, if it can be.
Audit ==
    /\ op.at = "execute" /\ op.todo = {}
    /\ op' = [op EXCEPT !.at = "done"]
    /\ UNCHANGED <<node, projects, late, failed>>

RepairNext ==
    \/ \E n \in Node, p \in Project \union {NoProject, Default} : PlatformWrites(n, p)
    \/ \E p \in Project : PlatformAddsProject(p)
    \/ CreateDefaultProject
    \/ \E labels \in SUBSET Label, dryRun \in BOOLEAN :
        \/ \E p \in Project \union {Default} : BeginRepair(labels, p, dryRun)
        \/ BeginPurge(labels, dryRun)
    \/ \E label \in Label : Census(label) \/ Execute(label)
    \/ CensusDone
    \/ Audit

RepairSpec == RepairInit /\ [][RepairNext]_repairVars

-----------------------------------------------------------------------------
\* A repair or purge that met no error leaves no orphan of its labels, except
\* those written after it began: its census may be stale, what it executes not.
\* (A repair onto the default project leaves what it relabels in the pattern.)
CleansUp ==
    op.kind # "none" /\ op.at = "done" /\ ~op.dryRun /\ ~failed /\ op.target # Default
        => \A n \in Node \ late : LabelOf[n] \in op.labels => ~Orphan(n)
=============================================================================
