------------------------------ MODULE Holograph ------------------------------
(***************************************************************************)
(* Operator features (nexus/operator_features): their definitions are put  *)
(* in the graph by the bootstrap script, dependencies are added as edges,  *)
(* and read_holograph reports a status that is the worst of what their     *)
(* dependencies and signals are found to be.  A query of the graph never   *)
(* raises: one that fails reads nothing, or loses what it was to write.    *)
(* A report reads its inputs one after the other; they do not change here  *)
(* while it does.                                                          *)
(***************************************************************************)
EXTENDS Naturals, FiniteSets

CONSTANTS Bootstrap,   \* runs of the bootstrap script
          Resource,    \* what a feature may depend on
          Label,       \* per resource, the label of its node
          Signal,      \* health signals
          Measure,     \* per signal, its thresholds: [good, fair, comparison, implemented]
          Version,     \* the version ids of definitions
          MaxNodes     \* bound: the nodes of the feature

ASSUME HolographAssumption == MaxNodes \in Nat /\ Version \subseteq Nat /\ Label \in [Resource -> STRING]

VARIABLES
    featureNode,  \* the feature's nodes: the version, signals and edges of each
    bootstrap,    \* per run of the script, the node it found
    resourceIs,   \* per resource, what AWS says of it
    measured,     \* per signal, what its source holds
    declared,     \* the dependencies whose edge was added, so far as add_dependency_edge tells
    holograph,    \* the last report: what it said and, of a green one, what it should have weighed
    graphFailed   \* a query of the graph failed

holographVars ==
    <<featureNode, bootstrap, resourceIs, measured, declared, holograph, graphFailed>>

NotWriting == [looked |-> FALSE, found |-> 0]

Levels == 0..2
NoValue == 9   \* no rows, no data points or nothing that is a number

\* int(desiredCount) and int(runningCount) tell these apart; "gone" is no service.
ResourceStates(label) ==
    CASE label = "ECSService"     -> {"as desired", "some running", "none running", "gone"}
      [] label = "RDSInstance"    -> {"available", "busy", "gone"}
      [] label = "LambdaFunction" -> {"Active", "Pending", "Failed", "gone"}
      [] label = "S3Bucket"       -> {"reachable", "gone"}
      [] OTHER                    -> {"unheard of"}

HolographInit ==
    /\ featureNode = <<>>
    /\ bootstrap = [b \in Bootstrap |-> NotWriting]
    /\ resourceIs \in [Resource -> {"as desired", "available", "Active", "reachable", "unheard of"}]
    /\ \A r \in Resource : resourceIs[r] \in ResourceStates(Label[r])
    /\ measured = [s \in Signal |-> NoValue]
    /\ declared = {}
    /\ holograph = [said |-> "none", was |-> {}]
    /\ graphFailed = FALSE

\* A service nobody wants running has none running, and is red.
EcsStatus(state) ==
    CASE state = "as desired" -> "green" [] state = "some running" -> "amber" [] OTHER -> "red"

\* A call for what is gone raises, except of ECS.
CheckStatus(label, state) ==
    CASE label = "ECSService" -> EcsStatus(state)
      [] label = "RDSInstance" /\ state # "gone" -> IF state = "available" THEN "green" ELSE "amber"
      [] label = "LambdaFunction" /\ state # "gone" ->
             CASE state = "Active" -> "green" [] state = "Pending" -> "amber" [] OTHER -> "red"
      [] label = "S3Bucket" /\ state # "gone" -> "green"
      [] OTHER -> "unknown"

StatusFor(s, value) ==
    LET signal == Measure[s]
        reaches(threshold) == IF signal.comparison = "gte" THEN value >= threshold
                                                           ELSE value <= threshold
    IN  CASE value = NoValue \/ ~signal.implemented -> "unknown"
          [] reaches(signal.good)                   -> "green"
          [] reaches(signal.fair)                   -> "amber"
          [] OTHER                                  -> "red"

\* Mutant: what could not be checked is left out of the report.
OverallOfKnown(statuses) ==
    LET known == statuses \ {"unknown"}
    IN  CASE statuses = {}      -> "unknown"
          [] "red" \in known   -> "red"
          [] "amber" \in known -> "amber"
          [] OTHER             -> "green"

OverallStatus(statuses) ==
    CASE statuses = {}           -> "unknown"
      [] "red" \in statuses     -> "red"
      [] "amber" \in statuses   -> "amber"
      [] "unknown" \in statuses -> "unknown"
      [] OTHER                  -> "green"

\* The newest version; of several nodes that have it, any.
FoundNodes ==
    {n \in DOMAIN featureNode : \A m \in DOMAIN featureNode : featureNode[m].version <= featureNode[n].version}

\* _find_node: what it may return; node 0 stands for none.
FindNode ==
    {[node |-> n, failed |-> FALSE] : n \in IF FoundNodes = {} THEN {0} ELSE FoundNodes}
    \union {[node |-> 0, failed |-> TRUE]}

LooksForNode(b) ==
    /\ ~bootstrap[b].looked
    /\ \E found \in FindNode :
          /\ bootstrap' = [bootstrap EXCEPT ![b] = [looked |-> TRUE, found |-> found.node]]
          /\ graphFailed' = (graphFailed \/ found.failed)
    /\ UNCHANGED <<featureNode, resourceIs, measured, declared, holograph>>

\* write_operator_feature merges by the id it found, or by one of its own.
WriteFeature(b) ==
    /\ bootstrap[b].looked
    /\ bootstrap' = [bootstrap EXCEPT ![b] = NotWriting]
    /\ \/ \E signals \in SUBSET Signal, version \in Version :
            /\ \/ /\ bootstrap[b].found # 0
                  /\ featureNode' = [featureNode EXCEPT ![bootstrap[b].found].version = version,
                                                        ![bootstrap[b].found].signals = signals]
               \/ /\ bootstrap[b].found = 0 /\ Cardinality(DOMAIN featureNode) < MaxNodes
                  /\ featureNode' = [n \in 1..(Cardinality(DOMAIN featureNode) + 1) |->
                        IF n \in DOMAIN featureNode THEN featureNode[n]
                        ELSE [version |-> version, signals |-> signals, dependsOn |-> {}]]
            /\ UNCHANGED graphFailed
       \/ UNCHANGED featureNode /\ graphFailed' = TRUE
    /\ UNCHANGED <<resourceIs, measured, declared, holograph>>

\* add_dependency_edge raises when it finds no node; whether the edge was merged it
\* does not ask.
AddDependency(r) ==
    /\ \E n \in FoundNodes :
          \/ /\ featureNode' = [featureNode EXCEPT ![n].dependsOn = @ \union {r}]
             /\ UNCHANGED graphFailed
          \/ UNCHANGED featureNode /\ graphFailed' = TRUE
    /\ declared' = declared \union {r}
    /\ UNCHANGED <<bootstrap, resourceIs, measured, holograph>>

\* Every check and every query of a signal is answered, or fails and is unknown.
InputStatuses(n, edges, downChecks, downSources) ==
    {IF r \in downChecks THEN "unknown" ELSE CheckStatus(Label[r], resourceIs[r]) : r \in edges}
    \union {IF s \in downSources THEN "unknown" ELSE StatusFor(s, measured[s])
                : s \in featureNode[n].signals}

\* What the feature's dependencies and signals are, had nothing failed.
Truth(n) == InputStatuses(n, declared, {}, {})

\* generate_feature_report; the feature is looked up twice, the second time to walk
\* its edges.  Its evidence is added whatever the queries return, and weighs nothing.
ReadHolograph ==
    /\ \E feature, walked \in FindNode, downChecks \in SUBSET Resource, downSources \in SUBSET Signal :
          /\ holograph' =
               IF feature.node = 0 THEN [said |-> "unknown", was |-> {}]
               ELSE LET edges == IF walked.node = 0 THEN {} ELSE featureNode[walked.node].dependsOn
                        inputs == InputStatuses(feature.node, edges, downChecks, downSources)
                    IN  [said |-> OverallStatus(inputs),
                         was  |-> IF OverallStatus(inputs) = "green" THEN Truth(feature.node) ELSE {}]
          /\ graphFailed' = (graphFailed \/ feature.failed \/ walked.failed)
    /\ UNCHANGED <<featureNode, bootstrap, resourceIs, measured, declared>>

ResourceChanges(r) ==
    /\ \E state \in ResourceStates(Label[r]) : resourceIs' = [resourceIs EXCEPT ![r] = state]
    /\ UNCHANGED <<featureNode, bootstrap, measured, declared, holograph, graphFailed>>

SourceChanges(s) ==
    /\ \E value \in Levels \union {NoValue} : measured' = [measured EXCEPT ![s] = value]
    /\ UNCHANGED <<featureNode, bootstrap, resourceIs, declared, holograph, graphFailed>>

HolographNext ==
    \/ \E b \in Bootstrap : LooksForNode(b) \/ WriteFeature(b)
    \/ \E r \in Resource : AddDependency(r) \/ ResourceChanges(r)
    \/ \E s \in Signal : SourceChanges(s)
    \/ ReadHolograph

HolographSpec == HolographInit /\ [][HolographNext]_holographVars

-----------------------------------------------------------------------------
\* A feature is reported green only when everything it was declared to depend on,
\* and every signal of it, was green, whichever checks failed: as long as the graph
\* answered and the feature has one node.
GreenIsEarned ==
    holograph.said = "green" /\ ~graphFailed /\ Cardinality(DOMAIN featureNode) = 1
        => holograph.was = {"green"}
=============================================================================
