--------------------------- MODULE OntologyStore ---------------------------
(***************************************************************************)
(* The engineering ontology: propose_object, update_object and create_link *)
(* of nexus/overwatch_v2/ontology.  An object's versions are rows of       *)
(* Postgres, its newest state a node of the graph, and nothing spans the   *)
(* two: a call reads, supersedes, inserts and merges in transactions of    *)
(* its own.  Calls interleave between them, and each may raise, end with   *)
(* its process, or be carried out without the caller learning of it.       *)
(***************************************************************************)
EXTENDS Naturals

CONSTANTS
    Writer,      \* concurrent callers
    Object,      \* object identifiers
    MaxVersion   \* bound on the updates of an object

ASSUME BoundAssumption == MaxVersion \in Nat

VARIABLES
    versions,   \* engineering_object_versions: the version numbers of an object
    current,    \* those of them with valid_to NULL
    node,       \* the version the graph holds of an object, 0 when there is no node
    edges,      \* the edges of the graph
    call,       \* what each caller is about to do
    disturbed   \* the objects whose writes failed half-way or overlapped

vars == <<versions, current, node, edges, call, disturbed>>

Idle == [at |-> "idle"]

\* A write builds version base + 1 of an object.
Write == [at: {"supersede", "insert", "merge"}, obj: Object, base: 0..MaxVersion]
Link  == [at: {"edge"}, from: Object, to: Object]

Init ==
    /\ versions = [o \in Object |-> {}]
    /\ current = [o \in Object |-> {}]
    /\ node = [o \in Object |-> 0]
    /\ edges = {}
    /\ call = [w \in Writer |-> Idle]
    /\ disturbed = {}

Writes(w, o) == call[w] \in Write /\ call[w].obj = o

\* The call goes on to its next step, or its caller sees an error or is gone.
Continue(w, next) ==
    \/ /\ call' = [call EXCEPT ![w] = next]
       /\ UNCHANGED disturbed
    \/ /\ call' = [call EXCEPT ![w] = Idle]
       /\ disturbed' = disturbed \union {call[w].obj}

-----------------------------------------------------------------------------
\* propose_object: the identifier is new.
BeginPropose(w, o) ==
    /\ call[w] = Idle
    /\ versions[o] = {}
    /\ MaxVersion > 0
    /\ \A u \in Writer : ~Writes(u, o)
    /\ call' = [call EXCEPT ![w] = [at |-> "insert", obj |-> o, base |-> 0]]
    /\ UNCHANGED <<versions, current, node, edges, disturbed>>

\* update_object reads the current version; without one it raises.
BeginUpdate(w, o) ==
    /\ call[w] = Idle
    /\ \E v \in current[o] :
        /\ v < MaxVersion
        /\ call' = [call EXCEPT ![w] = [at |-> "supersede", obj |-> o, base |-> v]]
    /\ disturbed' = IF \E u \in Writer : Writes(u, o) THEN disturbed \union {o}
                                                      ELSE disturbed
    /\ UNCHANGED <<versions, current, node, edges>>

\* Whatever row of the object is current is superseded.
SupersedePriorVersion(w) ==
    /\ call[w] \in Write /\ call[w].at = "supersede"
    /\ current' = [current EXCEPT ![call[w].obj] = {}]
    /\ Continue(w, [call[w] EXCEPT !.at = "insert"])
    /\ UNCHANGED <<versions, node, edges>>

\* Mutant: a taken key is ignored.
InsertVersionAnyway(w) ==
    LET o == call[w].obj
        v == call[w].base + 1
    IN  /\ call[w] \in Write /\ call[w].at = "insert"
        /\ versions' = [versions EXCEPT ![o] = @ \union {v}]
        /\ current' = [current EXCEPT ![o] = @ \union {v}]
        /\ Continue(w, [call[w] EXCEPT !.at = "merge"])
        /\ UNCHANGED <<node, edges>>

\* The new row, unless the primary key is taken.
InsertVersion(w) ==
    LET o == call[w].obj
        v == call[w].base + 1
    IN  /\ call[w] \in Write /\ call[w].at = "insert"
        /\ v \notin versions[o]
        /\ versions' = [versions EXCEPT ![o] = @ \union {v}]
        /\ current' = [current EXCEPT ![o] = @ \union {v}]
        /\ Continue(w, [call[w] EXCEPT !.at = "merge"])
        /\ UNCHANGED <<node, edges>>

\* Mutant: the node takes the version the call read.
MergeObjectStale(w) ==
    /\ call[w] \in Write /\ call[w].at = "merge"
    /\ node' = [node EXCEPT ![call[w].obj] = call[w].base]
    /\ Continue(w, Idle)
    /\ UNCHANGED <<versions, current, edges>>

\* The node takes the properties of the version this call wrote.
MergeObject(w) ==
    /\ call[w] \in Write /\ call[w].at = "merge"
    /\ node' = [node EXCEPT ![call[w].obj] = call[w].base + 1]
    /\ Continue(w, Idle)
    /\ UNCHANGED <<versions, current, edges>>

\* Mutant: an error of the database does not end the call.
WriteFailsOnward(w) ==
    /\ call[w] \in Write
    /\ call' = [call EXCEPT ![w] = IF @.at = "insert" THEN [@ EXCEPT !.at = "merge"] ELSE Idle]
    /\ disturbed' = disturbed \union {call[w].obj}
    /\ UNCHANGED <<versions, current, node, edges>>

\* A step of a write raises (the key is taken, the database or the graph does
\* not answer) or the process ends before it.
WriteFails(w) ==
    /\ call[w] \in Write
    /\ call' = [call EXCEPT ![w] = Idle]
    /\ disturbed' = disturbed \union {call[w].obj}
    /\ UNCHANGED <<versions, current, node, edges>>

\* create_link: the source must have a current version, the target need not.
BeginLink(w, from, to) ==
    /\ call[w] = Idle
    /\ current[from] # {}
    /\ call' = [call EXCEPT ![w] = [at |-> "edge", from |-> from, to |-> to]]
    /\ UNCHANGED <<versions, current, node, edges, disturbed>>

\* The edge is made when both nodes match; the caller gets its id either way.
MergeEdge(w) ==
    /\ call[w] \in Link
    /\ edges' = edges \union {e \in {<<call[w].from, call[w].to>>} :
                                node[e[1]] # 0 /\ node[e[2]] # 0}
    /\ call' = [call EXCEPT ![w] = Idle]
    /\ UNCHANGED <<versions, current, node, disturbed>>

LinkFails(w) ==
    /\ call[w] \in Link
    /\ call' = [call EXCEPT ![w] = Idle]
    /\ UNCHANGED <<versions, current, node, edges, disturbed>>

Next ==
    \E w \in Writer :
        \/ \E o \in Object : BeginPropose(w, o) \/ BeginUpdate(w, o)
        \/ SupersedePriorVersion(w) \/ InsertVersion(w) \/ MergeObject(w)
        \/ WriteFails(w)
        \/ \E from, to \in Object : BeginLink(w, from, to)
        \/ MergeEdge(w) \/ LinkFails(w)

Spec == Init /\ [][Next]_vars

-----------------------------------------------------------------------------
TypeOK ==
    /\ versions \in [Object -> SUBSET (1..MaxVersion)]
    /\ current \in [Object -> SUBSET (1..MaxVersion)]
    /\ node \in [Object -> 0..MaxVersion]
    /\ edges \subseteq Object \X Object
    /\ call \in [Writer -> {Idle} \union Write \union Link]
    /\ disturbed \subseteq Object

\* An object never has two current versions, and the one it has is its newest,
\* however calls interleave and fail (supersede_prior_version, insert_version).
OneCurrent ==
    \A o \in Object : \A v \in current[o] :
        v \in versions[o] /\ \A u \in versions[o] : u <= v

\* The graph shows nothing the version history has no row of: every node is at
\* a recorded version and every edge joins recorded objects ("Postgres-first").
GraphIsBacked ==
    /\ \A o \in Object : node[o] # 0 => node[o] \in versions[o]
    /\ \A e \in edges : versions[e[1]] # {} /\ versions[e[2]] # {}

\* An object no write failed or overlapped on, with no write under way, has its
\* newest version current and in the graph (the dual write of update_object).
QuietObjectsAgree ==
    \A o \in Object :
        (versions[o] # {} /\ o \notin disturbed /\ \A w \in Writer : ~Writes(w, o))
            => \E n \in versions[o] : /\ versions[o] = 1..n
                                      /\ current[o] = {n}
                                      /\ node[o] = n

\* Every step keeps what a version log promises.
Log == INSTANCE VersionLog
ImplementsVersionLog == Log!Spec
=============================================================================
