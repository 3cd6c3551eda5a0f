-------------------------------- MODULE Loom --------------------------------
(***************************************************************************)
(* The first ontology (nexus/ontology: propose_object and update_object,   *)
(* a version row in Postgres and then a merge into the graph) and the      *)
(* dispositions of classifier proposals that create its objects            *)
(* (mechanism1: extract, enqueue_proposal, dispose).  Postgres is          *)
(* configured.  Either store can fail at any call.                         *)
(***************************************************************************)
EXTENDS Naturals

CONSTANTS Writer,      \* the requests that call the service
          Object,      \* the ids that uuid4 hands out
          Extracted,   \* classifier proposals
          MaxVersion   \* bound: versions an object reaches

VARIABLES
    history,   \* ontology_object_versions: the data of every version written, per object
    shownNode, \* the graph's node per object, NoData while there is none
    proposal,  \* classifier_proposals: per candidate its type and status
    request    \* per writer, what it does and where it is

loomVars == <<history, shownNode, proposal, request>>

\* ObjectType.values() and the types the classifier and migration 003 store.
ObjectType == {"Feature", "Decision", "Hypothesis"}
CandidateType == {"feature", "decision", "hypothesis"}

Status == {"unvalidated", "confirmed"}

\* An object's data: its version, a field that is always there, and an optional one
\* (confirmed_at, shipped_at, ...) that a write may give no value.
Data == [version : 1..MaxVersion, status : Status, stamp : {"none", "set"}]
NoData == [version |-> 0, status |-> "none", stamp |-> "none"]

NoRequest == [kind |-> "none", at |-> "idle", object |-> "none", candidate |-> "none",
              data |-> NoData, verdict |-> "none", answer |-> "none"]

LoomInit ==
    /\ history = [o \in Object |-> {}]
    /\ shownNode = [o \in Object |-> NoData]
    /\ proposal = [c \in Extracted |-> [type |-> "none", status |-> "none"]]
    /\ request = [w \in Writer |-> NoRequest]

Idle(w) == request[w].at = "idle"

Steps(w, changed) == request' = [request EXCEPT ![w] = changed]

Goes(w, at) == Steps(w, [request[w] EXCEPT !.at = at])

Answers(w, answer) == Steps(w, [NoRequest EXCEPT !.kind = request[w].kind, !.answer = answer])

\* Ids are fresh: no row, node or request under way has this one.
Fresh(o) ==
    /\ history[o] = {} /\ shownNode[o] = NoData
    /\ \A w \in Writer : request[w].object # o

\* propose_object before its writes: the type is known and every required field of
\* it is given, or the request is refused (SchemaValidationError).
Proposed(type, complete) == type \in ObjectType /\ complete

\* propose_object_route
Propose(w) ==
    /\ Idle(w)
    /\ \E o \in Object, type \in ObjectType \cup CandidateType, complete \in BOOLEAN,
          status \in Status, stamp \in {"none", "set"} :
        /\ Fresh(o)
        /\ Steps(w, IF Proposed(type, complete)
                    THEN [NoRequest EXCEPT !.kind = "propose", !.at = "write", !.object = o,
                          !.data = [version |-> 1, status |-> status, stamp |-> stamp]]
                    ELSE [NoRequest EXCEPT !.kind = "propose", !.answer = "refused"])
    /\ UNCHANGED <<history, shownNode, proposal>>

\* update_object reads the node; a read that fails finds nothing, which is answered
\* as a missing object.  The data it will write follows the version it read.
Update(w) ==
    /\ Idle(w)
    /\ \E o \in Object, found \in BOOLEAN, status \in Status, stamp \in {"none", "set"} :
        LET read == shownNode[o]
        IN  /\ read # NoData /\ read.version < MaxVersion
            /\ Steps(w, IF found
                        THEN [NoRequest EXCEPT !.kind = "update", !.at = "write", !.object = o,
                              !.data = [version |-> read.version + 1, status |-> status,
                                        stamp |-> stamp]]
                        ELSE [NoRequest EXCEPT !.kind = "update", !.answer = "refused"])
    /\ UNCHANGED <<history, shownNode, proposal>>

\* write_version: the row is committed ...
WriteVersion(w) ==
    /\ request[w].at = "write"
    /\ history' = [history EXCEPT ![request[w].object] = @ \cup {request[w].data}]
    /\ Goes(w, "merge")
    /\ UNCHANGED <<shownNode, proposal>>

\* Mutant: every failure of the row is skipped like a missing DATABASE_URL.
VersionSkipped(w) ==
    /\ request[w].at = "write"
    /\ Goes(w, "merge")
    /\ UNCHANGED <<history, shownNode, proposal>>

\* ... or rolled back, and the request ends with the exception.
VersionFails(w) ==
    /\ request[w].at = "write"
    /\ Answers(w, "failed")
    /\ UNCHANGED <<history, shownNode, proposal>>

\* SET n += props: properties without a value are not sent and stay as they were.
Merged(old, new) ==
    [new EXCEPT !.stamp = IF new.stamp = "none" THEN old.stamp ELSE new.stamp]

\* merge_object: query never raises, so a merge that failed is answered like one that
\* took.  A disposition still has to mark its row.
MergeNode(w) ==
    LET o == request[w].object
    IN  /\ request[w].at = "merge"
        /\ \E took \in BOOLEAN :
            shownNode' = IF took THEN [shownNode EXCEPT ![o] = Merged(@, request[w].data)] ELSE shownNode
        /\ IF request[w].kind = "dispose" THEN Goes(w, "mark") ELSE Answers(w, "done")
        /\ UNCHANGED <<history, proposal>>

\* extract and enqueue_proposal: a confident candidate is stored as pending.
Enqueue(c) ==
    /\ proposal[c].status = "none"
    /\ \E type \in CandidateType :
        proposal' = [proposal EXCEPT ![c] = [type |-> type, status |-> "pending"]]
    /\ UNCHANGED <<history, shownNode, request>>

\* dispose fetches a pending row, whose lock ends with the fetch.
Fetch(w) ==
    /\ Idle(w)
    /\ \E c \in Extracted, verdict \in {"accepted", "edited", "rejected"} :
        /\ proposal[c].status # "none"
        /\ Steps(w, IF proposal[c].status = "pending"
                    THEN [NoRequest EXCEPT !.kind = "dispose", !.at = "fetched",
                          !.candidate = c, !.verdict = verdict]
                    ELSE [NoRequest EXCEPT !.kind = "dispose", !.answer = "refused"])
    /\ UNCHANGED <<history, shownNode, proposal>>

\* A rejection goes on to mark the row; the others propose an object of the row's
\* type with what the row and the edits give it.
Dispose(w) ==
    /\ request[w].at = "fetched"
    /\ \/ request[w].verdict = "rejected" /\ Goes(w, "mark")
       \/ /\ request[w].verdict # "rejected"
          /\ \E o \in Object, complete \in BOOLEAN :
              /\ Fresh(o)
              /\ IF Proposed(proposal[request[w].candidate].type, complete)
                 THEN Steps(w, [request[w] EXCEPT !.at = "write", !.object = o,
                          !.data = [version |-> 1, status |-> "unvalidated", stamp |-> "none"]])
                 ELSE Answers(w, IF complete THEN "type refused" ELSE "refused")
    /\ UNCHANGED <<history, shownNode, proposal>>

\* _mark_disposed sets the row whatever its status is by now.
Mark(w) ==
    /\ request[w].at = "mark"
    /\ \E stored \in BOOLEAN :
        /\ proposal' = IF stored THEN [proposal EXCEPT ![request[w].candidate].status =
                                           request[w].verdict] ELSE proposal
        /\ Answers(w, IF stored THEN "done" ELSE "failed")
    /\ UNCHANGED <<history, shownNode>>

LoomNext ==
    \/ \E w \in Writer :
        \/ Propose(w) \/ Update(w) \/ WriteVersion(w) \/ VersionFails(w) \/ MergeNode(w)
        \/ Fetch(w) \/ Dispose(w) \/ Mark(w)
    \/ \E c \in Extracted : Enqueue(c)

LoomSpec == LoomInit /\ [][LoomNext]_loomVars

\* "version history must never be irrecoverably lost" (ontology/service.py:94): the
\* version and status a node shows are those of one row, and its optional field that
\* of a row, though concurrent updates mix them and clear nothing.
GraphIsRecorded ==
    \A o \in Object : shownNode[o] # NoData =>
        /\ \E d \in history[o] : d.version = shownNode[o].version /\ d.status = shownNode[o].status
        /\ \E d \in history[o] : d.stamp = shownNode[o].stamp

\* "Accept/edit/reject a proposal. Writes ontology + ActionEvent."
\* (mechanism1/disposition.py:61): a complete proposal is not refused for its type.
AcceptIsPossible == \A w \in Writer : request[w].answer # "type refused"

\* "An update was attempted against a stale version" is an error of its own
\* (ontology/exceptions.py:20): no two rows of an object share a version.
VersionsAreDistinct ==
    \A o \in Object : \A d, e \in history[o] : d.version = e.version => d = e
=============================================================================
