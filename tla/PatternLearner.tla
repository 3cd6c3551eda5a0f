--------------------------- MODULE PatternLearner ---------------------------
(***************************************************************************)
(* The pattern learner: resolutions operators capture become candidates,   *)
(* approvals make them graduate into learned_patterns.json, and triage     *)
(* loads that file into its known patterns.  A candidate has four copies:  *)
(* in memory, in the graph (saved best effort), in the file (lost with     *)
(* its container) and in KNOWN_PATTERNS (only added to).  The routes do    *)
(* not await, so each is one step; a query of the graph that fails reads   *)
(* nothing or writes nothing, and nobody is told.                          *)
(***************************************************************************)
EXTENDS Naturals

CONSTANTS
    Name,          \* the signature hash of an incident source and action
    Capability,    \* what an operator may say healed it
    BlastRadius,   \* the blast radii a capture may name (its request is not checked)
    None,          \* a name without a candidate
    Threshold,     \* GRADUATION_THRESHOLD
    MaxApprovals   \* bound on the successes of a candidate

ASSUME ThresholdAssumption == Threshold \in Nat \ {0} /\ MaxApprovals \in Nat

VARIABLES
    candidate,   \* _candidates
    graph,       \* the OverwatchCandidatePattern nodes
    file,        \* learned_patterns.json: the first entry of a name, the one that counts
    known,       \* the learned entries of KNOWN_PATTERNS
    torn,        \* the file was left half written: it reads as empty, for good
    hidden,      \* the graph's candidates that the last start could not read
    approvals    \* how often operators approved each name, up to Threshold

learnerVars == <<candidate, graph, file, torn, known, hidden, approvals>>

\* Confidence in twentieths: 0.3, 0.5, 0.8, 0.85, 0.95 are 6, 10, 16, 17, 19.
Candidate ==
    [cap: Capability, blast: BlastRadius, conf: 2..19,
     successes: Nat, graduated: BOOLEAN]

ASSUME NoneAssumption == None \notin Candidate

Entry == [name: Name, cap: Capability, blast: BlastRadius, conf: 17..19]

LearnerInit ==
    /\ candidate = [n \in Name |-> None]
    /\ graph = [n \in Name |-> None]
    /\ file = {}
    /\ known = {}
    /\ torn = FALSE
    /\ hidden = {}
    /\ approvals = [n \in Name |-> 0]

AtMost(x, top)     == IF x > top THEN top ELSE x
AtLeast(x, bottom) == IF x < bottom THEN bottom ELSE x

\* _save_candidate: a refused write is logged and forgotten.
Save(n, c) ==
    /\ candidate' = [candidate EXCEPT ![n] = c]
    /\ \/ graph' = [graph EXCEPT ![n] = c] /\ hidden' = hidden \ {n}
       \/ UNCHANGED <<graph, hidden>>

EntryOf(n, c) == [name |-> n, cap |-> c.cap, blast |-> c.blast, conf |-> c.conf]

\* An entry of a name counts only when it is the first.
AddedTo(entries, e) ==
    IF \E f \in entries : f.name = e.name THEN entries ELSE entries \union {e}

-----------------------------------------------------------------------------
\* capture_resolution of an incident nobody captured yet.
Capture(n, cap, blast, autoHeal) ==
    /\ candidate[n] = None
    /\ Save(n, [cap |-> cap, blast |-> blast, conf |-> IF autoHeal THEN 10 ELSE 6,
                successes |-> 0, graduated |-> FALSE])
    /\ UNCHANGED <<file, torn, known, approvals>>

\* Mutant: a capture of a known incident starts over.
RecaptureAfresh(n, cap, autoHeal) ==
    /\ candidate[n] # None
    /\ Save(n, [candidate[n] EXCEPT !.cap = cap, !.conf = IF autoHeal THEN 10 ELSE 6,
                                    !.successes = 0, !.graduated = FALSE])
    /\ UNCHANGED <<file, torn, known, approvals>>

\* The same incident is captured again: whatever was captured before gives way
\* to the new capability, while blast radius, successes and graduation stay.
Recapture(n, cap, autoHeal) ==
    /\ candidate[n] # None
    /\ Save(n, [candidate[n] EXCEPT !.cap = cap,
                                    !.conf = IF autoHeal THEN AtMost(@ + 2, 19) ELSE @])
    /\ UNCHANGED <<file, torn, known, approvals>>

Approved(c) == [c EXCEPT !.successes = @ + 1, !.conf = AtMost(@ + 3, 19)]

\* graduate_candidate
Graduated(c) == [c EXCEPT !.graduated = TRUE, !.conf = AtLeast(@, 17)]

\* Mutant: the threshold is met by one approval too few.
GraduatesEarly(c) == c.successes + 1 >= Threshold /\ ~c.graduated

Graduates(c) == c.successes >= Threshold /\ ~c.graduated

\* _append_to_learned_patterns reads the file, which fails when it is torn, and
\* writes it anew, which may fail at once or half-way.
Appended(e) ==
    \/ UNCHANGED <<file, torn>>
    \/ /\ ~torn
       /\ \/ file' = AddedTo(file, e) /\ torn' = FALSE
          \/ file' = {} /\ torn' = TRUE

\* The approval is saved, and the graduation again, each best effort.
Approve(n) ==
    LET c == Approved(candidate[n])
    IN  /\ candidate[n] # None
        /\ candidate[n].successes < MaxApprovals
        /\ approvals' = [approvals EXCEPT ![n] = AtMost(@ + 1, Threshold)]
        /\ IF Graduates(c)
           THEN /\ \/ Save(n, Graduated(c))
                   \/ /\ candidate' = [candidate EXCEPT ![n] = Graduated(c)]
                      /\ graph' = [graph EXCEPT ![n] = c]
                      /\ hidden' = hidden \ {n}
                /\ Appended(EntryOf(n, Graduated(c)))
           ELSE Save(n, c) /\ UNCHANGED <<file, torn>>
        /\ UNCHANGED known

\* reject_candidate lowers the confidence and nothing else.
Reject(n) ==
    /\ candidate[n] # None
    /\ Save(n, [candidate[n] EXCEPT !.conf = IF @ < 5 THEN 2 ELSE @ - 3])
    /\ UNCHANGED <<file, torn, known, approvals>>

-----------------------------------------------------------------------------
\* _load_graduated_into_known: "Avoid duplicates on reload".
Loaded(old) == old \union {e \in file : \A k \in old : k.name # e.name}

\* POST /patterns/reload
Reload ==
    /\ known' = Loaded(known)
    /\ UNCHANGED <<candidate, graph, file, torn, hidden, approvals>>

\* _load_candidates: the candidates come back from the graph, if it answers.
LoadsCandidates ==
    \/ candidate' = graph /\ hidden' = {}
    \/ candidate' = [n \in Name |-> None] /\ hidden' = {n \in Name : graph[n] # None}

\* The process starts again in its container: graduates come back from the file.
Restart ==
    /\ LoadsCandidates
    /\ known' = Loaded({})
    /\ UNCHANGED <<graph, file, torn, approvals>>

\* A deployment replaces the container, and with it the file.
Replace ==
    /\ LoadsCandidates
    /\ file' = {} /\ torn' = FALSE
    /\ known' = {}
    /\ UNCHANGED <<graph, approvals>>

LearnerNext ==
    \/ \E n \in Name, cap \in Capability :
         \/ \E blast \in BlastRadius, a \in BOOLEAN : Capture(n, cap, blast, a)
         \/ \E a \in BOOLEAN : Recapture(n, cap, a)
    \/ \E n \in Name : Approve(n) \/ Reject(n)
    \/ Reload
    \/ Restart
    \/ Replace

LearnerSpec == LearnerInit /\ [][LearnerNext]_learnerVars

-----------------------------------------------------------------------------
LearnerTypeOK ==
    /\ candidate \in [Name -> Candidate \union {None}]
    /\ graph \in [Name -> Candidate \union {None}]
    /\ file \subseteq Entry
    /\ known \subseteq Entry
    /\ torn \in BOOLEAN
    /\ hidden \subseteq Name
    /\ approvals \in [Name -> 0..Threshold]

\* Nothing is trusted for ever without Threshold approvals by operators:
\* neither a lost save, nor a restart, nor a capture in between graduates a
\* pattern that was approved less often.
GraduationIsEarned ==
    \A n \in Name :
        (\/ candidate[n] # None /\ candidate[n].graduated
         \/ graph[n] # None /\ graph[n].graduated
         \/ \E e \in file \union known : e.name = n) => approvals[n] = Threshold

\* What the graph recorded of a name is only replaced by what came of it: no save
\* takes back an approval or the graduation that an earlier one recorded, whatever
\* saves were lost in between, unless the last start could not read the graph and
\* the name was captured as if it were new.
JudgementsAreDurable ==
    [][\A n \in Name \ hidden :
         graph[n] # None =>
           /\ graph'[n] # None
           /\ graph'[n].successes >= graph[n].successes
           /\ graph[n].graduated => graph'[n].graduated]_learnerVars

\* find_matching_candidate: what triage is offered for an incident.
Offers(n) ==
    /\ candidate[n] # None
    /\ ~candidate[n].graduated
    /\ candidate[n].conf >= 10

\* The keys of the events triage matches: an event has no _source.
EventKeys == {"error", "type", "deploy_stuck", "tenant_id", "stale", "running", "overall"}
KnownMatches(n) == "_source" \in EventKeys /\ \E k \in known : k.name = n

\* "System now handles this incident autonomously forever": once it graduated,
\* a pattern is offered or matched.
GraduatedIsHandled ==
    \A n \in Name :
        candidate[n] # None /\ candidate[n].graduated => Offers(n) \/ KnownMatches(n)
=============================================================================
