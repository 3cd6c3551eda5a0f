--------------------------- MODULE FindingsTracker ---------------------------
(***************************************************************************)
(* The findings of the operator's report (findings.py): each cycle sorts   *)
(* what was found into new, ongoing and resolved against a registry that   *)
(* never forgets a fingerprint and the set of the cycle before.            *)
(***************************************************************************)
CONSTANT Finding    \* what can be found

VARIABLES
    registry,   \* _registry: per fingerprint, "absent", "open" or "resolved"
    lastCycle,  \* _last_cycle: the fingerprints of the cycle before
    reader,     \* what the reports so far tell of each finding: "unheard", "open" or "closed"
    report      \* the last report: new, ongoing and resolved

findingVars == <<registry, lastCycle, reader, report>>

\* Finding.fingerprint: findings that differ in their numbers only are one, which
\* the set of what was found already says.
FindingsInit ==
    /\ registry = [f \in Finding |-> "absent"]
    /\ lastCycle = {}
    /\ reader = [f \in Finding |-> "unheard"]
    /\ report = [new |-> {}, ongoing |-> {}, resolved |-> {}]

\* Mutant: a known finding keeps the mark of its resolution.
EnteredOnce(found) ==
    [f \in Finding |-> IF f \in found /\ registry[f] = "absent" THEN "open" ELSE registry[f]]

\* The registry once the findings of this cycle are entered: a known one is open again.
Entered(found) == [f \in Finding |-> IF f \in found THEN "open" ELSE registry[f]]

\* Those of the cycle before that are gone and not marked resolved.
Gone(found, entered) == {f \in lastCycle \ found : entered[f] = "open"}

\* track_and_classify, and what format_report tells the reader.
Classify(found) ==
    LET resolved == Gone(found, Entered(found))
    IN  /\ report' = [new |-> {f \in found : registry[f] = "absent"},
                      ongoing |-> {f \in found : registry[f] # "absent"},
                      resolved |-> resolved]
        /\ registry' = [f \in Finding |->
               IF f \in resolved THEN "resolved" ELSE Entered(found)[f]]
        /\ lastCycle' = found
        /\ reader' = [f \in Finding |->
               CASE f \in found -> "open" [] f \in resolved -> "closed"
                 [] OTHER -> reader[f]]

\* The process restarts with an empty registry; its reader starts over with it.
FindingsRestart ==
    /\ registry' = [f \in Finding |-> "absent"]
    /\ lastCycle' = {}
    /\ reader' = [f \in Finding |-> "unheard"]
    /\ UNCHANGED report

FindingsNext == (\E found \in SUBSET Finding : Classify(found)) \/ FindingsRestart

FindingsSpec == FindingsInit /\ [][FindingsNext]_findingVars

\* However often a finding comes and goes, a reader of every report believes open
\* exactly what the last cycle found (track_and_classify).
ReaderIsRight == \A f \in Finding : reader[f] = "open" <=> f \in lastCycle

\* "comparison with the previous cycle" (findings.py:79): what was not there in the
\* cycle before is reported as new.
NewIsNew ==
    [][\A f \in report'.ongoing : f \in lastCycle]_findingVars
=============================================================================
