-------------------------- MODULE OperationsProofs --------------------------
(***************************************************************************)
(* The parts operators, founders and their agents consult and command, for *)
(* every value of the constants.  They share no state: each has its        *)
(* inductive invariant, but for the deploy gate, which keeps nothing and is*)
(* proved of its decisions.                                                *)
(***************************************************************************)
EXTENDS PatternLearner, DeployGate, TenantRepair, Loom, FounderAsks, ReadTools,
        FiniteSetTheorems, TLAPS

-----------------------------------------------------------------------------
(* The pattern learner *)

\* What operators said of a candidate stands behind its copy.
Owed(c, a) == c = None \/ /\ c.successes <= a \/ a = Threshold
                          /\ c.graduated => a = Threshold

\* A copy c carries every approval and the graduation that a copy d records.
Carries(c, d) ==
    d # None => /\ c # None
                /\ c.successes >= d.successes
                /\ d.graduated => c.graduated

LearnerInv ==
    /\ LearnerTypeOK
    /\ \A n \in Name : Owed(candidate[n], approvals[n]) /\ Owed(graph[n], approvals[n])
    /\ \A e \in file \union known : approvals[e.name] = Threshold
    /\ \A n \in Name \ hidden : Carries(candidate[n], graph[n])

\* What one step does to the graph takes nothing back.
Lasts == \A n \in Name \ hidden : Carries(graph'[n], graph[n])

\* The copies of one candidate are replaced, in memory by c and in the graph by g,
\* each carrying what it has to.
Replaced(n, c, g) ==
    /\ candidate' = [candidate EXCEPT ![n] = c]
    /\ graph' = [graph EXCEPT ![n] = g]
    /\ hidden' \in {hidden, hidden \ {n}}
    /\ n \notin hidden' => Carries(c, g)
    /\ n \notin hidden => Carries(g, graph[n])

\* No step takes an approval back.
Grows == /\ approvals' \in [Name -> 0..Threshold]
         /\ \A n \in Name : approvals[n] <= approvals'[n]

LEMMA LearnerStart == LearnerInit => LearnerInv
  <1> SUFFICES ASSUME LearnerInit  PROVE LearnerInv
    OBVIOUS
  <1>1. LearnerTypeOK
    <2>1. torn \in BOOLEAN  BY DEF LearnerInit
    <2>2. approvals \in [Name -> 0..Threshold]  BY ThresholdAssumption DEF LearnerInit
    <2> QED  BY <2>1, <2>2 DEF LearnerInit, LearnerTypeOK
  <1>2. \A n \in Name : candidate[n] = None /\ graph[n] = None  BY DEF LearnerInit
  <1>3. file = {} /\ known = {}  BY DEF LearnerInit
  <1> QED  BY <1>1, <1>2, <1>3 DEF LearnerInv, Owed, Carries

LEMMA OwedStays ==
    ASSUME NEW c \in Candidate \union {None}, NEW a \in 0..Threshold, NEW b \in 0..Threshold,
           a <= b, Owed(c, a)
    PROVE  Owed(c, b)
  BY ThresholdAssumption DEF Owed, Candidate

LEMMA CarriesItself ==
    ASSUME NEW c \in Candidate \union {None}
    PROVE  Carries(c, c)
  BY DEF Carries, Candidate

LEMMA CarriesOn ==
    ASSUME NEW c \in Candidate \union {None}, NEW d \in Candidate \union {None},
           NEW e \in Candidate \union {None}, Carries(c, d), Carries(d, e)
    PROVE  Carries(c, e)
  BY DEF Carries, Candidate

LEMMA SaveReplaces ==
    ASSUME LearnerInv, NEW n \in Name, NEW c \in Candidate, Save(n, c),
           n \notin hidden => Carries(c, graph[n])
    PROVE  \E g \in {c, graph[n]} : Replaced(n, c, g)
  <1>1. CASE graph' = [graph EXCEPT ![n] = c] /\ hidden' = hidden \ {n}
    <2>1. Carries(c, c)  BY CarriesItself
    <2>2. Replaced(n, c, c)  BY <1>1, <2>1 DEF Save, Replaced
    <2> QED  BY <2>2
  <1>2. CASE UNCHANGED <<graph, hidden>>
    <2>1. graph[n] \in Candidate \union {None} /\ graph' = [graph EXCEPT ![n] = graph[n]]
      BY <1>2 DEF LearnerInv, LearnerTypeOK
    <2>2. Carries(graph[n], graph[n])  BY <2>1, CarriesItself
    <2>3. Replaced(n, c, graph[n])  BY <1>2, <2>1, <2>2 DEF Save, Replaced
    <2> QED  BY <2>3
  <1> QED  BY <1>1, <1>2 DEF Save

LEMMA ReplacedKeeps ==
    ASSUME LearnerInv, NEW n \in Name, NEW c \in Candidate, NEW g \in Candidate \union {None},
           Replaced(n, c, g), Grows, torn' \in BOOLEAN,
           Owed(c, approvals'[n]), Owed(g, approvals'[n]),
           file' \subseteq Entry, UNCHANGED known,
           \A e \in file' : e \in file \/ approvals'[e.name] = Threshold
    PROVE  LearnerInv' /\ Lasts
  <1>1. LearnerTypeOK'
    BY Zenon DEF LearnerInv, LearnerTypeOK, Replaced, Grows
  <1>2. \A m \in Name : Owed(candidate'[m], approvals'[m]) /\ Owed(graph'[m], approvals'[m])
    <2> SUFFICES ASSUME NEW m \in Name
                 PROVE  Owed(candidate'[m], approvals'[m]) /\ Owed(graph'[m], approvals'[m])
      OBVIOUS
    <2>1. CASE m = n
      BY <2>1 DEF Replaced, LearnerInv, LearnerTypeOK
    <2>2. CASE m # n
      <3>1. candidate'[m] = candidate[m] /\ graph'[m] = graph[m]
        BY <2>2 DEF Replaced, LearnerInv, LearnerTypeOK
      <3>2. /\ candidate[m] \in Candidate \union {None} /\ graph[m] \in Candidate \union {None}
            /\ approvals[m] \in 0..Threshold /\ approvals'[m] \in 0..Threshold
            /\ approvals[m] <= approvals'[m]
        BY DEF LearnerInv, LearnerTypeOK, Grows
      <3>3. Owed(candidate[m], approvals[m]) /\ Owed(graph[m], approvals[m])
        BY DEF LearnerInv
      <3>4. Owed(candidate[m], approvals'[m])  BY <3>2, <3>3, OwedStays
      <3>5. Owed(graph[m], approvals'[m])  BY <3>2, <3>3, OwedStays
      <3> QED  BY <3>1, <3>4, <3>5
    <2> QED  BY <2>1, <2>2
  <1>3. \A e \in file' \union known' : approvals'[e.name] = Threshold
    <2>1. \A e \in file \union known : approvals'[e.name] = Threshold
      <3> TAKE e \in file \union known
      <3>1. e.name \in Name  BY DEF LearnerInv, LearnerTypeOK, Entry
      <3>2. approvals[e.name] = Threshold  BY DEF LearnerInv
      <3> QED  BY <3>1, <3>2, ThresholdAssumption DEF Grows
    <2> QED  BY <2>1
  <1>4. ASSUME NEW m \in Name
        PROVE  /\ m \notin hidden' => Carries(candidate'[m], graph'[m])
               /\ m \notin hidden => Carries(graph'[m], graph[m])
    <2>1. CASE m = n
      BY <2>1 DEF Replaced, LearnerInv, LearnerTypeOK
    <2>2. CASE m # n
      <3>1. candidate'[m] = candidate[m] /\ graph'[m] = graph[m]
            /\ graph[m] \in Candidate \union {None}
        BY <2>2 DEF Replaced, LearnerInv, LearnerTypeOK
      <3>2. m \notin hidden' => m \notin hidden  BY <2>2 DEF Replaced
      <3>3. m \notin hidden => Carries(candidate[m], graph[m])  BY DEF LearnerInv
      <3>4. Carries(graph[m], graph[m])  BY <3>1, CarriesItself
      <3> QED  BY <3>1, <3>2, <3>3, <3>4
    <2> QED  BY <2>1, <2>2
  <1>5. \A m \in Name \ hidden' : Carries(candidate'[m], graph'[m])  BY <1>4
  <1>6. \A m \in Name \ hidden : Carries(graph'[m], graph[m])  BY <1>4
  <1>7. (\A m \in Name \ hidden : Carries(candidate[m], graph[m]))'  BY <1>5 DEF Carries
  <1>8. LearnerInv'  BY <1>1, <1>2, <1>3, <1>7 DEF LearnerInv
  <1> QED  BY <1>6, <1>8 DEF Lasts

LEMMA SameApprovals ==
    ASSUME LearnerInv, UNCHANGED approvals
    PROVE  Grows
  BY ThresholdAssumption DEF LearnerInv, LearnerTypeOK, Grows

\* Captures and rejections leave successes and graduation as they were.
LEMMA SaveKeeps ==
    ASSUME LearnerInv, NEW n \in Name, NEW c \in Candidate, Save(n, c),
           Owed(c, approvals[n]), UNCHANGED <<file, torn, known, approvals>>,
           Carries(c, candidate[n])
    PROVE  LearnerInv' /\ Lasts
  <1>0. n \notin hidden => Carries(c, graph[n])  BY CarriesOn DEF LearnerInv, LearnerTypeOK
  <1>1. PICK g \in {c, graph[n]} : Replaced(n, c, g)  BY <1>0, SaveReplaces, Zenon
  <1>2. Grows  BY SameApprovals
  <1>3. Owed(g, approvals[n]) /\ g \in Candidate \union {None}  BY DEF LearnerInv, LearnerTypeOK
  <1>4. /\ approvals'[n] = approvals[n] /\ file' = file /\ file \subseteq Entry
        /\ torn' \in BOOLEAN
    BY DEF LearnerInv, LearnerTypeOK
  <1> QED  BY <1>1, <1>2, <1>3, <1>4, ReplacedKeeps

LEMMA NewCandidate ==
    ASSUME NEW cap \in Capability, NEW blast \in BlastRadius, NEW w \in 2..19, NEW s \in Nat, NEW g \in BOOLEAN
    PROVE  [cap |-> cap, blast |-> blast, conf |-> w, successes |-> s, graduated |-> g] \in Candidate
  BY DEF Candidate

LEMMA CapturesKeep ==
    ASSUME LearnerInv, NEW n \in Name, NEW cap \in Capability, NEW blast \in BlastRadius,
           NEW a \in BOOLEAN, Capture(n, cap, blast, a)
    PROVE  LearnerInv' /\ Lasts
  <1> DEFINE c == [cap |-> cap, blast |-> blast, conf |-> IF a THEN 10 ELSE 6,
                   successes |-> 0, graduated |-> FALSE]
  <1>1. c \in Candidate
    <2>1. PICK w \in 2..19 : w = IF a THEN 10 ELSE 6  OBVIOUS
    <2>2. 0 \in Nat /\ FALSE \in BOOLEAN  OBVIOUS
    <2>3. [cap |-> cap, blast |-> blast, conf |-> w, successes |-> 0, graduated |-> FALSE] \in Candidate
      BY <2>2, NewCandidate
    <2> QED  BY <2>1, <2>3
  <1>2. approvals[n] \in 0..Threshold  BY DEF LearnerInv, LearnerTypeOK
  <1>3. Owed(c, approvals[n])  BY <1>2, ThresholdAssumption DEF Owed
  <1>4. Save(n, c) /\ UNCHANGED <<file, torn, known, approvals>>
    BY DEF Capture
  <1>5. Carries(c, candidate[n])  BY DEF Capture, Carries
  <1> HIDE DEF c
  <1> QED  BY <1>1, <1>3, <1>4, <1>5, SaveKeeps

LEMMA RecapturesKeep ==
    ASSUME LearnerInv, NEW n \in Name, NEW cap \in Capability, NEW a \in BOOLEAN,
           Recapture(n, cap, a)
    PROVE  LearnerInv' /\ Lasts
  <1>0. candidate[n] \in Candidate
    BY DEF Recapture, LearnerInv, LearnerTypeOK
  <1>1. PICK conf \in 2..19 :
           Save(n, [candidate[n] EXCEPT !.cap = cap, !.conf = conf])
    <2>1. candidate[n].conf \in 2..19  BY <1>0 DEF Candidate
    <2>2. PICK w \in 2..19 : w = IF a THEN AtMost(candidate[n].conf + 2, 19) ELSE candidate[n].conf
      BY <2>1 DEF AtMost
    <2>3. Save(n, [candidate[n] EXCEPT !.cap = cap, !.conf = w])
      <3>1. Save(n, [candidate[n] EXCEPT !.cap = cap,
                       !.conf = IF a THEN AtMost(candidate[n].conf + 2, 19) ELSE candidate[n].conf])
        BY Zenon DEF Recapture
      <3> QED  BY <3>1, <2>2, Zenon
    <2> QED  BY <2>3, Zenon
  <1>2. candidate[n] \in Candidate /\ Owed(candidate[n], approvals[n])
    BY <1>0 DEF LearnerInv
  <1>3. PICK c : c = [candidate[n] EXCEPT !.cap = cap, !.conf = conf]  OBVIOUS
  <1>4. c \in Candidate  BY <1>2, <1>3 DEF Candidate
  <1>5. c.successes = candidate[n].successes /\ c.graduated = candidate[n].graduated
    BY <1>2, <1>3 DEF Candidate
  <1>6. Owed(c, approvals[n])
    BY <1>2, <1>5, NoneAssumption DEF Owed
  <1>7. Carries(c, candidate[n])
    BY <1>2, <1>4, <1>5, NoneAssumption DEF Carries, Candidate
  <1>8. Save(n, c) /\ UNCHANGED <<file, torn, known, approvals>>
    BY <1>1, <1>3 DEF Recapture
  <1> QED  BY <1>4, <1>6, <1>7, <1>8, SaveKeeps

LEMMA RejectsKeep ==
    ASSUME LearnerInv, NEW n \in Name, Reject(n)
    PROVE  LearnerInv' /\ Lasts
  <1>1. candidate[n] \in Candidate /\ Owed(candidate[n], approvals[n])
    BY DEF Reject, LearnerInv, LearnerTypeOK
  <1>2. PICK conf \in 2..19 : Save(n, [candidate[n] EXCEPT !.conf = conf])
    BY <1>1, SMTT(30) DEF Reject, Candidate
  <1>3. PICK c : c = [candidate[n] EXCEPT !.conf = conf]  OBVIOUS
  <1>4. c \in Candidate  BY <1>1, <1>3 DEF Candidate
  <1>5. c.successes = candidate[n].successes /\ c.graduated = candidate[n].graduated
    BY <1>1, <1>3 DEF Candidate
  <1>6. Owed(c, approvals[n])  BY <1>1, <1>5, NoneAssumption DEF Owed
  <1>7. Carries(c, candidate[n])
    BY <1>1, <1>4, <1>5, NoneAssumption DEF Carries, Candidate
  <1>8. Save(n, c) /\ UNCHANGED <<file, torn, known, approvals>>  BY <1>2, <1>3 DEF Reject
  <1> QED  BY <1>4, <1>6, <1>7, <1>8, SaveKeeps

\* A candidate graduates on its Threshold-th approval, and no sooner.
LEMMA ApprovesKeep ==
    ASSUME LearnerInv, NEW n \in Name, Approve(n)
    PROVE  LearnerInv' /\ Lasts
  <1> DEFINE c == Approved(candidate[n])
             d == Graduated(c)
  <1>1. candidate[n] \in Candidate /\ Owed(candidate[n], approvals[n]) /\ approvals[n] \in 0..Threshold
    BY DEF Approve, LearnerInv, LearnerTypeOK
  <1>2. c \in Candidate /\ c.successes = candidate[n].successes + 1
        /\ c.graduated = candidate[n].graduated
    <2>1. PICK w \in 2..19 : w = AtMost(candidate[n].conf + 3, 19)
      BY <1>1, NoneAssumption DEF Candidate, AtMost
    <2>2. c = [candidate[n] EXCEPT !.successes = candidate[n].successes + 1, !.conf = w]
      BY <2>1, Zenon DEF Approved
    <2> HIDE DEF c
    <2>3. c.successes = candidate[n].successes + 1 /\ c.graduated = candidate[n].graduated
      BY <1>1, <2>2 DEF Candidate
    <2>4. candidate[n].successes + 1 \in Nat  BY <1>1 DEF Candidate
    <2>5. c \in Candidate  BY <1>1, <2>2, <2>4 DEF Candidate
    <2> QED  BY <2>3, <2>5
  <1>3. d \in Candidate /\ d.successes = c.successes /\ d.graduated = TRUE /\ d.conf \in 17..19
    <2> HIDE DEF c
    <2>1. PICK w \in 17..19 : w = AtLeast(c.conf, 17)
      BY <1>2 DEF Candidate, AtLeast
    <2>2. d = [c EXCEPT !.graduated = TRUE, !.conf = w]
      BY <2>1, Zenon DEF Graduated
    <2> HIDE DEF d
    <2>3. d.successes = c.successes /\ d.conf = w  BY <1>2, <2>2 DEF Candidate
    <2>4. d.graduated = TRUE  BY <1>2, <2>2 DEF Candidate
    <2>5. d \in Candidate
      <3>1. PICK g \in BOOLEAN : g = TRUE  OBVIOUS
      <3>2. d = [c EXCEPT !.graduated = g, !.conf = w]  BY <2>2, <3>1
      <3>3. w \in 2..19  OBVIOUS
      <3> QED  BY <1>2, <3>2, <3>3 DEF Candidate
    <2> QED  BY <2>1, <2>3, <2>4, <2>5
  <1>4. approvals'[n] = AtMost(approvals[n] + 1, Threshold)
    BY DEF Approve, LearnerInv, LearnerTypeOK
  <1>5. Grows
    BY ThresholdAssumption DEF Approve, LearnerInv, LearnerTypeOK, Grows, AtMost
  <1>6. n \notin hidden => Carries(c, graph[n])
    <2> HIDE DEF c
    <2>1. Carries(c, candidate[n])
      BY <1>1, <1>2, NoneAssumption DEF Carries, Candidate
    <2>2. n \notin hidden => Carries(candidate[n], graph[n])  BY DEF LearnerInv
    <2>3. graph[n] \in Candidate \union {None}  BY DEF LearnerInv, LearnerTypeOK
    <2> QED  BY <1>1, <1>2, <2>1, <2>2, <2>3, CarriesOn
  <1>7. Owed(c, approvals'[n])
    BY <1>1, <1>2, <1>4, NoneAssumption, ThresholdAssumption DEF Owed, AtMost, Candidate
  <1>8. Owed(graph[n], approvals'[n]) /\ graph[n] \in Candidate \union {None}
    <2>1. /\ graph[n] \in Candidate \union {None} /\ Owed(graph[n], approvals[n])
          /\ approvals'[n] \in 0..Threshold /\ approvals[n] <= approvals'[n]
      BY <1>5 DEF Grows, LearnerInv, LearnerTypeOK
    <2> QED  BY <2>1, <1>1, OwedStays
  <1>9. file \subseteq Entry /\ UNCHANGED known
    BY DEF Approve, LearnerInv, LearnerTypeOK
  <1>10. CASE Graduates(c)
    <2>1. approvals'[n] = Threshold
      BY <1>1, <1>2, <1>4, <1>10, NoneAssumption, ThresholdAssumption DEF Graduates, Owed, AtMost, Candidate
    <2>2. Owed(d, approvals'[n])  BY <2>1 DEF Owed
    <2>0. Carries(d, c)
      <3> HIDE DEF c, d
      <3> QED  BY <1>2, <1>3, NoneAssumption DEF Carries, Candidate
    <2>3. PICK g \in {c, d, graph[n]} : Replaced(n, d, g)
      <3>1. CASE Save(n, d)
        <4> HIDE DEF c, d
        <4>1. graph[n] \in Candidate \union {None}  BY DEF LearnerInv, LearnerTypeOK
        <4>2. n \notin hidden => Carries(d, graph[n])
          BY <1>2, <1>3, <1>6, <2>0, <4>1, CarriesOn
        <4> QED  BY <1>3, <3>1, <4>2, SaveReplaces, Zenon
      <3>2. CASE /\ candidate' = [candidate EXCEPT ![n] = d]
                 /\ graph' = [graph EXCEPT ![n] = c]
                 /\ hidden' = hidden \ {n}
        <4> HIDE DEF c, d
        <4>1. Replaced(n, d, c)  BY <1>6, <2>0, <3>2 DEF Replaced
        <4> QED  BY <4>1
      <3> QED  BY <3>1, <3>2, <1>10, Zenon DEF Approve
    <2>4. /\ file' \subseteq Entry /\ torn' \in BOOLEAN
          /\ \A e \in file' : e \in file \/ approvals'[e.name] = Threshold
      <3>0. Appended(EntryOf(n, d))  BY <1>10, Zenon DEF Approve
      <3>1. /\ file' \in {file, {}, AddedTo(file, EntryOf(n, d))}
            /\ torn' \in {torn, TRUE, FALSE}
        <4> HIDE DEF d
        <4> QED  BY <3>0, Zenon DEF Appended
      <3>3. torn' \in BOOLEAN  BY <3>1 DEF LearnerInv, LearnerTypeOK
      <3>2. EntryOf(n, d) \in Entry /\ EntryOf(n, d).name = n
        BY <1>3 DEF EntryOf, Entry, Candidate
      <3> HIDE DEF d
      <3>4. CASE file' = AddedTo(file, EntryOf(n, d))
        BY <3>2, <3>3, <3>4, <2>1, <1>9 DEF AddedTo
      <3>5. CASE file' \in {file, {}}
        BY <3>3, <3>5, <1>9
      <3> QED  BY <3>1, <3>4, <3>5
    <2> HIDE DEF c, d
    <2> QED  BY <1>2, <1>3, <1>5, <1>7, <1>8, <1>9, <2>2, <2>3, <2>4, ReplacedKeeps
  <1>11. CASE ~Graduates(c)
    <2>1. Save(n, c) /\ UNCHANGED <<file, torn>>  BY <1>11, Zenon DEF Approve
    <2> HIDE DEF c
    <2>2. PICK g \in {c, graph[n]} : Replaced(n, c, g)
      BY <1>2, <1>6, <2>1, SaveReplaces, Zenon
    <2>3. torn' \in BOOLEAN  BY <2>1 DEF LearnerInv, LearnerTypeOK
    <2> QED  BY <1>2, <1>5, <1>7, <1>8, <1>9, <2>1, <2>2, <2>3, ReplacedKeeps
  <1> QED  BY <1>10, <1>11

\* A process that starts knows what the graph and the file know, or nothing.
LEMMA RestartsKeep ==
    ASSUME LearnerInv, Reload \/ Restart \/ Replace
    PROVE  LearnerInv' /\ Lasts
  <1>1. UNCHANGED <<graph, approvals>> /\ torn' \in BOOLEAN
    BY DEF Reload, Restart, Replace, LearnerInv, LearnerTypeOK
  <1>2. file' \subseteq file /\ known' \subseteq file \union known
    BY DEF Reload, Restart, Replace, Loaded
  <1>3. Lasts
    BY <1>1, CarriesItself DEF Lasts, LearnerInv, LearnerTypeOK
  <1>4. \A e \in file' \union known' : approvals'[e.name] = Threshold
    BY <1>1, <1>2 DEF LearnerInv
  <1>5. CASE UNCHANGED <<candidate, hidden>>
    BY <1>1, <1>2, <1>3, <1>4, <1>5 DEF LearnerInv, LearnerTypeOK
  <1>6. CASE candidate' = graph /\ hidden' = {}
    <2>1. \A n \in Name : Carries(candidate'[n], graph'[n])
      BY <1>1, <1>6, CarriesItself DEF LearnerInv, LearnerTypeOK
    <2>2. \A n \in Name : Owed(candidate'[n], approvals'[n]) /\ Owed(graph'[n], approvals'[n])
      BY <1>1, <1>6 DEF LearnerInv
    <2>3. LearnerTypeOK'  BY <1>1, <1>2, <1>6 DEF LearnerInv, LearnerTypeOK
    <2>4. LearnerInv'  BY <1>4, <2>1, <2>2, <2>3 DEF LearnerInv
    <2> QED  BY <1>3, <2>4
  <1>7. CASE candidate' = [n \in Name |-> None] /\ hidden' = {n \in Name : graph[n] # None}
    <2>1. LearnerTypeOK'  BY <1>1, <1>2, <1>7 DEF LearnerInv, LearnerTypeOK
    <2>2. \A n \in Name : candidate'[n] = None  BY <1>7
    <2>3. \A n \in Name : Owed(candidate'[n], approvals'[n]) /\ Owed(graph'[n], approvals'[n])
      BY <1>1, <2>2 DEF LearnerInv, Owed
    <2>4. \A n \in Name \ hidden' : Carries(candidate'[n], graph'[n])
      BY <1>1, <1>7 DEF Carries
    <2>5. LearnerInv'  BY <1>4, <2>1, <2>3, <2>4 DEF LearnerInv
    <2> QED  BY <1>3, <2>5
  <1> QED  BY <1>5, <1>6, <1>7 DEF Reload, Restart, Replace, LoadsCandidates

LEMMA LearnerStep == LearnerInv /\ [LearnerNext]_learnerVars => LearnerInv' /\ Lasts
  <1> SUFFICES ASSUME LearnerInv, [LearnerNext]_learnerVars  PROVE LearnerInv' /\ Lasts
    OBVIOUS
  <1>1. CASE UNCHANGED learnerVars
    <2>1. LearnerInv'  BY <1>1 DEF learnerVars, LearnerInv, LearnerTypeOK
    <2>2. Lasts
      BY <1>1, CarriesItself DEF learnerVars, Lasts, LearnerInv, LearnerTypeOK
    <2> QED  BY <2>1, <2>2
  <1>2. CASE LearnerNext
    BY <1>2, CapturesKeep, RecapturesKeep, ApprovesKeep, RejectsKeep, RestartsKeep, Zenon
       DEF LearnerNext
  <1> QED  BY <1>1, <1>2

LEMMA InvEarns == LearnerInv => GraduationIsEarned
  <1> SUFFICES ASSUME LearnerInv, NEW n \in Name,
                      \/ candidate[n] # None /\ candidate[n].graduated
                      \/ graph[n] # None /\ graph[n].graduated
                      \/ \E e \in file \union known : e.name = n
               PROVE  approvals[n] = Threshold
    BY DEF GraduationIsEarned
  <1> QED  BY DEF LearnerInv, Owed

\* Nothing graduates without Threshold approvals, whichever saves are lost and however
\* often it is captured again or the process restarts (approve_candidate,
\* graduate_candidate, _load_graduated_into_known).
THEOREM GraduatesAreApproved == LearnerSpec => []GraduationIsEarned
  BY LearnerStart, LearnerStep, InvEarns, PTL DEF LearnerSpec

\* No save takes back an approval or a graduation that the graph recorded, whatever
\* saves were lost before it, but of a name captured after a start that could not
\* read the graph (_save_candidate, _load_candidates, capture_resolution).
THEOREM SavedJudgementsLast == LearnerSpec => JudgementsAreDurable
  <1>1. LearnerInv /\ [LearnerNext]_learnerVars
          => [\A n \in Name \ hidden :
                 graph[n] # None =>
                   /\ graph'[n] # None
                   /\ graph'[n].successes >= graph[n].successes
                   /\ graph[n].graduated => graph'[n].graduated]_learnerVars
    BY LearnerStep DEF Lasts, Carries
  <1> QED  BY LearnerStart, LearnerStep, <1>1, PTL DEF LearnerSpec, JudgementsAreDurable

-----------------------------------------------------------------------------
(* The deploy gate *)

FactFields == {"ci", "audit", "tenants", "synthetic", "lastDeploy", "daemon", "risk",
           "incidents", "chains", "failures", "offHours", "buried"}

FieldsKept == DOMAIN fact = FactFields

\* A field's value y is x, or comes after it in a scale.
After(scale, x, y) ==
    x = y \/ \E i, j \in DOMAIN scale : i < j /\ x = scale[i] /\ y = scale[j]

LEMMA DeployStart == DeployInit => FieldsKept
  BY Zenon DEF DeployInit, Fact, FieldsKept, FactFields

LEMMA DeployStep == FieldsKept /\ [DeployNext]_deployVars => FieldsKept'
  <1> SUFFICES ASSUME FieldsKept, [DeployNext]_deployVars  PROVE DOMAIN fact' = DOMAIN fact
    BY DEF FieldsKept
  <1>1. CASE FactChanges
    <2>1. PICK k \in DOMAIN fact : \E v \in Value[k] : fact' = [fact EXCEPT ![k] = v]
      BY <1>1, Zenon DEF FactChanges
    <2> QED  BY <2>1
  <1> QED  BY <1>1 DEF DeployNext, deployVars, SetOverride, ClearOverride, Tick

LEMMA WorseFields ==
    ASSUME NEW f, NEW g, DOMAIN f = FactFields, Worsens(f, g)
    PROVE  \A m \in FactFields : After(Badness[m], f[m], g[m])
  BY DEF Worsens, After

NotBetter(x, y) == (x = "block" => y = "block") /\ (x = "warn" => y \in {"warn", "block"})

LEMMA TwoLevels ==
    ASSUME NEW a, NEW b, NEW x, NEW y, After(<<a, b>>, x, y)
    PROVE  x = y \/ (x = a /\ y = b)
  BY DEF After

LEMMA ThreeLevels ==
    ASSUME NEW a, NEW b, NEW c, NEW x, NEW y, After(<<a, b, c>>, x, y)
    PROVE  x = y \/ (x = a /\ y \in {b, c}) \/ (x = b /\ y = c)
  BY DEF After

LEMMA FourLevels ==
    ASSUME NEW a, NEW b, NEW c, NEW d, NEW x, NEW y, After(<<a, b, c, d>>, x, y)
    PROVE  x = y \/ (x = a /\ y \in {b, c, d}) \/ (x = b /\ y \in {c, d}) \/ (x = c /\ y = d)
  BY DEF After

LEMMA CiNotBetter ==
    ASSUME NEW f, NEW g, After(Badness["ci"], f.ci, g.ci)
    PROVE  NotBetter(CiTests(f), CiTests(g)) /\ (f.ci = "failed" => g.ci = "failed")
  <1>1. After(<<"passed", "unavailable", "failed">>, f.ci, g.ci)
    BY DEF Badness
  <1>2. \/ f.ci = g.ci
        \/ f.ci = "passed" /\ g.ci \in {"unavailable", "failed"}
        \/ f.ci = "unavailable" /\ g.ci = "failed"
    BY <1>1, ThreeLevels, Zenon
  <1>3. CASE f.ci = g.ci
    BY <1>3 DEF CiTests, NotBetter
  <1>4. CASE f.ci # g.ci
    BY <1>2, <1>4 DEF CiTests, NotBetter
  <1> QED  BY <1>3, <1>4

LEMMA AuditNotBetter ==
    ASSUME NEW f, NEW g, After(Badness["audit"], f.audit, g.audit)
    PROVE  NotBetter(CodeHealth(f), CodeHealth(g))
  <1>1. After(<<"ok", "over 200 critical">>, f.audit, g.audit)
    BY Zenon DEF Badness
  <1>2. f.audit = g.audit \/ g.audit = "over 200 critical"
    BY <1>1, TwoLevels, Zenon
  <1>3. g.audit = "over 200 critical" => CodeHealth(g) = "warn"
    BY Zenon DEF CodeHealth
  <1>4. CodeHealth(f) \in {"warn", "pass"}  BY Zenon DEF CodeHealth
  <1>5. f.audit = g.audit => CodeHealth(f) = CodeHealth(g)  BY Zenon DEF CodeHealth
  <1> QED  BY <1>2, <1>3, <1>4, <1>5, Zenon DEF NotBetter

LEMMA TenantsNotBetter ==
    ASSUME NEW f, NEW g, After(Badness["tenants"], f.tenants, g.tenants)
    PROVE  NotBetter(TenantHealth(f), TenantHealth(g))
  <1>1. After(<<"ok", "two critical">>, f.tenants, g.tenants)
    BY Zenon DEF Badness
  <1>2. f.tenants = g.tenants \/ g.tenants = "two critical"
    BY <1>1, TwoLevels, Zenon
  <1>3. g.tenants = "two critical" => TenantHealth(g) = "warn"
    BY Zenon DEF TenantHealth
  <1>4. TenantHealth(f) \in {"warn", "pass"}  BY Zenon DEF TenantHealth
  <1>5. f.tenants = g.tenants => TenantHealth(f) = TenantHealth(g)  BY Zenon DEF TenantHealth
  <1> QED  BY <1>2, <1>3, <1>4, <1>5, Zenon DEF NotBetter

LEMMA SyntheticNotBetter ==
    ASSUME NEW f, NEW g, After(Badness["synthetic"], f.synthetic, g.synthetic)
    PROVE  NotBetter(SyntheticTests(f), SyntheticTests(g))
  <1>1. After(<<"ok", "below 80%">>, f.synthetic, g.synthetic)
    BY Zenon DEF Badness
  <1>2. f.synthetic = g.synthetic \/ g.synthetic = "below 80%"
    BY <1>1, TwoLevels, Zenon
  <1>3. g.synthetic = "below 80%" => SyntheticTests(g) = "warn"
    BY Zenon DEF SyntheticTests
  <1>4. SyntheticTests(f) \in {"warn", "pass"}  BY Zenon DEF SyntheticTests
  <1>5. f.synthetic = g.synthetic => SyntheticTests(f) = SyntheticTests(g)
    BY Zenon DEF SyntheticTests
  <1> QED  BY <1>2, <1>3, <1>4, <1>5, Zenon DEF NotBetter

LEMMA HistoryNotBetter ==
    ASSUME NEW f, NEW g, After(Badness["lastDeploy"], f.lastDeploy, g.lastDeploy)
    PROVE  NotBetter(DeployHistory(f), DeployHistory(g))
  <1>1. After(<<"ok", "failed">>, f.lastDeploy, g.lastDeploy)
    BY Zenon DEF Badness
  <1>2. f.lastDeploy = g.lastDeploy \/ g.lastDeploy = "failed"
    BY <1>1, TwoLevels, Zenon
  <1> QED  BY <1>2 DEF DeployHistory, NotBetter

LEMMA DaemonNotBetter ==
    ASSUME NEW f, NEW g, After(Badness["daemon"], f.daemon, g.daemon)
    PROVE  /\ NotBetter(SystemStability(f), SystemStability(g))
           /\ Stopped(f) => Stopped(g)
           /\ Stale(f) => Stale(g)
  <1>1. After(<<"ok", "over 5 errors", "stale", "down">>, f.daemon, g.daemon)
    BY Zenon DEF Badness
  <1>2. \/ f.daemon = g.daemon
        \/ f.daemon = "ok" /\ g.daemon \in {"over 5 errors", "stale", "down"}
        \/ f.daemon = "over 5 errors" /\ g.daemon \in {"stale", "down"}
        \/ f.daemon = "stale" /\ g.daemon = "down"
    BY <1>1, FourLevels, ZenonT(30)
  <1>3. (Stopped(f) => Stopped(g)) /\ (Stale(f) => Stale(g))
    BY <1>2, Zenon DEF Stopped, Stale
  <1>4. f.daemon = g.daemon => SystemStability(f) = SystemStability(g)
    BY Zenon DEF SystemStability, Stopped, Stale
  <1>5. g.daemon \in {"stale", "down"} => SystemStability(g) = "block"
    BY Zenon DEF SystemStability, Stopped, Stale
  <1>6. f.daemon = "ok" => SystemStability(f) = "pass"
    BY Zenon DEF SystemStability, Stopped, Stale
  <1>7. f.daemon = "over 5 errors" => SystemStability(f) = "warn"
    BY Zenon DEF SystemStability, Stopped, Stale
  <1>8. f.daemon \in {"stale", "down"} => SystemStability(f) = "block"
    BY Zenon DEF SystemStability, Stopped, Stale
  <1> QED  BY <1>2, <1>3, <1>4, <1>5, <1>6, <1>7, <1>8, Zenon DEF NotBetter

LEMMA CountsWorsen ==
    ASSUME NEW x, NEW y, After(<<0, 1, 2, 3>>, x, y)
    PROVE  x = y \/ (x \in 0..2 /\ y \in 1..3 /\ x < y)
  BY FourLevels

LEMMA IncidentsNotBetter ==
    ASSUME NEW f, NEW g, After(Badness["incidents"], f.incidents, g.incidents)
    PROVE  NotBetter(Incidents(f), Incidents(g)) /\ (f.incidents >= 2 => g.incidents >= 2)
  <1>1. After(<<0, 1, 2, 3>>, f.incidents, g.incidents)
    BY Zenon DEF Badness
  <1>2. \/ f.incidents = g.incidents
        \/ f.incidents \in 0..2 /\ g.incidents \in 1..3 /\ f.incidents < g.incidents
    BY <1>1, CountsWorsen
  <1> QED  BY <1>2 DEF Incidents, NotBetter

LEMMA ChainsNotBetter ==
    ASSUME NEW f, NEW g, After(Badness["chains"], f.chains, g.chains)
    PROVE  /\ NotBetter(HealChains(f), HealChains(g))
           /\ f.chains >= 3 => g.chains >= 3
           /\ f.chains > 0 => g.chains > 0
  <1>1. After(<<0, 1, 2, 3>>, f.chains, g.chains)
    BY Zenon DEF Badness
  <1>2. f.chains = g.chains \/ (f.chains \in 0..2 /\ g.chains \in 1..3 /\ f.chains < g.chains)
    BY <1>1, CountsWorsen
  <1> QED  BY <1>2 DEF HealChains, NotBetter

LEMMA FailuresNotBetter ==
    ASSUME NEW f, NEW g, After(Badness["failures"], f.failures, g.failures),
           After(Badness["buried"], f.buried, g.buried), RecentDeployFailures(f) >= 3
    PROVE  RecentDeployFailures(g) >= 3
  <1>1. After(<<0, 1, 2, 3>>, f.failures, g.failures)
    BY Zenon DEF Badness
  <1>2. f.failures >= 3 => g.failures >= 3
    BY <1>1, CountsWorsen
  <1>3. After(<<>>, f.buried, g.buried)
    BY Zenon DEF Badness
  <1>4. f.buried = g.buried
    BY <1>3 DEF After
  <1>5. ~f.buried /\ RecentDeployFailures(f) = f.failures
    <2>1. CASE f.buried
      BY <2>1 DEF RecentDeployFailures
    <2>2. CASE ~f.buried
      BY <2>2, Zenon DEF RecentDeployFailures
    <2> QED  BY <2>1, <2>2
  <1>6. RecentDeployFailures(g) = g.failures
    BY <1>4, <1>5, Zenon DEF RecentDeployFailures
  <1> QED  BY <1>2, <1>5, <1>6
LEMMA CanaryNotBetter ==
    ASSUME NEW f, NEW g, After(Badness["risk"], f.risk, g.risk),
           After(Badness["offHours"], f.offHours, g.offHours)
    PROVE  /\ f.risk # "up to 0.4" => g.risk # "up to 0.4"
           /\ f.risk = "above 0.7" => g.risk = "above 0.7"
           /\ f.offHours => g.offHours
  <1>1. After(<<"up to 0.4", "up to 0.7", "above 0.7">>, f.risk, g.risk)
    BY Zenon DEF Badness
  <1>2. \/ f.risk = g.risk
        \/ f.risk = "up to 0.4" /\ g.risk \in {"up to 0.7", "above 0.7"}
        \/ f.risk = "up to 0.7" /\ g.risk = "above 0.7"
    BY <1>1, ThreeLevels, Zenon
  <1>3. After(<<FALSE, TRUE>>, f.offHours, g.offHours)
    BY Zenon DEF Badness
  <1>4. f.offHours = g.offHours \/ g.offHours = TRUE
    BY <1>3, TwoLevels, Zenon
  <1>5. f.offHours => g.offHours  BY <1>4
  <1> QED  BY <1>2, <1>5, Zenon

FactorName == {"ci_tests", "code_health", "incidents", "tenant_health", "synthetic_tests",
               "deploy_history", "heal_chains", "system_stability"}

LEMMA FactorsNamed == ASSUME NEW f PROVE DOMAIN Factors(f) = FactorName
  BY DEF Factors, FactorName

LEMMA FactorsAreFinite == IsFiniteSet(FactorName)
  <1>1. FactorName = {"ci_tests"} \union {"code_health"} \union {"incidents"}
          \union {"tenant_health"} \union {"synthetic_tests"} \union {"deploy_history"}
          \union {"heal_chains"} \union {"system_stability"}
    BY DEF FactorName
  <1> QED  BY <1>1, FS_Singleton, FS_Union

LEMMA FactorsNotBetter ==
    ASSUME NEW f, NEW g, \A m \in FactFields : After(Badness[m], f[m], g[m]), NEW k \in FactorName
    PROVE  NotBetter(Factors(f)[k], Factors(g)[k])
  <1>1. /\ After(Badness["ci"], f.ci, g.ci)
        /\ After(Badness["audit"], f.audit, g.audit)
        /\ After(Badness["tenants"], f.tenants, g.tenants)
        /\ After(Badness["synthetic"], f.synthetic, g.synthetic)
        /\ After(Badness["lastDeploy"], f.lastDeploy, g.lastDeploy)
        /\ After(Badness["daemon"], f.daemon, g.daemon)
        /\ After(Badness["incidents"], f.incidents, g.incidents)
        /\ After(Badness["chains"], f.chains, g.chains)
    BY Zenon DEF FactFields
  <1>2. CASE k = "ci_tests"
    BY <1>1, <1>2, CiNotBetter DEF Factors
  <1>3. CASE k = "code_health"
    BY <1>1, <1>3, AuditNotBetter DEF Factors
  <1>4. CASE k = "incidents"
    BY <1>1, <1>4, IncidentsNotBetter DEF Factors
  <1>5. CASE k = "tenant_health"
    BY <1>1, <1>5, TenantsNotBetter DEF Factors
  <1>6. CASE k = "synthetic_tests"
    BY <1>1, <1>6, SyntheticNotBetter DEF Factors
  <1>7. CASE k = "deploy_history"
    BY <1>1, <1>7, HistoryNotBetter DEF Factors
  <1>8. CASE k = "heal_chains"
    BY <1>1, <1>8, ChainsNotBetter DEF Factors
  <1>9. CASE k = "system_stability"
    BY <1>1, <1>9, DaemonNotBetter DEF Factors
  <1> QED  BY <1>2, <1>3, <1>4, <1>5, <1>6, <1>7, <1>8, <1>9 DEF FactorName

\* A blocking factor stays one; a warning stays a warning or blocks.
LEMMA ReadinessNotBetter ==
    ASSUME NEW f, NEW g, \A m \in FactFields : After(Badness[m], f[m], g[m])
    PROVE  Rank(EvaluateDeployReadiness(g)) <= Rank(EvaluateDeployReadiness(f))
  <1>1. \A k \in FactorName : NotBetter(Factors(f)[k], Factors(g)[k])
    BY FactorsNotBetter
  <1>2. Having(f, "block") \subseteq Having(g, "block")
    BY <1>1, FactorsNamed DEF Having, NotBetter
  <1>3. Having(f, "warn") \subseteq Having(g, "warn") \union Having(g, "block")
    BY <1>1, FactorsNamed DEF Having, NotBetter
  <1>4. \A h : EvaluateDeployReadiness(h) \in {"HOLD", "CANARY", "DEPLOY"}
    BY DEF EvaluateDeployReadiness
  <1>5. CASE Having(g, "block") # {}
    <2>1. EvaluateDeployReadiness(g) = "HOLD"  BY <1>5 DEF EvaluateDeployReadiness
    <2>2. Rank(EvaluateDeployReadiness(g)) = 0  BY <2>1 DEF Rank
    <2> QED  BY <2>2, <1>4 DEF Rank
  <1>6. CASE Having(g, "block") = {}
    <2>1. Having(f, "block") = {} /\ Having(f, "warn") \subseteq Having(g, "warn")
      BY <1>2, <1>3, <1>6
    <2>2. Having(g, "warn") \subseteq FactorName  BY FactorsNamed DEF Having
    <2>3. IsFiniteSet(Having(g, "warn"))  BY <2>2, FactorsAreFinite, FS_Subset
    <2>4. /\ Cardinality(Having(f, "warn")) <= Cardinality(Having(g, "warn"))
          /\ Cardinality(Having(f, "warn")) \in Nat /\ Cardinality(Having(g, "warn")) \in Nat
      BY <2>1, <2>3, FS_Subset, FS_CardinalityType
    <2>5. CASE Cardinality(Having(g, "warn")) >= 3
      <3>1. EvaluateDeployReadiness(g) = "CANARY"  BY <1>6, <2>5 DEF EvaluateDeployReadiness
      <3>2. EvaluateDeployReadiness(f) \in {"CANARY", "DEPLOY"}
        BY <2>1 DEF EvaluateDeployReadiness
      <3> QED  BY <3>1, <3>2 DEF Rank
    <2>6. CASE ~(Cardinality(Having(g, "warn")) >= 3)
      <3>1. ~(Cardinality(Having(f, "warn")) >= 3)  BY <2>4, <2>6
      <3>2. EvaluateDeployReadiness(f) = "DEPLOY"  BY <2>1, <3>1 DEF EvaluateDeployReadiness
      <3> QED  BY <3>2, <1>4 DEF Rank
    <2> QED  BY <2>5, <2>6
  <1> QED  BY <1>5, <1>6

\* Every reason to hold stays one; so does every reason for a canary.
LEMMA RequestNotBetter ==
    ASSUME NEW f, NEW g, \A m \in FactFields : After(Badness[m], f[m], g[m])
    PROVE  Rank(EvaluateDeployRequest(g)) <= Rank(EvaluateDeployRequest(f))
  <1>1. /\ After(Badness["daemon"], f.daemon, g.daemon)
        /\ After(Badness["risk"], f.risk, g.risk)
        /\ After(Badness["offHours"], f.offHours, g.offHours)
        /\ After(Badness["incidents"], f.incidents, g.incidents)
        /\ After(Badness["chains"], f.chains, g.chains)
        /\ After(Badness["failures"], f.failures, g.failures)
        /\ After(Badness["buried"], f.buried, g.buried)
    BY Zenon DEF FactFields
  <1>2. PlatformHealth(f) = "critical" => PlatformHealth(g) = "critical"
    <2>1. PlatformHealth(f) = "critical" => Stopped(f)  BY DEF PlatformHealth
    <2>2. Stopped(g) => PlatformHealth(g) = "critical"  BY DEF PlatformHealth
    <2> QED  BY <1>1, <2>1, <2>2, DaemonNotBetter
  <1>3. RecentDeployFailures(f) >= 3 => RecentDeployFailures(g) >= 3
    BY <1>1, FailuresNotBetter
  <1>4. /\ f.chains >= 3 => g.chains >= 3
        /\ f.chains > 0 => g.chains > 0
    BY <1>1, ChainsNotBetter
  <1>5. f.incidents >= 2 => g.incidents >= 2
    BY <1>1, IncidentsNotBetter
  <1>6. /\ f.risk # "up to 0.4" => g.risk # "up to 0.4"
        /\ f.risk = "above 0.7" => g.risk = "above 0.7"
        /\ f.offHours => g.offHours
    BY <1>1, CanaryNotBetter
  <1>7. HoldReasons(f) \subseteq HoldReasons(g)
    BY <1>2, <1>3, <1>4, <1>5, <1>6, Zenon DEF HoldReasons
  <1> DEFINE Canary(h) == h.risk # "up to 0.4" \/ h.chains > 0 \/ h.offHours
  <1>8. Canary(f) => Canary(g)  BY <1>4, <1>6, Zenon
  <1>9. \A h : /\ HoldReasons(h) # {} => EvaluateDeployRequest(h) = "HOLD"
               /\ HoldReasons(h) = {} /\ Canary(h) => EvaluateDeployRequest(h) = "CANARY"
               /\ HoldReasons(h) = {} /\ ~Canary(h) => EvaluateDeployRequest(h) = "DEPLOY"
    BY Zenon DEF EvaluateDeployRequest
  <1> HIDE DEF Canary
  <1>10. Rank("HOLD") = 0 /\ Rank("CANARY") = 1 /\ Rank("DEPLOY") = 2  BY DEF Rank
  <1>11. CASE HoldReasons(g) # {}
    <2>1. EvaluateDeployRequest(f) \in {"HOLD", "CANARY", "DEPLOY"}  BY Zenon, <1>9
    <2>2. EvaluateDeployRequest(g) = "HOLD"  BY Zenon, <1>9, <1>11
    <2> QED  BY <1>10, <2>1, <2>2
  <1>12. CASE HoldReasons(g) = {} /\ Canary(g)
    <2>1. EvaluateDeployRequest(f) \in {"CANARY", "DEPLOY"}  BY Zenon, <1>7, <1>9, <1>12
    <2>2. EvaluateDeployRequest(g) = "CANARY"  BY Zenon, <1>9, <1>12
    <2> QED  BY <1>10, <2>1, <2>2
  <1>13. CASE HoldReasons(g) = {} /\ ~Canary(g)
    <2>1. EvaluateDeployRequest(f) = "DEPLOY"  BY Zenon, <1>7, <1>8, <1>9, <1>13
    <2>2. EvaluateDeployRequest(g) = "DEPLOY"  BY Zenon, <1>9, <1>13
    <2> QED  BY <1>10, <2>1, <2>2
  <1> QED  BY Zenon, <1>11, <1>12, <1>13

LEMMA WorseStep ==
    ASSUME FieldsKept, [DeployNext]_deployVars
    PROVE  [Worsens(fact, fact') =>
             /\ Rank(EvaluateDeployReadiness(fact')) <= Rank(EvaluateDeployReadiness(fact))
             /\ Rank(EvaluateDeployRequest(fact')) <= Rank(EvaluateDeployRequest(fact))]_deployVars
  <1> SUFFICES ASSUME Worsens(fact, fact')
               PROVE  /\ Rank(EvaluateDeployReadiness(fact')) <= Rank(EvaluateDeployReadiness(fact))
                      /\ Rank(EvaluateDeployRequest(fact')) <= Rank(EvaluateDeployRequest(fact))
    OBVIOUS
  <1>1. \A m \in FactFields : After(Badness[m], fact[m], fact'[m])
    BY WorseFields DEF FieldsKept
  <1> QED  BY <1>1, ReadinessNotBetter, RequestNotBetter

\* A platform that gets worse in one respect never gets a better answer from either
\* adviser, whatever its other factors are (evaluate_deploy_readiness,
\* deploy_decision).
THEOREM NeverForTheBetter == DeploySpec => WorseIsNeverBetter
  <1>1. FieldsKept /\ [DeployNext]_deployVars
          => [Worsens(fact, fact') =>
               /\ Rank(EvaluateDeployReadiness(fact')) <= Rank(EvaluateDeployReadiness(fact))
               /\ Rank(EvaluateDeployRequest(fact')) <= Rank(EvaluateDeployRequest(fact))]_deployVars
    BY WorseStep
  <1> QED  BY DeployStart, DeployStep, <1>1, PTL DEF DeploySpec, WorseIsNeverBetter

LEMMA HoldsWhenDead == DeadPlatformHolds
  <1> SUFFICES ASSUME Stopped(fact)
               PROVE  /\ EvaluateDeployRequest(fact) = "HOLD"
                      /\ "DEPLOY" \in CiGate => override.decision = "DEPLOY" /\ override.left > 0
    BY DEF DeadPlatformHolds
  <1>1. EvaluateDeployRequest(fact) = "HOLD"
    <2>1. PlatformHealth(fact) = "critical"  BY DEF PlatformHealth
    <2>2. "platform" \in HoldReasons(fact)  BY <2>1, Zenon DEF HoldReasons
    <2> QED  BY <2>2, Zenon DEF EvaluateDeployRequest
  <1>2. EvaluateDeployReadiness(fact) = "HOLD"
    <2>1. fact.daemon \in {"down", "unreadable"}  BY Zenon DEF Stopped
    <2>2. SystemStability(fact) = "block"  BY <2>1, Zenon DEF SystemStability, Stale, Stopped
    <2>3. Factors(fact)["system_stability"] = "block"  BY <2>2 DEF Factors
    <2>4. "system_stability" \in Having(fact, "block")
      BY <2>3, FactorsNamed DEF Having, FactorName
    <2> QED  BY <2>4 DEF EvaluateDeployReadiness
  <1>3. "DEPLOY" \in CiGate => ActiveOverride /\ override.decision = "DEPLOY"
    BY <1>2 DEF CiGate
  <1> QED  BY <1>1, <1>3 DEF ActiveOverride

\* With the daemon down a deploy is held, unless an operator's override in force
\* lets it through (evaluate_ci_gate).
THEOREM DeadHolds == DeploySpec => []DeadPlatformHolds
  BY HoldsWhenDead, PTL

-----------------------------------------------------------------------------
(* Repairs and purges *)

Place == Project \union {Absent, NoProject, Default}

Request == [kind: {"repair", "purge"}, at: {"census", "execute", "done"},
            todo: SUBSET Scoped, found: SUBSET Scoped, labels: SUBSET Scoped,
            target: Project \union {Absent, Default}, dryRun: BOOLEAN]

\* No orphan of the label was there before the request.
Clean(label) == \A n \in Node \ late : LabelOf[n] = label => ~Orphan(n)

\* What a request without a failed query leaves behind it is clean.
Behind ==
    op.at = "census" /\ ~failed /\ op.target # Default
        => \A label \in op.labels \ (op.todo \union op.found) : Clean(label)
Worked ==
    op.at = "execute" /\ ~failed /\ op.target # Default
        => \A label \in op.labels \ op.todo : Clean(label)
Left ==
    op.at = "done" /\ ~op.dryRun /\ ~failed /\ op.target # Default
        => \A label \in op.labels : Clean(label)

RepairInv ==
    /\ node \in [Node -> Place]
    /\ projects \subseteq Project \union {Default}
    /\ op # Nothing => /\ op \in Request
                       /\ op.at = "execute" => ~op.dryRun
                       /\ Behind /\ Worked /\ Left

LEMMA RepairStart == RepairInit => RepairInv
  BY DEF RepairInit, RepairInv, Place

LEMMA NothingIsDone == Nothing \notin Request /\ Nothing.at = "done" /\ Nothing.kind = "none"
  BY DEF Nothing, Request

\* The platform and create_default_project only add.
LEMMA PlatformKeeps ==
    ASSUME RepairInv, node' \in [Node -> Place], projects' \subseteq Project \union {Default},
           UNCHANGED <<op, failed>>, late \subseteq late',
           \A n \in Node \ late' : node'[n] = node[n]
    PROVE  RepairInv'
  <1>1. ASSUME NEW label, Clean(label)  PROVE Clean(label)'
    BY <1>1 DEF Clean, Orphan
  <1>2. Behind => Behind'  BY <1>1 DEF Behind
  <1>3. Worked => Worked'  BY <1>1 DEF Worked
  <1>4. Left => Left'  BY <1>1 DEF Left
  <1> QED  BY <1>2, <1>3, <1>4 DEF RepairInv

LEMMA BeginKeepsRepair ==
    ASSUME RepairInv, NEW kind \in {"repair", "purge"}, NEW labels \in SUBSET Label,
           NEW target \in Project \union {Absent, Default}, NEW dryRun \in BOOLEAN,
           Begin(kind, labels, target, dryRun)
    PROVE  RepairInv'
  <1>1. /\ op'.at = "census" /\ op'.todo = op'.labels /\ op'.found = {}
        /\ UNCHANGED <<node, projects>>
    BY Zenon DEF Begin
  <1>2. op' \in Request
    <2>1. Accepted(labels) \in SUBSET Scoped /\ {} \in SUBSET Scoped  BY DEF Accepted
    <2>2. PICK l \in SUBSET Scoped : l = Accepted(labels)  BY <2>1
    <2>3. op' = [kind |-> kind, at |-> "census", todo |-> l, found |-> {},
                 labels |-> l, target |-> target, dryRun |-> dryRun]
      BY <2>2, Zenon DEF Begin
    <2> QED  BY <2>1, <2>3 DEF Request
  <1>3. Behind' /\ Worked' /\ Left'  BY <1>1 DEF Behind, Worked, Left
  <1> QED  BY <1>1, <1>2, <1>3 DEF RepairInv

LEMMA OtherRequestKeeps ==
    ASSUME RepairInv, UNCHANGED <<node, projects, late>>, op' \in Request,
           op'.at = "execute" => ~op'.dryRun, Behind', Worked', Left'
    PROVE  RepairInv'
  BY DEF RepairInv

LEMMA CensusKeeps ==
    ASSUME RepairInv, NEW label \in Label, Census(label)
    PROVE  RepairInv'
  <1>1. op # Nothing /\ op \in Request /\ op.at = "census" /\ label \in op.todo /\ Behind
    BY NothingIsDone, Zenon DEF RepairInv, Census
  <1>2. PICK answered \in SUBSET {NoProject, Default} :
          /\ op' = [op EXCEPT !.todo = @ \ {label},
                              !.found = IF \E p \in answered : Counted(label, p)
                                           THEN @ \union {label} ELSE @]
          /\ failed' = (failed \/ answered # {NoProject, Default})
    BY Zenon DEF Census
  <1>3. PICK found : found = IF \E p \in answered : Counted(label, p)
                                THEN op.found \union {label} ELSE op.found
    OBVIOUS
  <1>4. op' = [op EXCEPT !.todo = op.todo \ {label}, !.found = found]
    BY <1>2, <1>3, Zenon
  <1>5. label \in Scoped /\ found \in SUBSET Scoped  BY <1>1, <1>3 DEF Request
  <1>6. op' \in Request  BY <1>1, <1>4, <1>5 DEF Request
  <1>7. /\ op'.at = "census" /\ op'.target = op.target /\ op'.labels = op.labels
        /\ op'.todo = op.todo \ {label} /\ op'.found = found
    BY <1>1, <1>4 DEF Request
  <1>8. UNCHANGED <<node, projects, late>>  BY DEF Census
  <1>9. \A l : Clean(l) => Clean(l)'  BY <1>8, Zenon DEF Clean, Orphan
  <1>10. Behind'
    <2> SUFFICES ASSUME ~failed', op'.target # Default,
                        NEW l \in op'.labels \ (op'.todo \union op'.found)
                 PROVE  Clean(l)'
      BY DEF Behind
    <2>1. ~failed /\ answered = {NoProject, Default}  BY <1>2
    <2>2. CASE l = label
      <3>1. label \notin found  BY <1>7, <2>2
      <3>2. \A p \in {NoProject, Default} : ~Counted(label, p)  BY <1>3, <2>1, <3>1
      <3>3. OrphansOf(label) = {}  BY <3>2 DEF Counted, OrphansOf, Orphan
      <3>4. Clean(label)  BY <3>3 DEF Clean, OrphansOf
      <3> QED  BY <2>2, <3>4, <1>9
    <2>3. CASE l # label
      <3>1. l \in op.labels \ (op.todo \union op.found)  BY <1>3, <1>7, <2>3
      <3> QED  BY <3>1, <2>1, <1>1, <1>7, <1>9 DEF Behind
    <2> QED  BY <2>2, <2>3
  <1>11. Worked' /\ Left'  BY <1>7 DEF Worked, Left
  <1>12. op'.at = "execute" => ~op'.dryRun  BY <1>7
  <1> QED  BY <1>6, <1>8, <1>10, <1>11, <1>12, OtherRequestKeeps

LEMMA CensusDoneKeeps ==
    ASSUME RepairInv, CensusDone
    PROVE  RepairInv'
  <1>1. op # Nothing /\ op \in Request /\ op.at = "census" /\ op.todo = {} /\ Behind
    BY NothingIsDone, Zenon DEF RepairInv, CensusDone
  <1>2. UNCHANGED <<node, projects, late, failed>>  BY DEF CensusDone
  <1>3. \A l : Clean(l) => Clean(l)'  BY <1>2, Zenon DEF Clean, Orphan
  <1>4. CASE op.dryRun
    <2>1. op' = [op EXCEPT !.at = "done"]  BY <1>4, Zenon DEF CensusDone
    <2>2. op' \in Request /\ op'.at = "done" /\ op'.dryRun  BY <1>1, <1>4, <2>1 DEF Request
    <2>3. Behind' /\ Worked' /\ Left'  BY <2>2 DEF Behind, Worked, Left
    <2> QED  BY <1>2, <2>2, <2>3, OtherRequestKeeps
  <1>5. CASE ~op.dryRun
    <2>1. op' = [op EXCEPT !.at = "execute", !.todo = op.found]  BY <1>5, Zenon DEF CensusDone
    <2>2. /\ op' \in Request /\ op'.at = "execute" /\ ~op'.dryRun /\ op'.todo = op.found
          /\ op'.labels = op.labels /\ op'.target = op.target
      BY <1>1, <1>5, <2>1 DEF Request
    <2>3. Worked'
      <3>1. op.labels \ (op.todo \union op.found) = op'.labels \ op'.todo  BY <1>1, <2>2
      <3> QED  BY <1>1, <1>2, <1>3, <2>2, <3>1 DEF Behind, Worked
    <2>4. Behind' /\ Left'  BY <2>2 DEF Behind, Left
    <2> QED  BY <1>2, <2>2, <2>3, <2>4, OtherRequestKeeps
  <1> QED  BY <1>4, <1>5

LEMMA ExecuteKeeps ==
    ASSUME RepairInv, NEW label \in Label, Execute(label)
    PROVE  RepairInv'
  <1>1. /\ op # Nothing /\ op \in Request /\ op.at = "execute" /\ label \in op.todo
        /\ ~op.dryRun /\ Worked
    BY NothingIsDone, Zenon DEF RepairInv, Execute
  <1>2. op' = [op EXCEPT !.todo = op.todo \ {label}] /\ UNCHANGED <<projects, late>>
    BY Zenon DEF Execute
  <1>3. /\ op' \in Request /\ op'.at = "execute" /\ ~op'.dryRun /\ op'.target = op.target
        /\ op'.todo = op.todo \ {label} /\ op'.labels = op.labels
    BY <1>1, <1>2 DEF Request
  <1>4. Behind' /\ Left'  BY <1>3 DEF Behind, Left
  <1>5. CASE failed' = TRUE /\ UNCHANGED node
    <2>1. Worked'  BY <1>5 DEF Worked
    <2> QED  BY <1>2, <1>3, <1>4, <1>5, <2>1, OtherRequestKeeps
  <1>6. CASE /\ node' = [n \in Node |-> IF n \in Matched(label) THEN op.target ELSE node[n]]
             /\ UNCHANGED failed
    <2>1. node' \in [Node -> Place]
      BY <1>1, <1>6 DEF RepairInv, Place, Request
    <2>2. Worked'
      <3> SUFFICES ASSUME ~failed, op.target # Default, NEW l \in op.labels \ (op.todo \ {label}),
                          NEW n \in Node \ late, LabelOf[n] = l
                   PROVE  node'[n] \notin {NoProject, Default}
        BY <1>2, <1>3, <1>6 DEF Worked, Clean, Orphan
      <3>1. CASE n \in Matched(label)
        <4>1. node'[n] = op.target  BY <3>1, <1>6
        <4>2. op.target \in Project \union {Absent}  BY <1>1 DEF Request
        <4>3. op.target # NoProject
          BY <4>2, ProjectAssumption DEF Absent, NoProject
        <4> QED  BY <4>1, <4>3
      <3>2. CASE n \notin Matched(label)
        <4>1. node'[n] = node[n]  BY <3>2, <1>6
        <4>2. ~Orphan(n)
          <5>1. CASE l = label
            BY <3>2, <5>1 DEF Matched, OrphansOf
          <5>2. CASE l # label
            <6>1. Clean(l)  BY <5>2, <1>1 DEF Worked
            <6> QED  BY <6>1 DEF Clean
          <5> QED  BY <5>1, <5>2
        <4> QED  BY <4>1, <4>2 DEF Orphan
      <3> QED  BY <3>1, <3>2
    <2> QED  BY <1>2, <1>3, <1>4, <2>1, <2>2 DEF RepairInv
  <1> QED  BY <1>5, <1>6, Zenon DEF Execute

LEMMA AuditKeeps ==
    ASSUME RepairInv, Audit
    PROVE  RepairInv'
  <1>1. op # Nothing /\ op \in Request /\ op.at = "execute" /\ op.todo = {} /\ Worked
    BY NothingIsDone, Zenon DEF RepairInv, Audit
  <1>2. UNCHANGED <<node, projects, late, failed>> /\ op' = [op EXCEPT !.at = "done"]
    BY Zenon DEF Audit
  <1>3. /\ op' \in Request /\ op'.at = "done" /\ op'.labels = op.labels
        /\ op'.target = op.target /\ op'.dryRun = op.dryRun
    BY <1>1, <1>2 DEF Request
  <1>4. \A l : Clean(l) => Clean(l)'  BY <1>2, Zenon DEF Clean, Orphan
  <1>5. Left'  BY <1>1, <1>2, <1>3, <1>4 DEF Worked, Left
  <1>6. Behind' /\ Worked'  BY <1>3 DEF Behind, Worked
  <1> QED  BY <1>2, <1>3, <1>5, <1>6, OtherRequestKeeps

LEMMA RepairStep == RepairInv /\ [RepairNext]_repairVars => RepairInv'
  <1> SUFFICES ASSUME RepairInv, [RepairNext]_repairVars  PROVE RepairInv'
    OBVIOUS
  <1>1. CASE UNCHANGED repairVars
    BY <1>1, PlatformKeeps DEF repairVars, RepairInv
  <1>2. ASSUME NEW n \in Node, NEW p \in Project \union {NoProject, Default}, PlatformWrites(n, p)
        PROVE  RepairInv'
    <2>1. /\ node' = [node EXCEPT ![n] = p] /\ late' = late \union {n}
          /\ UNCHANGED <<projects, op, failed>> /\ node \in [Node -> Place]
          /\ projects \subseteq Project \union {Default}
      BY <1>2 DEF PlatformWrites, RepairInv
    <2>2. node' \in [Node -> Place]  BY <2>1 DEF Place
    <2>3. \A m \in Node \ late' : node'[m] = node[m]  BY <2>1
    <2> QED  BY <2>1, <2>2, <2>3, PlatformKeeps
  <1>3. CASE (\E p \in Project : PlatformAddsProject(p)) \/ CreateDefaultProject
    BY <1>3, PlatformKeeps DEF PlatformAddsProject, CreateDefaultProject, RepairInv
  <1>4. ASSUME NEW labels \in SUBSET Label, NEW dryRun \in BOOLEAN,
               NEW p \in Project \union {Default}, BeginRepair(labels, p, dryRun)
        PROVE  RepairInv'
    <2>1. PICK l \in SUBSET Label : Begin("repair", l, p, dryRun)
      BY <1>4, LabelAssumption, Zenon DEF BeginRepair
    <2> QED  BY <2>1, BeginKeepsRepair
  <1>5. ASSUME NEW labels \in SUBSET Label, NEW dryRun \in BOOLEAN, BeginPurge(labels, dryRun)
        PROVE  RepairInv'
    <2>1. Begin("purge", labels, Absent, dryRun)  BY <1>5 DEF BeginPurge
    <2> QED  BY <2>1, BeginKeepsRepair
  <1> QED
    BY <1>1, <1>2, <1>3, <1>4, <1>5, CensusKeeps, CensusDoneKeeps, ExecuteKeeps, AuditKeeps, Zenon
       DEF RepairNext

LEMMA ClearedOnce == RepairInv => CleansUp
  <1> SUFFICES ASSUME RepairInv, op.kind # "none", op.at = "done", ~op.dryRun, ~failed,
                      op.target # Default, NEW n \in Node \ late, LabelOf[n] \in op.labels
               PROVE  ~Orphan(n)
    BY DEF CleansUp
  <1>1. Left  BY NothingIsDone DEF RepairInv
  <1> QED  BY <1>1 DEF Left, Clean

\* A repair or purge no query of which failed leaves no orphan that was there when
\* it began, although its census may be stale when it executes
\* (repair_orphan_nodes, purge_orphan_nodes).
THEOREM RepairsCleanUp == RepairSpec => []CleansUp
  BY RepairStart, RepairStep, ClearedOnce, PTL DEF RepairSpec

-----------------------------------------------------------------------------
(* The loom *)

Versions == [version : Nat, status : Status \union {"none"}, stamp : {"none", "set"}]
LoomRequests ==
    [kind : {"none", "propose", "update", "dispose"},
     at : {"idle", "write", "merge", "fetched", "mark"},
     object : Object \union {"none"}, candidate : Extracted \union {"none"}, data : Versions,
     verdict : {"none", "accepted", "edited", "rejected"},
     answer : {"none", "refused", "type refused", "failed", "done"}]

\* A request that is to write or to merge has an object of its own to do it to, and
\* merges only what it has put on record.
Merges(w) ==
    /\ request[w].at \in {"write", "merge"} => request[w].object \in Object
    /\ request[w].at = "merge" => request[w].data \in history[request[w].object]

LoomInv ==
    /\ history \in [Object -> SUBSET Versions]
    /\ shownNode \in [Object -> Versions]
    /\ request \in [Writer -> LoomRequests]
    /\ \A w \in Writer : Merges(w)
    /\ GraphIsRecorded

LEMMA NoDataIsTyped == NoData \in Versions /\ NoRequest \in LoomRequests
  <1>1. NoData \in Versions
    BY DEF NoData, Versions
  <1> QED
    BY <1>1 DEF NoRequest, LoomRequests

LEMMA LoomStart == LoomInit => LoomInv
  <1> SUFFICES ASSUME LoomInit PROVE LoomInv
    OBVIOUS
  <1>1. /\ history \in [Object -> SUBSET Versions] /\ shownNode \in [Object -> Versions]
        /\ request \in [Writer -> LoomRequests]
    BY NoDataIsTyped DEF LoomInit
  <1>2. \A w \in Writer : request[w].at = "idle"
    BY DEF LoomInit, NoRequest
  <1>3. \A w \in Writer : Merges(w)
    BY <1>2 DEF Merges
  <1>4. GraphIsRecorded
    BY DEF LoomInit, GraphIsRecorded
  <1> QED
    BY <1>1, <1>3, <1>4 DEF LoomInv

\* A request goes on to a step that neither writes nor merges, or to the write of an
\* object.
LEMMA RequestMoves ==
  ASSUME LoomInv, NEW w \in Writer, NEW r \in LoomRequests, Steps(w, r), r.at # "merge",
         r.at = "write" => r.object \in Object, UNCHANGED <<history, shownNode>>
  PROVE  LoomInv'
  <1>1. request' = [request EXCEPT ![w] = r] /\ request' \in [Writer -> LoomRequests]
    BY DEF Steps, LoomInv
  <1>2. ASSUME NEW v \in Writer PROVE Merges(v)'
    <2>1. CASE v = w
      BY <1>1, <2>1 DEF Merges, LoomInv
    <2>2. CASE v # w
      BY <1>1, <2>2 DEF Merges, LoomInv
    <2> QED
      BY <2>1, <2>2
  <1> QED
    BY <1>1, <1>2 DEF LoomInv, GraphIsRecorded

LEMMA RequestEnds ==
  ASSUME LoomInv, NEW w \in Writer,
         NEW answer \in {"none", "refused", "type refused", "failed", "done"}
  PROVE  LET r == [NoRequest EXCEPT !.kind = request[w].kind, !.answer = answer]
         IN  r \in LoomRequests /\ r.at = "idle"
  <1>1. request[w].kind \in {"none", "propose", "update", "dispose"}
    BY DEF LoomInv, LoomRequests
  <1> QED
    BY <1>1, NoDataIsTyped DEF NoRequest, LoomRequests

LEMMA ProposeKeeps == ASSUME LoomInv, NEW w \in Writer, Propose(w) PROVE LoomInv'
  <1>1. PICK o \in Object, type \in ObjectType \cup CandidateType, complete \in BOOLEAN,
             status \in Status, stamp \in {"none", "set"} :
          Steps(w, IF Proposed(type, complete)
                   THEN [NoRequest EXCEPT !.kind = "propose", !.at = "write", !.object = o,
                          !.data = [version |-> 1, status |-> status, stamp |-> stamp]]
                   ELSE [NoRequest EXCEPT !.kind = "propose", !.answer = "refused"])
    BY DEF Propose
  <1> DEFINE data == [version |-> 1, status |-> status, stamp |-> stamp]
             writes == [NoRequest EXCEPT !.kind = "propose", !.at = "write", !.object = o, !.data = data]
             refuses == [NoRequest EXCEPT !.kind = "propose", !.answer = "refused"]
  <1>2. data \in Versions
    BY DEF Versions
  <1>3. refuses \in LoomRequests /\ refuses.at = "idle"
    BY NoDataIsTyped DEF NoRequest, LoomRequests
  <1>4. Steps(w, writes) \/ Steps(w, refuses)
    BY <1>1
  <1> HIDE DEF data
  <1>5. writes \in LoomRequests /\ writes.at = "write" /\ writes.object = o
    BY <1>2, NoDataIsTyped DEF NoRequest, LoomRequests
  <1>6. UNCHANGED <<history, shownNode>>
    BY DEF Propose
  <1> HIDE DEF writes, refuses
  <1> QED
    BY <1>3, <1>4, <1>5, <1>6, RequestMoves

LEMMA UpdateKeeps == ASSUME LoomInv, NEW w \in Writer, Update(w) PROVE LoomInv'
  <1>1. PICK o \in Object, found \in BOOLEAN, status \in Status, stamp \in {"none", "set"} :
          Steps(w, IF found
                   THEN [NoRequest EXCEPT !.kind = "update", !.at = "write", !.object = o,
                           !.data = [version |-> shownNode[o].version + 1, status |-> status,
                                     stamp |-> stamp]]
                   ELSE [NoRequest EXCEPT !.kind = "update", !.answer = "refused"])
    BY DEF Update
  <1> DEFINE data == [version |-> shownNode[o].version + 1, status |-> status, stamp |-> stamp]
             writes == [NoRequest EXCEPT !.kind = "update", !.at = "write", !.object = o, !.data = data]
             refuses == [NoRequest EXCEPT !.kind = "update", !.answer = "refused"]
  <1>2. data \in Versions
    <2>1. shownNode[o].version \in Nat
      BY DEF LoomInv, Versions
    <2> QED
      BY <2>1 DEF Versions
  <1>3. refuses \in LoomRequests /\ refuses.at = "idle"
    BY NoDataIsTyped DEF NoRequest, LoomRequests
  <1>4. Steps(w, writes) \/ Steps(w, refuses)
    BY <1>1
  <1> HIDE DEF data
  <1>5. writes \in LoomRequests /\ writes.at = "write" /\ writes.object = o
    BY <1>2, NoDataIsTyped DEF NoRequest, LoomRequests
  <1>6. UNCHANGED <<history, shownNode>>
    BY DEF Update
  <1> HIDE DEF writes, refuses
  <1> QED
    BY <1>3, <1>4, <1>5, <1>6, RequestMoves

\* The row is there before the merge.
LEMMA WriteKeeps == ASSUME LoomInv, NEW w \in Writer, WriteVersion(w) PROVE LoomInv'
  <1> DEFINE o == request[w].object
  <1>1. /\ o \in Object /\ request[w].data \in Versions /\ request[w] \in LoomRequests
        /\ request[w].at = "write"
    BY DEF WriteVersion, LoomInv, Merges, LoomRequests
  <1>2. /\ history' = [history EXCEPT ![o] = @ \cup {request[w].data}]
        /\ request' = [request EXCEPT ![w] = [request[w] EXCEPT !.at = "merge"]]
        /\ UNCHANGED shownNode
    BY DEF WriteVersion, Goes, Steps
  <1>3. /\ history' \in [Object -> SUBSET Versions]
        /\ \A p \in Object : history[p] \subseteq history'[p]
        /\ request[w].data \in history'[o]
    BY <1>1, <1>2 DEF LoomInv
  <1>4. request' \in [Writer -> LoomRequests]
    BY <1>1, <1>2 DEF LoomInv, LoomRequests
  <1>5. ASSUME NEW v \in Writer PROVE Merges(v)'
    <2>1. CASE v = w
      <3>1. /\ request'[v].at = "merge" /\ request'[v].object = o
            /\ request'[v].data = request[w].data
        BY <1>1, <1>2, <2>1 DEF LoomInv, LoomRequests
      <3> QED
        BY <1>1, <1>3, <3>1 DEF Merges
    <2>2. CASE v # w
      <3>1. request'[v] = request[v]
        BY <1>2, <2>2 DEF LoomInv
      <3> QED
        BY <1>3, <3>1 DEF Merges, LoomInv
    <2> QED
      BY <2>1, <2>2
  <1>6. GraphIsRecorded'
    BY <1>2, <1>3 DEF GraphIsRecorded, LoomInv
  <1> QED
    BY <1>2, <1>3, <1>4, <1>5, <1>6 DEF LoomInv

\* What a merge shows is of the row it merges, but for the field it leaves alone.
LEMMA MergeKeeps == ASSUME LoomInv, NEW w \in Writer, MergeNode(w) PROVE LoomInv'
  <1> DEFINE o == request[w].object
             d == request[w].data
  <1>1. /\ o \in Object /\ d \in Versions /\ d \in history[o]
        /\ request[w] \in LoomRequests /\ shownNode[o] \in Versions
    BY DEF MergeNode, LoomInv, Merges, LoomRequests
  <1>2. /\ shownNode' = shownNode \/ shownNode' = [shownNode EXCEPT ![o] = Merged(shownNode[o], d)]
        /\ UNCHANGED history
    BY DEF MergeNode
  <1>3. Merged(shownNode[o], d) =
          [version |-> d.version, status |-> d.status,
           stamp |-> IF d.stamp = "none" THEN shownNode[o].stamp ELSE d.stamp]
    BY <1>1 DEF Merged, Versions
  <1>4. Merged(shownNode[o], d) \in Versions
    BY <1>1, <1>3 DEF Versions
  <1>5. \E e \in history[o] : e.stamp = Merged(shownNode[o], d).stamp
    <2>1. CASE d.stamp # "none" \/ shownNode[o].stamp = d.stamp
      BY <1>1, <1>3, <2>1
    <2>2. CASE d.stamp = "none" /\ shownNode[o].stamp # "none"
      <3>1. shownNode[o] # NoData
        BY <2>2 DEF NoData
      <3> QED
        BY <1>1, <1>3, <2>2, <3>1 DEF LoomInv, GraphIsRecorded
    <2> QED
      BY <2>1, <2>2
  <1>6. GraphIsRecorded'
    <2> SUFFICES ASSUME NEW p \in Object, shownNode'[p] # NoData
                 PROVE  /\ \E e \in history[p] : e.version = shownNode'[p].version
                                                   /\ e.status = shownNode'[p].status
                        /\ \E e \in history[p] : e.stamp = shownNode'[p].stamp
      BY <1>2 DEF GraphIsRecorded
    <2>1. CASE shownNode'[p] = shownNode[p]
      BY <2>1 DEF LoomInv, GraphIsRecorded
    <2>2. CASE p = o /\ shownNode'[p] = Merged(shownNode[o], d)
      BY <1>1, <1>3, <1>5, <2>2
    <2> QED
      BY <1>1, <1>2, <2>1, <2>2 DEF LoomInv
  <1>7. shownNode' \in [Object -> Versions]
    BY <1>1, <1>2, <1>4 DEF LoomInv
  <1>8. PICK r \in LoomRequests : Steps(w, r) /\ r.at # "merge" /\ r.at # "write"
    <2>1. [request[w] EXCEPT !.at = "mark"] \in LoomRequests /\ [request[w] EXCEPT !.at = "mark"].at = "mark"
      BY <1>1 DEF LoomRequests
    <2> QED
      BY <2>1, RequestEnds DEF MergeNode, Goes, Answers
  <1>9. request' = [request EXCEPT ![w] = r] /\ request' \in [Writer -> LoomRequests]
    BY <1>8 DEF Steps, LoomInv
  <1>10. ASSUME NEW v \in Writer PROVE Merges(v)'
    <2>1. CASE v = w
      BY <1>8, <1>9, <2>1 DEF Merges, LoomInv
    <2>2. CASE v # w
      BY <1>2, <1>9, <2>2 DEF Merges, LoomInv
    <2> QED
      BY <2>1, <2>2
  <1> QED
    BY <1>2, <1>6, <1>7, <1>9, <1>10 DEF LoomInv

LEMMA OtherStepsKeep ==
  ASSUME LoomInv, NEW w \in Writer, VersionFails(w) \/ Fetch(w) \/ Dispose(w) \/ Mark(w)
  PROVE  LoomInv'
  <1>1. request[w] \in LoomRequests /\ UNCHANGED <<history, shownNode>>
    BY DEF LoomInv, VersionFails, Fetch, Dispose, Mark
  <1>2. ASSUME NEW answer \in {"refused", "type refused", "failed", "done"}, Answers(w, answer)
        PROVE  LoomInv'
    <2>1. PICK r \in LoomRequests : Steps(w, r) /\ r.at = "idle"
      BY <1>2, RequestEnds DEF Answers
    <2> QED
      BY <1>1, <2>1, RequestMoves
  <1>3. CASE VersionFails(w)
    BY <1>2, <1>3 DEF VersionFails
  <1>4. CASE Mark(w)
    BY <1>2, <1>4 DEF Mark
  <1>5. CASE Fetch(w)
    <2>1. PICK c \in Extracted, verdict \in {"accepted", "edited", "rejected"} :
            Steps(w, IF proposal[c].status = "pending"
                    THEN [NoRequest EXCEPT !.kind = "dispose", !.at = "fetched",
                          !.candidate = c, !.verdict = verdict]
                    ELSE [NoRequest EXCEPT !.kind = "dispose", !.answer = "refused"])
      BY <1>5 DEF Fetch
    <2> DEFINE fetched == [NoRequest EXCEPT !.kind = "dispose", !.at = "fetched",
                                            !.candidate = c, !.verdict = verdict]
               refused == [NoRequest EXCEPT !.kind = "dispose", !.answer = "refused"]
    <2>2. fetched \in LoomRequests /\ fetched.at = "fetched"
      BY NoDataIsTyped DEF NoRequest, LoomRequests
    <2>3. refused \in LoomRequests /\ refused.at = "idle"
      BY NoDataIsTyped DEF NoRequest, LoomRequests
    <2>4. Steps(w, fetched) \/ Steps(w, refused)
      BY <2>1
    <2> HIDE DEF fetched, refused
    <2> QED
      BY <1>1, <2>2, <2>3, <2>4, RequestMoves
  <1>6. CASE Dispose(w)
    <2>1. CASE Goes(w, "mark")
      <3>1. [request[w] EXCEPT !.at = "mark"] \in LoomRequests /\ [request[w] EXCEPT !.at = "mark"].at = "mark"
        BY <1>1 DEF LoomRequests
      <3> QED
        BY <1>1, <2>1, <3>1, RequestMoves DEF Goes
    <2>2. CASE Answers(w, "type refused") \/ Answers(w, "refused")
      BY <1>2, <2>2
    <2> DEFINE data == [version |-> 1, status |-> "unvalidated", stamp |-> "none"]
               writes(o) == [request[w] EXCEPT !.at = "write", !.object = o, !.data = data]
    <2>3. ASSUME NEW o \in Object, Steps(w, writes(o)) PROVE LoomInv'
      <3>1. data \in Versions
        BY DEF Versions, Status
      <3> HIDE DEF data
      <3>2. writes(o) \in LoomRequests /\ writes(o).at = "write" /\ writes(o).object = o
        BY <1>1, <3>1 DEF LoomRequests
      <3> HIDE DEF writes
      <3> QED
        BY <1>1, <2>3, <3>2, RequestMoves
    <2> QED
      BY <1>6, <2>1, <2>2, <2>3 DEF Dispose
  <1> QED
    BY <1>3, <1>4, <1>5, <1>6

LEMMA LoomStep == LoomInv /\ [LoomNext]_loomVars => LoomInv'
  <1> SUFFICES ASSUME LoomInv, [LoomNext]_loomVars PROVE LoomInv'
    OBVIOUS
  <1>1. ASSUME UNCHANGED <<history, shownNode, request>> PROVE LoomInv'
    BY <1>1 DEF LoomInv, Merges, GraphIsRecorded
  <1>2. ASSUME NEW c \in Extracted, Enqueue(c) PROVE LoomInv'
    BY <1>1, <1>2 DEF Enqueue
  <1>3. CASE UNCHANGED loomVars
    BY <1>1, <1>3 DEF loomVars
  <1> QED
    BY <1>2, <1>3, ProposeKeeps, UpdateKeeps, WriteKeeps, MergeKeeps, OtherStepsKeep DEF LoomNext

\* The graph shows no object, version or status that is not on record, whichever
\* writes fail and however proposals and dispositions interleave.
THEOREM GraphOnRecord == LoomSpec => []GraphIsRecorded
  <1>1. LoomInv => GraphIsRecorded
    BY DEF LoomInv
  <1> QED
    BY <1>1, LoomStart, LoomStep, PTL DEF LoomSpec

-----------------------------------------------------------------------------
(* Questions to founders *)

AskRows == [status : {"none", "pending", "answered"}, answer : Answer \union {NoAnswer}]
Executions == [state : {"running", "waiting", "failed", "resumed"}, output : Answer \union {NoAnswer}]
Replies == [ask : Ask \union {"none"}, answer : Answer \union {NoAnswer}]

AsksInv ==
    /\ ask \in [Ask -> AskRows] /\ execution \in [Ask -> Executions] /\ answering \in [Founder -> Replies]
    /\ \A a \in Ask : execution[a].state = "running" => ask[a].status = "none"
    /\ \A f \in Founder : answering[f].ask # "none" =>
          /\ ask[answering[f].ask].status = "answered"
          /\ ask[answering[f].ask].answer = answering[f].answer
    /\ ResumedWithTheRecord

LEMMA AsksStart == AsksInit => AsksInv
  <1> SUFFICES ASSUME AsksInit PROVE AsksInv
    OBVIOUS
  <1>1. /\ [status |-> "none", answer |-> NoAnswer] \in AskRows
        /\ [state |-> "running", output |-> NoAnswer] \in Executions
        /\ [ask |-> "none", answer |-> NoAnswer] \in Replies
    BY DEF AskRows, Executions, Replies
  <1> QED
    BY <1>1 DEF AsksInit, AsksInv, ResumedWithTheRecord

LEMMA EnqueueKeeps == ASSUME AsksInv, NEW a \in Ask, EnqueueAsk(a) PROVE AsksInv'
  <1>1. PICK stored, raises \in BOOLEAN :
            /\ ask' = IF stored THEN [ask EXCEPT ![a].status = "pending"] ELSE ask
            /\ execution' = [execution EXCEPT ![a].state =
                   IF stored \/ ~raises THEN "waiting" ELSE "failed"]
    BY DEF EnqueueAsk
  <1>2. ask[a].status = "none" /\ answering' = answering
    BY DEF EnqueueAsk, AsksInv
  <1>3. ask' \in [Ask -> AskRows] /\ \A b \in Ask \ {a} : ask'[b] = ask[b]
    BY <1>1 DEF AsksInv, AskRows
  <1>4. /\ execution' \in [Ask -> Executions] /\ execution'[a].state \in {"waiting", "failed"}
        /\ \A b \in Ask \ {a} : execution'[b] = execution[b]
    BY <1>1 DEF AsksInv, Executions
  <1>5. \A f \in Founder : answering[f].ask # "none" => answering[f].ask \in Ask \ {a}
    BY <1>2 DEF AsksInv, Replies
  <1> QED
    BY <1>2, <1>3, <1>4, <1>5 DEF AsksInv, ResumedWithTheRecord

LEMMA ResolveKeeps == ASSUME AsksInv, NEW f \in Founder, ResolveAsk(f) PROVE AsksInv'
  <1>1. PICK a \in Ask, answer \in Answer :
            /\ ask[a].status = "pending"
            /\ ask' = [ask EXCEPT ![a] = [status |-> "answered", answer |-> answer]]
            /\ answering' = [answering EXCEPT ![f] = [ask |-> a, answer |-> answer]]
    BY DEF ResolveAsk, MayAnswer
  <1>2. execution' = execution /\ execution[a].state \notin {"running", "resumed"}
    BY <1>1 DEF ResolveAsk, AsksInv, ResumedWithTheRecord
  <1>3. [status |-> "answered", answer |-> answer] \in AskRows /\ [ask |-> a, answer |-> answer] \in Replies
    BY DEF AskRows, Replies
  <1>4. ask' \in [Ask -> AskRows] /\ answering' \in [Founder -> Replies]
    BY <1>1, <1>3 DEF AsksInv
  <1>5. \A b \in Ask \ {a} : ask'[b] = ask[b]
    BY <1>1 DEF AsksInv
  <1>6. ASSUME NEW g \in Founder, answering'[g].ask # "none"
        PROVE  /\ ask'[answering'[g].ask].status = "answered"
               /\ ask'[answering'[g].ask].answer = answering'[g].answer
    <2>1. CASE g = f
      BY <1>1, <2>1 DEF AsksInv
    <2>2. CASE g # f
      <3>1. answering'[g] = answering[g] /\ answering[g].ask \in Ask /\ answering[g].ask # a
        BY <1>1, <1>6, <2>2 DEF AsksInv, Replies
      <3> QED
        BY <1>5, <1>6, <3>1 DEF AsksInv
    <2> QED
      BY <2>1, <2>2
  <1> QED
    BY <1>2, <1>4, <1>5, <1>6 DEF AsksInv, ResumedWithTheRecord

LEMMA SignalKeeps == ASSUME AsksInv, NEW f \in Founder, Signal(f) PROVE AsksInv'
  <1> DEFINE a == answering[f].ask
             resumed == [state |-> "resumed", output |-> answering[f].answer]
  <1>1. a \in Ask /\ answering[f] \in Replies /\ ask' = ask
        /\ ask[a].status = "answered" /\ ask[a].answer = answering[f].answer
    BY DEF Signal, AsksInv, Replies
  <1>2. resumed \in Executions
    BY <1>1 DEF Executions, Replies
  <1>3. execution' = execution \/ execution' = [execution EXCEPT ![a] = resumed]
    BY DEF Signal
  <1>4. /\ execution' \in [Ask -> Executions]
        /\ \A b \in Ask : execution'[b] \in {execution[b], resumed}
        /\ \A b \in Ask \ {a} : execution'[b] = execution[b]
    BY <1>1, <1>2, <1>3 DEF AsksInv
  <1>5. answering' = [answering EXCEPT ![f] = [ask |-> "none", answer |-> NoAnswer]]
    BY DEF Signal
  <1>6. [ask |-> "none", answer |-> NoAnswer] \in Replies
    BY DEF Replies
  <1>7. /\ answering' \in [Founder -> Replies]
        /\ \A g \in Founder : answering'[g].ask # "none" => answering'[g] = answering[g]
    BY <1>5, <1>6 DEF AsksInv
  <1> QED
    BY <1>1, <1>4, <1>7 DEF AsksInv, ResumedWithTheRecord

LEMMA AsksStep == AsksInv /\ [AsksNext]_askVars => AsksInv'
  <1> SUFFICES ASSUME AsksInv, [AsksNext]_askVars PROVE AsksInv'
    OBVIOUS
  <1>1. CASE UNCHANGED askVars
    BY <1>1 DEF askVars, AsksInv, ResumedWithTheRecord
  <1> QED
    BY <1>1, EnqueueKeeps, ResolveKeeps, SignalKeeps DEF AsksNext

\* ResumedWithTheRecord, for every set of questions, answers and founders.
THEOREM AnswersAreOnRecord == AsksSpec => []ResumedWithTheRecord
  <1>1. AsksInv => ResumedWithTheRecord
    BY DEF AsksInv
  <1> QED
    BY <1>1, AsksStart, AsksStep, PTL DEF AsksSpec

-----------------------------------------------------------------------------
(* The read tools *)

CallFields == DOMAIN NoCall

\* What was read is the tenant's own, and what is still to be read passed the
\* assertion.
ReadInv ==
    /\ DOMAIN call = CallFields
    /\ ForeignNeverRead
    /\ call.step = "reading" => \A r \in call.seen : r.kind \in KindsOf(call.tool) => r.tag = "own"

LEMMA FieldsOfCall == {"tool", "step", "seen", "read", "cap", "got", "left", "missing", "unmatched"} \subseteq CallFields
  BY DEF CallFields, NoCall

LEMMA NewCall == ASSUME NEW c, DOMAIN c = CallFields, c.read = {}, c.step # "reading", call' = c PROVE ReadInv'
  BY DEF ReadInv, ForeignNeverRead

LEMMA ReadStart == ReadInit => ReadInv
  BY DEF ReadInit, ReadInv, ForeignNeverRead, CallFields, NoCall

LEMMA BeginKeeps == ASSUME ReadBegin PROVE ReadInv'
  <1>1. ASSUME NEW c, BeginRead(c), DOMAIN c = CallFields, c.read = {}, c.step # "reading"
        PROVE  ReadInv'
    BY <1>1, NewCall DEF BeginRead
  <1>2. ASSUME NEW tool, NEW n, NEW cap, NEW wide, NEW extra, BeginWindow(tool, n, cap, wide, extra)
        PROVE  ReadInv'
    <2>1. PICK c : /\ c = [NoCall EXCEPT !.tool = tool, !.step = "paging", !.left = n, !.cap = cap,
                                         !.wide = wide, !.missing = wide, !.extra = extra]
                   /\ BeginRead(c)
      BY <1>2 DEF BeginWindow
    <2>2. DOMAIN c = CallFields /\ c.read = {} /\ c.step # "reading"
      BY <2>1 DEF CallFields, NoCall
    <2> QED
      BY <1>1, <2>1, <2>2
  <1>3. ASSUME NEW objects, NEW cap, NEW wide, BeginAlb(objects, cap, wide) PROVE ReadInv'
    <2>1. PICK c : /\ c = [NoCall EXCEPT !.tool = "read_alb_logs", !.step = "objects",
                                         !.left = objects, !.cap = cap, !.wide = wide,
                                         !.missing = wide, !.told = wide]
                   /\ BeginRead(c)
      BY <1>3 DEF BeginAlb
    <2>2. DOMAIN c = CallFields /\ c.read = {} /\ c.step # "reading"
      BY <2>1 DEF CallFields, NoCall
    <2> QED
      BY <1>1, <2>1, <2>2
  <1>4. ASSUME NEW cap, BeginCorrelated(cap) PROVE ReadInv'
    <2>1. PICK c : /\ c = [NoCall EXCEPT !.tool = "query_correlated_events", !.step = "sources",
                                         !.left = Sources, !.cap = cap]
                   /\ BeginRead(c)
      BY <1>4 DEF BeginCorrelated
    <2>2. DOMAIN c = CallFields /\ c.read = {} /\ c.step # "reading"
      BY <2>1 DEF CallFields, NoCall
    <2> QED
      BY <1>1, <2>1, <2>2
  <1>5. ASSUME NEW tool, NEW repos, NEW cap, NEW allowed, BeginCode(tool, repos, cap, allowed)
        PROVE  ReadInv'
    <2>1. PICK c : /\ c = [NoCall EXCEPT !.tool = tool, !.left = repos, !.cap = cap,
                                         !.wide = (repos = 2),
                                         !.step = IF allowed THEN "github" ELSE "failed"]
                   /\ BeginRead(c)
      BY <1>5 DEF BeginCode
    <2>2. DOMAIN c = CallFields /\ c.read = {} /\ c.step # "reading"
      BY <2>1 DEF CallFields, NoCall
    <2> QED
      BY <1>1, <2>1, <2>2
  <1>6. ASSUME NEW tool, BeginSingle(tool) PROVE ReadInv'
    <2>1. PICK c : /\ c = [NoCall EXCEPT !.tool = tool, !.step = "asking"]
                   /\ BeginRead(c)
      BY <1>6 DEF BeginSingle
    <2>2. DOMAIN c = CallFields /\ c.read = {} /\ c.step # "reading"
      BY <2>1 DEF CallFields, NoCall
    <2> QED
      BY <1>1, <2>1, <2>2
  <1>7. ASSUME NEW tool, NEW wellFormed, BeginTenant(tool, wellFormed) PROVE ReadInv'
    <2>1. PICK c : /\ c = [NoCall EXCEPT !.tool = tool,
                            !.step = IF ~wellFormed THEN "failed"
                                     ELSE IF tool \in {"read_customer_tenant_state",
                                                       "read_customer_pipeline"}
                                     THEN "listing" ELSE "querying"]
                   /\ BeginRead(c)
      BY <1>7 DEF BeginTenant
    <2>2. DOMAIN c = CallFields /\ c.read = {} /\ c.step # "reading"
      BY <2>1 DEF CallFields, NoCall
    <2> QED
      BY <1>1, <2>1, <2>2
  <1> QED
    BY <1>2, <1>3, <1>4, <1>5, <1>6, <1>7 DEF ReadBegin

\* A step that reads nothing of a tenant, and does not lead to reading it.
LEMMA NothingRead ==
  ASSUME ReadInv, DOMAIN call' = DOMAIN call, call'.read = call.read, call'.step # "reading"
  PROVE  ReadInv'
  BY DEF ReadInv, ForeignNeverRead

LEMMA SourcesRead ==
  ASSUME ReadInv, LookupEvents \/ FilterLogEvents \/ GetMetricStatistics \/ ListPage
  PROVE  ReadInv'
  <1> USE FieldsOfCall
  <1>0. DOMAIN call = CallFields
    BY DEF ReadInv
  <1>1. ASSUME NEW k, NEW odd PROVE /\ DOMAIN Shaped(k, odd) = DOMAIN call /\ Shaped(k, odd).read = call.read
                                    /\ Shaped(k, odd).step = call.step
    BY <1>0 DEF Shaped
  <1>2. ASSUME NEW c, NEW more, DOMAIN c = CallFields
        PROVE /\ DOMAIN Truncates(c, more) = DOMAIN c /\ Truncates(c, more).read = c.read
    BY <1>2 DEF Truncates
  <1>3. ASSUME NEW c, DOMAIN c = CallFields, c.read = call.read, Answered(c) PROVE ReadInv'
    BY <1>0, <1>3, NothingRead DEF Answered
  <1>4. ASSUME NEW k, NEW odd, NEW more, Answered(Truncates(Shaped(k, odd), more)) PROVE ReadInv'
    <2>1. DOMAIN Shaped(k, odd) = CallFields /\ Shaped(k, odd).read = call.read
      BY <1>0, <1>1
    <2>2. /\ DOMAIN Truncates(Shaped(k, odd), more) = CallFields
          /\ Truncates(Shaped(k, odd), more).read = call.read
      BY <1>2, <2>1
    <2> QED
      BY <1>3, <1>4, <2>2
  <1>5. CASE LookupEvents
    <2>1. PICK k \in 0..MaxHeld, more \in BOOLEAN, odd \in BOOLEAN :
             \/ call' = Shaped(k, odd) \/ Answered(Truncates(Shaped(k, odd), more))
      BY <1>5, Zenon DEF LookupEvents
    <2>2. call.step = "paging"
      BY <1>5 DEF LookupEvents, Pending
    <2>3. CASE call' = Shaped(k, odd)
      BY <1>0, <1>1, <2>2, <2>3, NothingRead
    <2>4. CASE Answered(Truncates(Shaped(k, odd), more))
      BY <1>4, <2>4
    <2> QED
      BY <2>1, <2>3, <2>4
  <1>6. CASE FilterLogEvents
    <2>1. PICK k \in 0..MaxHeld, more \in BOOLEAN : Answered(Truncates(Shaped(k, FALSE), more))
      BY <1>6 DEF FilterLogEvents
    <2> QED
      BY <1>4, <2>1
  <1>7. CASE GetMetricStatistics
    <2>1. PICK c : c = [Shaped(call.left, FALSE) EXCEPT !.told = call.wide] /\ Answered(c)
      BY <1>7 DEF GetMetricStatistics
    <2> QED
      BY <1>0, <1>1, <1>3, <2>1
  <1>8. CASE ListPage
    <2>1. PICK k, got, over :
             \/ call' = Shaped(k, FALSE)
             \/ Answered([Shaped(k, FALSE) EXCEPT !.got = got, !.missing = over, !.told = over])
      BY <1>8, Zenon DEF ListPage
    <2>2. call.step = "paging"
      BY <1>8 DEF ListPage, Pending
    <2>3. CASE call' = Shaped(k, FALSE)
      BY <1>0, <1>1, <2>2, <2>3, NothingRead
    <2>4. CASE Answered([Shaped(k, FALSE) EXCEPT !.got = got, !.missing = over, !.told = over])
      <3>1. PICK c : c = [Shaped(k, FALSE) EXCEPT !.got = got, !.missing = over, !.told = over] /\ Answered(c)
        BY <2>4
      <3> QED
        BY <1>0, <1>1, <1>3, <3>1
    <2> QED
      BY <2>1, <2>3, <2>4
  <1> QED
    BY <1>5, <1>6, <1>7, <1>8

LEMMA ObjectsRead == ASSUME ReadInv, ReadObject \/ AlbDone \/ ReadSource \/ Correlate PROVE ReadInv'
  <1> USE FieldsOfCall
  <1>0. DOMAIN call = CallFields
    BY DEF ReadInv
  <1>1. ASSUME NEW c, DOMAIN c = CallFields, c.read = call.read, Answered(c) PROVE ReadInv'
    BY <1>0, <1>1, NothingRead DEF Answered
  <1>2. CASE ReadObject
    <2>1. PICK n \in 0..MaxHeld, big \in BOOLEAN, odd \in BOOLEAN :
            LET all == call.got + (IF big THEN 0 ELSE n)
                c   == [call EXCEPT !.left = @ - 1, !.got = Lower(all, call.cap),
                                    !.missing = @ \/ (big /\ n > 0),
                                    !.unmatched = @ \/ (odd /\ ~big /\ n > 0)]
            IN  IF ~big /\ n > 0 /\ all >= call.cap
                THEN Answered([c EXCEPT !.missing = @ \/ all > c.cap \/ c.left > 0, !.told = TRUE])
                ELSE call' = c /\ Keeps
      BY <1>2, Zenon DEF ReadObject
    <2> DEFINE all == call.got + (IF big THEN 0 ELSE n)
               c == [call EXCEPT !.left = @ - 1, !.got = Lower(all, call.cap),
                                 !.missing = @ \/ (big /\ n > 0),
                                 !.unmatched = @ \/ (odd /\ ~big /\ n > 0)]
               d == [c EXCEPT !.missing = @ \/ all > c.cap \/ c.left > 0, !.told = TRUE]
    <2>2. call.step = "objects"
      BY <1>2 DEF ReadObject, Pending
    <2>3. DOMAIN c = CallFields /\ c.read = call.read /\ c.step = "objects"
      BY <1>0, <2>2
    <2>4. Answered(d) \/ call' = c
      BY <2>1, Zenon
    <2> HIDE DEF c
    <2>5. DOMAIN d = CallFields /\ d.read = call.read
      BY <2>3
    <2> HIDE DEF d
    <2> QED
      BY <1>0, <1>1, <2>3, <2>4, <2>5, NothingRead
  <1>3. CASE AlbDone
    BY <1>0, <1>1, <1>3 DEF AlbDone
  <1>4. CASE ReadSource
    BY <1>0, <1>4, NothingRead DEF ReadSource, Pending
  <1>5. CASE Correlate
    <2>1. PICK c : /\ c = [call EXCEPT !.got = Lower(@, call.cap), !.missing = @ \/ call.got > call.cap,
                                       !.told = call.got > call.cap]
                   /\ Answered(c)
      BY <1>5 DEF Correlate
    <2> QED
      BY <1>0, <1>1, <2>1
  <1> QED
    BY <1>2, <1>3, <1>4, <1>5

LEMMA CodeRead ==
  ASSUME ReadInv, CodeRefused \/ SearchRepo \/ ReadFile \/ ReadDiff \/ ListFiles PROVE ReadInv'
  <1> USE FieldsOfCall
  <1>0. DOMAIN call = CallFields
    BY DEF ReadInv
  <1>1. CASE CodeRefused
    BY <1>0, <1>1, NothingRead DEF CodeRefused
  <1>2. CASE SearchRepo
    <2>1. PICK got, missing, left, over, cut, told :
             \/ call' = [call EXCEPT !.left = left, !.got = got, !.missing = missing]
             \/ call' = [call EXCEPT !.left = 0, !.step = "answered", !.got = cut, !.missing = over,
                                     !.told = told]
      BY <1>2, ZenonT(30) DEF SearchRepo
    <2>2. call.step = "github"
      BY <1>2 DEF SearchRepo, Pending
    <2> QED
      BY <1>0, <2>1, <2>2, NothingRead
  <1>3. CASE ReadFile
    <2>1. PICK size \in FileSize, dir \in BOOLEAN :
             call' = IF dir \/ (call.tool = "read_repo_file" /\ size = "over 10M")
                THEN [call EXCEPT !.step = "failed"]
                ELSE [call EXCEPT !.step = "answered",
                                  !.missing = IF call.tool = "read_github" THEN size # "small"
                                              ELSE size = "over 1M",
                                  !.told = call.tool = "read_repo_file" /\ size = "over 1M"]
      BY <1>3, Zenon DEF ReadFile
    <2> QED
      BY <1>0, <2>1, NothingRead
  <1>4. CASE ReadDiff
    BY <1>0, <1>4, NothingRead DEF ReadDiff
  <1>5. CASE ListFiles
    BY <1>0, <1>5, NothingRead DEF ListFiles
  <1> QED
    BY <1>1, <1>2, <1>3, <1>4, <1>5

LEMMA TenantRead ==
  ASSUME ReadInv, ListTenantResources \/ AssertBelongs \/ ReadKind \/ KindsRead \/ QueryTenant
                  \/ WriteAuditEvent
  PROVE  ReadInv'
  <1> USE FieldsOfCall
  <1>0. DOMAIN call = CallFields
    BY DEF ReadInv
  <1>1. CASE ListTenantResources
    BY <1>0, <1>1, NothingRead DEF ListTenantResources
  <1>2. CASE AssertBelongs
    <2>1. CASE \E r \in call.seen : r.kind \in Asserted(call.tool) /\ r.tag # "own"
      BY <1>0, <1>2, <2>1, NothingRead DEF AssertBelongs, Fails
    <2>2. CASE \A r \in call.seen : r.kind \in Asserted(call.tool) => r.tag = "own"
      <3>1. call' = [call EXCEPT !.step = "reading"]
        BY <1>2, <2>2 DEF AssertBelongs
      <3>2. /\ DOMAIN call' = CallFields /\ call'.read = call.read
            /\ call'.seen = call.seen /\ call'.tool = call.tool
        BY <1>0, <3>1
      <3> QED
        BY <2>2, <3>2 DEF ReadInv, ForeignNeverRead, Asserted
    <2> QED
      BY <2>1, <2>2
  <1>3. CASE ReadKind
    <2>1. PICK kind \in KindsOf(call.tool) :
            \E got \in SUBSET {r \in call.seen : r.kind = kind} :
               call' = [call EXCEPT !.read = @ \union got]
      BY <1>3 DEF ReadKind
    <2>2. PICK got \in SUBSET {r \in call.seen : r.kind = kind} :
               call' = [call EXCEPT !.read = @ \union got]
      BY <2>1
    <2>3. \A r \in got : r.tag = "own"
      BY <1>3, <2>2 DEF ReadKind, ReadInv
    <2>4. /\ DOMAIN call' = CallFields /\ call'.read = call.read \union got
          /\ call'.seen = call.seen /\ call'.tool = call.tool /\ call'.step = call.step
      BY <1>0, <2>2
    <2> QED
      BY <2>3, <2>4 DEF ReadInv, ForeignNeverRead
  <1>4. CASE KindsRead
    BY <1>0, <1>4, NothingRead DEF KindsRead
  <1>5. CASE QueryTenant
    BY <1>0, <1>5, NothingRead DEF QueryTenant
  <1>6. CASE WriteAuditEvent
    <2>1. PICK written \in BOOLEAN : Answered([call EXCEPT !.audit = written])
      BY <1>6 DEF WriteAuditEvent
    <2> QED
      BY <1>0, <2>1, NothingRead DEF Answered
  <1> QED
    BY <1>1, <1>2, <1>3, <1>4, <1>5, <1>6

LEMMA ReadStep == ReadInv /\ [ReadNext]_readVars => ReadInv'
  <1> SUFFICES ASSUME ReadInv, [ReadNext]_readVars PROVE ReadInv'
    OBVIOUS
  <1>0. DOMAIN call = CallFields
    BY DEF ReadInv
  <1>1. ASSUME UNCHANGED call PROVE ReadInv'
    BY <1>1 DEF ReadInv, ForeignNeverRead
  <1>2. CASE TokenAges \/ TokenRevoked \/ KeyReplaced \/ UNCHANGED readVars
    BY <1>1, <1>2 DEF TokenAges, TokenRevoked, KeyReplaced, readVars
  <1>3. CASE Taken \/ ProcessStarts
    <2>1. call' = NoCall
      BY <1>3 DEF Taken, ProcessStarts
    <2> QED
      BY <2>1, NewCall DEF CallFields, NoCall
  <1>4. CASE StepFails
    BY <1>0, <1>4, NothingRead, FieldsOfCall DEF StepFails, Fails
  <1>5. CASE ReadSingle
    <2>1. CASE Fails
      BY <1>0, <2>1, NothingRead, FieldsOfCall DEF Fails
    <2>2. CASE \E cut \in BOOLEAN : Answered([call EXCEPT !.got = 1, !.missing = cut])
      BY <1>0, <2>2, NothingRead, FieldsOfCall DEF Answered
    <2> QED
      BY <1>5, <2>1, <2>2 DEF ReadSingle
  <1> QED
    BY <1>2, <1>3, <1>4, <1>5, BeginKeeps, SourcesRead, ObjectsRead, CodeRead, TenantRead DEF ReadNext

\* No read tool ever returns what belongs to another tenant, in any order of the
\* reads of a call.
THEOREM TenantsAreKeptApart == ReadSpec => []ForeignNeverRead
  <1>1. ReadInv => ForeignNeverRead
    BY DEF ReadInv
  <1> QED
    BY <1>1, ReadStart, ReadStep, PTL DEF ReadSpec
=============================================================================
