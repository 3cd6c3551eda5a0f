---------------------------- MODULE OutlookProofs ---------------------------
(***************************************************************************)
(* What the server sees of its tenants, does for them and tells operators, *)
(* for every value of the constants.  The parts share no state: each has its*)
(* inductive invariant, and the last section puts together what MCOutlook  *)
(* runs as one.                                                            *)
(***************************************************************************)
EXTENDS MCOutlook, FiniteSetTheorems, TLAPS

-----------------------------------------------------------------------------
(* The Forgewing API client *)

CallStates == {"idle", "look", "fetch", "store", "read", "sent", "done"}
ApiAnswers == {"none", "ok", "lost", "refused"}
Calls == [at : CallStates, again : BOOLEAN, fetched : Nat, key : Nat, answer : ApiAnswers]

KeyCaches == {{}} \union {{k} : k \in Nat}

ApiTypes ==
    /\ keyInForce \in Nat \ {0}
    /\ keyCache \in KeyCaches
    /\ apiCall \in [Caller -> Calls]

\* A call nothing disturbed was first refused for a key that is not in force, finds
\* no other key than that in force cached from then on, and is sent again with it.
Proper(rec) ==
    /\ rec.answer # "refused"
    /\ rec.again /\ rec.at \notin AtRest =>
         /\ keyCache \subseteq {keyInForce}
         /\ rec.at = "read" => keyCache = {keyInForce}
         /\ IF rec.at = "sent" THEN rec.key = keyInForce ELSE rec.key # keyInForce

ApiInv ==
    /\ ApiTypes
    /\ \A c \in Caller : c \notin disturbed => Proper(apiCall[c])

LEMMA NoCallFields ==
  /\ NoCall \in Calls
  /\ NoCall.at = "idle" /\ NoCall.again = FALSE /\ NoCall.answer = "none"
  BY DEF NoCall, NoKey, Calls, CallStates, ApiAnswers

LEMMA ApiStart == ApiInit => ApiInv
  <1> SUFFICES ASSUME ApiInit PROVE ApiInv
    OBVIOUS
  <1>1. ApiTypes
    BY NoCallFields DEF ApiInit, ApiTypes, KeyCaches
  <1>2. \A c \in Caller : apiCall[c] = NoCall
    BY DEF ApiInit
  <1> QED
    BY <1>1, <1>2, NoCallFields DEF ApiInv, Proper

\* One call moves on.  What it does to the cache leaves a call in its second round
\* with the key in force, or disturbs it.
LEMMA CallStep ==
  ASSUME ApiInv, NEW c \in Caller, NEW r \in Calls, CallBecomes(c, r),
         keyInForce' = keyInForce, keyCache' \in KeyCaches,
         disturbed \subseteq disturbed' \union {c},
         keyCache' = keyCache
         \/ \A d \in Caller \ {c} : d \notin disturbed' /\ apiCall[d].at \notin AtRest =>
              /\ keyCache' \subseteq {keyInForce}
              /\ apiCall[d].at = "read" => keyCache' = {keyInForce},
         c \notin disturbed' => Proper(r)'
  PROVE  ApiInv'
  <1>1. /\ apiCall' \in [Caller -> Calls] /\ apiCall'[c] = r
        /\ \A d \in Caller \ {c} : apiCall'[d] = apiCall[d]
    BY DEF ApiInv, ApiTypes, CallBecomes
  <1>2. ApiTypes'
    BY <1>1 DEF ApiTypes, ApiInv
  <1>3. ASSUME NEW d \in Caller, d \notin disturbed' PROVE Proper(apiCall[d])'
    <2>1. CASE d = c
      BY <1>1, <1>3, <2>1 DEF Proper
    <2>2. CASE d # c
      <3>1. Proper(apiCall[d]) /\ apiCall'[d] = apiCall[d]
        BY <1>1, <1>3, <2>2 DEF ApiInv
      <3> QED
        BY <1>3, <2>2, <3>1 DEF Proper
    <2> QED
      BY <2>1, <2>2
  <1> QED
    BY <1>2, <1>3 DEF ApiInv

\* The record of a call that goes to another place.
LEMMA CallGone ==
  ASSUME NEW rec \in Calls, NEW place \in CallStates
  PROVE  LET r == [rec EXCEPT !.at = place]
         IN  /\ r \in Calls /\ r.at = place /\ r.again = rec.again
             /\ r.key = rec.key /\ r.answer = rec.answer
  BY DEF Calls

\* The record of a call that has ended.
LEMMA CallEnded ==
  ASSUME NEW answer \in ApiAnswers
  PROVE  LET r == [NoCall EXCEPT !.at = "done", !.answer = answer]
         IN  r \in Calls /\ r.at = "done" /\ r.again = FALSE /\ r.answer = answer
  BY DEF NoCall, NoKey, Calls, CallStates, ApiAnswers

LEMMA CachedKey ==
  ASSUME ApiTypes
  PROVE  /\ Returned \in Nat
         /\ keyCache = {keyInForce} => Returned = keyInForce
  BY DEF Returned, NoKey, ApiTypes, KeyCaches

LEMMA StartCallKeeps == ASSUME ApiInv, NEW c \in Caller, StartCall(c) PROVE ApiInv'
  <1> DEFINE r == [NoCall EXCEPT !.at = "look"]
  <1>1. r \in Calls /\ r.again = FALSE /\ r.answer = "none"
    BY NoCallFields, CallGone DEF CallStates
  <1>2. /\ CallBecomes(c, r) /\ UNCHANGED <<keyInForce, keyCache>>
        /\ disturbed' = disturbed \ {c}
    BY DEF StartCall
  <1>3. Proper(r)'
    BY <1>1 DEF Proper
  <1>4. keyCache' \in KeyCaches
    BY <1>2 DEF ApiInv, ApiTypes
  <1> HIDE DEF r
  <1> QED
    BY <1>1, <1>2, <1>3, <1>4, CallStep

LEMMA LooksUpKeeps == ASSUME ApiInv, NEW c \in Caller, LooksUp(c) PROVE ApiInv'
  <1>1. PICK rec \in Calls : rec = apiCall[c]
    BY DEF ApiInv, ApiTypes
  <1>2. PICK place \in {"fetch", "read"} :
            CallGoes(c, place) /\ (place = "read" => keyCache # {})
    <2>1. CASE keyCache = {}
      <3>1. CallGoes(c, "fetch")
        BY <2>1 DEF LooksUp
      <3> QED
        BY <2>1, <3>1
    <2>2. CASE keyCache # {}
      <3>1. CallGoes(c, "read")
        BY <2>2 DEF LooksUp
      <3> QED
        BY <2>2, <3>1
    <2> QED
      BY <2>1, <2>2
  <1> DEFINE r == [rec EXCEPT !.at = place]
  <1>3. r \in Calls /\ r.at = place /\ r.again = rec.again /\ r.key = rec.key
        /\ r.answer = rec.answer
    BY DEF Calls, CallStates
  <1>4. /\ CallBecomes(c, r) /\ UNCHANGED <<keyInForce, keyCache, disturbed>>
        /\ rec.at = "look"
    <2>1. CallBecomes(c, r)
      BY <1>1, <1>2 DEF CallGoes
    <2> QED
      BY <1>1, <2>1 DEF CallIs, LooksUp
  <1> HIDE DEF r
  <1>5. c \notin disturbed' => Proper(r)'
    BY <1>1, <1>2, <1>3, <1>4 DEF ApiInv, Proper, AtRest
  <1>6. keyCache' \in KeyCaches
    BY <1>4 DEF ApiInv, ApiTypes
  <1> QED
    BY <1>3, <1>4, <1>5, <1>6, CallStep

LEMMA FetchesKeeps == ASSUME ApiInv, NEW c \in Caller, Fetches(c) PROVE ApiInv'
  <1>1. PICK rec \in Calls : rec = apiCall[c]
    BY DEF ApiInv, ApiTypes
  <1>2. PICK k \in Nat : CallBecomes(c, [apiCall[c] EXCEPT !.at = "store", !.fetched = k])
    <2>1. {keyInForce, NoKey} \subseteq Nat
      BY DEF ApiInv, ApiTypes, NoKey
    <2> QED
      BY <2>1, Zenon DEF Fetches
  <1> DEFINE r == [rec EXCEPT !.at = "store", !.fetched = k]
  <1>3. r \in Calls /\ r.at = "store" /\ r.again = rec.again /\ r.key = rec.key
        /\ r.answer = rec.answer
    BY DEF Calls, CallStates
  <1>4. /\ CallBecomes(c, r) /\ UNCHANGED <<keyInForce, keyCache, disturbed>>
        /\ rec.at = "fetch"
    BY <1>1, <1>2 DEF CallIs, Fetches
  <1> HIDE DEF r
  <1>5. c \notin disturbed' => Proper(r)'
    BY <1>1, <1>3, <1>4 DEF ApiInv, Proper, AtRest
  <1>6. keyCache' \in KeyCaches
    BY <1>4 DEF ApiInv, ApiTypes
  <1> QED
    BY <1>3, <1>4, <1>5, <1>6, CallStep

LEMMA StoresKeeps == ASSUME ApiInv, NEW c \in Caller, Stores(c) PROVE ApiInv'
  <1>1. PICK rec \in Calls : rec = apiCall[c]
    BY DEF ApiInv, ApiTypes
  <1>2. rec.fetched \in Nat
    BY DEF Calls
  <1> DEFINE r == [rec EXCEPT !.at = "read", !.fetched = NoKey]
  <1>3. r \in Calls /\ r.at = "read" /\ r.again = rec.again /\ r.key = rec.key
        /\ r.answer = rec.answer
    BY DEF Calls, CallStates, NoKey
  <1>4. /\ CallBecomes(c, r) /\ keyInForce' = keyInForce /\ keyCache' = {rec.fetched}
        /\ rec.at = "store" /\ disturbed \subseteq disturbed'
        /\ rec.fetched # keyInForce => UnderWay \subseteq disturbed'
    BY <1>1 DEF CallIs, Stores
  <1> HIDE DEF r
  <1>5. c \notin disturbed' => keyCache' = {keyInForce}
    BY <1>1, <1>4 DEF UnderWay, AtRest
  <1>6. c \notin disturbed' => Proper(r)'
    BY <1>1, <1>3, <1>4, <1>5 DEF ApiInv, Proper, AtRest
  <1>7. \A d \in Caller \ {c} : d \notin disturbed' /\ apiCall[d].at \notin AtRest =>
              keyCache' = {keyInForce}
    BY <1>4 DEF UnderWay
  <1>8. keyCache' \in KeyCaches
    BY <1>2, <1>4 DEF KeyCaches
  <1> QED
    BY <1>3, <1>4, <1>6, <1>7, <1>8, CallStep

LEMMA SendsKeeps == ASSUME ApiInv, NEW c \in Caller, Sends(c) PROVE ApiInv'
  <1>1. PICK rec \in Calls, k \in Nat : rec = apiCall[c] /\ k = Returned
    BY CachedKey DEF ApiInv, ApiTypes
  <1> DEFINE r == [rec EXCEPT !.at = "sent", !.key = k]
  <1>2. r \in Calls /\ r.again = rec.again /\ r.answer = rec.answer
    BY DEF Calls, CallStates
  <1>3. /\ CallBecomes(c, r) /\ UNCHANGED <<keyInForce, keyCache, disturbed>> /\ ~rec.again
    BY <1>1 DEF Sends
  <1> HIDE DEF r
  <1>4. c \notin disturbed' => Proper(r)'
    BY <1>1, <1>2, <1>3 DEF ApiInv, Proper
  <1>5. keyCache' \in KeyCaches
    BY <1>3 DEF ApiInv, ApiTypes
  <1> QED
    BY <1>2, <1>3, <1>4, <1>5, CallStep

LEMMA EndKeeps ==
  ASSUME ApiInv, NEW c \in Caller, NEW answer \in ApiAnswers, CallEnds(c, answer),
         UNCHANGED <<keyInForce, keyCache, disturbed>>,
         c \notin disturbed => answer # "refused"
  PROVE  ApiInv'
  <1> DEFINE r == [NoCall EXCEPT !.at = "done", !.answer = answer]
  <1>1. r \in Calls /\ r.again = FALSE /\ r.answer = answer
    BY CallEnded, Zenon
  <1>2. CallBecomes(c, r)
    BY DEF CallEnds
  <1> HIDE DEF r
  <1>3. c \notin disturbed' => Proper(r)'
    BY <1>1 DEF Proper
  <1>4. keyCache' \in KeyCaches
    BY DEF ApiInv, ApiTypes
  <1> QED
    BY <1>1, <1>2, <1>3, <1>4, CallStep

LEMMA ResendsKeeps == ASSUME ApiInv, NEW c \in Caller, Resends(c) PROVE ApiInv'
  <1>1. PICK rec \in Calls, k \in Nat : rec = apiCall[c] /\ k = Returned
    BY CachedKey DEF ApiInv, ApiTypes
  <1>2. /\ UNCHANGED <<keyInForce, keyCache, disturbed>> /\ rec.at = "read" /\ rec.again
        /\ keyInForce \in Nat \ {0}
    BY <1>1 DEF Resends, CallIs, ApiInv, ApiTypes
  <1>3. c \notin disturbed => k = keyInForce /\ rec.key # keyInForce
    BY <1>1, <1>2, CachedKey DEF ApiInv, Proper, AtRest
  <1>4. CASE k \notin {NoKey, rec.key}
    <2> DEFINE r == [rec EXCEPT !.at = "sent", !.key = k]
    <2>1. r \in Calls /\ r.at = "sent" /\ r.again = rec.again /\ r.answer = rec.answer
          /\ r.key = k
      BY DEF Calls, CallStates
    <2>2. CallBecomes(c, r)
      BY <1>1, <1>4 DEF Resends
    <2> HIDE DEF r
    <2>3. c \notin disturbed' => Proper(r)'
      BY <1>1, <1>2, <1>3, <2>1 DEF ApiInv, Proper, AtRest
    <2>4. keyCache' \in KeyCaches
      BY <1>2 DEF ApiInv, ApiTypes
    <2> QED
      BY <1>2, <2>1, <2>2, <2>3, <2>4, CallStep
  <1>5. CASE k \in {NoKey, rec.key}
    <2>1. CallEnds(c, "refused")
      BY <1>1, <1>5 DEF Resends
    <2>2. c \in disturbed
      BY <1>2, <1>3, <1>5 DEF NoKey
    <2> QED
      BY <1>2, <2>1, <2>2, EndKeeps DEF ApiAnswers
  <1> QED
    BY <1>4, <1>5

LEMMA RefusedKeeps == ASSUME ApiInv, NEW c \in Caller, Refused(c) PROVE ApiInv'
  <1>1. PICK rec \in Calls : rec = apiCall[c]
    BY DEF ApiInv, ApiTypes
  <1> DEFINE r == [rec EXCEPT !.at = "look", !.again = TRUE]
  <1>2. r \in Calls /\ r.at = "look" /\ r.key = rec.key /\ r.answer = rec.answer
    BY DEF Calls, CallStates
  <1>3. /\ CallBecomes(c, r) /\ keyInForce' = keyInForce /\ keyCache' = {}
        /\ rec.key # keyInForce
        /\ disturbed' = disturbed \union {d \in Caller : apiCall[d].at = "read"}
    BY <1>1 DEF Refused, CallIs
  <1> HIDE DEF r
  <1>4. c \notin disturbed' => Proper(r)'
    BY <1>1, <1>2, <1>3 DEF ApiInv, Proper
  <1>5. keyCache' \in KeyCaches
    BY <1>3 DEF KeyCaches
  <1> QED
    BY <1>2, <1>3, <1>4, <1>5, CallStep

LEMMA AnsweredKeeps == ASSUME ApiInv, NEW c \in Caller, Answered(c) PROVE ApiInv'
  <1>1. /\ UNCHANGED <<keyInForce, keyCache, disturbed>> /\ apiCall[c].at = "sent"
    BY DEF Answered, CallIs
  <1>2. PICK answer \in {"ok", "refused", "lost"} :
            /\ CallEnds(c, answer)
            /\ answer = "refused" => apiCall[c].again /\ apiCall[c].key # keyInForce
    BY DEF Answered
  <1>3. c \notin disturbed => answer # "refused"
    BY <1>1, <1>2 DEF ApiInv, Proper, AtRest
  <1> QED
    BY <1>1, <1>2, <1>3, EndKeeps DEF ApiAnswers

LEMMA RotateKeeps == ASSUME ApiInv, Rotate PROVE ApiInv'
  <1>1. ApiTypes'
    BY DEF Rotate, ApiInv, ApiTypes
  <1>2. ASSUME NEW d \in Caller, d \notin disturbed' PROVE Proper(apiCall[d])'
    <2>1. Proper(apiCall[d]) /\ apiCall[d].at \in AtRest /\ apiCall' = apiCall
      BY <1>2 DEF Rotate, ApiInv, UnderWay
    <2> QED
      BY <2>1 DEF Proper
  <1> QED
    BY <1>1, <1>2 DEF ApiInv

LEMMA ApiStep == ApiInv /\ [ApiNext]_apiVars => ApiInv'
  <1> SUFFICES ASSUME ApiInv, [ApiNext]_apiVars PROVE ApiInv'
    OBVIOUS
  <1>1. CASE UNCHANGED apiVars
    BY <1>1 DEF apiVars, ApiInv, ApiTypes, Proper
  <1> QED
    BY <1>1, StartCallKeeps, LooksUpKeeps, FetchesKeeps, StoresKeeps, SendsKeeps, RefusedKeeps,
       ResendsKeeps, AnsweredKeeps, RotateKeeps DEF ApiNext

\* RefusedOnlyWhenDisturbed, for every set of callers and any number of rotations,
\* with the look at the cache, the fetch, the store and the read of each call
\* between any points of the others.
THEOREM RefusalsAreExplained == ApiSpec => []RefusedOnlyWhenDisturbed
  <1>1. ApiInv => RefusedOnlyWhenDisturbed
    BY DEF ApiInv, Proper, RefusedOnlyWhenDisturbed
  <1> QED
    BY <1>1, ApiStart, ApiStep, PTL DEF ApiSpec

-----------------------------------------------------------------------------
(* Research *)

Results == [gathered : SUBSET Evidence, brief : {"none", "written", "empty", "failed"}]
Projects == [status : {"absent", "open", "researching", "complete", "archived"}, result : Results]
Runs == [at : {"idle", "spawned", "gathering", "synthesizing", "over"},
         of : Project \union {"none"}, gathered : SUBSET Evidence]

ResearchTypes ==
    /\ project \in [Project -> Projects]
    /\ researchRun \in [RunId -> Runs]
    /\ \A r \in RunId : researchRun[r].at \notin {"idle", "over"} => researchRun[r].of \in Project

ResearchInv == ResearchTypes /\ ResearchingMeansRunning

LEMMA RunRecords == NoRun \in Runs /\ NoRun.at = "idle" /\ [NoRun EXCEPT !.at = "over"] \in Runs
                    /\ [NoRun EXCEPT !.at = "over"].at = "over"
  BY DEF NoRun, Runs

LEMMA ResearchStart == ResearchInit => ResearchInv
  <1> SUFFICES ASSUME ResearchInit PROVE ResearchInv
    OBVIOUS
  <1>1. NoProject \in Projects /\ NoProject.status = "absent"
    BY DEF NoProject, NoBrief, Projects, Results
  <1>2. ResearchTypes
    BY <1>1, RunRecords DEF ResearchInit, ResearchTypes
  <1>3. \A p \in Project : project[p].status = "absent"
    BY <1>1 DEF ResearchInit
  <1> QED
    BY <1>2, <1>3 DEF ResearchInv, ResearchingMeansRunning

LEMMA StatusUpdated ==
  ASSUME ResearchTypes, NEW p \in Project, NEW status \in {"open", "researching", "archived"},
         UpdateStatus(p, status)
  PROVE  /\ project' \in [Project -> Projects]
         /\ \A q \in Project : project'[q].status \in {project[q].status, status}
         /\ \A q \in Project \ {p} : project'[q] = project[q]
  BY DEF UpdateStatus, ResearchTypes, Projects

\* A run that moves on within its work, or was not at work, takes no project's run away.
LEMMA RunMoves ==
  ASSUME ResearchTypes, NEW r \in RunId, NEW a \in Runs,
         a.at \notin {"idle", "over"} => a.of \in Project,
         researchRun' = [researchRun EXCEPT ![r] = a]
  PROVE  /\ researchRun' \in [RunId -> Runs] /\ researchRun'[r] = a
         /\ \A s \in RunId : researchRun'[s].at \notin {"idle", "over"} => researchRun'[s].of \in Project
         /\ \A p \in Project : UnderWayFor(p) =>
                \/ UnderWayFor(p)'
                \/ researchRun[r].at \in {"gathering", "synthesizing"} /\ researchRun[r].of = p
  BY DEF ResearchTypes, UnderWayFor

LEMMA RequestKeeps ==
  ASSUME ResearchInv, NEW p \in Project, NEW r \in RunId, RequestRun(p, r) PROVE ResearchInv'
  <1> DEFINE a == [NoRun EXCEPT !.at = "spawned", !.of = p]
  <1>1. a \in Runs /\ a.of = p
    BY RunRecords DEF Runs
  <1>2. researchRun' = [researchRun EXCEPT ![r] = a] /\ UNCHANGED <<project, interrupted>>
        /\ researchRun[r].at = "idle" /\ ResearchTypes
    BY DEF RequestRun, ResearchInv
  <1> HIDE DEF a
  <1>3. ResearchTypes'
    BY <1>1, <1>2, RunMoves DEF ResearchTypes
  <1>4. \A q \in Project : UnderWayFor(q) => UnderWayFor(q)'
    BY <1>1, <1>2, RunMoves
  <1> QED
    BY <1>2, <1>3, <1>4 DEF ResearchInv, ResearchingMeansRunning

LEMMA BeginKeeps == ASSUME ResearchInv, NEW r \in RunId, BeginResearch(r) PROVE ResearchInv'
  <1> PICK p \in Project : p = researchRun[r].of
    BY DEF BeginResearch, ResearchInv, ResearchTypes
  <1> DEFINE a(at) == [researchRun[r] EXCEPT !.at = at]
  <1>1. ResearchTypes /\ researchRun[r] \in Runs /\ p \in Project /\ researchRun[r].at = "spawned"
        /\ interrupted' = interrupted
    BY DEF BeginResearch, ResearchInv, ResearchTypes
  <1>2. CASE UpdateStatus(p, "researching") /\ researchRun' = [researchRun EXCEPT ![r].at = "gathering"]
    <2>1. a("gathering") \in Runs /\ a("gathering").of = p /\ a("gathering").at = "gathering"
      BY <1>1 DEF Runs
    <2>2. researchRun' = [researchRun EXCEPT ![r] = a("gathering")]
      BY <1>1, <1>2 DEF ResearchTypes
    <2> HIDE DEF a
    <2>3. ResearchTypes'
      BY <1>1, <1>2, <2>1, <2>2, RunMoves, StatusUpdated DEF ResearchTypes
    <2>4. UnderWayFor(p)'
      BY <1>1, <2>1, <2>2, RunMoves, ZenonT(30) DEF UnderWayFor
    <2>5. \A q \in Project : UnderWayFor(q) => UnderWayFor(q)'
      BY <1>1, <2>1, <2>2, RunMoves
    <2>6. \A q \in Project \ {p} : project'[q] = project[q]
      BY <1>1, <1>2, StatusUpdated
    <2>7. ASSUME NEW q \in Project, project'[q].status = "researching"
          PROVE  UnderWayFor(q)' \/ q \in interrupted'
      <3>1. CASE q = p
        BY <2>4, <3>1
      <3>2. CASE q # p
        <4>1. UnderWayFor(q) \/ q \in interrupted
          BY <2>6, <2>7, <3>2 DEF ResearchInv, ResearchingMeansRunning
        <4> QED
          BY <1>1, <2>5, <4>1
      <3> QED
        BY <3>1, <3>2
    <2> QED
      BY <2>3, <2>7 DEF ResearchInv, ResearchingMeansRunning
  <1>3. CASE researchRun' = [researchRun EXCEPT ![r].at = "over"] /\ UNCHANGED project
    <2>1. a("over") \in Runs /\ a("over").at = "over"
      BY <1>1 DEF Runs
    <2>2. researchRun' = [researchRun EXCEPT ![r] = a("over")]
      BY <1>1, <1>3 DEF ResearchTypes
    <2> HIDE DEF a
    <2>3. ResearchTypes'
      BY <1>1, <1>3, <2>1, <2>2, RunMoves DEF ResearchTypes
    <2>4. \A q \in Project : UnderWayFor(q) => UnderWayFor(q)'
      BY <1>1, <2>1, <2>2, RunMoves
    <2> QED
      BY <1>1, <1>3, <2>3, <2>4 DEF ResearchInv, ResearchingMeansRunning
  <1> QED
    BY <1>2, <1>3 DEF BeginResearch

LEMMA GatherKeeps == ASSUME ResearchInv, NEW r \in RunId, GatherAllEvidence(r) PROVE ResearchInv'
  <1>1. PICK found \in Outcomes : researchRun' = [researchRun EXCEPT
              ![r].at = "synthesizing", ![r].gathered = Found(found)]
    BY DEF GatherAllEvidence
  <1> DEFINE a == [researchRun[r] EXCEPT !.at = "synthesizing", !.gathered = Found(found)]
  <1>2. ResearchTypes /\ researchRun[r] \in Runs /\ researchRun[r].of \in Project
        /\ UNCHANGED <<project, interrupted>>
    BY DEF GatherAllEvidence, ResearchInv, ResearchTypes
  <1>3. Found(found) \subseteq Evidence
    BY DEF Found
  <1>4. a \in Runs /\ a.of = researchRun[r].of /\ a.at = "synthesizing"
    BY <1>2, <1>3 DEF Runs
  <1>5. researchRun' = [researchRun EXCEPT ![r] = a]
    BY <1>1, <1>2 DEF ResearchTypes
  <1> HIDE DEF a
  <1>6. ResearchTypes'
    BY <1>2, <1>4, <1>5, RunMoves DEF ResearchTypes
  <1>7. \A q \in Project : UnderWayFor(q) => UnderWayFor(q)'
    BY <1>2, <1>4, <1>5, RunMoves DEF UnderWayFor
  <1> QED
    BY <1>2, <1>6, <1>7 DEF ResearchInv, ResearchingMeansRunning

LEMMA StoreKeeps == ASSUME ResearchInv, NEW r \in RunId, SynthesizeAndStore(r) PROVE ResearchInv'
  <1> DEFINE p == researchRun[r].of
             a == [NoRun EXCEPT !.at = "over"]
  <1>1. ResearchTypes /\ researchRun[r] \in Runs /\ p \in Project /\ a \in Runs /\ a.at = "over"
    BY RunRecords DEF SynthesizeAndStore, ResearchInv, ResearchTypes
  <1>2. researchRun' = [researchRun EXCEPT ![r] = a]
    BY DEF SynthesizeAndStore
  <1> HIDE DEF a
  <1>3. PICK brief \in {"written", "empty", "failed"} :
            \/ /\ project' = [project EXCEPT ![p] = [status |-> "complete",
                     result |-> [gathered |-> researchRun[r].gathered, brief |-> brief]]]
               /\ interrupted' = interrupted \ {p}
            \/ project' = project /\ interrupted' = interrupted \union {p}
    BY DEF SynthesizeAndStore
  <1> DEFINE done == [status |-> "complete",
                      result |-> [gathered |-> researchRun[r].gathered, brief |-> brief]]
  <1>4. done \in Projects /\ done.status = "complete"
    BY <1>1 DEF Projects, Results, Runs
  <1> HIDE DEF done
  <1>5. \/ project' = [project EXCEPT ![p] = done]
        \/ project' = project /\ p \in interrupted'
    BY <1>3 DEF done
  <1>6. ResearchTypes'
    BY <1>1, <1>2, <1>4, <1>5, RunMoves DEF ResearchTypes
  <1>7. ASSUME NEW q \in Project, project'[q].status = "researching"
        PROVE  UnderWayFor(q)' \/ q \in interrupted'
    <2>1. CASE q = p
      BY <1>1, <1>4, <1>5, <1>7, <2>1 DEF ResearchTypes
    <2>2. CASE q # p
      <3>1. project'[q] = project[q] /\ (q \in interrupted => q \in interrupted')
        BY <1>1, <1>3, <1>5, <2>2 DEF ResearchTypes
      <3>2. UnderWayFor(q) \/ q \in interrupted
        BY <1>7, <3>1 DEF ResearchInv, ResearchingMeansRunning
      <3>3. UnderWayFor(q) => UnderWayFor(q)'
        BY <1>1, <1>2, <2>2, RunMoves
      <3> QED
        BY <3>1, <3>2, <3>3
    <2> QED
      BY <2>1, <2>2
  <1> QED
    BY <1>6, <1>7 DEF ResearchInv, ResearchingMeansRunning

LEMMA ProjectKeeps ==
  ASSUME ResearchInv, NEW p \in Project, CreateProject(p) \/ ArchiveProject(p) PROVE ResearchInv'
  <1>1. ResearchTypes /\ UNCHANGED <<researchRun, interrupted>>
    BY DEF CreateProject, ArchiveProject, ResearchInv
  <1>2. /\ project' \in [Project -> Projects]
        /\ \A q \in Project : project'[q].status = "researching" => project[q].status = "researching"
    <2>1. CASE CreateProject(p)
      BY <1>1, <2>1 DEF CreateProject, ResearchTypes, Projects
    <2>2. CASE ArchiveProject(p)
      BY <1>1, <2>2, StatusUpdated DEF ArchiveProject
    <2> QED
      BY <2>1, <2>2
  <1>3. \A q \in Project : UnderWayFor(q)' = UnderWayFor(q)
    BY <1>1 DEF UnderWayFor
  <1> QED
    BY <1>1, <1>2, <1>3 DEF ResearchInv, ResearchTypes, ResearchingMeansRunning

LEMMA ResearchRestartKeeps == ASSUME ResearchInv, ResearchRestart PROVE ResearchInv'
  <1>1. ResearchTypes /\ project' = project
        /\ interrupted' = interrupted \union {p \in Project : UnderWayFor(p)}
    BY DEF ResearchRestart, ResearchInv
  <1>2. researchRun' = [r \in RunId |->
            IF researchRun[r].at = "idle" THEN NoRun ELSE [NoRun EXCEPT !.at = "over"]]
    BY DEF ResearchRestart
  <1>3. ResearchTypes'
    BY <1>1, <1>2, RunRecords DEF ResearchTypes
  <1> QED
    BY <1>1, <1>3 DEF ResearchInv, ResearchingMeansRunning

LEMMA ResearchStep == ResearchInv /\ [ResearchNext]_researchVars => ResearchInv'
  <1> SUFFICES ASSUME ResearchInv, [ResearchNext]_researchVars PROVE ResearchInv'
    OBVIOUS
  <1>1. CASE UNCHANGED researchVars
    BY <1>1 DEF researchVars, ResearchInv, ResearchTypes, ResearchingMeansRunning, UnderWayFor
  <1> QED
    BY <1>1, RequestKeeps, BeginKeeps, GatherKeeps, StoreKeeps, ProjectKeeps, ResearchRestartKeeps
    DEF ResearchNext

\* ResearchingMeansRunning, for every set of projects, of runs and of sources.
THEOREM ResearchIsUnderWay == ResearchSpec => []ResearchingMeansRunning
  <1>1. ResearchInv => ResearchingMeansRunning
    BY DEF ResearchInv
  <1> QED
    BY <1>1, ResearchStart, ResearchStep, PTL DEF ResearchSpec

-----------------------------------------------------------------------------
(* Fix proposals *)

Branch == [cut : Nat, by : Server \union {"none"}, patches : SUBSET (Server \X Nat)]
Request == [state : {"none", "open", "closed"}, opener : Server \union {"none"}, labelled : BOOLEAN]
Attempt == [at : {"idle", "patch", "branch", "commit", "open"}, of : Fault \union {"none"}, read : Nat]

ForgeTypes ==
    /\ mainline \in [Fault -> Nat \ {0}]
    /\ fixBranch \in [Fault -> Branch]
    /\ pullRequest \in [Fault -> Request]
    /\ proposing \in [Server -> Attempt]
    /\ \A s \in Server : proposing[s].at # "idle" => proposing[s].of \in Fault

\* Who is about to commit or to open works on a branch of its own that no open
\* request shows, with no patch on it yet, or its own alone.
OwnsItsBranch(s) ==
    LET f == proposing[s].of
    IN  /\ fixBranch[f].by = s /\ pullRequest[f].state # "open"
        /\ proposing[s].at = "commit" => fixBranch[f].patches = {}
        /\ proposing[s].at = "open" => \E n \in Nat : fixBranch[f].patches = {<<s, n>>}

ShowsOnePatch(f) ==
    \E n \in Nat : pullRequest[f].opener \in Server /\ fixBranch[f].patches = {<<pullRequest[f].opener, n>>}

ForgeInv ==
    /\ ForgeTypes
    /\ \A s \in Server : proposing[s].at \in {"commit", "open"} => OwnsItsBranch(s)
    /\ \A f \in Fault : pullRequest[f].state = "open" => ShowsOnePatch(f)

LEMMA ForgeStart == ForgeInit => ForgeInv
  <1> SUFFICES ASSUME ForgeInit PROVE ForgeInv
    OBVIOUS
  <1>1. NoBranch \in Branch /\ NoRequest \in Request /\ NotProposing \in Attempt
    BY DEF NoBranch, NoRequest, NotProposing, Branch, Request, Attempt
  <1> QED
    BY <1>1 DEF ForgeInit, ForgeInv, ForgeTypes, NoRequest, NotProposing

\* Steps that leave the branches and the requests alone, and bring no server closer
\* to its branch, disturb nothing.
LEMMA AttemptMoves ==
  ASSUME ForgeInv, NEW s \in Server, NEW a \in Attempt, a.at \notin {"commit", "open"},
         a.at # "idle" => a.of \in Fault,
         proposing' = [proposing EXCEPT ![s] = a],
         UNCHANGED <<mainline, fixBranch, pullRequest>>
  PROVE  ForgeInv'
  <1>1. ForgeTypes'
    BY DEF ForgeInv, ForgeTypes
  <1>2. ASSUME NEW t \in Server, proposing'[t].at \in {"commit", "open"} PROVE OwnsItsBranch(t)'
    <2>1. t # s /\ proposing'[t] = proposing[t]
      BY <1>2 DEF ForgeInv, ForgeTypes
    <2> QED
      BY <1>2, <2>1 DEF ForgeInv, OwnsItsBranch
  <1>3. ASSUME NEW f \in Fault, pullRequest'[f].state = "open" PROVE ShowsOnePatch(f)'
    BY <1>3 DEF ForgeInv, ShowsOnePatch
  <1> QED
    BY <1>1, <1>2, <1>3 DEF ForgeInv

LEMMA NotProposingIsAttempt == NotProposing \in Attempt /\ NotProposing.at = "idle"
  BY DEF NotProposing, Attempt

\* Ending a proposal, the branches and requests as they are.
LEMMA ProposalEnds ==
  ASSUME ForgeInv, NEW s \in Server, EndsProposal(s), UNCHANGED <<mainline, fixBranch, pullRequest>>
  PROVE  ForgeInv'
  BY AttemptMoves, NotProposingIsAttempt DEF EndsProposal

LEMMA ReadKeeps == ASSUME ForgeInv, NEW s \in Server, NEW f \in Fault, ReadForFix(s, f) PROVE ForgeInv'
  <1> DEFINE a == [at |-> "patch", of |-> f, read |-> mainline[f]]
  <1>1. a \in Attempt
    BY DEF Attempt, ForgeInv, ForgeTypes
  <1>2. proposing' = [proposing EXCEPT ![s] = a] /\ UNCHANGED <<mainline, fixBranch, pullRequest>>
    BY DEF ReadForFix
  <1> HIDE DEF a
  <1>3. a.at = "patch" /\ a.of = f
    BY DEF a
  <1> QED
    BY <1>1, <1>2, <1>3, AttemptMoves

LEMMA PatchKeeps == ASSUME ForgeInv, NEW s \in Server, PatchFile(s) PROVE ForgeInv'
  <1>1. CASE GoesOn(s, "branch")
    <2> DEFINE a == [proposing[s] EXCEPT !.at = "branch"]
    <2>1. proposing[s] \in Attempt /\ proposing[s].of \in Fault
      BY DEF PatchFile, StandsAt, ForgeInv, ForgeTypes
    <2>2. a \in Attempt /\ a.at = "branch" /\ a.of = proposing[s].of
      BY <2>1 DEF Attempt
    <2>3. proposing' = [proposing EXCEPT ![s] = a]
      BY <1>1 DEF GoesOn, ForgeInv, ForgeTypes
    <2>4. UNCHANGED <<mainline, fixBranch, pullRequest>>
      BY DEF PatchFile
    <2> HIDE DEF a
    <2> QED
      BY <2>1, <2>2, <2>3, <2>4, AttemptMoves
  <1>2. CASE EndsProposal(s)
    BY <1>2, ProposalEnds DEF PatchFile
  <1> QED
    BY <1>1, <1>2 DEF PatchFile

\* A branch that is cut where none was: no server is about to use it, and no open
\* request shows it.
LEMMA CutKeeps ==
  ASSUME ForgeInv, NEW s \in Server, StandsAt(s, "branch"),
         fixBranch[proposing[s].of] = NoBranch, Cut(s), UNCHANGED <<mainline, pullRequest>>,
         GoesOn(s, "commit") \/ EndsProposal(s)
  PROVE  ForgeInv'
  <1> DEFINE f == proposing[s].of
             b == [cut |-> mainline[f], by |-> s, patches |-> {}]
  <1>1. f \in Fault /\ proposing[s] \in Attempt
    BY DEF StandsAt, ForgeInv, ForgeTypes
  <1>2. b \in Branch /\ fixBranch' = [fixBranch EXCEPT ![f] = b]
    BY <1>1 DEF Cut, Branch, ForgeInv, ForgeTypes
  <1>3. PICK a \in Attempt : /\ proposing' = [proposing EXCEPT ![s] = a]
                             /\ a.at \in {"idle", "commit"} /\ (a.at # "idle" => a.of = f)
    <2>1. CASE GoesOn(s, "commit")
      <3>1. [proposing[s] EXCEPT !.at = "commit"] \in Attempt
        BY <1>1 DEF Attempt
      <3> QED
        BY <2>1, <3>1, <1>1 DEF GoesOn, Attempt, ForgeInv, ForgeTypes
    <2>2. CASE EndsProposal(s)
      BY <2>2, NotProposingIsAttempt DEF EndsProposal
    <2> QED
      BY <2>1, <2>2
  <1>4. pullRequest[f].state # "open"
    <2>1. fixBranch[f].patches = {}
      BY DEF NoBranch
    <2>2. ~ShowsOnePatch(f)
      BY <2>1 DEF ShowsOnePatch
    <2> QED
      BY <1>1, <2>2 DEF ForgeInv
  <1>5. ForgeTypes'
    BY <1>1, <1>2, <1>3 DEF ForgeInv, ForgeTypes
  <1>6. ASSUME NEW t \in Server, proposing'[t].at \in {"commit", "open"} PROVE OwnsItsBranch(t)'
    <2>1. CASE t = s
      <3>1. proposing'[t].of = f /\ proposing'[t].at = "commit"
        BY <1>3, <1>6, <2>1 DEF ForgeInv, ForgeTypes
      <3>2. fixBranch'[f] = b
        BY <1>1, <1>2 DEF ForgeInv, ForgeTypes
      <3> QED
        BY <1>4, <2>1, <3>1, <3>2 DEF OwnsItsBranch
    <2>2. CASE t # s
      <3>1. proposing'[t] = proposing[t] /\ OwnsItsBranch(t)
        BY <1>3, <1>6, <2>2 DEF ForgeInv, ForgeTypes
      <3>2. proposing[t].of # f
        BY <3>1, ForgeAssumption DEF OwnsItsBranch, NoBranch
      <3>3. proposing[t].of \in Fault
        BY <1>6, <3>1 DEF ForgeInv, ForgeTypes
      <3>4. fixBranch'[proposing[t].of] = fixBranch[proposing[t].of]
        BY <1>2, <3>2, <3>3 DEF ForgeInv, ForgeTypes
      <3> QED
        BY <3>1, <3>4 DEF OwnsItsBranch
    <2> QED
      BY <2>1, <2>2
  <1>7. ASSUME NEW g \in Fault, pullRequest'[g].state = "open" PROVE ShowsOnePatch(g)'
    <2>1. g # f /\ fixBranch'[g] = fixBranch[g] /\ ShowsOnePatch(g)
      BY <1>2, <1>4, <1>7 DEF ForgeInv, ForgeTypes
    <2> QED
      BY <2>1 DEF ShowsOnePatch
  <1> QED
    BY <1>5, <1>6, <1>7 DEF ForgeInv

LEMMA CreateKeeps == ASSUME ForgeInv, NEW s \in Server, CreateBranch(s) PROVE ForgeInv'
  BY CutKeeps, ProposalEnds DEF CreateBranch

\* The patch is put on the branch of the attempt; with its answer lost, the branch
\* keeps it and the attempt is over.
LEMMA CommitKeeps == ASSUME ForgeInv, NEW s \in Server, CommitFile(s) PROVE ForgeInv'
  <1> DEFINE f == proposing[s].of
             n == proposing[s].read
             b == [fixBranch[f] EXCEPT !.patches = @ \union {<<s, n>>}]
  <1>1. f \in Fault /\ n \in Nat /\ proposing[s] \in Attempt /\ proposing[s].at = "commit"
    BY DEF CommitFile, StandsAt, ForgeInv, ForgeTypes, Attempt
  <1>2. OwnsItsBranch(s) /\ fixBranch[f].patches = {} /\ pullRequest[f].state # "open"
    BY <1>1 DEF ForgeInv, OwnsItsBranch
  <1>3. CASE UNCHANGED fixBranch /\ EndsProposal(s)
    BY <1>3, ProposalEnds DEF CommitFile
  <1>4. CASE /\ fixBranch' = [fixBranch EXCEPT ![f] = b]
             /\ GoesOn(s, "open") \/ EndsProposal(s)
    <2>1. b \in Branch /\ b.by = s /\ b.patches = {<<s, n>>}
      BY <1>1, <1>2 DEF Branch, OwnsItsBranch, ForgeInv, ForgeTypes
    <2> HIDE DEF b
    <2>2. PICK a \in Attempt : /\ proposing' = [proposing EXCEPT ![s] = a]
                               /\ a.at \in {"idle", "open"} /\ (a.at # "idle" => a.of = f)
      <3>1. CASE GoesOn(s, "open")
        <4>1. [proposing[s] EXCEPT !.at = "open"] \in Attempt
          BY <1>1 DEF Attempt
        <4> QED
          BY <3>1, <4>1, <1>1 DEF GoesOn, Attempt, ForgeInv, ForgeTypes
      <3>2. CASE EndsProposal(s)
        BY <3>2, NotProposingIsAttempt DEF EndsProposal
      <3> QED
        BY <1>4, <3>1, <3>2
    <2>3. UNCHANGED <<mainline, pullRequest>>
      BY DEF CommitFile
    <2>4. ForgeTypes'
      BY <1>1, <1>4, <2>1, <2>2, <2>3 DEF ForgeInv, ForgeTypes
    <2>5. fixBranch'[f] = b /\ \A g \in Fault \ {f} : fixBranch'[g] = fixBranch[g]
      BY <1>1, <1>4 DEF ForgeInv, ForgeTypes
    <2>6. ASSUME NEW t \in Server, proposing'[t].at \in {"commit", "open"} PROVE OwnsItsBranch(t)'
      <3>1. CASE t = s
        <4>1. proposing'[t].of = f /\ proposing'[t].at = "open"
          BY <2>2, <2>6, <3>1 DEF ForgeInv, ForgeTypes
        <4> QED
          BY <1>1, <1>2, <2>1, <2>3, <2>5, <3>1, <4>1 DEF OwnsItsBranch
      <3>2. CASE t # s
        <4>1. proposing'[t] = proposing[t] /\ OwnsItsBranch(t)
          BY <2>2, <2>6, <3>2 DEF ForgeInv, ForgeTypes
        <4>2. proposing[t].of \in Fault \ {f}
          BY <1>2, <2>6, <3>2, <4>1 DEF OwnsItsBranch, ForgeInv, ForgeTypes
        <4> QED
          BY <2>3, <2>5, <4>1, <4>2 DEF OwnsItsBranch
      <3> QED
        BY <3>1, <3>2
    <2>7. ASSUME NEW g \in Fault, pullRequest'[g].state = "open" PROVE ShowsOnePatch(g)'
      <3>1. g # f /\ ShowsOnePatch(g)
        BY <1>2, <2>3, <2>7 DEF ForgeInv
      <3> QED
        BY <2>3, <2>5, <3>1 DEF ShowsOnePatch
    <2> QED
      BY <2>4, <2>6, <2>7 DEF ForgeInv
  <1> QED
    BY <1>3, <1>4 DEF CommitFile

\* The request shows the branch of the attempt, which ends: counted or not.
LEMMA OpenKeeps == ASSUME ForgeInv, NEW s \in Server, OpenPullRequest(s) PROVE ForgeInv'
  <1> DEFINE f == proposing[s].of
  <1>1. f \in Fault /\ proposing[s].at = "open" /\ UNCHANGED <<mainline, fixBranch>> /\ EndsProposal(s)
    BY DEF OpenPullRequest, StandsAt, ForgeInv, ForgeTypes
  <1>2. OwnsItsBranch(s) /\ \E n \in Nat : fixBranch[f].patches = {<<s, n>>}
    BY <1>1 DEF ForgeInv, OwnsItsBranch
  <1>3. CASE UNCHANGED pullRequest
    BY <1>1, <1>3, ProposalEnds
  <1>4. CASE \E labelled \in BOOLEAN : pullRequest' =
               [pullRequest EXCEPT ![f] = [state |-> "open", opener |-> s, labelled |-> labelled]]
    <2>1. PICK q \in Request : /\ pullRequest' = [pullRequest EXCEPT ![f] = q]
                               /\ q.state = "open" /\ q.opener = s
      <3>1. PICK labelled \in BOOLEAN : pullRequest' =
               [pullRequest EXCEPT ![f] = [state |-> "open", opener |-> s, labelled |-> labelled]]
        BY <1>4
      <3>2. [state |-> "open", opener |-> s, labelled |-> labelled] \in Request
        BY DEF Request
      <3> QED
        BY <3>1, <3>2
    <2>2. proposing' = [proposing EXCEPT ![s] = NotProposing]
      BY <1>1 DEF EndsProposal
    <2>3. ForgeTypes'
      BY <1>1, <2>1, <2>2, NotProposingIsAttempt DEF ForgeInv, ForgeTypes
    <2>4. pullRequest'[f] = q /\ \A g \in Fault \ {f} : pullRequest'[g] = pullRequest[g]
      BY <1>1, <2>1 DEF ForgeInv, ForgeTypes
    <2>5. ASSUME NEW t \in Server, proposing'[t].at \in {"commit", "open"} PROVE OwnsItsBranch(t)'
      <3>1. t # s /\ proposing'[t] = proposing[t] /\ OwnsItsBranch(t)
        BY <2>2, <2>5, NotProposingIsAttempt DEF ForgeInv, ForgeTypes
      <3>2. proposing[t].of \in Fault \ {f}
        BY <1>2, <2>5, <3>1 DEF OwnsItsBranch, ForgeInv, ForgeTypes
      <3> QED
        BY <1>1, <2>4, <3>1, <3>2 DEF OwnsItsBranch
    <2>6. ASSUME NEW g \in Fault, pullRequest'[g].state = "open" PROVE ShowsOnePatch(g)'
      <3>1. CASE g = f
        BY <1>1, <1>2, <2>1, <2>4, <3>1 DEF ShowsOnePatch
      <3>2. CASE g # f
        <4>1. pullRequest'[g] = pullRequest[g] /\ ShowsOnePatch(g)
          BY <2>4, <2>6, <3>2 DEF ForgeInv
        <4> QED
          BY <1>1, <4>1 DEF ShowsOnePatch
      <3> QED
        BY <3>1, <3>2
    <2> QED
      BY <2>3, <2>5, <2>6 DEF ForgeInv
  <1> QED
    BY <1>3, <1>4 DEF OpenPullRequest

\* A request is closed, and its branch perhaps deleted: no attempt is on it.
LEMMA CloseKeeps == ASSUME ForgeInv, NEW f \in Fault, CloseRequest(f) PROVE ForgeInv'
  <1>1. /\ pullRequest[f].state = "open"
        /\ pullRequest' = [pullRequest EXCEPT ![f].state = "closed"]
        /\ UNCHANGED <<mainline, proposing>>
        /\ fixBranch' = [fixBranch EXCEPT ![f] = NoBranch] \/ fixBranch' = fixBranch
    BY DEF CloseRequest
  <1>2. NoBranch \in Branch
    BY DEF NoBranch, Branch
  <1>3. ForgeTypes'
    <2>1. [pullRequest[f] EXCEPT !.state = "closed"] \in Request
      BY DEF ForgeInv, ForgeTypes, Request
    <2> QED
      BY <1>1, <1>2, <2>1 DEF ForgeInv, ForgeTypes
  <1>4. pullRequest'[f].state = "closed"
    BY <1>1 DEF ForgeInv, ForgeTypes, Request
  <1>5. \A g \in Fault \ {f} : fixBranch'[g] = fixBranch[g] /\ pullRequest'[g] = pullRequest[g]
    BY <1>1 DEF ForgeInv, ForgeTypes
  <1>6. ASSUME NEW t \in Server, proposing'[t].at \in {"commit", "open"} PROVE OwnsItsBranch(t)'
    <2>1. OwnsItsBranch(t) /\ proposing'[t] = proposing[t] /\ proposing[t].of \in Fault \ {f}
      BY <1>1, <1>6 DEF ForgeInv, ForgeTypes, OwnsItsBranch
    <2> QED
      BY <1>5, <2>1 DEF OwnsItsBranch
  <1>7. ASSUME NEW g \in Fault, pullRequest'[g].state = "open" PROVE ShowsOnePatch(g)'
    <2>1. g \in Fault \ {f}
      BY <1>4, <1>7
    <2>2. ShowsOnePatch(g)
      BY <1>5, <1>7, <2>1 DEF ForgeInv
    <2> QED
      BY <1>5, <2>1, <2>2 DEF ShowsOnePatch
  <1> QED
    BY <1>3, <1>6, <1>7 DEF ForgeInv

\* What the invariant does not speak of.
LEMMA QuietKeeps ==
  ASSUME ForgeInv, mainline' \in [Fault -> Nat \ {0}], UNCHANGED <<fixBranch, pullRequest, proposing>>
  PROVE  ForgeInv'
  BY DEF ForgeInv, ForgeTypes, OwnsItsBranch, ShowsOnePatch

LEMMA ForgeStep == ForgeInv /\ [ForgeNext]_forgeVars => ForgeInv'
  <1> SUFFICES ASSUME ForgeInv, [ForgeNext]_forgeVars PROVE ForgeInv'
    OBVIOUS
  <1>1. mainline \in [Fault -> Nat \ {0}]
    BY DEF ForgeInv, ForgeTypes
  <1>2. ASSUME NEW f \in Fault, SuggestTemplate(f) \/ DevelopersEdit(f) PROVE ForgeInv'
    BY <1>1, <1>2, QuietKeeps DEF SuggestTemplate, DevelopersEdit
  <1>3. ASSUME NEW s \in Server, ForgeRestart(s) PROVE ForgeInv'
    BY <1>3, ProposalEnds DEF ForgeRestart
  <1>4. ASSUME ForgeTick \/ RollbackService \/ RevisionRegistered \/ UNCHANGED forgeVars PROVE ForgeInv'
    BY <1>1, <1>4, QuietKeeps DEF ForgeTick, RollbackService, RevisionRegistered, forgeVars
  <1> QED
    BY <1>2, <1>3, <1>4, ReadKeeps, PatchKeeps, CreateKeeps, CommitKeeps, OpenKeeps, CloseKeeps DEF ForgeNext

\* ShowsItsOwnPatch, for all servers and findings: whatever calls to GitHub fail or
\* lose their answers, an open pull request has the one patch of its attempt.
THEOREM OwnPatchShown == ForgeSpec => []ShowsItsOwnPatch
  <1>1. ForgeInv => ShowsItsOwnPatch
    <2> SUFFICES ASSUME ForgeInv, NEW f \in Fault, pullRequest[f].state = "open"
                 PROVE  /\ Cardinality(fixBranch[f].patches) = 1
                        /\ \A patch \in fixBranch[f].patches : patch[1] = pullRequest[f].opener
      BY DEF ShowsItsOwnPatch
    <2>1. PICK n \in Nat : fixBranch[f].patches = {<<pullRequest[f].opener, n>>}
      BY DEF ForgeInv, ShowsOnePatch
    <2>2. Cardinality(fixBranch[f].patches) = 1
      BY <2>1, FS_Singleton
    <2> QED
      BY <2>1, <2>2
  <1> QED
    BY <1>1, ForgeStart, ForgeStep, PTL DEF ForgeSpec

-----------------------------------------------------------------------------
(* The operations on a tenant *)

\* A step that puts no secret leaves it as it was.
LEMMA SecretKept ==
  ASSUME UNCHANGED secret, TokenMatchesInstallation PROVE TokenMatchesInstallation'
  BY DEF TokenMatchesInstallation

LEMMA OpsStep ==
  TokenMatchesInstallation /\ [OpsNext]_opsVars => TokenMatchesInstallation'
  <1> SUFFICES ASSUME TokenMatchesInstallation, [OpsNext]_opsVars PROVE TokenMatchesInstallation'
    OBVIOUS
  <1>1. ASSUME NEW c \in Call, PutSecret(c) PROVE TokenMatchesInstallation'
    BY <1>1 DEF PutSecret, Stored, TokenMatchesInstallation
  <1>2. ASSUME PlatformStores PROVE TokenMatchesInstallation'
    BY <1>2 DEF PlatformStores, Stored, TokenMatchesInstallation
  <1>3. ASSUME NEW c \in Call, NEW op, Start(c, op) \/ ReadSecret(c, op) PROVE UNCHANGED secret
    BY <1>3 DEF Start, ReadSecret
  <1>4. ASSUME NEW c \in Call,
               \/ Mint(c) \/ RecordRefresh(c) \/ CreateRef(c) \/ DeleteRef(c)
               \/ Diagnose(c) \/ PostDeploy(c) \/ Retrigger(c) \/ ValidateOnboarding(c)
        PROVE  UNCHANGED secret
    BY <1>4 DEF Mint, RecordRefresh, CreateRef, DeleteRef, Diagnose, PostDeploy, Retrigger,
                ValidateOnboarding
  <1>5. ASSUME NEW i, NEW w, Installs(i, w) PROVE UNCHANGED secret
    BY <1>5 DEF Installs
  <1>6. ASSUME PlatformMoves \/ Restart \/ UNCHANGED opsVars PROVE UNCHANGED secret
    BY <1>6 DEF PlatformMoves, Restart, opsVars
  <1> QED
    BY <1>1, <1>2, <1>3, <1>4, <1>5, <1>6, SecretKept DEF OpsNext

\* TokenMatchesInstallation, for every set of calls and of installations, however a
\* refresh and a new installation interleave (refresh_tenant_token).
THEOREM TokensMatch == OpsSpec => []TokenMatchesInstallation
  <1>1. OpsInit => TokenMatchesInstallation
    BY DEF OpsInit, Unreadable, TokenMatchesInstallation
  <1> QED
    BY <1>1, OpsStep, PTL DEF OpsSpec

-----------------------------------------------------------------------------
(* The watch over tenants *)

NotSignedUp == {"", "awaiting_repo"}
BriefStages == {"brief_pending", "brief_pending_approval"}
Stages == NotSignedUp \union IngestionStages \union BriefStages \union ApprovedStages
Ages == {"recent", "old"}

Tenants ==
    [stage : Stages, created : Ages, updated : Ages, repo : BOOLEAN,
     files : Nat, brief : BOOLEAN, open : {"none", "pending", "in_progress"},
     review : BOOLEAN, prs : BOOLEAN, merged : BOOLEAN, work : Ages \union {"unknown"},
     lastPr : Ages \union {"unknown"}, secret : BOOLEAN, url : {"none", "up", "down"},
     progress : {"none", "building", "live"}, stuck : BOOLEAN]

\* A tenant with pull requests has the date of the last of them.
Dated(t) == t.prs => t.lastPr # "unknown"

WatchInv == tenant \in Tenants /\ Dated(tenant) /\ banners \subseteq Banner /\ BannersSettle

LEMMA NamesOfStages ==
  /\ {"awaiting_repo", "ingestion_pending", "ingesting", "brief_pending",
      "brief_pending_approval", "executing", "complete"} \subseteq Stages
  /\ Unread.stage \in Stages
  BY Zenon DEF Stages, NotSignedUp, IngestionStages, BriefStages, ApprovedStages, Unread

LEMMA UnreadFields ==
  \E s : Unread =
    [stage |-> s, created |-> "unknown", updated |-> "unknown", repo |-> FALSE,
     files |-> 0, brief |-> FALSE, open |-> "none", review |-> FALSE, prs |-> FALSE,
     merged |-> FALSE, work |-> "unknown", lastPr |-> "unknown",
     secret |-> FALSE, url |-> "none", progress |-> "none", stuck |-> FALSE]
  BY Zenon DEF Unread

LEMMA WatchStart == WatchInit => WatchInv
  <1> SUFFICES ASSUME WatchInit PROVE WatchInv
    OBVIOUS
  <1>1. PICK s : Unread =
          [stage |-> s, created |-> "unknown", updated |-> "unknown", repo |-> FALSE,
           files |-> 0, brief |-> FALSE, open |-> "none", review |-> FALSE, prs |-> FALSE,
           merged |-> FALSE, work |-> "unknown", lastPr |-> "unknown",
           secret |-> FALSE, url |-> "none", progress |-> "none", stuck |-> FALSE]
    BY UnreadFields
  <1>2. s \in Stages
    BY <1>1, NamesOfStages
  <1>3. tenant \in Tenants /\ Dated(tenant)
    BY <1>1, <1>2 DEF WatchInit, Tenants, Ages, Dated
  <1> QED
    BY <1>3 DEF WatchInit, WatchInv, BannersSettle

\* Any move of the tenant leaves the banners to the next poll.
LEMMA BecomesKeeps ==
  ASSUME WatchInv, NEW t \in Tenants, Dated(t), Becomes(t) PROVE WatchInv'
  BY DEF WatchInv, Becomes, BannersSettle, Dated

LEMMA StageMoves ==
  ASSUME WatchInv, \/ \E stored \in BOOLEAN : ConnectsRepo(stored)
                   \/ \E n \in {1, 5, 10} : Ingests(n)
                   \/ MovesOn
  PROVE  WatchInv'
  <1> USE NamesOfStages DEF Tenants, Ages, Dated
  <1>1. tenant \in Tenants /\ Dated(tenant)
    BY DEF WatchInv
  <1>2. ASSUME NEW stored \in BOOLEAN, ConnectsRepo(stored) PROVE WatchInv'
    <2> DEFINE t == [tenant EXCEPT !.stage = "ingestion_pending", !.repo = TRUE, !.secret = stored,
                              !.updated = "recent"]
    <2>1. t \in Tenants /\ Dated(t)
      BY <1>1
    <2> QED
      BY <1>2, <2>1, BecomesKeeps DEF ConnectsRepo
  <1>3. ASSUME NEW n \in {1, 5, 10}, Ingests(n) PROVE WatchInv'
    <2>1. tenant.work \in Ages \union {"unknown"}
      BY <1>1
    <2> DEFINE t(w) == [tenant EXCEPT !.stage = "ingesting", !.files = n, !.updated = "recent",
                                      !.work = w]
    <2>2. PICK w \in Ages \union {"unknown"} : Becomes(t(w))
      BY <1>3, <2>1 DEF Ingests
    <2>3. n \in Nat
      OBVIOUS
    <2>4. t(w) \in Tenants
      BY <1>1, <2>3
    <2>5. Dated(t(w))
      BY <1>1
    <2> HIDE DEF t
    <2> QED
      BY <2>2, <2>4, <2>5, BecomesKeeps
  <1>4. CASE MovesOn
    <2>1. PICK s \in {"brief_pending", "executing", "complete"} : Becomes([tenant EXCEPT !.stage = s, !.updated = "recent"])
               \/ Becomes([tenant EXCEPT !.stage = "brief_pending_approval", !.brief = TRUE,
                                 !.work = "recent", !.updated = "recent"])
      BY <1>4 DEF MovesOn
    <2>2. [tenant EXCEPT !.stage = s, !.updated = "recent"] \in Tenants
          /\ Dated([tenant EXCEPT !.stage = s, !.updated = "recent"])
      BY <1>1
    <2>3. [tenant EXCEPT !.stage = "brief_pending_approval", !.brief = TRUE,
                                 !.work = "recent", !.updated = "recent"] \in Tenants
          /\ Dated([tenant EXCEPT !.stage = "brief_pending_approval", !.brief = TRUE,
                                 !.work = "recent", !.updated = "recent"])
      BY <1>1
    <2> QED
      BY <2>1, <2>2, <2>3, BecomesKeeps, ZenonT(30)
  <1> QED
    BY <1>2, <1>3, <1>4

LEMMA WorkMoves == ASSUME WatchInv, Works PROVE WatchInv'
  <1> USE NamesOfStages DEF Tenants, Ages, Dated
  <1>1. tenant \in Tenants /\ Dated(tenant)
    BY DEF WatchInv
  <1> DEFINE opened == [tenant EXCEPT !.open = "pending", !.work = "recent"]
             begun == [tenant EXCEPT !.open = "in_progress"]
             reviewed == [tenant EXCEPT !.open = "none", !.prs = TRUE, !.review = TRUE, !.lastPr = "recent"]
             merged == [tenant EXCEPT !.review = FALSE, !.merged = TRUE]
  <1>2. \/ Becomes(opened) \/ Becomes(begun) \/ Becomes(reviewed) \/ Becomes(merged)
    BY DEF Works
  <1>3. opened \in Tenants /\ Dated(opened) /\ begun \in Tenants /\ Dated(begun)
    BY <1>1
  <1>4. reviewed \in Tenants /\ Dated(reviewed) /\ merged \in Tenants /\ Dated(merged)
    BY <1>1, ZenonT(30)
  <1> HIDE DEF opened, begun, reviewed, merged
  <1> QED
    BY <1>2, <1>3, <1>4, BecomesKeeps

LEMMA OtherMoves ==
  ASSUME WatchInv, Deploys \/ LosesSecret \/ GrowsOld \/ \E wiped \in BOOLEAN : StartsOver(wiped)
  PROVE  WatchInv'
  <1> USE NamesOfStages DEF Tenants, Ages, Dated
  <1>1. tenant \in Tenants /\ Dated(tenant)
    BY DEF WatchInv
  <1>2. CASE Deploys
    <2> DEFINE building == [tenant EXCEPT !.progress = "building", !.stuck = TRUE]
               live == [tenant EXCEPT !.progress = "live", !.url = "up", !.stuck = FALSE]
               down == [tenant EXCEPT !.url = "down"]
    <2>1. Becomes(building) \/ Becomes(live) \/ Becomes(down)
      BY <1>2 DEF Deploys
    <2>2. building \in Tenants /\ Dated(building)
      BY <1>1
    <2>3. live \in Tenants /\ Dated(live)
      BY <1>1, ZenonT(30)
    <2>4. down \in Tenants /\ Dated(down)
      BY <1>1
    <2> HIDE DEF building, live, down
    <2> QED
      BY <2>1, <2>2, <2>3, <2>4, BecomesKeeps
  <1>3. CASE LosesSecret
    <2>1. Becomes([tenant EXCEPT !.secret = FALSE])
      BY <1>3 DEF LosesSecret
    <2>2. [tenant EXCEPT !.secret = FALSE] \in Tenants /\ Dated([tenant EXCEPT !.secret = FALSE])
      BY <1>1
    <2> QED
      BY <2>1, <2>2, BecomesKeeps
  <1>4. CASE GrowsOld
    <2>1. PICK k \in {"created", "updated", "work", "lastPr"} : Becomes([tenant EXCEPT ![k] = "old"])
      BY <1>4 DEF GrowsOld
    <2>2. [tenant EXCEPT ![k] = "old"] \in Tenants /\ Dated([tenant EXCEPT ![k] = "old"])
      <3>1. CASE k = "created"
        BY <1>1, <3>1
      <3>2. CASE k = "updated"
        BY <1>1, <3>2
      <3>3. CASE k = "work"
        BY <1>1, <3>3
      <3>4. CASE k = "lastPr"
        BY <1>1, <3>4
      <3> QED
        BY <3>1, <3>2, <3>3, <3>4
    <2> QED
      BY <2>1, <2>2, BecomesKeeps
  <1>5. ASSUME NEW wiped \in BOOLEAN, StartsOver(wiped) PROVE WatchInv'
    <2> DEFINE anew == [Unread EXCEPT !.stage = "awaiting_repo", !.created = tenant.created,
                                      !.updated = "recent", !.repo = tenant.repo,
                                      !.secret = tenant.secret]
               again == [tenant EXCEPT !.stage = "awaiting_repo", !.updated = "recent"]
    <2>1. Becomes(anew) \/ Becomes(again)
      BY <1>5 DEF StartsOver
    <2>2. anew \in Tenants /\ Dated(anew)
      <3>1. PICK s : Unread =
              [stage |-> s, created |-> "unknown", updated |-> "unknown", repo |-> FALSE,
               files |-> 0, brief |-> FALSE, open |-> "none", review |-> FALSE, prs |-> FALSE,
               merged |-> FALSE, work |-> "unknown", lastPr |-> "unknown",
               secret |-> FALSE, url |-> "none", progress |-> "none", stuck |-> FALSE]
        BY UnreadFields
      <3> DEFINE named == [Unread EXCEPT !.stage = "awaiting_repo", !.created = tenant.created,
                                         !.updated = "recent"]
      <3>2. named \in Tenants /\ named.prs = FALSE
        BY <1>1, <3>1, ZenonT(30)
      <3>3. anew = [named EXCEPT !.repo = tenant.repo, !.secret = tenant.secret]
        OBVIOUS
      <3> HIDE DEF named, anew
      <3> QED
        BY <1>1, <3>2, <3>3
    <2>3. again \in Tenants /\ Dated(again)
      BY <1>1
    <2> HIDE DEF anew, again
    <2> QED
      BY <2>1, <2>2, <2>3, BecomesKeeps
  <1> QED
    BY <1>2, <1>3, <1>4, <1>5

\* A poll that reads and writes everything puts up what is warranted and takes back
\* every other banner it may.
LEMMA WatchPollKeeps ==
  ASSUME WatchInv, NEW failing, NEW crashed \in BOOLEAN, NEW lost, PollTenant(failing, crashed, lost)
  PROVE  WatchInv'
  <1> DEFINE r == IF crashed THEN Unread ELSE Seen(tenant, failing)
             request == Warranted(r) \ {b \in {"no_cloud_connected"} : crashed}
  <1>1. /\ banners' = (banners \ (Cleared(r, crashed) \ lost)) \union (request \ lost)
        /\ current' = (failing = {} /\ ~crashed /\ lost = {})
        /\ UNCHANGED tenant
    BY DEF PollTenant
  <1>2. Warranted(r) \subseteq Banner
    BY DEF Warranted
  <1>3. banners' \subseteq Banner
    BY <1>1, <1>2 DEF WatchInv
  <1>4. ASSUME current' PROVE banners' \ {"no_cloud_connected"} = Warranted(tenant) \ {"no_cloud_connected"}
    <2>1. Seen(tenant, {}) = tenant
      BY DEF Seen, WatchInv, Tenants
    <2>2. failing = {} /\ ~crashed /\ lost = {}
      BY <1>1, <1>4
    <2>3. r = tenant /\ banners' = (banners \ Cleared(r, crashed)) \union Warranted(r)
      BY <1>1, <2>1, <2>2
    <2>4. banners \ {"no_cloud_connected"} \subseteq Cleared(r, crashed)
      BY DEF WatchInv, Banner, Cleared
    <2> QED
      BY <2>3, <2>4
  <1> HIDE DEF r
  <1>5. UNCHANGED Warranted(tenant)
    BY <1>1 DEF Warranted, Provisioned, SinceUpdate
  <1> QED
    BY <1>1, <1>3, <1>4, <1>5 DEF WatchInv, BannersSettle, Dated

LEMMA WatchStep == WatchInv /\ [WatchNext]_watchVars => WatchInv'
  <1> SUFFICES ASSUME WatchInv, [WatchNext]_watchVars PROVE WatchInv'
    OBVIOUS
  <1>1. CASE UNCHANGED watchVars
    BY <1>1 DEF watchVars, WatchInv, Dated, BannersSettle, Warranted, Provisioned, SinceUpdate
  <1> QED
    BY <1>1, StageMoves, WorkMoves, OtherMoves, WatchPollKeeps DEF WatchNext

\* Whatever the stage, a tenant that stands still is some detector's finding.
LEMMA EveryStallIsFound ==
  ASSUME tenant \in Tenants, Dated(tenant) PROVE NoStallUnseen
  <1> SUFFICES ASSUME Stuck(tenant),
                      ~(tenant.stage \in {"brief_pending", "brief_pending_approval"} /\ tenant.prs)
               PROVE  LifecycleFindings(tenant) # {} \/ OnboardingStalled(tenant)
    BY DEF NoStallUnseen
  <1>1. /\ tenant.created = "old" /\ tenant.updated = "old"
        /\ tenant.work # "recent" /\ tenant.lastPr # "recent"
    BY DEF Stuck, Tenants, Ages
  <1>2. CASE tenant.stage \in NotSignedUp
    <2>1. "signup_stalled" \in LifecycleFindings(tenant)
      BY <1>1, <1>2, Zenon DEF LifecycleFindings, NotSignedUp
    <2> QED
      BY <2>1
  <1>3. CASE tenant.stage \in IngestionStages
    <2>1. "ingestion_stuck" \in LifecycleFindings(tenant)
      BY <1>1, <1>3 DEF LifecycleFindings, SinceUpdate
    <2> QED
      BY <2>1
  <1>4. CASE tenant.stage \in {"brief_pending", "brief_pending_approval"}
    <2>1. "first_pr" \in StagesPending(tenant)
      BY <1>4 DEF StagesPending
    <2>2. FunnelAge(tenant) = "old"
      BY <1>1 DEF FunnelAge, Tenants, Ages
    <2> QED
      BY <2>1, <2>2 DEF OnboardingStalled
  <1>5. CASE tenant.stage \in ApprovedStages
    <2>1. CASE tenant.prs
      <3>1. "pr_review_stalled" \in LifecycleFindings(tenant)
        BY <1>1, <2>1 DEF LifecycleFindings, Dated, Tenants, Ages
      <3> QED
        BY <3>1
    <2>2. CASE ~tenant.prs
      <3>1. "no_prs_after_approval" \in LifecycleFindings(tenant)
        BY <1>1, <1>5, <2>2 DEF LifecycleFindings
      <3> QED
        BY <3>1
    <2> QED
      BY <2>1, <2>2
  <1> QED
    BY <1>2, <1>3, <1>4, <1>5
       DEF Tenants, Stages, BriefStages

LEMMA WatchShows == WatchInv => NoStallUnseen /\ BannersSettle
  BY EveryStallIsFound DEF WatchInv

\* A tenant that stands still is found by one of those that look, and a banner
\* follows what the next complete poll reads (tenant_health, consistency_auditor,
\* onboarding_monitor, lifecycle_watchdog).
THEOREM StallsAreSeen == WatchSpec => [](NoStallUnseen /\ BannersSettle)
  BY WatchShows, WatchStart, WatchStep, PTL DEF WatchSpec

-----------------------------------------------------------------------------
(* Alerts *)

AlertTypes ==
    /\ window \in [Key -> 0..Cooldown]
    /\ told \in [Key -> [age : 0..Long, close : 0..1]]
    /\ standing \in [Key -> 0..Long]
    /\ polled \subseteq Key

\* While a window runs, either the message that opened it arrived, or that send
\* failed and the condition stands no longer than the window; what was polled in this
\* tick was told of within a window, or does not stand for one yet; and a message of
\* this process within the last window is why the window of its key still runs.
ToldInTime(k) ==
    /\ window[k] < Cooldown => told[k].age <= window[k] \/ standing[k] <= window[k]
    /\ k \in polled => told[k].age < Cooldown \/ standing[k] < Cooldown
    /\ standing[k] > Cooldown => told[k].age <= Cooldown
    /\ told[k].close = 1 /\ told[k].age < Cooldown => window[k] <= told[k].age

AlertInv == AlertTypes /\ \A k \in Key : ToldInTime(k)

LEMMA AlertStart == AlertInit => AlertInv
  BY AlertAssumption DEF AlertInit, AlertInv, AlertTypes, ToldInTime, Long

\* What a poll does to a key: nothing, or it takes the key for one that does not
\* stand, or hears it within its window, or sends it, or loses the message it sends.
LEMMA PollOfKey ==
  ASSUME AlertTypes, NEW s \in Source, Poll(s), NEW k \in Key
  PROVE  \/ /\ window'[k] = window[k] /\ told'[k] = told[k] /\ standing'[k] = standing[k]
            /\ k \in polled' <=> k \in polled
         \/ /\ window'[k] = window[k] /\ told'[k] = told[k] /\ standing'[k] = 0 /\ k \notin polled'
         \/ /\ window[k] < Cooldown /\ window'[k] = window[k] /\ told'[k] = told[k]
            /\ standing'[k] = standing[k]
         \/ /\ window[k] >= Cooldown /\ window'[k] = 0 /\ told'[k] = Delivered(told[k])
            /\ standing'[k] = standing[k]
         \/ /\ window[k] >= Cooldown /\ window'[k] = 0 /\ told'[k] = told[k]
            /\ standing'[k] = 0 /\ k \notin polled'
  <1>1. PICK action \in AlertAction, sure, dangerous, chain, up \in BOOLEAN :
          LET key == <<s, action>>
              heard == Worthy(s, action, sure, dangerous) /\ ~chain
              others == {j \in Key : j[1] = s /\ (j # key \/ ~heard)}
              lost == {j \in {key} : heard /\ MayFire(key) /\ ~up}
          IN  /\ window' = IF heard THEN Windows(key) ELSE window
              /\ told' = IF heard /\ MayFire(key) /\ up
                         THEN [told EXCEPT ![key] = Delivered(@)] ELSE told
              /\ standing' = [j \in Key |-> IF j \in others \cup lost THEN 0 ELSE standing[j]]
              /\ polled' = (polled \ (others \cup lost)) \cup ({j \in {key} : heard} \ lost)
    BY Zenon DEF Poll
  <1> DEFINE key == <<s, action>>
             heard == Worthy(s, action, sure, dangerous) /\ ~chain
             others == {j \in Key : j[1] = s /\ (j # key \/ ~heard)}
             lost == {j \in {key} : heard /\ MayFire(key) /\ ~up}
  <1>2. /\ window' = IF heard THEN Windows(key) ELSE window
        /\ told' = IF heard /\ MayFire(key) /\ up
                   THEN [told EXCEPT ![key] = Delivered(@)] ELSE told
        /\ standing' = [j \in Key |-> IF j \in others \cup lost THEN 0 ELSE standing[j]]
        /\ polled' = (polled \ (others \cup lost)) \cup ({j \in {key} : heard} \ lost)
    BY <1>1
  <1>3. key \in Key
    BY DEF Key
  <1>4. Windows(key)[k] = IF MayFire(key) /\ k = key THEN 0 ELSE window[k]
    BY <1>3 DEF Windows, AlertTypes
  <1>5. MayFire(key) <=> window[key] >= Cooldown
    BY DEF MayFire
  <1> HIDE DEF key, heard
  <1>6. CASE ~heard
    <2>1. window'[k] = window[k] /\ told'[k] = told[k]
      BY <1>2, <1>6
    <2>2. lost = {} /\ {j \in {key} : heard} = {}
      BY <1>6
    <2>3. CASE k \in others
      BY <1>2, <2>1, <2>2, <2>3
    <2>4. CASE k \notin others
      BY <1>2, <2>1, <2>2, <2>4
    <2> QED
      BY <2>3, <2>4
  <1>7. CASE heard /\ k # key
    <2>1. window'[k] = window[k] /\ told'[k] = told[k]
      BY <1>2, <1>4, <1>7 DEF AlertTypes
    <2>2. k \notin lost /\ k \notin {j \in {key} : heard}
      BY <1>7
    <2>3. CASE k \in others
      BY <1>2, <2>1, <2>2, <2>3
    <2>4. CASE k \notin others
      BY <1>2, <2>1, <2>2, <2>4
    <2> QED
      BY <2>3, <2>4
  <1>8. CASE heard /\ k = key
    <2>1. k \notin others
      BY <1>8
    <2>2. CASE ~MayFire(key)
      <3>1. window[k] < Cooldown
        BY <1>5, <1>8, <2>2, AlertAssumption DEF AlertTypes
      <3>2. window'[k] = window[k] /\ told'[k] = told[k]
        BY <1>2, <1>4, <1>8, <2>2
      <3>3. standing'[k] = standing[k]
        BY <1>2, <2>1, <2>2
      <3> QED
        BY <3>1, <3>2, <3>3
    <2>3. CASE MayFire(key) /\ up
      <3>1. window[k] >= Cooldown /\ window'[k] = 0
        BY <1>2, <1>4, <1>5, <1>8, <2>3
      <3>2. told'[k] = Delivered(told[k])
        BY <1>2, <1>3, <1>8, <2>3 DEF AlertTypes
      <3>3. standing'[k] = standing[k]
        BY <1>2, <2>1, <2>3
      <3> QED
        BY <3>1, <3>2, <3>3
    <2>4. CASE MayFire(key) /\ ~up
      <3>1. window[k] >= Cooldown /\ window'[k] = 0
        BY <1>2, <1>4, <1>5, <1>8, <2>4
      <3>2. told'[k] = told[k]
        BY <1>2, <2>4
      <3>3. k \in lost
        BY <1>8, <2>4
      <3>4. standing'[k] = 0 /\ k \notin polled'
        BY <1>2, <3>3
      <3> QED
        BY <3>1, <3>2, <3>4
    <2> QED
      BY <2>2, <2>3, <2>4
  <1> QED
    BY <1>6, <1>7, <1>8

LEMMA AlertPollKeeps == ASSUME AlertInv, NEW s \in Source, Poll(s) PROVE AlertInv'
  <1>1. AlertTypes
    BY DEF AlertInv
  <1>2. PICK action \in AlertAction :
          /\ window' \in {window, Windows(<<s, action>>)}
          /\ told' \in {told, [told EXCEPT ![<<s, action>>] = Delivered(@)]}
          /\ polled' \subseteq polled \cup {<<s, action>>}
    BY DEF Poll
  <1>3. <<s, action>> \in Key
    BY DEF Key
  <1>4. DOMAIN window' = Key /\ window' = [k \in Key |-> window'[k]]
    BY <1>1, <1>2 DEF AlertTypes, Windows
  <1>5. DOMAIN told' = Key /\ told' = [k \in Key |-> told'[k]]
    BY <1>1, <1>2 DEF AlertTypes
  <1>6. polled' \subseteq Key
    BY <1>1, <1>2, <1>3 DEF AlertTypes
  <1>7. standing' = [k \in Key |-> standing'[k]]
    BY DEF Poll
  <1>8. ASSUME NEW k \in Key
        PROVE  /\ window'[k] \in 0..Cooldown /\ told'[k] \in [age : 0..Long, close : 0..1]
               /\ standing'[k] \in 0..Long /\ ToldInTime(k)'
    <2>1. /\ window[k] \in 0..Cooldown /\ standing[k] \in 0..Long
          /\ told[k] \in [age : 0..Long, close : 0..1]
      BY <1>1 DEF AlertTypes
    <2>2. ToldInTime(k)
      BY DEF AlertInv
    <2>3. window[k] >= Cooldown => Delivered(told[k]) = [age |-> 0, close |-> 1]
      BY <2>1, <2>2, AlertAssumption DEF ToldInTime, Delivered
    <2> QED
      BY <1>1, <2>1, <2>2, <2>3, PollOfKey, AlertAssumption DEF ToldInTime, Long
  <1> QED
    BY <1>4, <1>5, <1>6, <1>7, <1>8 DEF AlertInv, AlertTypes

LEMMA AlertStep == AlertInv /\ [AlertNext]_alertVars => AlertInv'
  <1> SUFFICES ASSUME AlertInv, [AlertNext]_alertVars PROVE AlertInv'
    OBVIOUS
  <1>1. CASE AlertTick
    BY <1>1, AlertAssumption DEF AlertTick, AlertInv, AlertTypes, ToldInTime, Long
  <1>2. CASE AlertRestart
    BY <1>2, AlertAssumption DEF AlertRestart, AlertInv, AlertTypes, ToldInTime, Long
  <1>3. CASE UNCHANGED alertVars
    BY <1>3 DEF alertVars, AlertInv, AlertTypes, ToldInTime
  <1> QED
    BY <1>1, <1>2, <1>3, AlertPollKeeps DEF AlertNext

LEMMA AlertShows == AlertInv => StandingIsTold /\ NoFlood
  BY DEF AlertInv, AlertTypes, ToldInTime, StandingIsTold, NoFlood

\* A condition that goes on standing is told of to the phone, again in every window,
\* for every set of sources and every window (_should_fire, maybe_alert).
THEOREM StandingReachesThePhone == AlertSpec => []StandingIsTold
  BY AlertShows, AlertStart, AlertStep, PTL DEF AlertSpec

\* One process sends a key at most one message in a window, however often it is
\* polled and however the decisions change (_should_fire, maybe_alert).
THEOREM NoKeyFloods == AlertSpec => []NoFlood
  BY AlertShows, AlertStart, AlertStep, PTL DEF AlertSpec

-----------------------------------------------------------------------------
(* Findings *)

\* What the cycle before found is open in the registry, which is why it is told as
\* resolved when it is gone.
FindingsInv ==
    /\ registry \in [Finding -> {"absent", "open", "resolved"}]
    /\ lastCycle \subseteq Finding
    /\ \A f \in lastCycle : registry[f] = "open"
    /\ ReaderIsRight

LEMMA FindingsStart == FindingsInit => FindingsInv
  BY DEF FindingsInit, FindingsInv, ReaderIsRight

LEMMA ClassifyKeeps ==
  ASSUME FindingsInv, NEW found \in SUBSET Finding, Classify(found) PROVE FindingsInv'
  <1> DEFINE resolved == Gone(found, Entered(found))
  <1>1. resolved = lastCycle \ found
    BY DEF Gone, Entered, FindingsInv
  <1>2. /\ registry' = [f \in Finding |-> IF f \in resolved THEN "resolved" ELSE Entered(found)[f]]
        /\ lastCycle' = found
        /\ reader' = [f \in Finding |->
               CASE f \in found -> "open" [] f \in resolved -> "closed" [] OTHER -> reader[f]]
    BY DEF Classify
  <1>3. \A f \in found : registry'[f] = "open" /\ reader'[f] = "open"
    BY <1>1, <1>2 DEF Entered
  <1>4. \A f \in Finding \ found : reader'[f] # "open"
    <2>1. ASSUME NEW f \in Finding \ found, f \in lastCycle PROVE reader'[f] # "open"
      BY <1>1, <1>2, <2>1
    <2>2. ASSUME NEW f \in Finding \ found, f \notin lastCycle PROVE reader'[f] # "open"
      <3>1. reader'[f] = reader[f]
        BY <1>1, <1>2, <2>2
      <3> QED
        BY <2>2, <3>1 DEF FindingsInv, ReaderIsRight
    <2> QED
      BY <2>1, <2>2
  <1>5. registry' \in [Finding -> {"absent", "open", "resolved"}]
    BY <1>2 DEF Entered, FindingsInv
  <1> QED
    BY <1>2, <1>3, <1>4, <1>5 DEF FindingsInv, ReaderIsRight

LEMMA FindingsStep == FindingsInv /\ [FindingsNext]_findingVars => FindingsInv'
  <1> SUFFICES ASSUME FindingsInv, [FindingsNext]_findingVars PROVE FindingsInv'
    OBVIOUS
  <1>1. CASE FindingsRestart
    BY <1>1 DEF FindingsRestart, FindingsInv, ReaderIsRight
  <1>2. CASE UNCHANGED findingVars
    BY <1>2 DEF findingVars, FindingsInv, ReaderIsRight
  <1> QED
    BY <1>1, <1>2, ClassifyKeeps DEF FindingsNext

\* ReaderIsRight, for every set of findings (track_and_classify).
THEOREM ReaderKnows == FindingsSpec => []ReaderIsRight
  <1>1. FindingsInv => ReaderIsRight
    BY DEF FindingsInv
  <1> QED
    BY <1>1, FindingsStart, FindingsStep, PTL DEF FindingsSpec

-----------------------------------------------------------------------------
(* The holograph *)

FeatureNodes == [version : Version, signals : SUBSET Signal, dependsOn : SUBSET Resource]

HolographTypes ==
    /\ \E n \in Nat : featureNode \in [1..n -> FeatureNodes]
    /\ bootstrap \in [Bootstrap -> [looked : BOOLEAN, found : {0} \union DOMAIN featureNode]]
    /\ graphFailed \in BOOLEAN

\* While the graph answers, a feature of one node has the edges that were declared,
\* and one of no node has none and was never reported green.
EdgesAreDeclared ==
    ~graphFailed =>
        /\ DOMAIN featureNode = {1} => declared = featureNode[1].dependsOn
        /\ DOMAIN featureNode = {} => declared = {}

GreenOfOneNode ==
    /\ DOMAIN featureNode = {} => holograph.said # "green"
    /\ holograph.said = "green" /\ ~graphFailed /\ DOMAIN featureNode = {1} => holograph.was = {"green"}

HolographInv == HolographTypes /\ EdgesAreDeclared /\ GreenOfOneNode

LEMMA HolographStart == HolographInit => HolographInv
  <1> SUFFICES ASSUME HolographInit PROVE HolographInv
    OBVIOUS
  <1>1. /\ featureNode = <<>> /\ graphFailed = FALSE /\ declared = {}
        /\ bootstrap = [b \in Bootstrap |-> NotWriting] /\ holograph.said = "none"
    BY Zenon DEF HolographInit
  <1>2. featureNode \in [1..0 -> FeatureNodes] /\ DOMAIN featureNode = {}
    BY <1>1
  <1>3. HolographTypes
    BY <1>1, <1>2 DEF HolographTypes, NotWriting
  <1> QED
    BY <1>1, <1>2, <1>3 DEF HolographInv, EdgesAreDeclared, GreenOfOneNode

\* The feature has one node when its nodes are counted as one.
LEMMA NodesAreCounted ==
  ASSUME NEW n \in Nat, featureNode \in [1..n -> FeatureNodes]
  PROVE  /\ Cardinality(DOMAIN featureNode) = n
         /\ n = 0 <=> DOMAIN featureNode = {}
         /\ n = 1 <=> DOMAIN featureNode = {1}
  <1>1. DOMAIN featureNode = 1..n
    OBVIOUS
  <1>2. Cardinality(1..n) = n
    <2>1. Cardinality(1..n) = IF 1 > n THEN 0 ELSE n - 1 + 1
      BY FS_Interval
    <2> QED
      BY <2>1
  <1>3. n = 0 <=> 1..n = {}
    <2>1. n # 0 => 1 \in 1..n
      OBVIOUS
    <2> QED
      BY <2>1
  <1>4. n = 1 <=> 1..n = {1}
    <2>1. n > 1 => 2 \in 1..n
      OBVIOUS
    <2>2. n < 1 => 1..n = {}
      OBVIOUS
    <2>3. n = 1 => 1..n = {1}
      OBVIOUS
    <2> QED
      BY <2>1, <2>2, <2>3
  <1> QED
    BY <1>1, <1>2, <1>3, <1>4

LEMMA NodesFound ==
  /\ FoundNodes \subseteq DOMAIN featureNode
  /\ \A f \in FindNode :
        /\ f.node \in {0} \union FoundNodes /\ f.failed \in BOOLEAN
        /\ ~f.failed /\ FoundNodes # {} => f.node \in FoundNodes
  <1>1. FoundNodes \subseteq DOMAIN featureNode
    BY DEF FoundNodes
  <1>2. ASSUME NEW f \in FindNode
        PROVE  \/ f = [node |-> 0, failed |-> TRUE]
               \/ FoundNodes = {} /\ f = [node |-> 0, failed |-> FALSE]
               \/ \E n \in FoundNodes : f = [node |-> n, failed |-> FALSE]
    <2>1. CASE FoundNodes = {}
      BY <2>1 DEF FindNode
    <2>2. CASE FoundNodes # {}
      BY <2>2 DEF FindNode
    <2> QED
      BY <2>1, <2>2
  <1>3. ASSUME NEW f \in FindNode
        PROVE  /\ f.node \in {0} \union FoundNodes /\ f.failed \in BOOLEAN
               /\ ~f.failed /\ FoundNodes # {} => f.node \in FoundNodes
    <2>1. CASE f = [node |-> 0, failed |-> TRUE]
      BY <2>1
    <2>2. CASE FoundNodes = {} /\ f = [node |-> 0, failed |-> FALSE]
      BY <2>2
    <2>3. CASE \E n \in FoundNodes : f = [node |-> n, failed |-> FALSE]
      BY <2>3
    <2> QED
      BY <1>2, <2>1, <2>2, <2>3
  <1> QED
    BY <1>1, <1>3

Colours == {"green", "amber", "red", "unknown"}

LEMMA InputsAreColours ==
  ASSUME NEW n, NEW edges, NEW downChecks, NEW downSources
  PROVE  InputStatuses(n, edges, downChecks, downSources) \subseteq Colours
  <1>1. ASSUME NEW label, NEW state PROVE CheckStatus(label, state) \in Colours
    <2>1. EcsStatus(state) \in Colours
      BY DEF EcsStatus, Colours
    <2> QED
      BY <2>1 DEF CheckStatus, Colours
  <1>2. ASSUME NEW s, NEW value PROVE StatusFor(s, value) \in Colours
    BY DEF StatusFor, Colours
  <1>3. "unknown" \in Colours
    BY DEF Colours
  <1> QED
    BY <1>1, <1>2, <1>3 DEF InputStatuses

\* What a green report weighed was all there was to weigh: a check that failed would
\* have been unknown.
LEMMA GreenWeighsAll ==
  ASSUME NEW n, NEW downChecks, NEW downSources,
         OverallStatus(InputStatuses(n, declared, downChecks, downSources)) = "green"
  PROVE  Truth(n) = {"green"}
  <1> DEFINE inputs == InputStatuses(n, declared, downChecks, downSources)
  <1>1. inputs # {} /\ "red" \notin inputs /\ "amber" \notin inputs /\ "unknown" \notin inputs
    BY DEF OverallStatus
  <1>2. inputs \subseteq Colours
    BY InputsAreColours
  <1>3. inputs = {"green"}
    BY <1>1, <1>2 DEF Colours
  <1>4. \A r \in declared : r \notin downChecks
    BY <1>1 DEF InputStatuses
  <1>5. \A s \in featureNode[n].signals : s \notin downSources
    BY <1>1 DEF InputStatuses
  <1>6. Truth(n) = inputs
    BY <1>4, <1>5 DEF Truth, InputStatuses
  <1> QED
    BY <1>3, <1>6

LEMMA LooksKeeps == ASSUME HolographInv, NEW b \in Bootstrap, LooksForNode(b) PROVE HolographInv'
  <1>1. PICK found \in FindNode :
          /\ bootstrap' = [bootstrap EXCEPT ![b] = [looked |-> TRUE, found |-> found.node]]
          /\ graphFailed' = (graphFailed \/ found.failed)
    BY DEF LooksForNode
  <1>2. UNCHANGED <<featureNode, declared, holograph>>
    BY DEF LooksForNode
  <1>3. found.node \in {0} \union DOMAIN featureNode /\ found.failed \in BOOLEAN
    BY NodesFound
  <1>4. HolographTypes'
    BY <1>1, <1>2, <1>3 DEF HolographInv, HolographTypes
  <1> QED
    BY <1>1, <1>2, <1>4 DEF HolographInv, EdgesAreDeclared, GreenOfOneNode

LEMMA WriteKeeps == ASSUME HolographInv, NEW b \in Bootstrap, WriteFeature(b) PROVE HolographInv'
  <1> DEFINE at == bootstrap[b].found
  <1>1. PICK n \in Nat : featureNode \in [1..n -> FeatureNodes]
    BY DEF HolographInv, HolographTypes
  <1>2. /\ Cardinality(DOMAIN featureNode) = n /\ DOMAIN featureNode = 1..n
        /\ n = 0 <=> DOMAIN featureNode = {}
        /\ n = 1 <=> DOMAIN featureNode = {1}
    BY <1>1, NodesAreCounted
  <1>3. bootstrap' = [bootstrap EXCEPT ![b] = NotWriting] /\ UNCHANGED <<declared, holograph>>
    BY DEF WriteFeature
  <1>4. bootstrap \in [Bootstrap -> [looked : BOOLEAN, found : {0} \union (1..n)]] /\ graphFailed \in BOOLEAN
    BY <1>2 DEF HolographInv, HolographTypes
  <1>5. NotWriting \in [looked : BOOLEAN, found : {0}]
    BY DEF NotWriting
  <1>6. ASSUME UNCHANGED featureNode, graphFailed' = TRUE PROVE HolographInv'
    <2>1. bootstrap' \in [Bootstrap -> [looked : BOOLEAN, found : {0} \union (1..n)]]
      BY <1>3, <1>4, <1>5
    <2>2. HolographTypes'
      BY <1>1, <1>2, <1>6, <2>1 DEF HolographTypes
    <2> QED
      BY <1>3, <1>6, <2>2 DEF HolographInv, EdgesAreDeclared, GreenOfOneNode
  <1>7. ASSUME NEW signals \in SUBSET Signal, NEW version \in Version, at # 0,
               featureNode' = [featureNode EXCEPT ![at].version = version, ![at].signals = signals],
               UNCHANGED graphFailed
        PROVE  HolographInv'
    <2>1. at \in 1..n
      BY <1>4, <1>7
    <2>2. featureNode' \in [1..n -> FeatureNodes] /\ DOMAIN featureNode' = 1..n
      BY <1>1, <1>7, <2>1 DEF FeatureNodes
    <2>3. \A m \in 1..n : featureNode'[m].dependsOn = featureNode[m].dependsOn
      BY <1>1, <1>7, <2>1 DEF FeatureNodes
    <2>4. bootstrap' \in [Bootstrap -> [looked : BOOLEAN, found : {0} \union (1..n)]]
      BY <1>3, <1>4, <1>5
    <2>5. HolographTypes'
      BY <1>4, <1>7, <2>2, <2>4 DEF HolographTypes
    <2> QED
      BY <1>2, <1>3, <1>7, <2>2, <2>3, <2>5 DEF HolographInv, EdgesAreDeclared, GreenOfOneNode
  <1>8. ASSUME NEW signals \in SUBSET Signal, NEW version \in Version,
               featureNode' = [m \in 1..(n + 1) |->
                  IF m \in DOMAIN featureNode THEN featureNode[m]
                  ELSE [version |-> version, signals |-> signals, dependsOn |-> {}]],
               UNCHANGED graphFailed
        PROVE  HolographInv'
    <2>1. featureNode' \in [1..(n + 1) -> FeatureNodes] /\ DOMAIN featureNode' = 1..(n + 1)
      BY <1>1, <1>2, <1>8 DEF FeatureNodes
    <2>2. bootstrap' \in [Bootstrap -> [looked : BOOLEAN, found : {0} \union (1..(n + 1))]]
      BY <1>3, <1>4, <1>5
    <2>3. HolographTypes'
      BY <1>4, <1>8, <2>1, <2>2, n + 1 \in Nat DEF HolographTypes
    <2>4. DOMAIN featureNode' # {}
      <3>1. 1 \in 1..(n + 1)
        OBVIOUS
      <3> QED
        BY <2>1, <3>1
    <2>5. ASSUME DOMAIN featureNode' = {1} PROVE n = 0 /\ featureNode'[1].dependsOn = {}
      <3>1. n = 0
        <4>1. 1..(n + 1) = {1}
          BY <2>1, <2>5
        <4>2. n + 1 \in 1..(n + 1)
          OBVIOUS
        <4> QED
          BY <4>1, <4>2
      <3> QED
        BY <1>2, <1>8, <3>1
    <2>6. DOMAIN featureNode' = {1} => DOMAIN featureNode = {}
      BY <1>2, <2>5
    <2> QED
      BY <1>3, <1>8, <2>3, <2>4, <2>5, <2>6 DEF HolographInv, EdgesAreDeclared, GreenOfOneNode
  <1> QED
    <2>1. CASE UNCHANGED featureNode /\ graphFailed' = TRUE
      BY <1>6, <2>1
    <2>2. ASSUME NEW signals \in SUBSET Signal, NEW version \in Version, UNCHANGED graphFailed,
                 at # 0,
                 featureNode' = [featureNode EXCEPT ![at].version = version, ![at].signals = signals]
          PROVE  HolographInv'
      BY <1>7, <2>2
    <2>3. ASSUME NEW signals \in SUBSET Signal, NEW version \in Version, UNCHANGED graphFailed,
                 featureNode' = [m \in 1..(Cardinality(DOMAIN featureNode) + 1) |->
                    IF m \in DOMAIN featureNode THEN featureNode[m]
                    ELSE [version |-> version, signals |-> signals, dependsOn |-> {}]]
          PROVE  HolographInv'
      BY <1>2, <1>8, <2>3
    <2> QED
      BY <2>1, <2>2, <2>3, Zenon DEF WriteFeature

LEMMA AddKeeps == ASSUME HolographInv, NEW r \in Resource, AddDependency(r) PROVE HolographInv'
  <1>1. PICK n \in Nat : featureNode \in [1..n -> FeatureNodes]
    BY DEF HolographInv, HolographTypes
  <1>2. PICK m \in FoundNodes :
          \/ /\ featureNode' = [featureNode EXCEPT ![m].dependsOn = @ \union {r}]
             /\ UNCHANGED graphFailed
          \/ UNCHANGED featureNode /\ graphFailed' = TRUE
    BY DEF AddDependency
  <1>3. declared' = declared \union {r} /\ UNCHANGED <<bootstrap, holograph>>
    BY DEF AddDependency
  <1>4. m \in DOMAIN featureNode
    BY NodesFound
  <1>5. CASE UNCHANGED featureNode /\ graphFailed' = TRUE
    <2>1. HolographTypes'
      BY <1>3, <1>5 DEF HolographInv, HolographTypes
    <2> QED
      BY <1>3, <1>4, <1>5, <2>1 DEF HolographInv, EdgesAreDeclared, GreenOfOneNode
  <1>6. CASE /\ featureNode' = [featureNode EXCEPT ![m].dependsOn = @ \union {r}]
             /\ UNCHANGED graphFailed
    <2>1. featureNode' \in [1..n -> FeatureNodes] /\ DOMAIN featureNode' = DOMAIN featureNode
      BY <1>1, <1>4, <1>6 DEF FeatureNodes
    <2>2. HolographTypes'
      BY <1>3, <1>6, <2>1 DEF HolographInv, HolographTypes
    <2>3. ASSUME DOMAIN featureNode = {1}
          PROVE  featureNode'[1].dependsOn = featureNode[1].dependsOn \union {r}
      BY <1>1, <1>4, <1>6, <2>3 DEF FeatureNodes
    <2> QED
      BY <1>3, <1>4, <1>6, <2>1, <2>2, <2>3 DEF HolographInv, EdgesAreDeclared, GreenOfOneNode
  <1> QED
    BY <1>2, <1>5, <1>6

LEMMA HolographReadKeeps == ASSUME HolographInv, ReadHolograph PROVE HolographInv'
  <1>1. PICK feature \in FindNode, walked \in FindNode,
             downChecks \in SUBSET Resource, downSources \in SUBSET Signal :
          /\ holograph' =
               IF feature.node = 0 THEN [said |-> "unknown", was |-> {}]
               ELSE LET edges == IF walked.node = 0 THEN {} ELSE featureNode[walked.node].dependsOn
                        inputs == InputStatuses(feature.node, edges, downChecks, downSources)
                    IN  [said |-> OverallStatus(inputs),
                         was  |-> IF OverallStatus(inputs) = "green" THEN Truth(feature.node) ELSE {}]
          /\ graphFailed' = (graphFailed \/ feature.failed \/ walked.failed)
    BY Zenon DEF ReadHolograph
  <1>2. UNCHANGED <<featureNode, bootstrap, declared>>
    BY DEF ReadHolograph
  <1>3. HolographTypes'
    BY <1>1, <1>2, NodesFound DEF HolographInv, HolographTypes
  <1>4. EdgesAreDeclared'
    BY <1>1, <1>2 DEF HolographInv, EdgesAreDeclared
  <1>5. ASSUME DOMAIN featureNode = {} PROVE holograph'.said # "green"
    BY <1>1, <1>5, NodesFound
  <1>6. ASSUME ~graphFailed', DOMAIN featureNode = {1}, holograph'.said = "green"
        PROVE  holograph'.was = {"green"}
    <2>1. ~graphFailed /\ ~feature.failed /\ ~walked.failed
      BY <1>1, <1>6
    <2>2. feature.node # 0
      BY <1>1, <1>6
    <2>3. feature.node = 1 /\ walked.node = 1
      BY <1>6, <2>1, <2>2, NodesFound
    <2>4. featureNode[1].dependsOn = declared
      BY <1>6, <2>1 DEF HolographInv, EdgesAreDeclared
    <2> DEFINE inputs == InputStatuses(1, declared, downChecks, downSources)
    <2>5. /\ holograph'.said = OverallStatus(inputs)
          /\ OverallStatus(inputs) = "green" => holograph'.was = Truth(1)
      BY <1>1, <2>3, <2>4
    <2> QED
      BY <1>6, <2>5, GreenWeighsAll
  <1> QED
    BY <1>2, <1>3, <1>4, <1>5, <1>6 DEF HolographInv, GreenOfOneNode

LEMMA HolographStep == HolographInv /\ [HolographNext]_holographVars => HolographInv'
  <1> SUFFICES ASSUME HolographInv, [HolographNext]_holographVars PROVE HolographInv'
    OBVIOUS
  <1>1. ASSUME UNCHANGED <<featureNode, bootstrap, declared, holograph, graphFailed>> PROVE HolographInv'
    BY <1>1 DEF HolographInv, HolographTypes, EdgesAreDeclared, GreenOfOneNode
  <1>2. ASSUME NEW r \in Resource, ResourceChanges(r) PROVE HolographInv'
    BY <1>1, <1>2 DEF ResourceChanges
  <1>3. ASSUME NEW s \in Signal, SourceChanges(s) PROVE HolographInv'
    BY <1>1, <1>3 DEF SourceChanges
  <1>4. CASE UNCHANGED holographVars
    BY <1>1, <1>4 DEF holographVars
  <1> QED
    BY <1>2, <1>3, <1>4, LooksKeeps, WriteKeeps, AddKeeps, HolographReadKeeps DEF HolographNext

LEMMA HolographShows == HolographInv => GreenIsEarned
  <1> SUFFICES ASSUME HolographInv, Cardinality(DOMAIN featureNode) = 1
               PROVE  DOMAIN featureNode = {1}
    BY DEF HolographInv, GreenOfOneNode, GreenIsEarned
  <1>1. PICK n \in Nat : featureNode \in [1..n -> FeatureNodes]
    BY DEF HolographInv, HolographTypes
  <1> QED
    BY <1>1, NodesAreCounted

\* A feature reported green had every signal and every resource it declared looked
\* at and found well (compute_feature_health).
THEOREM GreenWasGreen == HolographSpec => []GreenIsEarned
  BY HolographShows, HolographStart, HolographStep, PTL DEF HolographSpec

-----------------------------------------------------------------------------
(* The synthetic journeys *)

Verdict == {"pass", "fail", "skip", "error"}

\* The results so far are what the journeys would say of the world now.
Current(results, w) ==
    \A i \in 1..Len(results) : results[i] \in Verdicts(Order[i], w)

\* The results of the whole suite.
Whole(results) == Len(results) = Len(Order)

\* What a caller has is current when its run began after the world last moved,
\* or when nothing moved for Ttl before it asked and since.
AskedRight(a, q, w) ==
    /\ a.settled => q = Ttl
    /\ a.at = "running" /\ (a.settled \/ a.age < q) => Current(a.results, w)
    /\ a.at \in {"served", "ran"} => Whole(a.results)
    /\ a.at \in {"served", "ran"} /\ a.settled => Current(a.results, w)

AskedType ==
    [at: {"idle", "running", "served", "ran"}, results: Seq(Verdict), age: 0..Ttl,
     settled: BOOLEAN]

TestInv ==
    /\ quiet \in 0..Ttl
    /\ cache \in [results: Seq(Verdict), age: 0..Ttl]
    /\ asked \in [Asker -> AskedType]
    /\ cache.age < Ttl => Whole(cache.results)
    /\ cache.age < quiet => Current(cache.results, world)
    /\ \A c \in Asker : AskedRight(asked[c], quiet, world)

LEMMA VerdictsOf ==
    ASSUME NEW j, NEW w
    PROVE  Verdicts(j, w) \subseteq Verdict
  BY Zenon DEF Verdicts, Verdict, PingVerdicts, CostVerdicts, IntegrityVerdicts

LEMMA TestStart == TestInit => TestInv
  <1> SUFFICES ASSUME TestInit  PROVE TestInv
    OBVIOUS
  <1>1. NoResults \in Seq(Verdict)  BY DEF NoResults
  <1>2. Idle \in AskedType  BY <1>1, TtlAssumption DEF Idle, AskedType
  <1>3. AskedRight(Idle, 0, world)  BY DEF Idle, AskedRight
  <1> QED  BY <1>1, <1>2, <1>3, TtlAssumption DEF TestInit, TestInv

\* One caller's record changes and the world does not.
LEMMA CallerKeeps ==
    ASSUME TestInv, NEW c \in Asker, NEW a \in AskedType, AskedRight(a, quiet, world),
           asked' = [asked EXCEPT ![c] = a], UNCHANGED <<world, quiet, cache>>
    PROVE  TestInv'
  <1>2. asked' \in [Asker -> AskedType]  BY DEF TestInv
  <1>3. \A d \in Asker : AskedRight(asked'[d], quiet', world')
    BY DEF TestInv
  <1> QED  BY <1>2, <1>3 DEF TestInv

LEMMA ServeKeeps ==
    ASSUME TestInv, NEW c \in Asker, ServeCached(c)
    PROVE  TestInv'
  <1> DEFINE a == [at |-> "served", results |-> cache.results, age |-> 0, settled |-> quiet = Ttl]
  <1>1. a \in AskedType  BY TtlAssumption DEF TestInv, AskedType
  <1>2. cache.age < Ttl  BY DEF ServeCached
  <1>3. quiet = Ttl => Current(cache.results, world)  BY <1>2 DEF TestInv
  <1>4. AskedRight(a, quiet, world)  BY <1>2, <1>3 DEF TestInv, AskedRight
  <1>5. asked' = [asked EXCEPT ![c] = a] /\ UNCHANGED <<world, quiet, cache>>
    BY Zenon DEF ServeCached
  <1> HIDE DEF a
  <1> QED  BY <1>1, <1>4, <1>5, CallerKeeps

LEMMA StartKeeps ==
    ASSUME TestInv, NEW c \in Asker, StartRun(c)
    PROVE  TestInv'
  <1> DEFINE a == [at |-> "running", results |-> NoResults, age |-> 0, settled |-> quiet = Ttl]
  <1>1. a \in AskedType  BY TtlAssumption DEF AskedType, NoResults
  <1>2. Current(NoResults, world)  BY DEF Current, NoResults
  <1>3. AskedRight(a, quiet, world)  BY <1>2 DEF AskedRight
  <1>4. asked' = [asked EXCEPT ![c] = a] /\ UNCHANGED <<world, quiet, cache>>
    BY Zenon DEF StartRun
  <1> HIDE DEF a
  <1> QED  BY <1>1, <1>3, <1>4, CallerKeeps

LEMMA JudgeKeeps ==
    ASSUME TestInv, NEW c \in Asker, Judge(c)
    PROVE  TestInv'
  <1>1. asked[c] \in AskedType /\ asked[c].at = "running" /\ AskedRight(asked[c], quiet, world)
    BY DEF Judge, Running, TestInv
  <1> DEFINE old == asked[c].results
  <1>2. PICK status \in Verdicts(Order[Len(old) + 1], world) :
          asked' = [asked EXCEPT ![c].results = Append(asked[c].results, status)]
    BY Zenon DEF Judge
  <1>3. old \in Seq(Verdict) /\ status \in Verdict  BY <1>1, VerdictsOf DEF AskedType
  <1>4. PICK a : a = [asked[c] EXCEPT !.results = Append(old, status)]  OBVIOUS
  <1>5. asked' = [asked EXCEPT ![c] = a]  BY <1>2, <1>4, Zenon
  <1>6. /\ a \in AskedType /\ a.at = "running" /\ a.results = Append(old, status)
        /\ a.age = asked[c].age /\ a.settled = asked[c].settled
    <2>1. Append(old, status) \in Seq(Verdict)  BY <1>3
    <2>2. PICK r : r = Append(old, status)  OBVIOUS
    <2>3. a = [asked[c] EXCEPT !.results = r] /\ r \in Seq(Verdict)  BY <1>4, <2>1, <2>2
    <2>4. a \in AskedType  BY <1>1, <2>3, Zenon DEF AskedType
    <2>5. /\ a.at = asked[c].at /\ a.results = r /\ a.age = asked[c].age
          /\ a.settled = asked[c].settled
      BY <1>1, <2>3 DEF AskedType
    <2> QED  BY <1>1, <2>2, <2>4, <2>5
  <1>7. Current(old, world) => Current(a.results, world)
    <2>1. Len(Append(old, status)) = Len(old) + 1 /\ Append(old, status)[Len(old) + 1] = status
      BY <1>3
    <2>2. \A i \in 1..Len(old) : Append(old, status)[i] = old[i]  BY <1>3
    <2>3. Len(old) \in Nat  BY <1>3
    <2> HIDE DEF old
    <2> QED  BY <2>1, <2>2, <2>3, <1>6 DEF Current
  <1>8. AskedRight(a, quiet, world)  BY <1>1, <1>6, <1>7 DEF AskedRight
  <1> QED  BY <1>5, <1>6, <1>8, CallerKeeps DEF Judge

LEMMA FinishKeeps ==
    ASSUME TestInv, NEW c \in Asker, Finish(c)
    PROVE  TestInv'
  <1>1. /\ asked[c] \in AskedType /\ asked[c].at = "running" /\ AskedRight(asked[c], quiet, world)
        /\ Whole(asked[c].results) /\ UNCHANGED <<world, quiet>>
        /\ cache' = [results |-> asked[c].results, age |-> asked[c].age]
    BY DEF Finish, Running, TestInv, Whole
  <1>2. PICK a : a = [asked[c] EXCEPT !.at = "ran", !.age = 0]  OBVIOUS
  <1>3. asked' = [asked EXCEPT ![c] = a]  BY <1>2, Zenon DEF Finish
  <1>4. /\ a \in AskedType /\ a.at = "ran" /\ a.results = asked[c].results
        /\ a.settled = asked[c].settled
    <2>1. 0 \in 0..Ttl  BY TtlAssumption
    <2>2. a.at = "ran" /\ a.results = asked[c].results /\ a.settled = asked[c].settled
      BY <1>1, <1>2 DEF AskedType
    <2>3. a \in AskedType  BY <1>1, <1>2, <2>1, Zenon DEF AskedType
    <2> QED  BY <2>2, <2>3
  <1>5. AskedRight(a, quiet, world)  BY <1>1, <1>4 DEF AskedRight
  <1>7. asked' \in [Asker -> AskedType] /\ cache' \in [results: Seq(Verdict), age: 0..Ttl]
    BY <1>1, <1>3, <1>4 DEF TestInv, AskedType
  <1>8. \A d \in Asker : AskedRight(asked'[d], quiet', world')
    BY <1>1, <1>3, <1>5 DEF TestInv
  <1>9. cache'.results = asked[c].results /\ cache'.age = asked[c].age  BY <1>1
  <1>10. cache'.age < quiet' => Current(cache'.results, world')  BY <1>1, <1>9 DEF AskedRight
  <1>11. Whole(cache'.results)  BY <1>1, <1>9
  <1> QED  BY <1>1, <1>7, <1>8, <1>10, <1>11 DEF TestInv, Whole

LEMMA MovedKeeps ==
    ASSUME TestInv, NEW w, Moved(w)
    PROVE  TestInv'
  <1>1. quiet' = 0 /\ UNCHANGED cache
        /\ asked' = [c \in Asker |-> [asked[c] EXCEPT !.settled = FALSE]]
    BY Zenon DEF Moved
  <1>2. ASSUME NEW c \in Asker
        PROVE  /\ asked'[c] \in AskedType /\ asked'[c].settled = FALSE /\ asked'[c].at = asked[c].at
               /\ asked'[c].results = asked[c].results /\ asked'[c].age \in 0..Ttl
    <2>1. asked[c] \in AskedType /\ asked'[c] = [asked[c] EXCEPT !.settled = FALSE]
      BY <1>1 DEF TestInv
    <2>2. FALSE \in BOOLEAN  OBVIOUS
    <2> QED  BY <2>1, <2>2 DEF AskedType
  <1>3. asked' \in [Asker -> AskedType]  BY <1>1, <1>2
  <1>4. \A c \in Asker : AskedRight(asked'[c], quiet', world')
    <2> TAKE c \in Asker
    <2>0. asked'[c].age \in 0..Ttl => ~(asked'[c].age < 0)  BY TtlAssumption
    <2>1. ~asked'[c].settled /\ ~(asked'[c].age < 0)  BY <1>2, <2>0, Zenon
    <2>2. asked'[c].at \in {"served", "ran"} => Whole(asked'[c].results)
      BY <1>2 DEF TestInv, AskedRight
    <2> QED  BY <2>1, <2>2, <1>1 DEF AskedRight, Whole
  <1>5. cache.age \in 0..Ttl /\ ~(cache.age < 0)  BY DEF TestInv
  <1> QED  BY <1>1, <1>3, <1>4, <1>5, TtlAssumption DEF TestInv, Whole

LEMMA AgesTick ==
    ASSUME NEW x \in 0..Ttl, NEW y \in 0..Ttl
    PROVE  /\ Aged(x) \in 0..Ttl
           /\ Aged(x) < Aged(y) => x < y
           /\ Aged(x) < Ttl => x < Ttl
           /\ x = Ttl => Aged(x) = Ttl
  BY TtlAssumption DEF Aged

LEMMA TestTickKeeps ==
    ASSUME TestInv, TestTick
    PROVE  TestInv'
  <1>0. world' = world  BY DEF TestTick
  <1>1. /\ quiet' = Aged(quiet) /\ cache' = [cache EXCEPT !.age = Aged(cache.age)]
        /\ asked' = [c \in Asker |->
               IF Running(c) THEN [asked[c] EXCEPT !.age = Aged(asked[c].age)] ELSE asked[c]]
    BY Zenon DEF TestTick
  <1>3. quiet \in 0..Ttl /\ cache.age \in 0..Ttl /\ cache.results \in Seq(Verdict)
    BY DEF TestInv
  <1>4. quiet' \in 0..Ttl /\ (quiet = Ttl => quiet' = Ttl)  BY <1>1, <1>3, AgesTick
  <1>5. cache' \in [results: Seq(Verdict), age: 0..Ttl]
    <2>1. Aged(cache.age) \in 0..Ttl  BY <1>3, AgesTick
    <2> QED  BY <1>1, <2>1 DEF TestInv
  <1>6. cache'.results = cache.results /\ cache'.age = Aged(cache.age)
    BY <1>1 DEF TestInv
  <1>7. /\ cache'.age < Ttl => Whole(cache'.results)
        /\ cache'.age < quiet' => Current(cache'.results, world')
    BY <1>1, <1>3, <1>6, <1>0, AgesTick DEF TestInv
  <1>8. ASSUME NEW c \in Asker
        PROVE  /\ asked'[c] \in AskedType /\ asked'[c].settled = asked[c].settled
               /\ asked'[c].at = asked[c].at /\ asked'[c].results = asked[c].results
               /\ asked[c].at = "running" => asked'[c].age = Aged(asked[c].age)
    <2>1. asked[c] \in AskedType /\ Aged(asked[c].age) \in 0..Ttl
      BY AgesTick DEF TestInv, AskedType
    <2>2. CASE Running(c)
      <3>1. asked'[c] = [asked[c] EXCEPT !.age = Aged(asked[c].age)]  BY <1>1, <2>2
      <3> QED  BY <2>1, <3>1 DEF AskedType
    <2>3. CASE ~Running(c)
      BY <2>1, <2>3, <1>1 DEF Running
    <2> QED  BY <2>2, <2>3
  <1>9. asked' \in [Asker -> AskedType]  BY <1>1, <1>8
  <1>10. \A c \in Asker : AskedRight(asked'[c], quiet', world')
    <2> TAKE c \in Asker
    <2>1. AskedRight(asked[c], quiet, world) /\ asked[c].age \in 0..Ttl  BY DEF TestInv, AskedType
    <2>2. Aged(asked[c].age) < quiet' => asked[c].age < quiet  BY <1>1, <1>3, <2>1, AgesTick
    <2>3. asked'[c].settled => quiet' = Ttl  BY <1>4, <1>8, <2>1 DEF AskedRight
    <2>4. asked'[c].at = "running" /\ (asked'[c].settled \/ asked'[c].age < quiet')
            => Current(asked'[c].results, world')
      BY <1>8, <1>0, <2>1, <2>2 DEF AskedRight
    <2>5. /\ asked'[c].at \in {"served", "ran"} => Whole(asked'[c].results)
          /\ asked'[c].at \in {"served", "ran"} /\ asked'[c].settled => Current(asked'[c].results, world')
      BY <1>8, <1>0, <2>1 DEF AskedRight
    <2> QED  BY <2>3, <2>4, <2>5, Zenon DEF AskedRight
  <1> QED  BY <1>4, <1>5, <1>7, <1>9, <1>10 DEF TestInv, Whole

LEMMA TestStep == TestInv /\ [TestNext]_testVars => TestInv'
  <1> SUFFICES ASSUME TestInv, [TestNext]_testVars  PROVE TestInv'
    OBVIOUS
  <1>1. CASE UNCHANGED testVars
    BY <1>1, Zenon DEF testVars, TestInv, AskedRight, Current, Whole
  <1>2. ASSUME NEW c \in Asker, Remediate(c)  PROVE TestInv'
    BY <1>2, MovedKeeps, Zenon DEF Remediate
  <1>3. CASE WorldMoves
    BY <1>3, MovedKeeps, Zenon DEF WorldMoves
  <1> QED
    BY <1>1, <1>2, <1>3, ServeKeeps, StartKeeps, JudgeKeeps, FinishKeeps, TestTickKeeps, Zenon
       DEF TestNext

LEMMA TestInvServes == TestInv => ServedIsCurrent
  <1> SUFFICES ASSUME TestInv, NEW c \in Asker, asked[c].at \in {"served", "ran"},
                      asked[c].settled, NEW i \in 1..Len(Order)
               PROVE  asked[c].results[i] \in Verdicts(Order[i], world)
    BY DEF ServedIsCurrent
  <1>1. Whole(asked[c].results) /\ Current(asked[c].results, world)  BY DEF TestInv, AskedRight
  <1> QED  BY <1>1 DEF Whole, Current

\* Results served while nothing moved are those of the world as it is, for every
\* suite, any callers and any lifetime of the cache (run_all_journeys, _cache).
THEOREM ServedAsOfNow == TestSpec => []ServedIsCurrent
  BY TestStart, TestStep, TestInvServes, PTL DEF TestSpec

-----------------------------------------------------------------------------
(* Echo's chats *)

Turn == [chat: Chat, role: Role, index: Nat]

ChatState == [at: {"idle", "select", "insert", "prompt", "converse", "answered", "raised", "gone"},
              role: Role, index: Nat, depth: Nat, rounds: Nat]

\* The turns of a chat in a conversation s, and the rounds of tools after one.
Of(s, c, role)   == {k \in DOMAIN s : s[k].chat = c /\ s[k].role = role}
After(s, c, u)   == {k \in Of(s, c, "tool") : s[u].index < s[k].index}
Within(s, c, u, a) ==
    {k \in Of(s, c, "tool") : s[u].index < s[k].index /\ s[k].index < s[a].index}

\* The question is on record, and n rounds of tools after it.
Asked(s, c, n) == \E u \in Of(s, c, "user") : Cardinality(After(s, c, u)) >= n

OnRecord(s, c, n) ==
    \E u \in Of(s, c, "user"), a \in Of(s, c, "assistant") :
        s[u].index < s[a].index /\ Cardinality(Within(s, c, u, a)) >= n

\* What a chat has on record where it is.
ChatRight(s, c, h) ==
    /\ h.at = "insert" => \A k \in DOMAIN s : s[k].chat = c => s[k].index < h.index
    /\ h.at \in {"prompt", "converse"} => Asked(s, c, h.rounds)
    /\ h.at \in {"select", "insert"} =>
          /\ h.role = "user" => h.rounds = 0
          /\ h.role = "tool" => h.rounds > 0 /\ Asked(s, c, h.rounds - 1)
          /\ h.role = "assistant" => Asked(s, c, h.rounds)
    /\ h.at = "answered" => OnRecord(s, c, h.rounds)

HasTop(s) == s = <<>> \/ \E m \in DOMAIN s : \A k \in DOMAIN s : s[k].index <= s[m].index

EchoInv ==
    /\ turn \in Seq(Turn) /\ HasTop(turn)
    /\ chat \in [Chat -> ChatState]
    /\ \A c \in Chat : ChatRight(turn, c, chat[c])

-----------------------------------------------------------------------------
LEMMA AppendedTurn ==
    ASSUME NEW s \in Seq(Turn), NEW t \in Turn, NEW z, z = Append(s, t)
    PROVE  /\ z \in Seq(Turn) /\ Len(s) \in Nat
           /\ DOMAIN s = 1..Len(s) /\ DOMAIN z = 1..(Len(s) + 1)
           /\ z[Len(s) + 1] = t
           /\ \A k \in DOMAIN s : z[k] = s[k]
  OBVIOUS

LEMMA TurnsAreFinite ==
    ASSUME NEW s \in Seq(Turn), NEW T \in SUBSET DOMAIN s
    PROVE  IsFiniteSet(T) /\ Cardinality(T) \in Nat
  <1>1. DOMAIN s = 1..Len(s) /\ Len(s) \in Nat  OBVIOUS
  <1>2. IsFiniteSet(DOMAIN s)  BY <1>1, FS_Interval
  <1> QED  BY <1>2, FS_Subset, FS_CardinalityType

\* A turn more takes nothing off the record.
LEMMA RecordGrows ==
    ASSUME NEW s \in Seq(Turn), NEW t \in Turn, NEW z, z = Append(s, t), NEW c, NEW n \in Nat
    PROVE  /\ Asked(s, c, n) => Asked(z, c, n)
           /\ OnRecord(s, c, n) => OnRecord(z, c, n)
  <1>1. /\ z \in Seq(Turn) /\ DOMAIN s \subseteq DOMAIN z
        /\ \A k \in DOMAIN s : z[k] = s[k]
    BY AppendedTurn
  <1>2. \A role : Of(s, c, role) \subseteq Of(z, c, role)
    BY <1>1, Zenon DEF Of
  <1>3. ASSUME NEW T \in SUBSET DOMAIN s, NEW U \in SUBSET DOMAIN z, T \subseteq U,
               Cardinality(T) >= n
        PROVE  Cardinality(U) >= n
    <2>1. Cardinality(T) \in Nat  BY TurnsAreFinite
    <2>2. IsFiniteSet(U) /\ Cardinality(U) \in Nat  BY <1>1, TurnsAreFinite
    <2>3. Cardinality(T) <= Cardinality(U)  BY <1>3, <2>2, FS_Subset
    <2> QED  BY <1>3, <2>1, <2>2, <2>3
  <1>4. ASSUME Asked(s, c, n)  PROVE Asked(z, c, n)
    <2>1. PICK u \in Of(s, c, "user") : Cardinality(After(s, c, u)) >= n
      BY <1>4, Zenon DEF Asked
    <2>2. u \in DOMAIN s /\ u \in Of(z, c, "user")  BY <1>2 DEF Of
    <2>3. After(s, c, u) \subseteq After(z, c, u)
      BY <1>1, <1>2, <2>2 DEF After, Of
    <2>4. After(s, c, u) \in SUBSET DOMAIN s /\ After(z, c, u) \in SUBSET DOMAIN z
      BY DEF After, Of
    <2>5. Cardinality(After(z, c, u)) >= n  BY <1>3, <2>1, <2>3, <2>4
    <2> QED  BY <2>2, <2>5, Zenon DEF Asked
  <1>5. ASSUME OnRecord(s, c, n)  PROVE OnRecord(z, c, n)
    <2>1. PICK u \in Of(s, c, "user"), a \in Of(s, c, "assistant") :
             s[u].index < s[a].index /\ Cardinality(Within(s, c, u, a)) >= n
      BY <1>5, Zenon DEF OnRecord
    <2>2. u \in DOMAIN s /\ a \in DOMAIN s /\ u \in Of(z, c, "user") /\ a \in Of(z, c, "assistant")
      BY <1>2 DEF Of
    <2>3. Within(s, c, u, a) \subseteq Within(z, c, u, a)
      BY <1>1, <1>2, <2>2 DEF Within, Of
    <2>4. Within(s, c, u, a) \in SUBSET DOMAIN s /\ Within(z, c, u, a) \in SUBSET DOMAIN z
      BY DEF Within, Of
    <2>5. Cardinality(Within(z, c, u, a)) >= n  BY <1>3, <2>1, <2>3, <2>4
    <2>6. z[u].index < z[a].index  BY <1>1, <2>1, <2>2
    <2> QED  BY <2>2, <2>5, <2>6, Zenon DEF OnRecord
  <1> QED  BY <1>4, <1>5

\* What is stored of a chat's own turn, at an index past its earlier ones.
LEMMA UserStored ==
    ASSUME NEW s \in Seq(Turn), NEW t \in Turn, NEW z, z = Append(s, t), t.role = "user"
    PROVE  Asked(z, t.chat, 0)
  <1>1. z \in Seq(Turn) /\ Len(s) + 1 \in DOMAIN z /\ z[Len(s) + 1] = t
    BY AppendedTurn
  <1>2. Len(s) + 1 \in Of(z, t.chat, "user")  BY <1>1 DEF Of
  <1>3. After(z, t.chat, Len(s) + 1) \in SUBSET DOMAIN z  BY DEF After, Of
  <1>4. Cardinality(After(z, t.chat, Len(s) + 1)) >= 0  BY <1>1, <1>3, TurnsAreFinite
  <1> QED  BY <1>2, <1>4, Zenon DEF Asked

LEMMA ToolStored ==
    ASSUME NEW s \in Seq(Turn), NEW t \in Turn, NEW z, z = Append(s, t), t.role = "tool",
           \A k \in DOMAIN s : s[k].chat = t.chat => s[k].index < t.index,
           NEW n \in Nat, Asked(s, t.chat, n)
    PROVE  Asked(z, t.chat, n + 1)
  <1> DEFINE c == t.chat
             last == Len(s) + 1
  <1>1. PICK u \in Of(s, c, "user") : Cardinality(After(s, c, u)) >= n
    BY Zenon DEF Asked
  <1>2. /\ z \in Seq(Turn) /\ DOMAIN s \subseteq DOMAIN z /\ last \in DOMAIN z /\ z[last] = t
        /\ last \notin DOMAIN s /\ \A k \in DOMAIN s : z[k] = s[k]
    BY AppendedTurn
  <1>3. u \in DOMAIN s /\ s[u].chat = c /\ u \in Of(z, c, "user")
    BY <1>2 DEF Of
  <1>4. After(s, c, u) \union {last} \subseteq After(z, c, u)
    <2>1. s[u].index < t.index  BY <1>3
    <2>2. last \in After(z, c, u)  BY <1>2, <1>3, <2>1 DEF After, Of
    <2>3. After(s, c, u) \subseteq After(z, c, u)  BY <1>2, <1>3 DEF After, Of
    <2> QED  BY <2>2, <2>3
  <1> HIDE DEF last, c
  <1>5. last \notin After(s, c, u) /\ After(s, c, u) \in SUBSET DOMAIN s
    BY <1>2 DEF After, Of
  <1>6. IsFiniteSet(After(s, c, u)) /\ Cardinality(After(s, c, u)) \in Nat
    BY <1>5, TurnsAreFinite
  <1>7. Cardinality(After(s, c, u) \union {last}) = Cardinality(After(s, c, u)) + 1
    BY <1>5, <1>6, FS_AddElement
  <1>8. After(z, c, u) \in SUBSET DOMAIN z  BY DEF After, Of
  <1>9. IsFiniteSet(After(z, c, u)) /\ Cardinality(After(z, c, u)) \in Nat
    BY <1>2, <1>8, TurnsAreFinite
  <1>10. Cardinality(After(s, c, u) \union {last}) <= Cardinality(After(z, c, u))
    BY <1>4, <1>9, FS_Subset
  <1>11. Cardinality(After(z, c, u)) >= n + 1  BY <1>1, <1>6, <1>7, <1>9, <1>10
  <1> QED  BY <1>3, <1>11, Zenon DEF Asked, c

LEMMA AnswerStored ==
    ASSUME NEW s \in Seq(Turn), NEW t \in Turn, NEW z, z = Append(s, t), t.role = "assistant",
           \A k \in DOMAIN s : s[k].chat = t.chat => s[k].index < t.index,
           NEW n \in Nat, Asked(s, t.chat, n)
    PROVE  OnRecord(z, t.chat, n)
  <1> DEFINE c == t.chat
             last == Len(s) + 1
  <1>1. PICK u \in Of(s, c, "user") : Cardinality(After(s, c, u)) >= n
    BY Zenon DEF Asked
  <1>2. /\ z \in Seq(Turn) /\ DOMAIN s \subseteq DOMAIN z /\ last \in DOMAIN z /\ z[last] = t
        /\ \A k \in DOMAIN s : z[k] = s[k]
    BY AppendedTurn
  <1>3. u \in DOMAIN s /\ s[u].chat = c /\ u \in Of(z, c, "user")
    BY <1>2 DEF Of
  <1>4. last \in Of(z, c, "assistant") /\ z[u].index < z[last].index
    BY <1>2, <1>3 DEF Of
  <1>5. After(s, c, u) \subseteq Within(z, c, u, last)
    BY <1>2, <1>3 DEF After, Within, Of
  <1> HIDE DEF last, c
  <1>6. After(s, c, u) \in SUBSET DOMAIN s /\ Within(z, c, u, last) \in SUBSET DOMAIN z
    BY DEF After, Within, Of
  <1>7. /\ Cardinality(After(s, c, u)) \in Nat
        /\ IsFiniteSet(Within(z, c, u, last)) /\ Cardinality(Within(z, c, u, last)) \in Nat
    BY <1>2, <1>6, TurnsAreFinite
  <1>8. Cardinality(After(s, c, u)) <= Cardinality(Within(z, c, u, last))
    BY <1>5, <1>7, FS_Subset
  <1>9. Cardinality(Within(z, c, u, last)) >= n  BY <1>1, <1>7, <1>8
  <1> QED  BY <1>3, <1>4, <1>9, Zenon DEF OnRecord, c

\* The next index is past every turn's.
LEMMA NextIsPast ==
    ASSUME EchoInv
    PROVE  NextIndex \in Nat /\ \A k \in DOMAIN turn : turn[k].index < NextIndex
  <1>1. CASE turn = <<>>
    BY <1>1 DEF NextIndex
  <1>2. CASE turn # <<>>
    <2> DEFINE I == {turn[k].index : k \in DOMAIN turn}
               P(i) == \A k \in DOMAIN turn : turn[k].index <= i
    <2>1. PICK m \in DOMAIN turn : \A k \in DOMAIN turn : turn[k].index <= turn[m].index
      BY <1>2 DEF EchoInv, HasTop
    <2>2. \E i \in I : P(i)  BY <2>1
    <2>3. \A k \in DOMAIN turn : turn[k].index \in Nat
      <3>1. \A k \in DOMAIN turn : turn[k] \in Turn  BY DEF EchoInv
      <3> QED  BY <3>1 DEF Turn
    <2>4. PICK top \in I : P(top) /\ NextIndex = 1 + top
      <3>1. NextIndex = 1 + CHOOSE i \in I : P(i)  BY <1>2, Zenon DEF NextIndex
      <3> HIDE DEF I, P
      <3> QED  BY <2>2, <3>1, Zenon
    <2>5. top \in Nat  BY <2>3, <2>4
    <2> QED  BY <2>3, <2>4, <2>5
  <1> QED  BY <1>1, <1>2

-----------------------------------------------------------------------------
\* One chat goes on and nothing is stored.
LEMMA ChatGoesOn ==
    ASSUME EchoInv, NEW c \in Chat, NEW h \in ChatState, ChatRight(turn, c, h),
           chat' = [chat EXCEPT ![c] = h], UNCHANGED turn
    PROVE  EchoInv'
  BY DEF EchoInv

\* One chat goes on and its turn is stored.
LEMMA ChatStores ==
    ASSUME EchoInv, NEW c \in Chat, NEW h \in ChatState, StoresTurn(c), chat[c].at = "insert",
           chat' = [chat EXCEPT ![c] = h],
           \A t \in Turn : t.chat = c /\ t.role = chat[c].role /\ t.index = chat[c].index
                          /\ turn' = Append(turn, t) => ChatRight(turn', c, h)
    PROVE  EchoInv'
  <1>1. turn \in Seq(Turn) /\ HasTop(turn) /\ chat[c] \in ChatState  BY DEF EchoInv
  <1>2. PICK t \in Turn : /\ t.chat = c /\ t.role = chat[c].role /\ t.index = chat[c].index
                          /\ turn' = Append(turn, t)
    <2> DEFINE t == [chat |-> c, role |-> chat[c].role, index |-> chat[c].index]
    <2>1. t \in Turn  BY <1>1 DEF Turn, ChatState
    <2>2. turn' = Append(turn, t)  BY Zenon DEF StoresTurn
    <2>3. t.chat = c /\ t.role = chat[c].role /\ t.index = chat[c].index  OBVIOUS
    <2> HIDE DEF t
    <2> QED  BY <2>1, <2>2, <2>3
  <1>3. /\ turn' \in Seq(Turn) /\ Len(turn) \in Nat
        /\ DOMAIN turn = 1..Len(turn) /\ DOMAIN turn' = 1..(Len(turn) + 1)
        /\ turn'[Len(turn) + 1] = t
        /\ \A k \in DOMAIN turn : turn'[k] = turn[k]
    BY <1>1, <1>2, AppendedTurn
  <1>4. HasTop(turn')
    <2>1. \A k \in DOMAIN turn' : turn'[k].index \in Nat
      <3>1. \A k \in DOMAIN turn' : turn'[k] \in Turn  BY <1>3
      <3> QED  BY <3>1 DEF Turn
    <2>2. CASE \A k \in DOMAIN turn : turn[k].index <= t.index
      <3>1. \A k \in DOMAIN turn' : turn'[k].index <= turn'[Len(turn) + 1].index
        BY <1>3, <2>1, <2>2
      <3> QED  BY <1>3, <3>1 DEF HasTop
    <2>3. CASE ~\A k \in DOMAIN turn : turn[k].index <= t.index
      <3>1. turn # <<>>  BY <2>3
      <3>2. PICK m \in DOMAIN turn : \A k \in DOMAIN turn : turn[k].index <= turn[m].index
        BY <1>1, <3>1 DEF HasTop
      <3>3. m \in DOMAIN turn' /\ turn'[m] = turn[m] /\ turn[m].index \in Nat /\ t.index \in Nat
        BY <1>3, <2>1 DEF Turn
      <3>4. t.index <= turn[m].index
        <4>1. PICK k \in DOMAIN turn : ~(turn[k].index <= t.index)  BY <2>3
        <4>2. turn[k].index \in Nat /\ turn[k].index <= turn[m].index  BY <1>3, <2>1, <3>2
        <4> QED  BY <3>3, <4>1, <4>2
      <3>5. \A k \in DOMAIN turn' : turn'[k].index <= turn'[m].index
        BY <1>3, <3>2, <3>3, <3>4
      <3> QED  BY <3>3, <3>5 DEF HasTop
    <2> QED  BY <2>2, <2>3
  <1>5. ASSUME NEW d \in Chat  PROVE ChatRight(turn', d, chat'[d])
    <2>1. CASE d = c
      <3>1. chat'[d] = h  BY <2>1 DEF EchoInv
      <3> QED  BY <1>2, <2>1, <3>1
    <2>2. CASE d # c
      <3>1. chat'[d] = chat[d] /\ chat[d] \in ChatState /\ ChatRight(turn, d, chat[d])
        BY <2>2 DEF EchoInv
      <3>2. chat[d].rounds \in Nat /\ (chat[d].rounds > 0 => chat[d].rounds - 1 \in Nat)
        BY <3>1 DEF ChatState
      <3>3. /\ Asked(turn, d, chat[d].rounds) => Asked(turn', d, chat[d].rounds)
            /\ OnRecord(turn, d, chat[d].rounds) => OnRecord(turn', d, chat[d].rounds)
        BY <1>1, <1>2, <3>2, RecordGrows
      <3>4. chat[d].rounds > 0 /\ Asked(turn, d, chat[d].rounds - 1)
              => Asked(turn', d, chat[d].rounds - 1)
        BY <1>1, <1>2, <3>2, RecordGrows
      <3>5. chat[d].at = "insert" =>
              \A k \in DOMAIN turn' : turn'[k].chat = d => turn'[k].index < chat[d].index
        <4> SUFFICES ASSUME chat[d].at = "insert", NEW k \in DOMAIN turn', turn'[k].chat = d
                     PROVE  turn'[k].index < chat[d].index
          OBVIOUS
        <4>1. k \in DOMAIN turn /\ turn'[k] = turn[k]  BY <1>2, <1>3, <2>2
        <4> QED  BY <3>1, <4>1 DEF ChatRight
      <3> QED  BY <3>1, <3>3, <3>4, <3>5 DEF ChatRight
    <2> QED  BY <2>1, <2>2
  <1>6. chat' \in [Chat -> ChatState]  BY DEF EchoInv
  <1> QED  BY <1>3, <1>4, <1>5, <1>6 DEF EchoInv

LEMMA EchoStart == EchoInit => EchoInv
  <1> SUFFICES ASSUME EchoInit  PROVE EchoInv
    OBVIOUS
  <1>1. turn = <<>> /\ chat = [c \in Chat |-> NoChat]  BY DEF EchoInit
  <1>2. NoChat \in ChatState  BY DEF NoChat, ChatState, Role
  <1>3. NoChat.at = "idle"  BY DEF NoChat
  <1>4. HasTop(turn) /\ turn \in Seq(Turn)  BY <1>1 DEF HasTop
  <1>5. \A c \in Chat : ChatRight(turn, c, chat[c])  BY <1>1, <1>3 DEF ChatRight
  <1> QED  BY <1>1, <1>2, <1>4, <1>5 DEF EchoInv

LEMMA AppendsGoesOn ==
    ASSUME EchoInv, NEW c \in Chat, NEW role \in Role, NEW rounds \in Nat,
           Appends(c, role, rounds), UNCHANGED turn,
           /\ role = "user" => rounds = 0
           /\ role = "tool" => rounds > 0 /\ Asked(turn, c, rounds - 1)
           /\ role = "assistant" => Asked(turn, c, rounds)
    PROVE  EchoInv'
  <1>1. PICK h : h = [at |-> "select", role |-> role, index |-> 0, depth |-> 0, rounds |-> rounds]
    OBVIOUS
  <1>2. chat' = [chat EXCEPT ![c] = h]  BY <1>1, Zenon DEF Appends
  <1>3. h \in ChatState  BY <1>1 DEF ChatState
  <1>4. h.at = "select" /\ h.role = role /\ h.rounds = rounds  BY <1>1
  <1>5. ChatRight(turn, c, h)  BY <1>4 DEF ChatRight
  <1> QED  BY <1>2, <1>3, <1>5, ChatGoesOn

\* The state of a chat that proceeds.
LEMMA ProceedsTo ==
    ASSUME EchoInv, NEW c \in Chat, NEW at \in {"prompt", "converse", "answered"}, NEW h,
           h = [NoChat EXCEPT !.at = at, !.rounds = chat[c].rounds]
    PROVE  h \in ChatState /\ h.at = at /\ h.rounds = chat[c].rounds
  <1>1. chat[c].rounds \in Nat  BY DEF EchoInv, ChatState
  <1> QED  BY <1>1 DEF NoChat, ChatState, Role

LEMMA EndsAt ==
    ASSUME NEW at \in {"raised", "gone"}, NEW h, h = [NoChat EXCEPT !.at = at]
    PROVE  h \in ChatState /\ h.at = at
  BY DEF NoChat, ChatState, Role

LEMMA TurnCommitKeeps ==
    ASSUME EchoInv, NEW c \in Chat, CommitTurn(c)
    PROVE  EchoInv'
  <1>1. chat[c] \in ChatState /\ chat[c].at = "insert" /\ ChatRight(turn, c, chat[c])
        /\ turn \in Seq(Turn)
    BY DEF CommitTurn, EchoInv
  <1>2. chat[c].rounds \in Nat /\ chat[c].role \in Role  BY <1>1 DEF ChatState
  <1>3. PICK at \in {"prompt", "converse", "answered"} : at = AfterTurn[chat[c].role]
    BY <1>2 DEF AfterTurn, Role
  <1>4. PICK h : h = [NoChat EXCEPT !.at = at, !.rounds = chat[c].rounds]  OBVIOUS
  <1>5. h \in ChatState /\ h.at = at /\ h.rounds = chat[c].rounds
    BY <1>4, ProceedsTo
  <1>6. chat' = [chat EXCEPT ![c] = h]  BY <1>3, <1>4, Zenon DEF CommitTurn, Proceeds
  <1>7. StoresTurn(c)  BY DEF CommitTurn
  <1>8. ASSUME NEW t \in Turn, t.chat = c, t.role = chat[c].role, t.index = chat[c].index,
               turn' = Append(turn, t)
        PROVE  ChatRight(turn', c, h)
    <2>1. \A k \in DOMAIN turn : turn[k].chat = t.chat => turn[k].index < t.index
      BY <1>1, <1>8 DEF ChatRight
    <2>2. CASE chat[c].role = "user"
      <3>1. Asked(turn', c, 0)  BY <1>1, <1>8, <2>2, UserStored
      <3>2. at = "prompt" /\ h.rounds = 0
        BY <1>1, <1>3, <1>5, <2>2 DEF AfterTurn, ChatRight
      <3> QED  BY <1>5, <3>1, <3>2 DEF ChatRight
    <2>3. CASE chat[c].role = "tool"
      <3>1. chat[c].rounds > 0 /\ Asked(turn, c, chat[c].rounds - 1)
        BY <1>1, <2>3 DEF ChatRight
      <3>2. PICK n \in Nat : n = chat[c].rounds - 1 /\ n + 1 = chat[c].rounds
        BY <1>2, <3>1
      <3>3. Asked(turn', c, n + 1)  BY <1>1, <1>8, <2>1, <2>3, <3>1, <3>2, ToolStored
      <3>4. at = "converse"  BY <1>3, <2>3 DEF AfterTurn
      <3> QED  BY <1>5, <3>2, <3>3, <3>4 DEF ChatRight
    <2>4. CASE chat[c].role = "assistant"
      <3>1. Asked(turn, c, chat[c].rounds)  BY <1>1, <2>4 DEF ChatRight
      <3>2. OnRecord(turn', c, chat[c].rounds)
        BY <1>1, <1>2, <1>8, <2>1, <2>4, <3>1, AnswerStored
      <3>3. at = "answered"  BY <1>3, <2>4 DEF AfterTurn
      <3> QED  BY <1>5, <3>2, <3>3 DEF ChatRight
    <2> QED  BY <1>2, <2>2, <2>3, <2>4 DEF Role
  <1> QED  BY <1>1, <1>5, <1>6, <1>7, <1>8, ChatStores

LEMMA SelectKeeps ==
    ASSUME EchoInv, NEW c \in Chat, SelectIndex(c)
    PROVE  EchoInv'
  <1>1. chat[c] \in ChatState /\ chat[c].at = "select" /\ ChatRight(turn, c, chat[c])
    BY DEF SelectIndex, EchoInv
  <1>2. PICK h : h = [chat[c] EXCEPT !.at = "insert", !.index = NextIndex]  OBVIOUS
  <1>3. chat' = [chat EXCEPT ![c] = h] /\ UNCHANGED turn
    BY <1>2, Zenon DEF SelectIndex
  <1>4. NextIndex \in Nat /\ \A k \in DOMAIN turn : turn[k].index < NextIndex  BY NextIsPast
  <1>5. PICK n \in Nat : n = NextIndex  BY <1>4
  <1>6. h = [chat[c] EXCEPT !.at = "insert", !.index = n]  BY <1>2, <1>5
  <1>7. /\ h \in ChatState /\ h.at = "insert" /\ h.index = n
        /\ h.role = chat[c].role /\ h.rounds = chat[c].rounds
    BY <1>1, <1>6 DEF ChatState
  <1>8. ChatRight(turn, c, h)  BY <1>1, <1>4, <1>5, <1>7 DEF ChatRight
  <1> QED  BY <1>3, <1>7, <1>8, ChatGoesOn

LEMMA FailKeeps ==
    ASSUME EchoInv, NEW c \in Chat, AppendFails(c)
    PROVE  EchoInv'
  <1>1. /\ chat[c] \in ChatState /\ chat[c].at \in {"select", "insert"}
        /\ ChatRight(turn, c, chat[c]) /\ turn \in Seq(Turn) /\ MaxDepth \in Nat
    BY ChatAssumption DEF AppendFails, EchoInv
  <1>2. PICK h \in ChatState :
           /\ chat' = [chat EXCEPT ![c] = h]
           /\ \/ h.at = "raised"
              \/ h.at = "select" /\ h.role = chat[c].role /\ h.rounds = chat[c].rounds
    <2>1. PICK h : h = IF chat[c].depth < MaxDepth
                         THEN [chat[c] EXCEPT !.at = "select", !.depth = chat[c].depth + 1]
                         ELSE [NoChat EXCEPT !.at = "raised"]
      OBVIOUS
    <2>2. chat' = [chat EXCEPT ![c] = h]  BY <2>1, Zenon DEF AppendFails, Recurs
    <2>3. CASE chat[c].depth < MaxDepth
      <3>1. PICK d \in Nat : d = chat[c].depth + 1  BY <1>1 DEF ChatState
      <3>2. h = [chat[c] EXCEPT !.at = "select", !.depth = d]  BY <2>1, <2>3, <3>1
      <3>3. /\ h \in ChatState /\ h.at = "select" /\ h.role = chat[c].role
            /\ h.rounds = chat[c].rounds
        BY <1>1, <3>2 DEF ChatState
      <3> QED  BY <2>2, <3>3
    <2>4. CASE ~(chat[c].depth < MaxDepth)
      <3>1. h = [NoChat EXCEPT !.at = "raised"]  BY <2>1, <2>4
      <3>2. h \in ChatState /\ h.at = "raised"  BY <3>1, EndsAt
      <3> QED  BY <2>2, <3>2
    <2> QED  BY <2>3, <2>4
  <1>3. chat[c].rounds \in Nat /\ (chat[c].rounds > 0 => chat[c].rounds - 1 \in Nat)
    BY <1>1 DEF ChatState
  <1>4. CASE UNCHANGED turn
    <2>1. ChatRight(turn, c, h)  BY <1>1, <1>2 DEF ChatRight
    <2> QED  BY <1>2, <1>4, <2>1, ChatGoesOn
  <1>5. CASE chat[c].at = "insert" /\ StoresTurn(c)
    <2>1. ASSUME NEW t \in Turn, turn' = Append(turn, t)  PROVE ChatRight(turn', c, h)
      <3>1. Asked(turn, c, chat[c].rounds) => Asked(turn', c, chat[c].rounds)
        BY <1>1, <1>3, <2>1, RecordGrows
      <3>2. chat[c].rounds > 0 /\ Asked(turn, c, chat[c].rounds - 1)
              => Asked(turn', c, chat[c].rounds - 1)
        BY <1>1, <1>3, <2>1, RecordGrows
      <3> QED  BY <1>1, <1>2, <3>1, <3>2 DEF ChatRight
    <2> QED  BY <1>2, <1>5, <2>1, ChatStores
  <1> QED  BY <1>4, <1>5 DEF AppendFails

LEMMA ConverseKeeps ==
    ASSUME EchoInv, NEW c \in Chat, Converse(c)
    PROVE  EchoInv'
  <1>1. /\ chat[c].at = "converse" /\ ChatRight(turn, c, chat[c]) /\ chat[c].rounds \in Nat
        /\ UNCHANGED turn
    BY DEF Converse, EchoInv, ChatState
  <1>2. Asked(turn, c, chat[c].rounds)  BY <1>1 DEF ChatRight
  <1>3. CASE Appends(c, "assistant", chat[c].rounds)
    BY <1>1, <1>2, <1>3, AppendsGoesOn DEF Role
  <1>4. CASE Appends(c, "tool", chat[c].rounds + 1)
    <2>1. PICK n \in Nat : n = chat[c].rounds + 1 /\ n > 0 /\ n - 1 = chat[c].rounds
      BY <1>1
    <2>2. Appends(c, "tool", n)  BY <1>4, <2>1
    <2>3. Asked(turn, c, n - 1)  BY <1>2, <2>1
    <2> QED  BY <1>1, <2>1, <2>2, <2>3, AppendsGoesOn DEF Role
  <1> QED  BY <1>3, <1>4 DEF Converse

LEMMA EchoStep == EchoInv /\ [EchoNext]_echoVars => EchoInv'
  <1> SUFFICES ASSUME EchoInv, [EchoNext]_echoVars  PROVE EchoInv'
    OBVIOUS
  <1>1. CASE UNCHANGED <<turn, chat>>
    BY <1>1 DEF EchoInv
  <1>2. ASSUME NEW c \in Chat, EnsureConversation(c)  PROVE EchoInv'
    <2>1. Appends(c, "user", 0) /\ UNCHANGED turn  BY <1>2 DEF EnsureConversation
    <2> QED  BY <2>1, AppendsGoesOn DEF Role
  <1>3. ASSUME NEW c \in Chat, AssemblePrompt(c)  PROVE EchoInv'
    <2>1. PICK h : h = [NoChat EXCEPT !.at = "converse", !.rounds = chat[c].rounds]  OBVIOUS
    <2>2. chat' = [chat EXCEPT ![c] = h] /\ UNCHANGED turn
      BY <1>3, <2>1, Zenon DEF AssemblePrompt, Proceeds
    <2>3. h \in ChatState /\ h.at = "converse" /\ h.rounds = chat[c].rounds
      BY <2>1, ProceedsTo
    <2>4. Asked(turn, c, chat[c].rounds)  BY <1>3 DEF AssemblePrompt, EchoInv, ChatRight
    <2>5. ChatRight(turn, c, h)  BY <2>3, <2>4 DEF ChatRight
    <2> QED  BY <2>2, <2>3, <2>5, ChatGoesOn
  <1>4. ASSUME NEW c \in Chat, ServerStops(c)  PROVE EchoInv'
    <2>1. PICK h : h = [NoChat EXCEPT !.at = "gone"]  OBVIOUS
    <2>2. chat' = [chat EXCEPT ![c] = h] /\ UNCHANGED turn
      BY <1>4, <2>1, Zenon DEF ServerStops
    <2>3. h \in ChatState /\ h.at = "gone"  BY <2>1, EndsAt
    <2>4. ChatRight(turn, c, h)  BY <2>3 DEF ChatRight
    <2> QED  BY <2>2, <2>3, <2>4, ChatGoesOn
  <1>5. CASE DatabaseMoves \/ UNCHANGED echoVars
    BY <1>1, <1>5 DEF DatabaseMoves, echoVars
  <1> QED
    BY <1>2, <1>3, <1>4, <1>5, SelectKeeps, TurnCommitKeeps, FailKeeps, ConverseKeeps, Zenon
       DEF EchoNext

LEMMA RecordShown == EchoInv => AnsweredIsOnRecord
  <1> SUFFICES ASSUME EchoInv, NEW c \in Chat, chat[c].at = "answered"
               PROVE  \E u \in Turns(c, "user"), a \in Turns(c, "assistant") :
                        /\ turn[u].index < turn[a].index
                        /\ Cardinality({k \in Turns(c, "tool") : turn[u].index < turn[k].index
                                                                /\ turn[k].index < turn[a].index})
                             >= chat[c].rounds
    BY Zenon DEF AnsweredIsOnRecord
  <1>1. OnRecord(turn, c, chat[c].rounds)  BY DEF EchoInv, ChatRight
  <1> QED  BY <1>1, Zenon DEF OnRecord, Turns, Of, Within

\* An answered chat has its question, as many tool turns as it had rounds, and its
\* answer on record in that order, for any chats, failures and lost commits
\* (append_turn, respond).
THEOREM AnswersKept == EchoSpec => []AnsweredIsOnRecord
  BY EchoStart, EchoStep, RecordShown, PTL DEF EchoSpec

-----------------------------------------------------------------------------
(* All of it as one *)

\* A step of the server is a step of each part or leaves its variables alone.
LEMMA StepOfParts ==
    ASSUME [OutlookNext]_<<part, watchVars, apiVars, opsVars, testVars, alertVars,
                           findingVars, echoVars, researchVars, forgeVars, holographVars>>
    PROVE  /\ [WatchNext]_watchVars /\ [AlertNext]_alertVars
           /\ [FindingsNext]_findingVars /\ [HolographNext]_holographVars
  BY Zenon DEF OutlookNext

LEMMA StartOfParts ==
    ASSUME OutlookInit
    PROVE  WatchInit /\ AlertInit /\ FindingsInit /\ HolographInit
  BY Zenon DEF OutlookInit

LEMMA WatchedOutlook == WatchInv => TenantsAreSeen
  BY WatchShows, Zenon DEF TenantsAreSeen

\* In the server as a whole, with whatever else goes on in it, no tenant that stands
\* still goes unseen and the banners settle.
THEOREM OutlookSeesTenants == OutlookSpec => []TenantsAreSeen
  <1>1. OutlookInit => WatchInv
    BY StartOfParts, WatchStart
  <1>2. WatchInv /\ [OutlookNext]_<<part, watchVars, apiVars, opsVars, testVars, alertVars,
                                    findingVars, echoVars, researchVars, forgeVars, holographVars>>
          => WatchInv'
    BY StepOfParts, WatchStep
  <1> QED  BY <1>1, <1>2, WatchedOutlook, PTL DEF OutlookSpec

\* And what operators were told stands: of alerts, of findings, of green features.
THEOREM OutlookTellsOperators == OutlookSpec => []OperatorsKnow
  <1> DEFINE Inv == AlertInv /\ FindingsInv /\ HolographInv
  <1>1. OutlookInit => Inv
    BY StartOfParts, AlertStart, FindingsStart, HolographStart
  <1>2. Inv /\ [OutlookNext]_<<part, watchVars, apiVars, opsVars, testVars, alertVars,
                               findingVars, echoVars, researchVars, forgeVars, holographVars>>
          => Inv'
    BY StepOfParts, AlertStep, FindingsStep, HolographStep
  <1>3. Inv => OperatorsKnow
    BY AlertShows, HolographShows, Zenon DEF OperatorsKnow, FindingsInv
  <1> HIDE DEF Inv
  <1> QED  BY <1>1, <1>2, <1>3, PTL DEF OutlookSpec
=============================================================================
