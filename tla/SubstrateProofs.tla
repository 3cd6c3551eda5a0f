--------------------------- MODULE SubstrateProofs --------------------------
(***************************************************************************)
(* The two parts of overwatch_v2 that keep durable records behind concurrent*)
(* calls, for every set of callers, objects and tokens and every bound on  *)
(* versions: the history is a version log, the graph never runs ahead of it,*)
(* and both agree on an object whose writes neither overlapped nor failed; *)
(* one approval stands behind at most one mutation, the one it was given   *)
(* for, and the audit sinks say nothing false.                             *)
(***************************************************************************)
EXTENDS OntologyStore, ApprovalGate, TLAPS

-----------------------------------------------------------------------------
(* The ontology store *)

\* The versions of an object have no gap and only the last can be current.
Gapless(o) ==
    \E n \in 0..MaxVersion : versions[o] = 1..n /\ current[o] \subseteq {n} \ {0}

\* What a write has found or made by the time it reaches a step.
Prepared(w) ==
    LET o == call[w].obj  base == call[w].base
    IN  CASE call[w].at = "supersede" -> base \in versions[o] /\ base < MaxVersion
          [] call[w].at = "insert" -> /\ base < MaxVersion
                                      /\ base # 0 => base \in versions[o] \ current[o]
          [] call[w].at = "merge" -> base + 1 \in versions[o]
          [] OTHER -> FALSE

LogInv ==
    /\ TypeOK
    /\ \A o \in Object : Gapless(o)
    /\ \A w \in Writer : call[w] \in Write => Prepared(w)
    /\ GraphIsBacked

LEMMA IdleIsNoCall == Idle \notin Write /\ Idle \notin Link
  BY DEF Idle, Write, Link

LEMMA WriteIsNoLink == \A c \in Write : c \notin Link
  BY DEF Write, Link

\* The three steps of a write are records of the same set.
LEMMA WriteSteps ==
  ASSUME NEW c \in Write, NEW at \in {"supersede", "insert", "merge"}
  PROVE  /\ [c EXCEPT !.at = at] \in Write
         /\ [c EXCEPT !.at = at].at = at
         /\ [c EXCEPT !.at = at].obj = c.obj
         /\ [c EXCEPT !.at = at].base = c.base
         /\ c.obj \in Object /\ c.base \in 0..MaxVersion
  BY DEF Write

LEMMA LogInit == Init => LogInv
  <1> SUFFICES ASSUME Init PROVE LogInv
    OBVIOUS
  <1>1. TypeOK
    BY BoundAssumption DEF Init, TypeOK
  <1>2. \A o \in Object : Gapless(o)
    <2> TAKE o \in Object
    <2>1. versions[o] = 1..0 /\ current[o] = {} /\ 0 \in 0..MaxVersion
      BY BoundAssumption DEF Init
    <2> QED
      BY <2>1 DEF Gapless
  <1> QED
    BY <1>1, <1>2, IdleIsNoCall DEF LogInv, Init, GraphIsBacked

\* Inserting continues the sequence: the base is the last version and retired.
LEMMA InsertContinues ==
  ASSUME LogInv, NEW w \in Writer, InsertVersion(w)
  PROVE  LET o == call[w].obj  n == call[w].base
         IN  /\ o \in Object /\ n \in 0..MaxVersion /\ n + 1 \in 1..MaxVersion
             /\ versions[o] = 1..n
             /\ current[o] = {}
             /\ versions' = [versions EXCEPT ![o] = 1..(n + 1)]
             /\ current' = [current EXCEPT ![o] = {n + 1}]
  <1> DEFINE c == call[w]
             o == c.obj
  <1>1. c \in Write /\ c.at = "insert" /\ o \in Object /\ c.base \in 0..MaxVersion
    BY DEF InsertVersion, Write
  <1>2. Prepared(w) /\ Gapless(o)
    BY <1>1 DEF LogInv
  <1>3. PICK n \in 0..MaxVersion : versions[o] = 1..n /\ current[o] \subseteq {n} \ {0}
    BY <1>2 DEF Gapless
  <1>4. c.base + 1 \notin versions[o] /\ c.base < MaxVersion
    BY <1>1, <1>2 DEF InsertVersion, Prepared
  <1>5. n = c.base
    BY <1>1, <1>2, <1>3, <1>4, BoundAssumption DEF Prepared
  <1>6. current[o] = {}
    BY <1>1, <1>2, <1>3, <1>5 DEF Prepared
  <1>7. versions[o] \union {n + 1} = 1..(n + 1)
    BY <1>3
  <1>8. versions' = [versions EXCEPT ![o] = 1..(n + 1)]
    BY <1>5, <1>7 DEF InsertVersion
  <1>9. current' = [current EXCEPT ![o] = {n + 1}]
    BY <1>5, <1>6 DEF InsertVersion
  <1> QED
    BY <1>1, <1>3, <1>4, <1>5, <1>6, <1>8, <1>9, BoundAssumption

\* A step of the version log or none at all.
LEMMA LogStep ==
  ASSUME LogInv, [Next]_vars
  PROVE  [Log!Next]_<<versions, current>>
  <1>1. ASSUME NEW w \in Writer, SupersedePriorVersion(w) PROVE Log!Next
    <2>1. call[w].obj \in Object
      BY <1>1 DEF SupersedePriorVersion, Write
    <2> QED
      BY <1>1, <2>1 DEF SupersedePriorVersion, Log!Next, Log!Supersede
  <1>2. ASSUME NEW w \in Writer, InsertVersion(w) PROVE Log!Next
    <2> DEFINE o == call[w].obj
               n == call[w].base
    <2>1. /\ o \in Object /\ n \in 0..MaxVersion
          /\ versions[o] = 1..n
          /\ current[o] = {}
          /\ versions' = [versions EXCEPT ![o] = 1..(n + 1)]
          /\ current' = [current EXCEPT ![o] = {n + 1}]
      BY <1>2, InsertContinues
    <2>2. n \in versions[o] \union {0} /\ 1..(n + 1) = versions[o] \union {n + 1}
      BY <2>1
    <2>3. versions' = [versions EXCEPT ![o] = @ \union {n + 1}]
      BY <2>1, <2>2
    <2> QED
      BY <2>1, <2>2, <2>3 DEF Log!Next, Log!Append
  <1> QED
    BY <1>1, <1>2 DEF Next, vars, BeginPropose, BeginUpdate, MergeObject, WriteFails,
       BeginLink, MergeEdge, LinkFails

\* No step takes a row away, and only the newest row becomes or stays current.
LEMMA LogKept ==
  ASSUME LogInv, [Next]_vars
  PROVE  /\ \A o \in Object : versions[o] \subseteq versions'[o] /\ Gapless(o)'
         /\ \A o \in Object : \A v \in current'[o] : v \in current[o] \/ v \notin versions[o]
  <1>1. ASSUME NEW w \in Writer, SupersedePriorVersion(w)
        PROVE  versions' = versions /\ \A o \in Object : current'[o] \subseteq current[o]
    BY <1>1 DEF SupersedePriorVersion, LogInv, TypeOK
  <1>2. ASSUME NEW w \in Writer, InsertVersion(w), NEW o \in Object
        PROVE  /\ versions[o] \subseteq versions'[o] /\ Gapless(o)'
               /\ \A v \in current'[o] : v \in current[o] \/ v \notin versions[o]
    <2> DEFINE n == call[w].base
    <2>1. CASE o = call[w].obj
      <3>1. /\ n \in 0..MaxVersion /\ n + 1 \in 1..MaxVersion /\ versions[o] = 1..n
            /\ versions' = [versions EXCEPT ![o] = 1..(n + 1)]
            /\ current' = [current EXCEPT ![o] = {n + 1}]
        BY <1>2, <2>1, InsertContinues
      <3>2. versions'[o] = 1..(n + 1) /\ current'[o] = {n + 1}
        BY <3>1 DEF LogInv, TypeOK
      <3> QED
        BY <3>1, <3>2 DEF Gapless
    <2>2. CASE o # call[w].obj
      <3>1. versions'[o] = versions[o] /\ current'[o] = current[o]
        BY <1>2, <2>2, InsertContinues DEF LogInv, TypeOK
      <3> QED
        BY <3>1 DEF LogInv, Gapless
    <2> QED
      BY <2>1, <2>2
  <1>3. ASSUME UNCHANGED <<versions, current>>
        PROVE  /\ \A o \in Object : versions[o] \subseteq versions'[o] /\ Gapless(o)'
               /\ \A o \in Object : \A v \in current'[o] : v \in current[o]
    BY <1>3 DEF LogInv, Gapless
  <1>4. ASSUME NEW w \in Writer, SupersedePriorVersion(w), NEW o \in Object
        PROVE  Gapless(o)'
    BY <1>1, <1>4 DEF LogInv, Gapless
  <1> QED
    BY <1>1, <1>2, <1>3, <1>4 DEF Next, vars, BeginPropose, BeginUpdate, MergeObject,
       WriteFails, BeginLink, MergeEdge, LinkFails

\* What a step makes of the calls.
LEMMA CallStep ==
  ASSUME LogInv, [Next]_vars, NEW w \in Writer, call'[w] # call[w], call'[w] # Idle
  PROVE  \/ call'[w] \in Link /\ current[call'[w].from] # {}
         \/ /\ call'[w] \in Write
            /\ \/ /\ call'[w].at = "insert" /\ call'[w].base = 0 /\ MaxVersion > 0
               \/ /\ call'[w].at = "supersede" /\ call'[w].base \in current[call'[w].obj]
                  /\ call'[w].base < MaxVersion
               \/ /\ SupersedePriorVersion(w) /\ call[w] \in Write
                  /\ call[w].at = "supersede"
                  /\ call'[w] = [call[w] EXCEPT !.at = "insert"]
               \/ /\ InsertVersion(w) /\ call[w] \in Write
                  /\ call'[w] = [call[w] EXCEPT !.at = "merge"]
  <1>0. call \in [Writer -> {Idle} \union Write \union Link]
    BY DEF LogInv, TypeOK
  <1>1. PICK u \in Writer :
          \/ \E o \in Object : BeginPropose(u, o) \/ BeginUpdate(u, o)
          \/ SupersedePriorVersion(u) \/ InsertVersion(u) \/ MergeObject(u)
          \/ WriteFails(u)
          \/ \E from, to \in Object : BeginLink(u, from, to)
          \/ MergeEdge(u) \/ LinkFails(u)
    BY DEF Next, vars
  <1>2. \E c : call' = [call EXCEPT ![u] = c]
    BY <1>1 DEF BeginPropose, BeginUpdate, SupersedePriorVersion, InsertVersion, MergeObject,
       WriteFails, BeginLink, MergeEdge, LinkFails, Continue
  <1>3. u = w
    BY <1>0, <1>2
  <1>4. ASSUME NEW o \in Object, BeginPropose(w, o)
        PROVE  call'[w] \in Write /\ call'[w].at = "insert" /\ call'[w].base = 0 /\ MaxVersion > 0
    BY <1>0, <1>4, BoundAssumption DEF BeginPropose, Write
  <1>5. ASSUME NEW o \in Object, BeginUpdate(w, o)
        PROVE  /\ call'[w] \in Write /\ call'[w].at = "supersede"
               /\ call'[w].base \in current[call'[w].obj] /\ call'[w].base < MaxVersion
    <2>1. PICK v \in current[o] : v < MaxVersion
             /\ call' = [call EXCEPT ![w] = [at |-> "supersede", obj |-> o, base |-> v]]
      BY <1>5 DEF BeginUpdate
    <2>2. v \in 0..MaxVersion
      BY <2>1, BoundAssumption DEF LogInv, TypeOK
    <2> QED
      BY <1>0, <2>1, <2>2 DEF Write
  <1>6. ASSUME NEW from \in Object, NEW to \in Object, BeginLink(w, from, to)
        PROVE  call'[w] \in Link /\ current[call'[w].from] # {}
    BY <1>0, <1>6 DEF BeginLink, Link
  <1>7. ASSUME SupersedePriorVersion(w)
        PROVE  /\ call[w] \in Write /\ call[w].at = "supersede"
               /\ call'[w] = [call[w] EXCEPT !.at = "insert"] /\ call'[w] \in Write
    <2>1. call[w] \in Write /\ call[w].at = "supersede"
      BY <1>7 DEF SupersedePriorVersion
    <2>2. call'[w] = [call[w] EXCEPT !.at = "insert"]
      <3> DEFINE d == [call[w] EXCEPT !.at = "insert"]
      <3>1. call' = [call EXCEPT ![w] = d] \/ call' = [call EXCEPT ![w] = Idle]
        BY <1>7 DEF SupersedePriorVersion, Continue
      <3> QED
        BY <1>0, <3>1
    <2> QED
      BY <2>1, <2>2, WriteSteps
  <1>8. ASSUME InsertVersion(w)
        PROVE  /\ call[w] \in Write
               /\ call'[w] = [call[w] EXCEPT !.at = "merge"] /\ call'[w] \in Write
    <2>1. call[w] \in Write
      BY <1>8 DEF InsertVersion
    <2>2. call'[w] = [call[w] EXCEPT !.at = "merge"]
      <3> DEFINE d == [call[w] EXCEPT !.at = "merge"]
      <3>1. call' = [call EXCEPT ![w] = d] \/ call' = [call EXCEPT ![w] = Idle]
        BY <1>8 DEF InsertVersion, Continue
      <3> QED
        BY <1>0, <3>1
    <2> QED
      BY <2>1, <2>2, WriteSteps
  <1>9. ~MergeObject(w) /\ ~WriteFails(w) /\ ~MergeEdge(w) /\ ~LinkFails(w)
    BY <1>0 DEF MergeObject, WriteFails, MergeEdge, LinkFails, Continue
  <1> QED
    BY <1>1, <1>3, <1>4, <1>5, <1>6, <1>7, <1>8, <1>9

LEMMA TypeKept ==
  ASSUME LogInv, [Next]_vars
  PROVE  TypeOK'
  <1>1. call' \in [Writer -> {Idle} \union Write \union Link]
    <2>1. \/ call' = call
          \/ \E w \in Writer : \E c : call' = [call EXCEPT ![w] = c]
      <3>1. ASSUME NEW w \in Writer, NEW o \in Object, BeginPropose(w, o) \/ BeginUpdate(w, o)
            PROVE  \E c : call' = [call EXCEPT ![w] = c]
        BY <3>1 DEF BeginPropose, BeginUpdate
      <3>2. ASSUME NEW w \in Writer, \/ SupersedePriorVersion(w) \/ InsertVersion(w)
                                     \/ MergeObject(w)
            PROVE  \E c : call' = [call EXCEPT ![w] = c]
        BY <3>2 DEF SupersedePriorVersion, InsertVersion, MergeObject, Continue
      <3>3. ASSUME NEW w \in Writer, WriteFails(w) \/ MergeEdge(w) \/ LinkFails(w)
            PROVE  \E c : call' = [call EXCEPT ![w] = c]
        BY <3>3 DEF WriteFails, MergeEdge, LinkFails
      <3>4. ASSUME NEW w \in Writer, NEW from \in Object, NEW to \in Object, BeginLink(w, from, to)
            PROVE  \E c : call' = [call EXCEPT ![w] = c]
        BY <3>4 DEF BeginLink
      <3> QED
        BY <3>1, <3>2, <3>3, <3>4 DEF Next, vars
    <2>2. \A w \in Writer : call'[w] \in {Idle} \union Write \union Link
      BY CallStep DEF LogInv, TypeOK
    <2> QED
      BY <2>1, <2>2 DEF LogInv, TypeOK
  <1>2. versions' \in [Object -> SUBSET (1..MaxVersion)] /\ current' \in [Object -> SUBSET (1..MaxVersion)]
    <2>1. ASSUME NEW w \in Writer, SupersedePriorVersion(w) PROVE <1>2!1 /\ <1>2!2
      BY <2>1 DEF SupersedePriorVersion, LogInv, TypeOK
    <2>2. ASSUME NEW w \in Writer, InsertVersion(w) PROVE <1>2!1 /\ <1>2!2
      <3> DEFINE n == call[w].base
      <3>1. /\ n \in 0..MaxVersion /\ n + 1 \in 1..MaxVersion
            /\ versions' = [versions EXCEPT ![call[w].obj] = 1..(n + 1)]
            /\ current' = [current EXCEPT ![call[w].obj] = {n + 1}]
        BY <2>2, InsertContinues
      <3>2. 1..(n + 1) \in SUBSET (1..MaxVersion) /\ {n + 1} \in SUBSET (1..MaxVersion)
        BY <3>1, BoundAssumption
      <3> QED
        BY <3>1, <3>2 DEF LogInv, TypeOK
    <2> QED
      BY <2>1, <2>2 DEF LogInv, TypeOK, Next, vars, BeginPropose, BeginUpdate, MergeObject,
         WriteFails, BeginLink, MergeEdge, LinkFails
  <1>3. node' \in [Object -> 0..MaxVersion] /\ edges' \subseteq Object \X Object
    <2>1. ASSUME NEW w \in Writer, MergeObject(w) PROVE <1>3!1 /\ <1>3!2
      <3>1. call[w].base + 1 \in 0..MaxVersion
        BY <2>1, BoundAssumption DEF MergeObject, LogInv, Prepared, TypeOK, Write
      <3> QED
        BY <2>1, <3>1 DEF MergeObject, LogInv, TypeOK
    <2>2. ASSUME NEW w \in Writer, MergeEdge(w) PROVE <1>3!1 /\ <1>3!2
      BY <2>2 DEF MergeEdge, Link, LogInv, TypeOK
    <2> QED
      BY <2>1, <2>2 DEF LogInv, TypeOK, Next, vars, BeginPropose, BeginUpdate,
         SupersedePriorVersion, InsertVersion, WriteFails, BeginLink, LinkFails
  <1>4. disturbed' \subseteq Object
    BY DEF LogInv, TypeOK, Next, vars, BeginPropose, BeginUpdate, Continue, Write,
       SupersedePriorVersion, InsertVersion, MergeObject, WriteFails, BeginLink, MergeEdge, LinkFails
  <1> QED
    BY <1>1, <1>2, <1>3, <1>4 DEF TypeOK

LEMMA PreparedKept ==
  ASSUME LogInv, [Next]_vars, NEW w \in Writer, call'[w] \in Write
  PROVE  Prepared(w)'
  <1>1. call'[w].obj \in Object /\ call'[w].base \in 0..MaxVersion
    BY DEF Write
  <1>2. CASE call'[w] = call[w]
    BY <1>1, <1>2, LogKept DEF LogInv, Prepared
  <1>3. CASE call'[w] # call[w]
    <2>1. CASE call'[w].at = "insert" /\ call'[w].base = 0 /\ MaxVersion > 0
      BY <2>1 DEF Prepared
    <2>2. CASE /\ call'[w].at = "supersede" /\ call'[w].base \in current[call'[w].obj]
               /\ call'[w].base < MaxVersion
      <3>1. call'[w].base \in versions[call'[w].obj]
        BY <1>1, <2>2 DEF LogInv, Gapless
      <3> QED
        BY <1>1, <2>2, <3>1, LogKept DEF Prepared
    <2>3. CASE SupersedePriorVersion(w) /\ call[w] \in Write /\ call[w].at = "supersede"
                  /\ call'[w] = [call[w] EXCEPT !.at = "insert"]
      <3>1. call'[w].at = "insert" /\ call'[w].obj = call[w].obj /\ call'[w].base = call[w].base
        BY <2>3, WriteSteps
      <3>2. call[w].base \in versions[call[w].obj] /\ call[w].base < MaxVersion
        BY <2>3 DEF LogInv, Prepared
      <3>3. current'[call[w].obj] = {} /\ versions' = versions
        BY <1>1, <2>3, <3>1 DEF SupersedePriorVersion, LogInv, TypeOK
      <3> QED
        BY <3>1, <3>2, <3>3 DEF Prepared
    <2>4. CASE InsertVersion(w) /\ call[w] \in Write /\ call'[w] = [call[w] EXCEPT !.at = "merge"]
      <3>1. call'[w].at = "merge" /\ call'[w].obj = call[w].obj /\ call'[w].base = call[w].base
        BY <2>4, WriteSteps
      <3>2. call[w].base + 1 \in versions'[call[w].obj]
        BY <1>1, <2>4, <3>1, InsertContinues DEF LogInv, TypeOK
      <3> QED
        BY <3>1, <3>2 DEF Prepared
    <2> QED
      BY <1>3, <2>1, <2>2, <2>3, <2>4, CallStep, IdleIsNoCall, WriteIsNoLink
  <1> QED
    BY <1>2, <1>3

LEMMA GraphKept ==
  ASSUME LogInv, [Next]_vars
  PROVE  GraphIsBacked'
  <1>0. \A o \in Object : versions[o] \subseteq versions'[o]
    BY LogKept
  <1>1. ASSUME NEW w \in Writer, MergeObject(w) PROVE GraphIsBacked'
    <2>1. call[w].base + 1 \in versions[call[w].obj] /\ call[w].obj \in Object
      BY <1>1 DEF MergeObject, LogInv, Prepared, Write
    <2> QED
      BY <1>1, <2>1 DEF MergeObject, LogInv, TypeOK, GraphIsBacked
  <1>2. ASSUME NEW w \in Writer, MergeEdge(w) PROVE GraphIsBacked'
    BY <1>2 DEF MergeEdge, Link, LogInv, TypeOK, GraphIsBacked
  <1>3. ASSUME UNCHANGED <<node, edges>> PROVE GraphIsBacked'
    BY <1>0, <1>3 DEF LogInv, TypeOK, GraphIsBacked
  <1> QED
    BY <1>1, <1>2, <1>3 DEF Next, vars, BeginPropose, BeginUpdate, SupersedePriorVersion,
       InsertVersion, WriteFails, BeginLink, LinkFails

LEMMA LogInvariant == Spec => []LogInv
  <1>1. LogInv /\ [Next]_vars => LogInv'
    BY TypeKept, LogKept, PreparedKept, GraphKept DEF LogInv
  <1> QED
    BY <1>1, LogInit, PTL DEF Spec

\* The state stays well typed.
THEOREM Types == Spec => []TypeOK
  BY LogInvariant, PTL DEF LogInv

\* However writes overlap and fail, only an object's newest version is current.
THEOREM CurrentIsNewest == Spec => []OneCurrent
  <1>1. LogInv => OneCurrent
    <2> SUFFICES ASSUME LogInv, NEW o \in Object, NEW v \in current[o]
                 PROVE  v \in versions[o] /\ \A u \in versions[o] : u <= v
      BY DEF OneCurrent
    <2>1. PICK n \in 0..MaxVersion : versions[o] = 1..n /\ current[o] \subseteq {n} \ {0}
      BY DEF LogInv, Gapless
    <2> QED
      BY <2>1
  <1> QED
    BY <1>1, LogInvariant, PTL

\* The graph holds nothing the version history has no row of.
THEOREM GraphBacked == Spec => []GraphIsBacked
  BY LogInvariant, PTL DEF LogInv

\* The store implements the version log: what it writes is appended without a
\* gap, to an object none of whose versions is current.
THEOREM StoreImplementsLog == Spec => ImplementsVersionLog
  <1>1. Init => Log!Init
    BY DEF Init, Log!Init
  <1>2. LogInv /\ [Next]_vars => [Log!Next]_<<versions, current>>
    BY LogStep
  <1> QED
    BY <1>1, <1>2, LogInvariant, PTL DEF Spec, ImplementsVersionLog, Log!Spec

-----------------------------------------------------------------------------
Quiet(o) == \A w \in Writer : ~Writes(w, o)

Agrees(o) ==
    versions[o] # {} =>
        \E n \in versions[o] : versions[o] = 1..n /\ current[o] = {n} /\ node[o] = n

\* Where an undisturbed write of an object stands.
OnTrack(w, o) ==
    LET base == call[w].base
    IN  \/ /\ call[w].at = "supersede"
           /\ versions[o] = 1..base /\ current[o] = {base} /\ node[o] = base
        \/ /\ call[w].at = "insert"
           /\ versions[o] = 1..base /\ current[o] = {} /\ node[o] = base
        \/ /\ call[w].at = "merge"
           /\ versions[o] = 1..(base + 1) /\ current[o] = {base + 1}

\* An undisturbed object has one writer at most, on track, or is at rest.
Tracked(o) ==
    o \notin disturbed =>
        /\ Quiet(o) => Agrees(o)
        /\ \A w \in Writer : Writes(w, o) => OnTrack(w, o)
        /\ \A w, u \in Writer : Writes(w, o) /\ Writes(u, o) => w = u

\* What a step does not touch stays tracked.
Untouched(o) ==
    /\ versions'[o] = versions[o] /\ current'[o] = current[o] /\ node'[o] = node[o]
    /\ disturbed \subseteq disturbed'
    /\ \A w \in Writer : call'[w] = call[w] \/ (~Writes(w, o) /\ ~Writes(w, o)')

LEMMA UntouchedTracked ==
  ASSUME NEW o \in Object, Tracked(o), Untouched(o)
  PROVE  Tracked(o)'
  <1>1. \A w \in Writer : Writes(w, o)' <=> Writes(w, o)
    BY DEF Untouched, Writes
  <1>2. Quiet(o)' <=> Quiet(o)
    BY <1>1 DEF Quiet
  <1>3. Agrees(o) => Agrees(o)'
    BY DEF Untouched, Agrees
  <1>4. ASSUME NEW w \in Writer, Writes(w, o)', OnTrack(w, o) PROVE OnTrack(w, o)'
    <2>1. call'[w] = call[w]
      BY <1>4 DEF Untouched
    <2> QED
      BY <1>4, <2>1 DEF Untouched, OnTrack
  <1> QED
    BY <1>1, <1>2, <1>3, <1>4 DEF Tracked, Untouched

\* An object nobody has written has neither a current version nor a node.
LEMMA UnwrittenIsEmpty ==
  ASSUME LogInv, NEW o \in Object, versions[o] = {}
  PROVE  current[o] = {} /\ node[o] = 0
  <1>1. PICK n \in 0..MaxVersion : versions[o] = 1..n /\ current[o] \subseteq {n} \ {0}
    BY DEF LogInv, Gapless
  <1>2. n = 0
    BY <1>1
  <1> QED
    BY <1>1, <1>2 DEF LogInv, GraphIsBacked

LEMMA TrackedKept ==
  ASSUME LogInv, [Next]_vars, NEW o \in Object, Tracked(o)
  PROVE  Tracked(o)'
  <1>0. /\ call \in [Writer -> {Idle} \union Write \union Link]
        /\ versions \in [Object -> SUBSET (1..MaxVersion)]
        /\ current \in [Object -> SUBSET (1..MaxVersion)]
        /\ node \in [Object -> 0..MaxVersion]
    BY DEF LogInv, TypeOK
  <1>1. ASSUME NEW w \in Writer, NEW x \in Object, BeginPropose(w, x) PROVE Tracked(o)'
    <2>1. /\ ~Writes(w, o)
          /\ call'[w] = [at |-> "insert", obj |-> x, base |-> 0]
          /\ \A u \in Writer \ {w} : call'[u] = call[u]
      BY <1>0, <1>1, IdleIsNoCall DEF BeginPropose, Writes
    <2>2. CASE x # o
      <3>1. ~Writes(w, o)'
        BY <2>1, <2>2 DEF Writes
      <3>2. Untouched(o)
        BY <1>1, <2>1, <3>1 DEF Untouched, BeginPropose
      <3> QED
        BY <3>2, UntouchedTracked
    <2>3. CASE x = o
      <3>1. versions'[o] = {} /\ current'[o] = {} /\ node'[o] = 0
        BY <1>1, <2>3, UnwrittenIsEmpty DEF BeginPropose
      <3>2. call'[w].at = "insert" /\ call'[w].base = 0 /\ 1..0 = {}
        BY <2>1
      <3>3. OnTrack(w, o)'
        BY <3>1, <3>2 DEF OnTrack
      <3>4. \A u \in Writer \ {w} : ~Writes(u, o)'
        BY <1>1, <2>1, <2>3 DEF BeginPropose, Writes
      <3>5. Writes(w, o)'
        BY <1>1, <2>1, <2>3, BoundAssumption DEF Writes, Write
      <3> QED
        BY <3>3, <3>4, <3>5 DEF Tracked, Quiet
    <2> QED
      BY <2>2, <2>3
  <1>2. ASSUME NEW w \in Writer, NEW x \in Object, BeginUpdate(w, x) PROVE Tracked(o)'
    <2>1. PICK v \in current[x] :
             call' = [call EXCEPT ![w] = [at |-> "supersede", obj |-> x, base |-> v]]
      BY <1>2 DEF BeginUpdate
    <2>2. /\ ~Writes(w, o)
          /\ call'[w] = [at |-> "supersede", obj |-> x, base |-> v]
          /\ \A u \in Writer \ {w} : call'[u] = call[u]
      BY <1>0, <1>2, <2>1, IdleIsNoCall DEF BeginUpdate, Writes
    <2>3. CASE x # o
      <3>1. ~Writes(w, o)'
        BY <2>2, <2>3 DEF Writes
      <3>2. Untouched(o)
        BY <1>2, <2>2, <3>1 DEF Untouched, BeginUpdate
      <3> QED
        BY <3>2, UntouchedTracked
    <2>4. CASE x = o /\ o \notin disturbed'
      <3>1. Quiet(o) /\ o \notin disturbed
        BY <1>2, <2>4 DEF BeginUpdate, Quiet
      <3>2. v \in versions[o]
        BY <2>1, <2>4 DEF LogInv, Gapless
      <3>3. versions[o] = 1..v /\ current[o] = {v} /\ node[o] = v
        BY <2>1, <2>4, <3>1, <3>2 DEF Tracked, Agrees
      <3>4. OnTrack(w, o)'
        BY <1>2, <2>2, <3>3 DEF OnTrack, BeginUpdate
      <3>5. \A u \in Writer \ {w} : ~Writes(u, o)'
        BY <2>2, <3>1 DEF Quiet, Writes
      <3>6. Writes(w, o)'
        BY <1>0, <2>1, <2>2, <2>4, BoundAssumption DEF Writes, Write
      <3> QED
        BY <3>4, <3>5, <3>6 DEF Tracked, Quiet
    <2>5. CASE o \in disturbed'
      BY <2>5 DEF Tracked
    <2> QED
      BY <2>3, <2>4, <2>5
  <1>3. ASSUME NEW w \in Writer, call[w] \in Write,
               call[w].obj = o => \/ o \in disturbed'
                                  \/ Writes(w, o)' /\ OnTrack(w, o)'
                                  \/ call'[w] = Idle /\ Agrees(o)',
               call[w].obj # o => /\ versions'[o] = versions[o]
                                  /\ current'[o] = current[o] /\ node'[o] = node[o],
               disturbed \subseteq disturbed',
               call'[w] = Idle \/ (call'[w] \in Write /\ call'[w].obj = call[w].obj),
               \A u \in Writer \ {w} : call'[u] = call[u]
        PROVE  Tracked(o)'
    <2>1. CASE call[w].obj = o /\ o \in disturbed'
      BY <1>3, <2>1 DEF Tracked
    <2>2. CASE call[w].obj = o /\ o \notin disturbed'
      <3>1. Writes(w, o) /\ o \notin disturbed
        BY <1>3, <2>2 DEF Writes
      <3>2. \A u \in Writer \ {w} : ~Writes(u, o)'
        <4>1. \A u \in Writer \ {w} : ~Writes(u, o)
          BY <3>1 DEF Tracked
        <4> QED
          BY <1>3, <4>1 DEF Writes
      <3>3. CASE Writes(w, o)' /\ OnTrack(w, o)'
        BY <3>2, <3>3 DEF Tracked, Quiet
      <3>4. CASE call'[w] = Idle /\ Agrees(o)'
        <4>1. ~Writes(w, o)'
          BY <3>4, IdleIsNoCall DEF Writes
        <4> QED
          BY <3>2, <3>4, <4>1 DEF Tracked, Quiet
      <3> QED
        BY <1>3, <2>2, <3>3, <3>4
    <2>3. CASE call[w].obj # o
      <3>1. ~Writes(w, o) /\ ~Writes(w, o)'
        BY <1>3, <2>3, IdleIsNoCall DEF Writes
      <3>2. Untouched(o)
        BY <1>3, <2>3, <3>1 DEF Untouched
      <3> QED
        BY <3>2, UntouchedTracked
    <2> QED
      BY <2>1, <2>2, <2>3
  <1>4. ASSUME NEW w \in Writer, SupersedePriorVersion(w) PROVE Tracked(o)'
    <2> DEFINE d == [call[w] EXCEPT !.at = "insert"]
    <2>1. /\ call[w] \in Write /\ call[w].at = "supersede"
          /\ d \in Write /\ d.at = "insert" /\ d.obj = call[w].obj /\ d.base = call[w].base
      BY <1>4, WriteSteps DEF SupersedePriorVersion
    <2>2. \/ call' = [call EXCEPT ![w] = d] /\ disturbed' = disturbed
          \/ /\ call' = [call EXCEPT ![w] = Idle]
             /\ disturbed' = disturbed \union {call[w].obj}
      BY <1>4 DEF SupersedePriorVersion, Continue
    <2>3. \A u \in Writer \ {w} : call'[u] = call[u]
      BY <1>0, <2>2
    <2>4. disturbed \subseteq disturbed' /\ (call'[w] = d \/ call'[w] = Idle)
      BY <1>0, <2>2
    <2>5. ASSUME call[w].obj = o, o \notin disturbed'
          PROVE  Writes(w, o)' /\ OnTrack(w, o)'
      <3>1. call'[w] = d /\ o \notin disturbed /\ Writes(w, o)
        BY <1>0, <2>1, <2>2, <2>5 DEF Writes
      <3>2. OnTrack(w, o)
        BY <3>1 DEF Tracked
      <3>3. /\ versions[o] = 1..call[w].base /\ node[o] = call[w].base
        BY <2>1, <3>2 DEF OnTrack
      <3>4. versions'[o] = versions[o] /\ node'[o] = node[o] /\ current'[o] = {}
        BY <1>0, <1>4, <2>5 DEF SupersedePriorVersion
      <3> QED
        BY <2>1, <2>5, <3>1, <3>3, <3>4 DEF OnTrack, Writes
    <2>6. call[w].obj # o => versions'[o] = versions[o] /\ current'[o] = current[o] /\ node'[o] = node[o]
      BY <1>0, <1>4 DEF SupersedePriorVersion
    <2> HIDE DEF d
    <2> QED
      BY <1>3, <2>1, <2>3, <2>4, <2>5, <2>6
  <1>5. ASSUME NEW w \in Writer, InsertVersion(w) PROVE Tracked(o)'
    <2> DEFINE d == [call[w] EXCEPT !.at = "merge"]
    <2>1. /\ call[w] \in Write /\ call[w].at = "insert"
          /\ d \in Write /\ d.at = "merge" /\ d.obj = call[w].obj /\ d.base = call[w].base
      BY <1>5, WriteSteps DEF InsertVersion
    <2>2. \/ call' = [call EXCEPT ![w] = d] /\ disturbed' = disturbed
          \/ /\ call' = [call EXCEPT ![w] = Idle]
             /\ disturbed' = disturbed \union {call[w].obj}
      BY <1>5 DEF InsertVersion, Continue
    <2>3. \A u \in Writer \ {w} : call'[u] = call[u]
      BY <1>0, <2>2
    <2>4. disturbed \subseteq disturbed' /\ (call'[w] = d \/ call'[w] = Idle)
      BY <1>0, <2>2
    <2>5. ASSUME call[w].obj = o, o \notin disturbed'
          PROVE  Writes(w, o)' /\ OnTrack(w, o)'
      <3>1. call'[w] = d
        BY <1>0, <2>1, <2>2, <2>5
      <3>2. /\ versions' = [versions EXCEPT ![o] = 1..(call[w].base + 1)]
            /\ current' = [current EXCEPT ![o] = {call[w].base + 1}]
        BY <1>5, <2>5, InsertContinues
      <3>3. versions'[o] = 1..(call[w].base + 1) /\ current'[o] = {call[w].base + 1}
        BY <1>0, <3>2
      <3> QED
        BY <2>1, <2>5, <3>1, <3>3 DEF OnTrack, Writes
    <2>6. call[w].obj # o => versions'[o] = versions[o] /\ current'[o] = current[o] /\ node'[o] = node[o]
      BY <1>0, <1>5 DEF InsertVersion
    <2> HIDE DEF d
    <2> QED
      BY <1>3, <2>1, <2>3, <2>4, <2>5, <2>6
  <1>6. ASSUME NEW w \in Writer, MergeObject(w) PROVE Tracked(o)'
    <2>1. /\ call[w] \in Write /\ call[w].at = "merge" /\ call[w].base \in 0..MaxVersion
      BY <1>6 DEF MergeObject, Write
    <2>2. call' = [call EXCEPT ![w] = Idle] /\ disturbed \subseteq disturbed'
      BY <1>6 DEF MergeObject, Continue
    <2>3. ASSUME call[w].obj = o, o \notin disturbed' PROVE Agrees(o)'
      <3>1. OnTrack(w, o)
        BY <2>1, <2>2, <2>3 DEF Tracked, Writes
      <3>2. versions[o] = 1..(call[w].base + 1) /\ current[o] = {call[w].base + 1}
        BY <2>1, <3>1 DEF OnTrack
      <3>3. versions'[o] = versions[o] /\ current'[o] = current[o] /\ node'[o] = call[w].base + 1
        BY <1>0, <1>6, <2>3 DEF MergeObject
      <3> QED
        BY <2>1, <3>2, <3>3, BoundAssumption DEF Agrees
    <2>4. call[w].obj # o => versions'[o] = versions[o] /\ current'[o] = current[o] /\ node'[o] = node[o]
      BY <1>0, <1>6 DEF MergeObject
    <2>5. call'[w] = Idle /\ \A u \in Writer \ {w} : call'[u] = call[u]
      BY <1>0, <2>2
    <2> QED
      BY <1>3, <2>1, <2>2, <2>3, <2>4, <2>5
  <1>7. ASSUME NEW w \in Writer, WriteFails(w) PROVE Tracked(o)'
    <2>1. /\ call'[w] = Idle /\ \A u \in Writer \ {w} : call'[u] = call[u]
          /\ UNCHANGED <<versions, current, node>>
          /\ disturbed' = disturbed \union {call[w].obj} /\ call[w] \in Write
      BY <1>0, <1>7 DEF WriteFails
    <2> QED
      BY <1>3, <2>1
  <1>8. ASSUME NEW w \in Writer, call[w] \notin Write, call'[w] \notin Write,
               \A u \in Writer \ {w} : call'[u] = call[u],
               UNCHANGED <<versions, current, node, disturbed>>
        PROVE  Tracked(o)'
    <2>1. Untouched(o)
      BY <1>8 DEF Untouched, Writes
    <2> QED
      BY <2>1, UntouchedTracked
  <1>9. ASSUME NEW w \in Writer, NEW from \in Object, NEW to \in Object, BeginLink(w, from, to)
        PROVE  Tracked(o)'
    <2>1. call[w] \notin Write /\ call'[w] \notin Write
      BY <1>0, <1>9, IdleIsNoCall DEF BeginLink, Write
    <2> QED
      BY <1>8, <1>9, <2>1 DEF BeginLink
  <1>10. ASSUME NEW w \in Writer, MergeEdge(w) \/ LinkFails(w) PROVE Tracked(o)'
    <2>1. /\ call[w] \notin Write /\ call'[w] = Idle
          /\ \A u \in Writer \ {w} : call'[u] = call[u]
          /\ UNCHANGED <<versions, current, node, disturbed>>
      BY <1>0, <1>10, WriteIsNoLink DEF MergeEdge, LinkFails
    <2> QED
      BY <1>8, <2>1, IdleIsNoCall
  <1>11. CASE UNCHANGED vars
    <2>1. Untouched(o)
      BY <1>11 DEF vars, Untouched
    <2> QED
      BY <2>1, UntouchedTracked
  <1> QED
    BY <1>1, <1>2, <1>4, <1>5, <1>6, <1>7, <1>9, <1>10, <1>11 DEF Next

\* An object whose writes neither failed nor overlapped shows, once they are
\* done, its newest version as the current one and in the graph.
THEOREM QuietAgreement == Spec => []QuietObjectsAgree
  <1> DEFINE TrackInv == \A o \in Object : Tracked(o)
  <1>1. Init => TrackInv
    BY IdleIsNoCall DEF Init, Tracked, Quiet, Writes, Agrees
  <1>2. LogInv /\ TrackInv /\ [Next]_vars => TrackInv'
    BY TrackedKept
  <1>3. TrackInv => QuietObjectsAgree
    BY DEF Tracked, Quiet, Agrees, QuietObjectsAgree
  <1> HIDE DEF TrackInv
  <1> QED
    BY <1>1, <1>2, <1>3, LogInvariant, PTL DEF Spec

-----------------------------------------------------------------------------
(* The approval gate *)

\* A dispatch that won its token.
Won(a) == attempt[a].at \in {"run", "audit", "outcome"} \/ a \in performed

\* A dispatch past the gate's checks presents a token that was given for its
\* call; once it has won, the token is used.
Approved(a) ==
    /\ attempt[a].at = "consume" \/ Won(a) =>
           attempt[a].token \in held /\ BoundTo(attempt[a].token, attempt[a].call)
    /\ Won(a) => token[attempt[a].token].used

\* What has not happened yet to a dispatch that is this far.
InOrder(a) ==
    /\ attempt[a].at \in {"new", "consume", "run"} => a \notin performed
    /\ attempt[a].at \in {"new", "consume", "run", "audit"} =>
           \A ok \in BOOLEAN : <<a, ok>> \notin events
    /\ attempt[a].at # "done" => \A o \in Outcome : <<a, o>> \notin trail
    /\ attempt[a].at \in {"audit", "outcome"} /\ attempt[a].ok => a \in performed
    /\ attempt[a].at = "outcome" => <<a, ~attempt[a].ok>> \notin events

Alone == \A a, b \in Attempt : Won(a) /\ Won(b) /\ attempt[a].token = attempt[b].token => a = b

GateInv ==
    /\ GateTypeOK
    /\ \A a \in Attempt : Approved(a) /\ InOrder(a)
    /\ Alone
    /\ \A t \in held : token[t].call # NoCall
    /\ AuditIsTrue

LEMMA GateStart == GateInit => GateInv
  <1> SUFFICES ASSUME GateInit PROVE GateInv
    OBVIOUS
  <1>1. GateTypeOK
    BY LifetimeAssumption DEF GateInit, GateTypeOK, Unissued, NotStarted, Step
  <1> QED
    BY <1>1 DEF GateInit, GateInv, Approved, InOrder, Alone, Won, AuditIsTrue, NotStarted

\* A log grows by at most the given row.
LEMMA Emitted ==
  ASSUME NEW log, NEW row, NEW new \in MayEmit(log, row)
  PROVE  log \subseteq new /\ \A r \in new : r \in log \/ r = row
  BY DEF MayEmit

\* Issuing touches no token that anybody holds.
LEMMA IssueKeeps ==
  ASSUME GateInv, NEW t \in Token, NEW c \in Call, IssueToken(t, c)
  PROVE  GateInv'
  <1>1. t \notin held
    BY DEF IssueToken, GateInv, Unissued
  <1>2. \A u \in held : u \in held' /\ token'[u] = token[u]
    BY <1>1 DEF IssueToken, GateInv, GateTypeOK
  <1>3. GateTypeOK'
    BY LifetimeAssumption DEF IssueToken, GateInv, GateTypeOK
  <1>4. ASSUME NEW a \in Attempt PROVE (Approved(a) /\ InOrder(a))'
    BY <1>2 DEF IssueToken, GateInv, Approved, InOrder, Won, BoundTo
  <1>5. Alone' /\ AuditIsTrue'
    BY DEF IssueToken, GateInv, Alone, Won, AuditIsTrue
  <1>6. \A u \in held' : token'[u].call # NoCall
    BY <1>1, <1>2, NamesAssumption DEF IssueToken, GateInv, GateTypeOK
  <1> QED
    BY <1>3, <1>4, <1>5, <1>6 DEF GateInv

LEMMA TickKeeps ==
  ASSUME GateInv, Tick
  PROVE  GateInv'
  <1>1. \A t \in Token : /\ token'[t].call = token[t].call /\ token'[t].used = token[t].used
                         /\ token'[t] \in [call: Call \union {NoCall}, left: 0..Lifetime, used: BOOLEAN]
    BY LifetimeAssumption DEF Tick, GateInv, GateTypeOK
  <1>2. GateTypeOK'
    BY <1>1 DEF Tick, GateInv, GateTypeOK
  <1>3. ASSUME NEW a \in Attempt PROVE (Approved(a) /\ InOrder(a))'
    BY <1>1, <1>3 DEF Tick, GateInv, GateTypeOK, Approved, InOrder, Won, BoundTo
  <1>4. Alone' /\ AuditIsTrue'
    BY DEF Tick, GateInv, Alone, Won, AuditIsTrue
  <1>5. \A t \in held' : token'[t].call # NoCall
    BY <1>1 DEF Tick, GateInv, GateTypeOK
  <1> QED
    BY <1>2, <1>3, <1>4, <1>5 DEF GateInv

\* A step of dispatch a alone, that wins no token and leaves the tokens in place.
StepsAside(a) ==
    /\ attempt' \in [Attempt -> [at: Step, call: Call \union {NoCall},
                                 token: Token \union {NoToken}, ok: BOOLEAN]]
    /\ \A b \in Attempt \ {a} : attempt'[b] = attempt[b]
    /\ UNCHANGED held
    /\ token' \in [Token -> [call: Call \union {NoCall}, left: 0..Lifetime, used: BOOLEAN]]
    /\ \A t \in Token : token'[t].call = token[t].call /\ (token[t].used => token'[t].used)
    /\ performed \subseteq performed' /\ performed' \subseteq performed \union {a}
    /\ events \subseteq events' /\ events' \subseteq events \union ({a} \X BOOLEAN)
    /\ trail \subseteq trail' /\ trail' \subseteq trail \union ({a} \X Outcome)

\* Such a step has to be examined for its own dispatch only.
LEMMA OnlyOwnDispatch ==
  ASSUME GateInv, NEW a \in Attempt, StepsAside(a),
         (Approved(a) /\ InOrder(a))',
         Won(a)' => \A b \in Attempt \ {a} :
                       Won(b) => attempt[b].token # attempt'[a].token,
         \A r \in trail' \ trail :
            /\ r[2] = "success" => a \in performed' /\ <<a, FALSE>> \notin events'
            /\ r[2] \in {"rejected_no_token", "rejected_bad_token"} =>
                  a \notin performed' /\ \A ok \in BOOLEAN : <<a, ok>> \notin events'
            /\ \A s \in trail' : s[1] = a => s = r,
         trail' # trail => performed' = performed /\ events' = events,
         \A o \in Outcome : <<a, o>> \in trail => trail' = trail /\ performed' = performed /\ events' = events,
         \A e \in events' \ events : e[2] => a \in performed'
  PROVE  GateInv'
  <1>1. GateTypeOK'
    BY DEF StepsAside, GateInv, GateTypeOK
  <1>2. ASSUME NEW b \in Attempt \ {a} PROVE (Approved(b) /\ InOrder(b))' /\ (Won(b)' <=> Won(b))
    <2>1. Won(b)' <=> Won(b)
      BY DEF StepsAside, Won
    <2>2. Approved(b)'
      BY <2>1 DEF StepsAside, GateInv, Approved, BoundTo, GateTypeOK
    <2>3. InOrder(b)'
      BY DEF StepsAside, GateInv, InOrder
    <2> QED
      BY <2>1, <2>2, <2>3
  <1>3. Alone'
    BY <1>2 DEF StepsAside, GateInv, Alone
  <1>4. \A t \in held' : token'[t].call # NoCall
    BY DEF StepsAside, GateInv, GateTypeOK
  <1>5. AuditIsTrue'
    <2>1. \A r \in trail' : r[1] \in Attempt /\ r[2] \in Outcome /\ r = <<r[1], r[2]>>
      BY <1>1 DEF GateTypeOK
    <2>2. ASSUME NEW r \in trail' \ trail
          PROVE  /\ r[1] = a
                 /\ r[2] = "success" => r[1] \in performed' /\ <<r[1], FALSE>> \notin events'
                 /\ r[2] \in {"rejected_no_token", "rejected_bad_token"} =>
                        r[1] \notin performed' /\ \A ok \in BOOLEAN : <<r[1], ok>> \notin events'
                 /\ \A s \in trail' : s[1] = r[1] => s = r
      BY <2>1, <2>2 DEF StepsAside
    <2>3. ASSUME NEW r \in trail
          PROVE  /\ r[2] = "success" => r[1] \in performed' /\ <<r[1], FALSE>> \notin events'
                 /\ r[2] \in {"rejected_no_token", "rejected_bad_token"} =>
                        r[1] \notin performed' /\ \A ok \in BOOLEAN : <<r[1], ok>> \notin events'
      <3>1. r \in trail' /\ r[1] \in Attempt /\ r[2] \in Outcome /\ r = <<r[1], r[2]>>
        BY <2>1, <2>3 DEF StepsAside
      <3>2. CASE r[1] = a
        <4>1. performed' = performed /\ events' = events
          BY <2>3, <3>1, <3>2
        <4> QED
          BY <2>3, <4>1 DEF GateInv, AuditIsTrue
      <3>3. CASE r[1] # a
        BY <2>3, <3>1, <3>3 DEF StepsAside, GateInv, AuditIsTrue
      <3> QED
        BY <3>2, <3>3
    <2>4. ASSUME NEW r \in trail, NEW s \in trail', s[1] = r[1] PROVE s = r
      <3>1. CASE s \in trail
        BY <2>4, <3>1 DEF GateInv, AuditIsTrue
      <3>2. CASE s \notin trail
        <4>1. r \in trail'
          BY <2>4 DEF StepsAside
        <4> QED
          BY <2>2, <2>4, <3>2, <4>1
      <3> QED
        BY <3>1, <3>2
    <2>5. ASSUME NEW e \in events' PROVE e[2] => e[1] \in performed'
      BY <2>5 DEF StepsAside, GateInv, AuditIsTrue, GateTypeOK
    <2> QED
      BY <2>2, <2>3, <2>4, <2>5 DEF AuditIsTrue
  <1> QED
    BY <1>1, <1>2, <1>3, <1>4, <1>5 DEF GateInv

\* Refusals, before the gate or at it.
LEMMA RefuseKeeps ==
  ASSUME GateInv, NEW a \in Attempt, attempt[a].at \in {"new", "consume"},
         NEW o \in {"rejected_no_token", "rejected_bad_token"},
         attempt' \in [Attempt -> [at: Step, call: Call \union {NoCall},
                                   token: Token \union {NoToken}, ok: BOOLEAN]],
         attempt'[a].at = "done", \A b \in Attempt \ {a} : attempt'[b] = attempt[b],
         trail' \in MayEmit(trail, <<a, o>>),
         token' \in [Token -> [call: Call \union {NoCall}, left: 0..Lifetime, used: BOOLEAN]],
         \A u \in Token : token'[u].call = token[u].call /\ (token[u].used => token'[u].used),
         UNCHANGED <<held, performed, events>>
  PROVE  GateInv'
  <1>1. /\ a \notin performed /\ \A ok \in BOOLEAN : <<a, ok>> \notin events
        /\ \A x \in Outcome : <<a, x>> \notin trail
    BY DEF GateInv, InOrder
  <1>2. trail \subseteq trail' /\ \A r \in trail' : r \in trail \/ r = <<a, o>>
    BY Emitted
  <1>4. o \in Outcome
    BY DEF Outcome
  <1>5. StepsAside(a)
    <2>1. trail' \subseteq trail \union ({a} \X Outcome)
      BY <1>2, <1>4
    <2> QED
      BY <1>2, <2>1 DEF StepsAside, GateInv, GateTypeOK, Step
  <1>6. ~Won(a)' /\ (Approved(a) /\ InOrder(a))'
    BY <1>1 DEF Won, Approved, InOrder
  <1>7. \A r \in trail' : r[1] = a => r = <<a, o>>
    <2> SUFFICES ASSUME NEW r \in trail', r[1] = a, r # <<a, o>> PROVE FALSE
      OBVIOUS
    <2>1. r \in trail
      BY <1>2
    <2>2. r[2] \in Outcome /\ r = <<r[1], r[2]>>
      BY <2>1 DEF GateInv, GateTypeOK
    <2> QED
      BY <1>1, <2>1, <2>2
  <1>8. \A r \in trail' \ trail : r = <<a, o>>
    BY <1>2
  <1>9. \A r \in trail' \ trail :
            /\ r[2] = "success" => a \in performed' /\ <<a, FALSE>> \notin events'
            /\ r[2] \in {"rejected_no_token", "rejected_bad_token"} =>
                  a \notin performed' /\ \A ok \in BOOLEAN : <<a, ok>> \notin events'
            /\ \A s \in trail' : s[1] = a => s = r
    BY <1>1, <1>7, <1>8
  <1>10. \A x \in Outcome : <<a, x>> \in trail =>
            trail' = trail /\ performed' = performed /\ events' = events
    BY <1>1
  <1>11. \A e \in events' \ events : e[2] => a \in performed'
    OBVIOUS
  <1>12. trail' # trail => performed' = performed /\ events' = events
    OBVIOUS
  <1> QED
    BY <1>5, <1>6, <1>9, <1>10, <1>11, <1>12, OnlyOwnDispatch

\* A step that leaves the audit trail and what was performed alone.
LEMMA SilentKeeps ==
  ASSUME GateInv, NEW a \in Attempt, StepsAside(a),
         (Approved(a) /\ InOrder(a))',
         Won(a)' => \A b \in Attempt \ {a} :
                       Won(b) => attempt[b].token # attempt'[a].token,
         attempt[a].at # "done" \/ UNCHANGED <<performed, events>>,
         UNCHANGED trail, \A e \in events' \ events : e[2] => a \in performed'
  PROVE  GateInv'
  <1>1. \A o \in Outcome : <<a, o>> \in trail => UNCHANGED <<performed, events>>
    BY DEF GateInv, InOrder
  <1> QED
    BY <1>1, OnlyOwnDispatch

LEMMA DispatchKeeps ==
  ASSUME GateInv, NEW a \in Attempt
  PROVE  /\ RejectParameters(a) \/ Crash(a) => GateInv'
         /\ \A c \in Call, t \in Token : AcceptToken(a, c, t) => GateInv'
         /\ Consume(a) => GateInv'
         /\ \A acts, ok \in BOOLEAN : RunHandler(a, acts, ok) => GateInv'
         /\ EmitAudit(a) => GateInv'
  <1>0. GateTypeOK /\ Approved(a) /\ InOrder(a) /\ Alone
    BY DEF GateInv
  <1>1. ASSUME RejectParameters(a) \/ Crash(a) PROVE GateInv'
    <2>1. StepsAside(a)
      BY <1>0, <1>1 DEF RejectParameters, Crash, Goes, StepsAside, GateTypeOK, Step
    <2>2. attempt'[a].at = "done" /\ attempt'[a].token = attempt[a].token /\ attempt'[a].call = attempt[a].call
      BY <1>0, <1>1 DEF RejectParameters, Crash, Goes, GateTypeOK
    <2>3. Won(a)' => Won(a)
      BY <1>1, <2>2 DEF RejectParameters, Crash, Won
    <2>4. Approved(a)' /\ InOrder(a)'
      BY <1>0, <1>1, <2>2, <2>3 DEF RejectParameters, Crash, Approved, InOrder, BoundTo
    <2>5. UNCHANGED <<performed, events, trail>>
      BY <1>1 DEF RejectParameters, Crash
    <2> QED
      BY <1>0, <2>1, <2>2, <2>3, <2>4, <2>5, SilentKeeps DEF Alone
  <1>2. ASSUME NEW c \in Call, NEW t \in Token, AcceptToken(a, c, t) PROVE GateInv'
    <2>1. attempt'[a] = [at |-> "consume", call |-> c, token |-> t, ok |-> FALSE]
      BY <1>0, <1>2 DEF AcceptToken, GateTypeOK
    <2>2. StepsAside(a)
      BY <1>0, <1>2 DEF AcceptToken, StepsAside, GateTypeOK, Step
    <2>3. ~Won(a)'
      BY <1>0, <1>2, <2>1 DEF AcceptToken, Won, InOrder
    <2>4. Approved(a)' /\ InOrder(a)'
      BY <1>0, <1>2, <2>1, <2>3 DEF AcceptToken, Approved, InOrder, BoundTo
    <2>5. UNCHANGED <<performed, events, trail>>
      BY <1>2 DEF AcceptToken
    <2> QED
      BY <2>2, <2>3, <2>4, <2>5, SilentKeeps
  <1>3. ASSUME Consume(a) PROVE GateInv'
    <2> DEFINE t == attempt[a].token
    <2>1. /\ attempt'[a].at = "run" /\ attempt'[a].token = t /\ attempt'[a].call = attempt[a].call
          /\ t \in held /\ t \in Token
      BY <1>0, <1>3 DEF Consume, Goes, GateTypeOK, Approved
    <2>2. /\ token' \in [Token -> [call: Call \union {NoCall}, left: 0..Lifetime, used: BOOLEAN]]
          /\ \A u \in Token : token'[u].call = token[u].call /\ (token[u].used => token'[u].used)
          /\ token'[t].used
      BY <1>0, <1>3, <2>1 DEF Consume, GateTypeOK
    <2>3. StepsAside(a)
      BY <1>0, <1>3, <2>2 DEF Consume, Goes, StepsAside, GateTypeOK, Step
    <2>4. \A b \in Attempt : Won(b) => attempt[b].token # t
      BY <1>3 DEF Consume, GateInv, Approved
    <2>5. Approved(a)' /\ InOrder(a)'
      BY <1>0, <1>3, <2>1, <2>2 DEF Consume, Approved, InOrder, BoundTo, Won
    <2>6. UNCHANGED <<performed, events, trail>>
      BY <1>3 DEF Consume
    <2> QED
      BY <2>1, <2>3, <2>4, <2>5, <2>6, SilentKeeps
  <1>4. ASSUME NEW acts \in BOOLEAN, NEW ok \in BOOLEAN, RunHandler(a, acts, ok) PROVE GateInv'
    <2>1. /\ attempt'[a].at = "audit" /\ attempt'[a].token = attempt[a].token
          /\ attempt'[a].call = attempt[a].call /\ attempt'[a].ok = ok
      BY <1>0, <1>4 DEF RunHandler, GateTypeOK
    <2>2. StepsAside(a)
      <3>1. performed \subseteq performed' /\ performed' \subseteq performed \union {a}
        BY <1>4 DEF RunHandler
      <3>2. UNCHANGED <<held, token, events, trail>>
        BY <1>4 DEF RunHandler
      <3>3. \A b \in Attempt \ {a} : attempt'[b] = attempt[b]
        BY <1>0, <1>4 DEF RunHandler, GateTypeOK
      <3>4. attempt' \in [Attempt -> [at: Step, call: Call \union {NoCall},
                                     token: Token \union {NoToken}, ok: BOOLEAN]]
        BY <1>0, <1>4, ZenonT(30) DEF RunHandler, GateTypeOK, Step
      <3> QED
        BY <1>0, <3>1, <3>2, <3>3, <3>4 DEF StepsAside, GateTypeOK
    <2>3. Won(a)
      BY <1>4 DEF RunHandler, Won
    <2>4. ok => a \in performed'
      BY <1>4 DEF RunHandler
    <2>5. Approved(a)' /\ InOrder(a)'
      BY <1>0, <1>4, <2>1, <2>3, <2>4 DEF RunHandler, Approved, InOrder, BoundTo, Won
    <2>6. UNCHANGED <<events, trail>> /\ attempt[a].at # "done"
      BY <1>4 DEF RunHandler
    <2> QED
      BY <1>0, <2>1, <2>2, <2>3, <2>5, <2>6, SilentKeeps DEF Alone
  <1>5. ASSUME EmitAudit(a) PROVE GateInv'
    <2>1. /\ attempt'[a].at = "outcome" /\ attempt'[a].token = attempt[a].token
          /\ attempt'[a].call = attempt[a].call /\ attempt'[a].ok = attempt[a].ok
          /\ attempt[a].ok \in BOOLEAN
      BY <1>0, <1>5 DEF EmitAudit, Goes, GateTypeOK
    <2>2. events \subseteq events' /\ \A e \in events' : e \in events \/ e = <<a, attempt[a].ok>>
      BY <1>5, Emitted DEF EmitAudit
    <2>3. StepsAside(a)
      <3>1. events' \subseteq events \union ({a} \X BOOLEAN)
        BY <2>1, <2>2
      <3> QED
        BY <1>0, <1>5, <2>2, <3>1 DEF EmitAudit, Goes, StepsAside, GateTypeOK, Step
    <2>4. Won(a)
      BY <1>5 DEF EmitAudit, Won
    <2>5. <<a, ~attempt[a].ok>> \notin events'
      BY <1>0, <1>5, <2>1, <2>2 DEF EmitAudit, InOrder
    <2>6. Approved(a)' /\ InOrder(a)'
      BY <1>0, <1>5, <2>1, <2>4, <2>5 DEF EmitAudit, Approved, InOrder, BoundTo, Won
    <2>7. \A e \in events' \ events : e[2] => a \in performed'
      BY <1>0, <1>5, <2>2 DEF EmitAudit, InOrder
    <2>8. UNCHANGED <<performed, trail>> /\ attempt[a].at # "done"
      BY <1>5 DEF EmitAudit
    <2> QED
      BY <1>0, <2>1, <2>3, <2>4, <2>6, <2>7, <2>8, SilentKeeps DEF Alone
  <1> QED
    BY <1>1, <1>2, <1>3, <1>4, <1>5

LEMMA OutcomeKeeps ==
  ASSUME GateInv, NEW a \in Attempt, EmitOutcome(a)
  PROVE  GateInv'
  <1> DEFINE o == IF attempt[a].ok THEN "success" ELSE "tool_error"
  <1>0. GateTypeOK /\ Approved(a) /\ InOrder(a) /\ Alone /\ o \in Outcome /\ attempt[a].at = "outcome"
    BY DEF GateInv, Outcome, EmitOutcome
  <1>1. /\ attempt'[a].at = "done" /\ attempt'[a].token = attempt[a].token
        /\ attempt'[a].call = attempt[a].call
    BY <1>0 DEF EmitOutcome, Goes, GateTypeOK
  <1>2. trail \subseteq trail' /\ \A r \in trail' : r \in trail \/ r = <<a, o>>
    BY Emitted DEF EmitOutcome
  <1>3. StepsAside(a)
    <2>1. trail' \subseteq trail \union ({a} \X Outcome)
      BY <1>0, <1>2
    <2> QED
      BY <1>0, <1>2, <2>1 DEF EmitOutcome, Goes, StepsAside, GateTypeOK, Step
  <1>4. Won(a) /\ Approved(a)' /\ InOrder(a)'
    BY <1>0, <1>1 DEF EmitOutcome, Approved, InOrder, Won, BoundTo
  <1>5. \A x \in Outcome : <<a, x>> \notin trail
    BY <1>0 DEF InOrder
  <1>6. \A r \in trail' : r[1] = a => r = <<a, o>>
    <2> SUFFICES ASSUME NEW r \in trail', r[1] = a, r # <<a, o>> PROVE FALSE
      OBVIOUS
    <2>1. r \in trail /\ r[2] \in Outcome /\ r = <<r[1], r[2]>>
      BY <1>0, <1>2 DEF GateTypeOK
    <2> QED
      BY <1>5, <2>1
  <1>7. attempt[a].ok => a \in performed' /\ <<a, FALSE>> \notin events'
    BY <1>0 DEF EmitOutcome, InOrder
  <1>8. UNCHANGED <<performed, events>>
    BY DEF EmitOutcome
  <1>9. \A r \in trail' \ trail : r = <<a, o>>
    BY <1>2
  <1>10. o = "success" => attempt[a].ok
    OBVIOUS
  <1>11. o \notin {"rejected_no_token", "rejected_bad_token"}
    OBVIOUS
  <1> HIDE DEF o
  <1>12. \A r \in trail' \ trail :
            /\ r[2] = "success" => a \in performed' /\ <<a, FALSE>> \notin events'
            /\ r[2] \in {"rejected_no_token", "rejected_bad_token"} =>
                  a \notin performed' /\ \A ok \in BOOLEAN : <<a, ok>> \notin events'
            /\ \A s \in trail' : s[1] = a => s = r
    BY <1>6, <1>7, <1>9, <1>10, <1>11
  <1>13. \A x \in Outcome : <<a, x>> \in trail =>
            trail' = trail /\ performed' = performed /\ events' = events
    BY <1>5
  <1>14. \A e \in events' \ events : e[2] => a \in performed'
    BY <1>8
  <1>15. \A b \in Attempt \ {a} : Won(b) => attempt[b].token # attempt'[a].token
    BY <1>0, <1>1, <1>4 DEF Alone
  <1> QED
    BY <1>3, <1>4, <1>8, <1>12, <1>13, <1>14, <1>15, OnlyOwnDispatch

LEMMA GateStep ==
  ASSUME GateInv, [GateNext]_gateVars
  PROVE  GateInv'
  <1>0. GateTypeOK
    BY DEF GateInv
  <1>1. ASSUME NEW a \in Attempt, NEW c \in Call, RejectWithoutToken(a, c) PROVE GateInv'
    BY <1>0, <1>1, RefuseKeeps DEF RejectWithoutToken, Refuse, GateTypeOK, Step
  <1>2. ASSUME NEW a \in Attempt, NEW c \in Call, NEW t \in Token, RejectToken(a, c, t) PROVE GateInv'
    BY <1>0, <1>2, RefuseKeeps DEF RejectToken, Refuse, GateTypeOK, Step
  <1>3. ASSUME NEW a \in Attempt, ConsumeRefused(a) PROVE GateInv'
    <2>1. attempt[a].call \in Call \union {NoCall} /\ attempt[a].token \in Token \union {NoToken}
      BY <1>0 DEF GateTypeOK
    <2> QED
      BY <1>0, <1>3, <2>1, RefuseKeeps DEF ConsumeRefused, Refuse, GateTypeOK, Step
  <1>4. ASSUME NEW a \in Attempt, ConsumeUnconfirmed(a) PROVE GateInv'
    <2> DEFINE t == attempt[a].token
    <2>2. t \in Token
      BY <1>0, <1>4 DEF ConsumeUnconfirmed, GateInv, Approved, GateTypeOK
    <2>3. /\ token' \in [Token -> [call: Call \union {NoCall}, left: 0..Lifetime, used: BOOLEAN]]
          /\ \A u \in Token : token'[u].call = token[u].call /\ (token[u].used => token'[u].used)
      BY <1>0, <1>4, <2>2 DEF ConsumeUnconfirmed, GateTypeOK
    <2>4. /\ attempt' \in [Attempt -> [at: Step, call: Call \union {NoCall},
                                      token: Token \union {NoToken}, ok: BOOLEAN]]
          /\ attempt'[a].at = "done" /\ \A b \in Attempt \ {a} : attempt'[b] = attempt[b]
      BY <1>0, <1>4 DEF ConsumeUnconfirmed, Goes, GateTypeOK, Step
    <2>5. attempt[a].at \in {"new", "consume"}
      BY <1>4 DEF ConsumeUnconfirmed
    <2> QED
      BY <1>4, <2>3, <2>4, <2>5, RefuseKeeps DEF ConsumeUnconfirmed
  <1>5. CASE UNCHANGED gateVars
    <2>1. \A a \in Attempt : (Approved(a) /\ InOrder(a) <=> (Approved(a) /\ InOrder(a))')
      BY <1>5 DEF gateVars, Approved, InOrder, Won, BoundTo
    <2> QED
      BY <1>5, <2>1 DEF gateVars, GateInv, GateTypeOK, Alone, Won, AuditIsTrue
  <1> QED
    BY <1>1, <1>2, <1>3, <1>4, <1>5, IssueKeeps, TickKeeps, DispatchKeeps, OutcomeKeeps DEF GateNext

LEMMA GateInvariant == GateSpec => []GateInv
  BY GateStart, GateStep, PTL DEF GateSpec

\* The state stays well typed.
THEOREM GateTypes == GateSpec => []GateTypeOK
  BY GateInvariant, PTL DEF GateInv

\* However many dispatches race for a token, and wherever they stop, one
\* approval lets one mutation through: the one it was given for.
THEOREM ApprovalsAreSingleUse == GateSpec => []OneMutationPerApproval
  <1>1. GateInv => OneMutationPerApproval
    BY DEF GateInv, Approved, Alone, Won, GateTypeOK, OneMutationPerApproval
  <1> QED
    BY <1>1, GateInvariant, PTL

\* Whatever the sinks hold of a dispatch is true of it.
THEOREM AuditTells == GateSpec => []AuditIsTrue
  BY GateInvariant, PTL DEF GateInv
=============================================================================
