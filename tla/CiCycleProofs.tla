---------------------------- MODULE CiCycleProofs ---------------------------
(***************************************************************************)
(* The CI cycle, for every set of jobs and of runners.                     *)
(***************************************************************************)
EXTENDS CiCycle, TLAPS

-----------------------------------------------------------------------------
(* Healing takes two heartbeats *)

\* The listing of the last heartbeat and the streaks agree, and whatever is
\* healed or about to be has a streak of two.
CiInv ==
    /\ streak \in [Job -> 0..2]
    /\ cycle \in [at: {"sleep", "heal"}, todo: SUBSET Job]
           \union [at: {"look"}, todo: SUBSET Job, job: Job, runner: Runner]
           \union [at: {"kill"}, todo: SUBSET Job, job: Job, pid: Job]
    /\ prevHung = {j \in Job : streak[j] > 0}
    /\ \A j \in cycle.todo : streak[j] = 2
    /\ HealedWasSeenTwice

LEMMA CiStart == Init => CiInv
  BY DEF Init, CiInv, Sleeping, HealedWasSeenTwice

LEMMA CycleFields ==
    ASSUME CiInv
    PROVE  /\ cycle.todo \subseteq Job
           /\ cycle.at \in {"look", "kill"} => cycle.job \in Job
  BY DEF CiInv

\* Nothing but the cycle moves, to heal, look at or kill what it had before it.
LEMMA CycleKeeps ==
    ASSUME CiInv, UNCHANGED <<prevHung, streak>>,
           cycle' \in [at: {"sleep", "heal"}, todo: SUBSET Job]
               \union [at: {"look"}, todo: SUBSET Job, job: Job, runner: Runner]
               \union [at: {"kill"}, todo: SUBSET Job, job: Job, pid: Job],
           cycle'.todo \subseteq cycle.todo,
           cycle'.at \in {"look", "kill"} => streak[cycle'.job] = 2
    PROVE  CiInv'
  BY DEF CiInv, HealedWasSeenTwice

LEMMA SkipKeeps ==
    ASSUME CiInv, NEW j, Skip(j), UNCHANGED <<prevHung, streak>>
    PROVE  CiInv'
  <1>1. cycle'.at = "heal" /\ cycle'.todo = cycle.todo \ {j}  BY DEF Skip
  <1>2. cycle.todo \ {j} \in SUBSET Job  BY CycleFields
  <1>3. cycle' \in [at: {"sleep", "heal"}, todo: SUBSET Job]  BY <1>2 DEF Skip
  <1> QED  BY <1>1, <1>3, CycleKeeps

LEMMA HeartbeatKeeps ==
    ASSUME CiInv, NEW seen \in SUBSET Job, Heartbeat(seen)
    PROVE  CiInv'
  <1>1. /\ cycle' = [at |-> "heal", todo |-> seen \intersect prevHung]
        /\ prevHung' = seen
        /\ streak' = [j \in Job |-> IF j \in seen THEN AtMost(streak[j] + 1, 2) ELSE 0]
    BY Zenon DEF Heartbeat, Seen
  <1>2. \A j \in Job : streak[j] \in 0..2  BY DEF CiInv
  <1>3. \A j \in Job : AtMost(streak[j] + 1, 2) \in 1..2  BY <1>2 DEF AtMost
  <1>4. \A j \in Job : streak[j] > 0 => AtMost(streak[j] + 1, 2) = 2  BY <1>2 DEF AtMost
  <1>5. streak' \in [Job -> 0..2]  BY <1>1, <1>3
  <1>6. prevHung' = {j \in Job : streak'[j] > 0}  BY <1>1, <1>3
  <1>7. \A j \in cycle'.todo : streak'[j] = 2
    <2> SUFFICES ASSUME NEW j \in seen \intersect prevHung  PROVE streak'[j] = 2
      BY <1>1
    <2>1. j \in Job /\ streak[j] > 0  BY DEF CiInv
    <2> QED  BY <2>1, <1>1, <1>4
  <1>8. cycle'.at = "heal"  BY <1>1
  <1>9. cycle' \in [at: {"sleep", "heal"}, todo: SUBSET Job]  BY <1>1
  <1> QED  BY <1>5, <1>6, <1>7, <1>8, <1>9 DEF CiInv, HealedWasSeenTwice

LEMMA FindInstanceKeeps ==
    ASSUME CiInv, NEW j \in Job, FindInstance(j)
    PROVE  CiInv'
  <1>1. CASE Skip(j)
    BY <1>1, SkipKeeps DEF FindInstance
  <1>2. ASSUME NEW i \in Runner,
               cycle' = [at |-> "look", todo |-> cycle.todo \ {j}, job |-> j, runner |-> i]
        PROVE  CiInv'
    <2>1. cycle'.at = "look" /\ cycle'.todo = cycle.todo \ {j} /\ cycle'.job = j
      BY <1>2
    <2>2. streak[j] = 2  BY DEF FindInstance, CiInv
    <2>3. cycle.todo \ {j} \in SUBSET Job  BY CycleFields
    <2>4. cycle' \in [at: {"look"}, todo: SUBSET Job, job: Job, runner: Runner]
      BY <1>2, <2>3
    <2> QED  BY <2>1, <2>2, <2>4, CycleKeeps DEF FindInstance
  <1> QED  BY <1>1, <1>2 DEF FindInstance, Instances

LEMMA FindWorkerKeeps ==
    ASSUME CiInv, FindWorker
    PROVE  CiInv'
  <1>1. UNCHANGED <<prevHung, streak>> /\ cycle.at = "look"  BY DEF FindWorker
  <1>2. CASE Skip(cycle.job)
    BY <1>1, <1>2, SkipKeeps
  <1>3. ASSUME NEW i \in Job,
               cycle' = [at |-> "kill", todo |-> cycle.todo, job |-> cycle.job, pid |-> i]
        PROVE  CiInv'
    <2>1. cycle'.at = "kill" /\ cycle'.todo = cycle.todo /\ cycle'.job = cycle.job
      BY <1>3
    <2>2. streak[cycle.job] = 2  BY <1>1 DEF CiInv, HealedWasSeenTwice
    <2>3. cycle.todo \in SUBSET Job /\ cycle.job \in Job  BY <1>1, CycleFields
    <2>4. cycle' \in [at: {"kill"}, todo: SUBSET Job, job: Job, pid: Job]
      BY <1>3, <2>3
    <2> QED  BY <1>1, <2>1, <2>2, <2>4, CycleKeeps
  <1> QED  BY <1>2, <1>3 DEF FindWorker, Busy

LEMMA CiStep == CiInv /\ [Next]_vars => CiInv'
  <1> SUFFICES ASSUME CiInv, [Next]_vars  PROVE CiInv'
    OBVIOUS
  <1>1. CASE UNCHANGED <<cycle, prevHung, streak>>
    BY <1>1 DEF CiInv, HealedWasSeenTwice
  <1>2. CASE UNCHANGED vars
    BY <1>1, <1>2 DEF vars
  <1>3. CASE JobStep
    BY <1>1, <1>3 DEF JobStep
  <1>4. ASSUME NEW seen \in SUBSET Job, Heartbeat(seen)  PROVE CiInv'
    BY <1>4, HeartbeatKeeps
  <1>5. ASSUME NEW j \in Job, RefuseKill(j)  PROVE CiInv'
    BY <1>5, SkipKeeps DEF RefuseKill
  <1>6. CASE Kill
    BY <1>6, SkipKeeps DEF Kill
  <1>7. CASE LearnPatterns
    <2>1. cycle'.at = "sleep" /\ cycle'.todo = {} /\ UNCHANGED <<prevHung, streak>>
      BY <1>7 DEF LearnPatterns, Sleeping
    <2>2. cycle' \in [at: {"sleep", "heal"}, todo: SUBSET Job]
      BY <1>7 DEF LearnPatterns, Sleeping
    <2> QED  BY <2>1, <2>2, CycleKeeps
  <1>8. CASE Tick
    BY <1>1, <1>8 DEF Tick
  <1>9. CASE Restart
    BY <1>9 DEF Restart, Sleeping, CiInv, HealedWasSeenTwice
  <1> QED
    BY <1>2, <1>3, <1>4, <1>5, <1>6, <1>7, <1>8, <1>9, FindInstanceKeeps, FindWorkerKeeps, Zenon
       DEF Next, Heal

\* No job is healed that the last two heartbeats of this process did not list in a
\* row, however long the cycle takes over the others (check_ci_heartbeat,
\* heal_hung_ci).
THEOREM NoSpuriousKill == Spec => []HealedWasSeenTwice
  <1>1. CiInv => HealedWasSeenTwice  BY DEF CiInv
  <1> QED  BY CiStart, CiStep, <1>1, PTL DEF Spec
=============================================================================
