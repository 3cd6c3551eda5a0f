------------------------- MODULE DogfoodBatchProofs -------------------------
(* The batch machinery, for every number of batches, runs and threads, with *)
(* threads that outlive their cycle, restarts, and a graph that may answer  *)
(* any query, do without answering or ignore it: its types, the bound on    *)
(* what a batch fires, and the ledger it implements.                        *)
EXTENDS DogfoodBatch, FiniteSetTheorems, TLAPS

\* A run counted among no batch is no number of a batch.
LEMMA NothingIsNone == Nothing \notin Batch /\ Nothing \notin Run
  BY BoundsAssumption DEF Nothing, Batch, Run

\* What the threads and callers are replaced by.
LEMMA IdleTypes ==
    IdleSensor \in SensorRecord /\ IdleKick \in KickRecord /\ IdleCall \in CallRecord
  BY DEF IdleSensor, SensorRecord, IdleKick, KickRecord, IdleCall, CallRecord

KickPlace == {"idle", "find", "reserve", "launch", "record", "stamp"}

CallPlace ==
    {"idle", "check", "list", "reset", "enable", "cancel", "mark", "find", "config",
     "pause", "next"}

\* Updates of a sensor's, a kick's and a caller's record keep its type.
LEMMA SensorTodo ==
    \A s \in SensorRecord, todo \in SUBSET Job : [s EXCEPT !.todo = todo] \in SensorRecord
  BY DEF SensorRecord

\* The writes of a row keep the types, whether or not the row is written.
LEMMA RunWritten ==
    ASSUME run \in [Run -> RunRecord], NEW r, NEW record,
           r \in Run => record \in RunRecord, SetRun(r, record)
    PROVE  run' \in [Run -> RunRecord]
  BY DEF SetRun

LEMMA BatchWritten ==
    ASSUME batch \in [Batch -> BatchRecord], NEW b, NEW record,
           b \in Batch => record \in BatchRecord, SetBatch(b, record)
    PROVE  batch' \in [Batch -> BatchRecord]
  BY DEF SetBatch

LEMMA RunStatus ==
    \A r \in RunRecord, status \in {"none", "pending", "success", "failed", "timeout", "reset"} :
        [r EXCEPT !.status = status] \in RunRecord
  BY DEF RunRecord

LEMMA ListedJobs ==
    ASSUME run \in [Run -> RunRecord], NEW S \in SUBSET Run
    PROVE  Listed(S) \in SUBSET Job
<1> SUFFICES ASSUME NEW r \in S
             PROVE  [run |-> r, batch |-> run[r].batch, late |-> run[r].late] \in Job
  BY DEF Listed
<1>1. run[r] \in RunRecord
  OBVIOUS
<1> QED
  BY <1>1 DEF RunRecord, Job

LEMMA SensorCount ==
    \A s \in SensorRecord, b \in Batch \cup {Nothing} :
        [s EXCEPT !.count = b] \in SensorRecord
  BY DEF SensorRecord

LEMMA KickAt ==
    \A k \in KickRecord, at \in KickPlace : [k EXCEPT !.at = at] \in KickRecord
  BY DEF KickRecord, KickPlace

LEMMA KickAtBatch ==
    \A k \in KickRecord, at \in KickPlace, b \in Batch \cup {Nothing} :
        [k EXCEPT !.at = at, !.batch = b] \in KickRecord
<1> TAKE k \in KickRecord, at \in KickPlace, b \in Batch \cup {Nothing}
<1>1. [[k EXCEPT !.at = at] EXCEPT !.batch = b] \in KickRecord
  BY KickAt DEF KickRecord
<1> QED
  BY <1>1

LEMMA KickAtRun ==
    \A k \in KickRecord, at \in KickPlace, r \in Run \cup {Nothing} :
        [k EXCEPT !.at = at, !.run = r] \in KickRecord
<1> TAKE k \in KickRecord, at \in KickPlace, r \in Run \cup {Nothing}
<1>1. [[k EXCEPT !.at = at] EXCEPT !.run = r] \in KickRecord
  BY KickAt DEF KickRecord
<1> QED
  BY <1>1

LEMMA CallAt ==
    \A c \in CallRecord, at \in CallPlace : [c EXCEPT !.at = at] \in CallRecord
  BY DEF CallRecord, CallPlace

LEMMA CallTodo ==
    \A c \in CallRecord, todo \in SUBSET Run : [c EXCEPT !.todo = todo] \in CallRecord
  BY DEF CallRecord

LEMMA CallAtCount ==
    \A c \in CallRecord, at \in CallPlace, n \in Nat :
        [c EXCEPT !.at = at, !.count = n] \in CallRecord
<1> TAKE c \in CallRecord, at \in CallPlace, n \in Nat
<1>1. [[c EXCEPT !.at = at] EXCEPT !.count = n] \in CallRecord
  BY CallAt DEF CallRecord
<1> QED
  BY <1>1

LEMMA CallAtTodo ==
    \A c \in CallRecord, at \in CallPlace, todo \in SUBSET Run :
        [c EXCEPT !.at = at, !.todo = todo] \in CallRecord
<1> TAKE c \in CallRecord, at \in CallPlace, todo \in SUBSET Run
<1>1. [[c EXCEPT !.at = at] EXCEPT !.todo = todo] \in CallRecord
  BY CallAt DEF CallRecord
<1> QED
  BY <1>1

LEMMA CallAtBatch ==
    \A c \in CallRecord, at \in CallPlace, b \in Batch \cup {Nothing} :
        [c EXCEPT !.at = at, !.batch = b] \in CallRecord
<1> TAKE c \in CallRecord, at \in CallPlace, b \in Batch \cup {Nothing}
<1>1. [[c EXCEPT !.at = at] EXCEPT !.batch = b] \in CallRecord
  BY CallAt DEF CallRecord
<1> QED
  BY <1>1

\* The initial state has the types.
LEMMA InitTypes == Init => TypeOK
  BY DEF Init, Volatile, TypeOK, NotQueued, NotRecorded, IdleSensor, IdleKick,
         IdleCall, CycleStart, BatchRecord, RunRecord, SensorRecord, KickRecord,
         CallRecord, Step, Caller

\* The steps of the loop keep the types.
LEMMA LoopTypes ==
    ASSUME TypeOK, LoopStep \/ Restart
    PROVE  TypeOK'
<1>1. ASSUME NEW t \in SensorThread, SensorStart(t) PROVE TypeOK'
  <2>1. Listed(Found(Newest(WithStatus({"pending"}), PendingLimit))) \in SUBSET Job
    <3>1. Found(Newest(WithStatus({"pending"}), PendingLimit)) \in SUBSET Run
      BY DEF Found, Newest, WithStatus
    <3> QED
      BY <3>1, ListedJobs DEF TypeOK
  <2>2. sensor' \in [SensorThread -> SensorRecord]
    BY <1>1, <2>1, SensorTodo DEF SensorStart, TypeOK
  <2> QED
    BY <1>1, <2>2 DEF SensorStart, TypeOK, Step
<1>2. ASSUME NEW t \in KickThread, KickStart(t) PROVE TypeOK'
  <2>1. kick' \in [KickThread -> KickRecord]
    BY <1>2, IdleTypes, KickAt DEF KickStart, SetKick, TypeOK, KickPlace
  <2> QED
    BY <1>2, <2>1 DEF KickStart, SetKick, TypeOK, Step
<1>3. CASE LoopTurns
  <2>1. cycle' \in [step: Step, thread: SUBSET (SensorThread \cup KickThread)]
    BY <1>3 DEF LoopTurns, SensorAwaited, KickAwaited, NoThread, ScheduleStarts,
                CompletionStarts, CycleEnds, Proceed, TypeOK, Step
  <2>2. [IdleCall EXCEPT !.at = "find", !.count = schedule.rpd] \in CallRecord
        /\ [IdleCall EXCEPT !.at = "find"] \in CallRecord
    BY IdleTypes, CallAt, CallAtCount DEF TypeOK, CallPlace
  <2>3. call' \in [Caller -> CallRecord]
    BY <1>3, <2>2 DEF LoopTurns, SensorAwaited, KickAwaited, NoThread, ScheduleStarts,
                CompletionStarts, CycleEnds, TypeOK
  <2> QED
    BY <1>3, <2>1, <2>3 DEF LoopTurns, TypeOK
<1>4. CASE Restart
  BY <1>4, IdleTypes DEF Restart, TypeOK, CycleStart, Step
<1> QED
  BY <1>1, <1>2, <1>3, <1>4 DEF LoopStep

\* The steps of the sensor threads, time and the graph keep the types.
LEMMA SensorTypes ==
    ASSUME TypeOK,
           \/ \E t \in SensorThread : SensorStep(t)
           \/ \E r \in Run : Age(r)
           \/ Midnight \/ GraphChanges
    PROVE  TypeOK'
<1>1. ASSUME NEW t \in SensorThread, SensorCounts(t) PROVE TypeOK'
  <2>1. sensor[t].count \in Batch
    BY <1>1 DEF SensorCounts, TypeOK, SensorRecord
  <2>2. batch' \in [Batch -> BatchRecord]
    <3> DEFINE b == sensor[t].count
               counted == [batch[b] EXCEPT !.completed = @ + 1]
    <3>1. counted \in BatchRecord
      BY <2>1 DEF TypeOK, BatchRecord
    <3>2. SetBatch(b, counted) \/ UNCHANGED batch
      BY <1>1 DEF SensorCounts
    <3> QED
      BY <3>1, <3>2, BatchWritten DEF TypeOK
  <2>3. sensor' \in [SensorThread -> SensorRecord]
    BY <1>1, SensorCount DEF SensorCounts, TypeOK
  <2> QED
    BY <1>1, <2>2, <2>3 DEF SensorCounts, TypeOK
<1>2. ASSUME NEW t \in SensorThread, NEW j \in sensor[t].todo, SensorEnds(t, j) PROVE TypeOK'
  <2>1. j \in Job /\ sensor[t].todo \ {j} \in SUBSET Job
    BY DEF TypeOK, SensorRecord
  <2>2. run' \in [Run -> RunRecord]
    <3>1. PICK status \in {"success", "failed", "timeout"} :
            SetRun(j.run, [run[j.run] EXCEPT !.status = status])
      BY <1>2 DEF SensorEnds
    <3>2. j.run \in Run => [run[j.run] EXCEPT !.status = status] \in RunRecord
      BY RunStatus DEF TypeOK
    <3> QED
      BY <3>1, <3>2, RunWritten DEF TypeOK
  <2>3. [todo |-> sensor[t].todo \ {j}, count |-> j.batch] \in SensorRecord
    BY <2>1 DEF SensorRecord, Job
  <2>4. sensor' \in [SensorThread -> SensorRecord]
    BY <1>2, <2>3 DEF SensorEnds, TypeOK
  <2> QED
    BY <1>2, <2>2, <2>4 DEF SensorEnds, TypeOK
<1>3. ASSUME NEW t \in SensorThread, NEW j \in sensor[t].todo, SensorPasses(t, j) PROVE TypeOK'
  <2>1. sensor[t].todo \ {j} \in SUBSET Job
    BY DEF TypeOK, SensorRecord
  <2>2. sensor' \in [SensorThread -> SensorRecord]
    BY <1>3, <2>1, SensorTodo DEF SensorPasses, TypeOK
  <2> QED
    BY <1>3, <2>2 DEF SensorPasses, TypeOK
<1>4. ASSUME NEW r \in Run, Age(r) PROVE TypeOK'
  BY <1>4 DEF Age, TypeOK, RunRecord
<1>5. CASE Midnight
  BY <1>5 DEF Midnight, TypeOK
<1>6. CASE GraphChanges
  <2>1. answers' \in BOOLEAN
    BY <1>6 DEF GraphChanges
  <2> QED
    BY <1>6, <2>1 DEF GraphChanges, TypeOK
<1> QED
  BY <1>1, <1>2, <1>3, <1>4, <1>5, <1>6 DEF SensorStep

\* The steps of the kick threads keep the types.
LEMMA KickTypes ==
    ASSUME TypeOK, NEW t \in KickThread, KickStep(t)
    PROVE  TypeOK'
<1>0. kick[t] \in KickRecord
  BY DEF TypeOK
<1>1. CASE KickFinds(t)
  <2>1. PICK k : k \in KickRecord /\ SetKick(t, k)
    BY <1>0, <1>1, IdleTypes, KickAtBatch DEF KickFinds, KickPlace
  <2>2. kick' \in [KickThread -> KickRecord]
    BY <2>1 DEF SetKick, TypeOK
  <2> QED
    BY <1>1, <2>1, <2>2 DEF KickFinds, SetKick, TypeOK
<1>2. ASSUME Active(kick[t].batch),
             batch' = [batch EXCEPT ![kick[t].batch].remaining = @ - 1]
      PROVE  batch' \in [Batch -> BatchRecord]
  <2> DEFINE b == kick[t].batch
  <2>1. CASE b \in Batch
    BY <1>2, <2>1 DEF Active, TypeOK, BatchRecord
  <2>2. CASE b \notin Batch
    <3>1. batch' = batch
      BY <1>2, <2>2 DEF TypeOK
    <3> QED
      BY <3>1 DEF TypeOK
  <2> QED
    BY <2>1, <2>2
<1>3. CASE KickReserves(t)
  <2>1. batch' \in [Batch -> BatchRecord]
    BY <1>2, <1>3 DEF KickReserves
  <2>2. kick' \in [KickThread -> KickRecord]
    BY <1>0, <1>3, KickAt DEF KickReserves, SetKick, TypeOK, KickPlace
  <2> QED
    BY <1>3, <2>1, <2>2 DEF KickReserves, SetKick, TypeOK
<1>4. CASE KickFindsExhausted(t)
  <2>1. batch' \in [Batch -> BatchRecord]
    BY <1>2, <1>4 DEF KickFindsExhausted, TypeOK
  <2>2. kick' \in [KickThread -> KickRecord]
    BY <1>4, IdleTypes DEF KickFindsExhausted, SetKick, TypeOK
  <2> QED
    BY <1>4, <2>1, <2>2 DEF KickFindsExhausted, SetKick, TypeOK
<1>5. CASE KickSkips(t) \/ KickFails(t)
  BY <1>5, IdleTypes DEF KickSkips, KickFails, SetKick, TypeOK
<1>6. CASE KickLaunches(t)
  <2>1. kick' \in [KickThread -> KickRecord]
    BY <1>0, <1>6, KickAt DEF KickLaunches, SetKick, TypeOK, KickPlace
  <2> QED
    BY <1>6, <2>1 DEF KickLaunches, SetKick, TypeOK
<1>7. CASE KickRecords(t)
  <2>0. PICK r \in Run :
          /\ run' = [run EXCEPT ![r] = [NotRecorded EXCEPT !.status = "pending"]]
          /\ SetKick(t, [kick[t] EXCEPT !.at = "stamp", !.run = r])
    BY <1>7 DEF KickRecords
  <2>1. run' \in [Run -> RunRecord]
    <3>1. [NotRecorded EXCEPT !.status = "pending"] \in RunRecord
      BY DEF NotRecorded, RunRecord
    <3> QED
      BY <2>0, <3>1 DEF TypeOK
  <2>2. kick' \in [KickThread -> KickRecord]
    <3>1. [kick[t] EXCEPT !.at = "stamp", !.run = r] \in KickRecord
      BY <1>0, KickAtRun DEF KickPlace
    <3> QED
      BY <2>0, <3>1 DEF SetKick, TypeOK
  <2> QED
    BY <1>7, <2>0, <2>1, <2>2 DEF KickRecords, SetKick, TypeOK
<1>8. CASE KickStamps(t)
  <2>1. run' \in [Run -> RunRecord]
    <3> DEFINE r == kick[t].run
               told == [run[r] EXCEPT !.batch = kick[t].batch]
    <3>1. r \in Run => told \in RunRecord
      <4>1. kick[t].batch \in Batch \cup {Nothing}
        BY <1>0 DEF KickRecord
      <4> QED
        BY <4>1 DEF TypeOK, RunRecord
    <3>2. SetRun(r, told)
      BY <1>8 DEF KickStamps
    <3> QED
      BY <3>1, <3>2, RunWritten DEF TypeOK
  <2>2. kick' \in [KickThread -> KickRecord]
    BY <1>8, IdleTypes DEF KickStamps, SetKick, TypeOK
  <2> QED
    BY <1>8, <2>1, <2>2 DEF KickStamps, SetKick, TypeOK
<1> QED
  BY <1>1, <1>3, <1>4, <1>5, <1>6, <1>7, <1>8 DEF KickStep

\* The steps of requests and checks keep the types.
LEMMA CallTypes ==
    ASSUME TypeOK, NEW c \in Caller, CallStep(c)
    PROVE  TypeOK'
<1>0. call[c] \in CallRecord
  BY DEF TypeOK
<1>1. Return(c) \in CallRecord
  <2>1. [IdleCall EXCEPT !.at = "next"] \in CallRecord
    BY IdleTypes, CallAt DEF CallPlace
  <2> QED
    BY <2>1, IdleTypes DEF Return
<1>2. \A at \in CallPlace : [call[c] EXCEPT !.at = at] \in CallRecord
  BY <1>0, CallAt
<1> HIDE DEF Return
<1>3. ASSUME NEW s \in CallRecord, SetCall(c, s) PROVE call' \in [Caller -> CallRecord]
  BY <1>3 DEF SetCall, TypeOK
<1>4. CASE ChecksBatch(c)
  <2>1. PICK s : s \in CallRecord /\ SetCall(c, s)
    BY <1>1, <1>2, <1>4 DEF ChecksBatch, CallPlace
  <2> QED
    BY <1>3, <1>4, <2>1 DEF ChecksBatch, SetCall, TypeOK
<1>5. CASE ListsFailures(c)
  <2>1. Found(Newest(Recorded, ResetLimit) \cap WithStatus({"failed", "timeout"}))
          \in SUBSET Run
    BY DEF Found, WithStatus
  <2>2. PICK s : s \in CallRecord /\ SetCall(c, s)
    BY <1>0, <1>5, <2>1, CallAtTodo DEF ListsFailures, CallPlace
  <2> QED
    BY <1>3, <1>5, <2>2 DEF ListsFailures, SetCall, TypeOK
<1>6. CASE ResetsRun(c)
  <2>1. PICK r : SetRun(r, [run[r] EXCEPT !.status = "reset"])
                 /\ SetCall(c, [call[c] EXCEPT !.todo = @ \ {r}])
    BY <1>6 DEF ResetsRun
  <2>2. run' \in [Run -> RunRecord]
    <3>1. r \in Run => [run[r] EXCEPT !.status = "reset"] \in RunRecord
      BY RunStatus DEF TypeOK
    <3> QED
      BY <2>1, <3>1, RunWritten DEF TypeOK
  <2>3. call[c].todo \ {r} \in SUBSET Run
    BY <1>0 DEF CallRecord
  <2>4. [call[c] EXCEPT !.todo = @ \ {r}] \in CallRecord
    BY <1>0, <2>3, CallTodo
  <2> QED
    BY <1>3, <1>6, <2>1, <2>2, <2>4 DEF ResetsRun, SetCall, TypeOK
<1>7. CASE CreatesBatch(c)
  <2> DEFINE opened == [NotQueued EXCEPT !.requested = call[c].count,
                                         !.remaining = call[c].count]
  <2>1. PICK b \in Batch : SetBatch(b, opened)
    BY <1>7 DEF CreatesBatch
  <2>2. opened \in BatchRecord
    <3>1. call[c].count \in Nat
      BY <1>0 DEF CallRecord
    <3> QED
      BY <3>1 DEF NotQueued, BatchRecord
  <2>3. batch' \in [Batch -> BatchRecord]
    BY <2>1, <2>2, BatchWritten DEF TypeOK
  <2>4. [call[c] EXCEPT !.at = "enable"] \in CallRecord
    BY <1>2 DEF CallPlace
  <2>5. SetCall(c, [call[c] EXCEPT !.at = "enable"])
    BY <1>7 DEF CreatesBatch
  <2> QED
    BY <1>3, <1>7, <2>3, <2>4, <2>5 DEF CreatesBatch, SetCall, TypeOK
<1>8. CASE EnablesRunner(c)
  BY <1>1, <1>3, <1>8 DEF EnablesRunner, SetConfig, SetCall, TypeOK
<1>9. CASE c = "request" /\ (CancelsBatches \/ MarksCancelled)
  <2>1. batch' \in [Batch -> BatchRecord]
    <3>1. \A b \in Batch :
            /\ batch[b] \in BatchRecord
            /\ [batch[b] EXCEPT !.cancelled = TRUE] \in BatchRecord
            /\ [[batch[b] EXCEPT !.remaining = 0] EXCEPT !.cancelled = TRUE] \in BatchRecord
      BY DEF TypeOK, BatchRecord
    <3>2. CASE CancelsBatches
      BY <3>1, <3>2 DEF CancelsBatches
    <3>3. CASE MarksCancelled
      <4>1. SetBatch(call["request"].batch,
                     [batch[call["request"].batch] EXCEPT !.cancelled = TRUE])
        BY <3>3 DEF MarksCancelled
      <4> QED
        BY <3>1, <4>1, BatchWritten DEF TypeOK
    <3> QED
      BY <1>9, <3>2, <3>3
  <2>2. PICK s : s \in CallRecord /\ SetCall(c, s)
    BY <1>9, IdleTypes, CallAt DEF CancelsBatches, MarksCancelled, CallPlace
  <2> QED
    BY <1>3, <1>9, <2>1, <2>2 DEF CancelsBatches, MarksCancelled, SetCall, TypeOK
<1>10. CASE FindsBatch(c)
  <2> DEFINE s == CASE ~NoActive /\ answers -> IdleCall
                    [] c = "schedule" -> [call[c] EXCEPT !.at = "check"]
                    [] OTHER -> [call[c] EXCEPT !.at = "config"]
  <2>1. s \in CallRecord
    BY <1>2, IdleTypes DEF CallPlace
  <2>2. SetCall(c, s)
    BY <1>10 DEF FindsBatch
  <2> HIDE DEF s
  <2> QED
    BY <1>3, <1>10, <2>1, <2>2 DEF FindsBatch, SetCall, TypeOK
<1>11. CASE ReadsConfig(c)
  <2>1. PICK s : s \in CallRecord /\ SetCall(c, s)
    BY <1>2, <1>11, IdleTypes DEF ReadsConfig, CallPlace
  <2> QED
    BY <1>3, <1>11, <2>1 DEF ReadsConfig, SetCall, TypeOK
<1>12. CASE PausesRunner(c)
  BY <1>3, <1>12, IdleTypes DEF PausesRunner, SetConfig, SetCall, TypeOK
<1>13. CASE c = "schedule" /\ MovesNextRun
  <2>1. schedule' \in [rpd: Nat, due: BOOLEAN]
    BY <1>13 DEF MovesNextRun, TypeOK
  <2> QED
    BY <1>3, <1>13, <2>1, IdleTypes DEF MovesNextRun, SetCall, TypeOK
<1> QED
  BY <1>4, <1>5, <1>6, <1>7, <1>8, <1>9, <1>10, <1>11, <1>12, <1>13 DEF CallStep

\* The requests' first steps keep the types.
LEMMA RequestTypes ==
    ASSUME TypeOK, Request
    PROVE  TypeOK'
<1>1. ASSUME NEW s \in CallRecord, SetCall("request", s) PROVE call' \in [Caller -> CallRecord]
  BY <1>1 DEF SetCall, TypeOK
<1>2. ASSUME NEW n \in Nat
      PROVE  [IdleCall EXCEPT !.at = "check", !.count = n] \in CallRecord
  BY IdleTypes, CallAtCount DEF CallPlace
<1>3. ASSUME NEW n \in BatchSizes \cup DailyRuns, PostRunBatch(n) \/ PostBatch(n)
      PROVE  TypeOK'
  <2>1. n \in Nat
    BY SizesAssumption
  <2>2. SetCall("request", [IdleCall EXCEPT !.at = "check", !.count = n])
    BY <1>3 DEF PostRunBatch, PostBatch
  <2>3. call' \in [Caller -> CallRecord]
    BY <1>1, <1>2, <2>1, <2>2
  <2>4. config' \in [enabled: BOOLEAN, by: {"operator", "batch"}]
    <3>1. CASE PostRunBatch(n)
      BY <3>1 DEF PostRunBatch, TypeOK
    <3>2. CASE PostBatch(n)
      BY <3>2 DEF PostBatch, SetConfig, TypeOK
    <3> QED
      BY <1>3, <3>1, <3>2
  <2> QED
    BY <1>3, <2>2, <2>3, <2>4 DEF PostRunBatch, PostBatch, SetCall, TypeOK
<1>4. CASE PostCancel
  <2>1. PICK b \in Batch :
          \/ SetCall("request", [IdleCall EXCEPT !.at = "cancel"])
          \/ SetCall("request", [IdleCall EXCEPT !.at = "mark", !.batch = b])
    BY <1>4 DEF PostCancel
  <2>2. /\ [IdleCall EXCEPT !.at = "cancel"] \in CallRecord
        /\ [IdleCall EXCEPT !.at = "mark", !.batch = b] \in CallRecord
    BY IdleTypes, CallAt, CallAtBatch DEF CallPlace
  <2>3. call' \in [Caller -> CallRecord]
    BY <1>1, <2>1, <2>2
  <2> QED
    BY <1>4, <2>1, <2>3 DEF PostCancel, SetCall, TypeOK
<1>5. ASSUME NEW on \in BOOLEAN, PostConfig(on) PROVE TypeOK'
  BY <1>5 DEF PostConfig, TypeOK
<1>6. ASSUME NEW n \in DailyRuns, PostSchedule(n) PROVE TypeOK'
  <2>1. n \in Nat
    BY SizesAssumption
  <2> QED
    BY <1>6, <2>1 DEF PostSchedule, TypeOK
<1> QED
  BY <1>3, <1>4, <1>5, <1>6 DEF Request

\* Every variable keeps its type, and no batch ever has fewer than no slots left.
THEOREM TypeCorrect == Spec => []TypeOK
<1>1. TypeOK /\ [Next]_vars => TypeOK'
  <2> SUFFICES ASSUME TypeOK, [Next]_vars PROVE TypeOK'
    OBVIOUS
  <2>1. CASE UNCHANGED vars
    BY <2>1 DEF vars, TypeOK
  <2> QED
    BY <2>1, LoopTypes, SensorTypes, KickTypes, CallTypes, RequestTypes DEF Next
<1> QED
  BY <1>1, InitTypes, PTL DEF Spec

-----------------------------------------------------------------------------
(* The bound on what a batch fires                                         *)

\* What a batch gave out.
Spent(b) == batch[b].requested - batch[b].remaining

\* A write of a run's row that keeps its batch changes no run's batch; a write of
\* a batch's row changes no other batch.
LEMMA RunBatchKept ==
    ASSUME run \in [Run -> RunRecord], NEW r, NEW record,
           r \in Run => record.batch = run[r].batch, SetRun(r, record)
    PROVE  \A q \in Run : run'[q].batch = run[q].batch
  BY DEF SetRun

LEMMA OneBatchWritten ==
    ASSUME batch \in [Batch -> BatchRecord], NEW b, NEW record, SetBatch(b, record)
    PROVE  \A a \in Batch : batch'[a] = batch[a] \/ (a = b /\ batch'[a] = record)
  BY DEF SetBatch

\* The sets that are counted are finite.
LEMMA FiniteCounts ==
    \A b \in Batch : IsFiniteSet(Stamped(b)) /\ IsFiniteSet(Holders(b))
<1> TAKE b \in Batch
<1>1. IsFiniteSet(Run)
  BY BoundsAssumption, FS_Interval DEF Run
<1>2. Stamped(b) \subseteq Run /\ Holders(b) \subseteq KickThread
  BY DEF Stamped, Holders
<1> QED
  BY <1>1, <1>2, SizesAssumption, FS_Subset

\* A step that stamps no run, lets no kick take a slot and takes nothing back of
\* what was given out keeps the bound.
LEMMA QuietStep ==
    ASSUME TypeOK, TypeOK', BatchNotOverfired,
           \A b \in Batch : /\ Stamped(b)' \subseteq Stamped(b)
                            /\ Holders(b)' \subseteq Holders(b)
                            /\ Spent(b)' >= Spent(b)
    PROVE  BatchNotOverfired'
<1> SUFFICES ASSUME NEW b \in Batch
             PROVE  Cardinality(Stamped(b)') + Cardinality(Holders(b)') <= Spent(b)'
  BY DEF BatchNotOverfired, Spent
<1>1. /\ Cardinality(Stamped(b)') <= Cardinality(Stamped(b))
      /\ Cardinality(Holders(b)') <= Cardinality(Holders(b))
      /\ IsFiniteSet(Stamped(b)') /\ IsFiniteSet(Holders(b)')
  BY FiniteCounts, FS_Subset
<1>2. /\ Cardinality(Stamped(b)) \in Nat /\ Cardinality(Stamped(b)') \in Nat
      /\ Cardinality(Holders(b)) \in Nat /\ Cardinality(Holders(b)') \in Nat
  BY <1>1, FiniteCounts, FS_CardinalityType
<1>3. Spent(b) \in Int /\ Spent(b)' \in Int
  BY DEF Spent, TypeOK, BatchRecord
<1>4. Cardinality(Stamped(b)) + Cardinality(Holders(b)) <= Spent(b)
  BY DEF BatchNotOverfired, Spent
<1> QED
  BY <1>1, <1>2, <1>3, <1>4

\* A slot is taken: one more kick holds, one more slot is given out.
LEMMA ReserveStep ==
    ASSUME TypeOK, TypeOK', BatchNotOverfired, NEW t \in KickThread, KickReserves(t)
    PROVE  BatchNotOverfired'
<1> SUFFICES ASSUME NEW b \in Batch
             PROVE  Cardinality(Stamped(b)') + Cardinality(Holders(b)') <= Spent(b)'
  BY DEF BatchNotOverfired, Spent
<1>1. Stamped(b)' = Stamped(b)
  BY DEF KickReserves, Stamped
<1>2. Spent(b) \in Int /\ Spent(b)' \in Int
  BY DEF Spent, TypeOK, BatchRecord
<1>3. /\ Cardinality(Stamped(b)) \in Nat
      /\ Cardinality(Holders(b)) \in Nat
      /\ Cardinality(Stamped(b)) + Cardinality(Holders(b)) <= Spent(b)
  BY FiniteCounts, FS_CardinalityType DEF BatchNotOverfired, Spent
<1>4. kick' = [kick EXCEPT ![t] = [kick[t] EXCEPT !.at = "launch"]]
  BY DEF KickReserves, SetKick
<1>5. kick[t] \in KickRecord /\ kick[t].at = "reserve"
  BY DEF KickReserves, TypeOK
<1>6. kick'[t].at = "launch" /\ kick'[t].batch = kick[t].batch
  BY <1>4, <1>5 DEF TypeOK, KickRecord
<1>7. \A u \in KickThread \ {t} : kick'[u] = kick[u]
  BY <1>4 DEF TypeOK
<1>8. CASE kick[t].batch = b
  <2>1. Holders(b)' = Holders(b) \cup {t} /\ t \notin Holders(b)
    BY <1>5, <1>6, <1>7, <1>8 DEF Holders, Holding
  <2>2. Cardinality(Holders(b)') = Cardinality(Holders(b)) + 1
    BY <2>1, FiniteCounts, FS_AddElement
  <2>3. Spent(b)' = Spent(b) + 1
    BY <1>8 DEF KickReserves, Spent, TypeOK, BatchRecord
  <2> QED
    BY <1>1, <1>2, <1>3, <2>2, <2>3
<1>9. CASE kick[t].batch # b
  <2>1. Holders(b)' = Holders(b)
    BY <1>5, <1>6, <1>7, <1>9 DEF Holders, Holding
  <2>2. Spent(b)' = Spent(b)
    BY <1>9 DEF KickReserves, Spent, TypeOK
  <2> QED
    BY <1>1, <1>3, <2>1, <2>2
<1> QED
  BY <1>8, <1>9

\* A run is told its batch: one more run of the batch, one kick less that holds a slot.
LEMMA StampStep ==
    ASSUME TypeOK, TypeOK', BatchNotOverfired, NEW t \in KickThread, KickStamps(t), answers
    PROVE  BatchNotOverfired'
<1> SUFFICES ASSUME NEW b \in Batch
             PROVE  Cardinality(Stamped(b)') + Cardinality(Holders(b)') <= Spent(b)'
  BY DEF BatchNotOverfired, Spent
<1> DEFINE r == kick[t].run
<1>1. Spent(b)' = Spent(b) /\ Spent(b) \in Int
  BY DEF KickStamps, Spent, TypeOK, BatchRecord
<1>2. /\ Cardinality(Stamped(b)) \in Nat
      /\ Cardinality(Holders(b)) \in Nat
      /\ Cardinality(Stamped(b)) + Cardinality(Holders(b)) <= Spent(b)
  BY FiniteCounts, FS_CardinalityType DEF BatchNotOverfired, Spent
<1>3. kick' = [kick EXCEPT ![t] = IdleKick] /\ kick[t].at = "stamp"
  BY DEF KickStamps, SetKick
<1>4. \A u \in KickThread \ {t} : kick'[u] = kick[u]
  BY <1>3 DEF TypeOK
<1>5. kick'[t].at = "idle"
  BY <1>3 DEF TypeOK, IdleKick
<1>6. Holders(b)' = Holders(b) \ {t}
  BY <1>4, <1>5 DEF Holders, Holding
<1>7. \A q \in Run : run'[q].batch = IF q = r THEN kick[t].batch ELSE run[q].batch
  BY DEF KickStamps, SetRun, TypeOK, RunRecord
<1>8. CASE kick[t].batch = b
  <2>1. t \in Holders(b)
    BY <1>3, <1>8 DEF Holders, Holding
  <2>2. Cardinality(Holders(b)') = Cardinality(Holders(b)) - 1
    BY <1>6, <2>1, FiniteCounts, FS_RemoveElement
  <2>3. Stamped(b)' \subseteq Stamped(b) \cup {r}
    BY <1>7 DEF Stamped
  <2>4. Cardinality(Stamped(b)') <= Cardinality(Stamped(b)) + 1
    <3>1. /\ IsFiniteSet(Stamped(b) \cup {r})
          /\ Cardinality(Stamped(b) \cup {r}) <= Cardinality(Stamped(b)) + 1
      <4>1. /\ IsFiniteSet(Stamped(b) \cup {r})
            /\ \/ Cardinality(Stamped(b) \cup {r}) = Cardinality(Stamped(b))
               \/ Cardinality(Stamped(b) \cup {r}) = Cardinality(Stamped(b)) + 1
        BY FiniteCounts, FS_AddElement
      <4> QED
        BY <1>2, <4>1
    <3>2. /\ Cardinality(Stamped(b)') <= Cardinality(Stamped(b) \cup {r})
          /\ IsFiniteSet(Stamped(b)')
      BY <2>3, <3>1, FS_Subset
    <3>3. Cardinality(Stamped(b)') \in Nat /\ Cardinality(Stamped(b) \cup {r}) \in Nat
      BY <3>1, <3>2, FS_CardinalityType
    <3> QED
      BY <1>2, <3>1, <3>2, <3>3
  <2>5. Cardinality(Stamped(b)') \in Nat
    BY <2>3, FiniteCounts, FS_AddElement, FS_Subset, FS_CardinalityType
  <2> QED
    BY <1>1, <1>2, <2>2, <2>4, <2>5
<1>9. CASE kick[t].batch # b
  <2>1. Stamped(b)' \subseteq Stamped(b) /\ Holders(b)' \subseteq Holders(b)
    BY <1>6, <1>7, <1>9 DEF Stamped
  <2>2. /\ Cardinality(Stamped(b)') <= Cardinality(Stamped(b))
        /\ Cardinality(Holders(b)') <= Cardinality(Holders(b))
        /\ IsFiniteSet(Stamped(b)') /\ IsFiniteSet(Holders(b)')
    BY <2>1, FiniteCounts, FS_Subset
  <2>3. Cardinality(Stamped(b)') \in Nat /\ Cardinality(Holders(b)') \in Nat
    BY <2>2, FS_CardinalityType
  <2> QED
    BY <1>1, <1>2, <2>2, <2>3
<1> QED
  BY <1>8, <1>9

\* What a step does to the sets is what it does to three fields.
LEMMA QuietFields ==
    ASSUME TypeOK, TypeOK', BatchNotOverfired,
           \A r \in Run : run'[r].batch \in {run[r].batch, Nothing},
           \A t \in KickThread :
             kick'[t].at \in Holding
               => kick[t].at \in Holding /\ kick'[t].batch = kick[t].batch,
           \A b \in Batch : Spent(b)' >= Spent(b)
    PROVE  BatchNotOverfired'
<1> SUFFICES ASSUME NEW b \in Batch
             PROVE  Stamped(b)' \subseteq Stamped(b) /\ Holders(b)' \subseteq Holders(b)
  BY QuietStep
<1>1. Stamped(b)' \subseteq Stamped(b)
  BY NothingIsNone DEF Stamped
<1>2. Holders(b)' \subseteq Holders(b)
  BY DEF Holders
<1> QED
  BY <1>1, <1>2

\* The steps of the kick threads.
LEMMA KickKeepsBound ==
    ASSUME TypeOK, TypeOK', BatchNotOverfired, NEW t \in KickThread, KickStep(t)
    PROVE  BatchNotOverfired'
<1>1. CASE KickReserves(t)
  BY <1>1, ReserveStep
<1>2. CASE KickStamps(t) /\ answers
  BY <1>2, StampStep
<1>3. ASSUME NEW k, kick' = [kick EXCEPT ![t] = k], k.at = "idle" \/ k.at = "reserve"
               \/ (k.at \in Holding /\ kick[t].at \in Holding /\ k.batch = kick[t].batch),
             \A b \in Batch : Spent(b)' >= Spent(b),
             \A r \in Run : run'[r].batch \in {run[r].batch, Nothing}
      PROVE  BatchNotOverfired'
  <2>2. ASSUME NEW u \in KickThread, kick'[u].at \in Holding
        PROVE  kick[u].at \in Holding /\ kick'[u].batch = kick[u].batch
    BY <1>3, <2>2 DEF TypeOK, Holding
  <2> QED
    BY <1>3, <2>2, QuietFields
<1>4. /\ run' = run => \A r \in Run : run'[r].batch \in {run[r].batch, Nothing}
      /\ batch' = batch => \A b \in Batch : Spent(b)' >= Spent(b)
  <2>1. \A b \in Batch : Spent(b) \in Int
    BY DEF Spent, TypeOK, BatchRecord
  <2> QED
    BY <2>1 DEF Spent
<1>5. kick[t] \in KickRecord
  BY DEF TypeOK
<1>6. CASE KickFinds(t)
  <2>1. PICK k : /\ k = IdleKick \/ \E b \in Batch : k = [kick[t] EXCEPT !.at = "reserve", !.batch = b]
                 /\ kick' = [kick EXCEPT ![t] = k]
    BY <1>6 DEF KickFinds, SetKick
  <2>2. k.at = "idle" \/ k.at = "reserve"
    <3>1. CASE k = IdleKick
      BY <3>1 DEF IdleKick
    <3>2. ASSUME NEW b \in Batch, k = [kick[t] EXCEPT !.at = "reserve", !.batch = b]
          PROVE  k.at = "reserve"
      BY <1>5, <3>2 DEF KickRecord
    <3> QED
      BY <2>1, <3>1, <3>2
  <2> QED
    BY <1>3, <1>4, <1>6, <2>1, <2>2 DEF KickFinds
<1>7. CASE KickFindsExhausted(t) \/ KickSkips(t) \/ KickFails(t)
  <2>1. kick' = [kick EXCEPT ![t] = IdleKick] /\ IdleKick.at = "idle" /\ run' = run
    BY <1>7 DEF KickFindsExhausted, KickSkips, KickFails, SetKick, IdleKick
  <2>2. \A b \in Batch : Spent(b)' >= Spent(b)
    <3>1. CASE batch' = batch
      BY <1>4, <3>1
    <3>2. CASE batch' = [batch EXCEPT ![kick[t].batch].remaining = @ - 1]
      BY <3>2 DEF Spent, TypeOK, BatchRecord
    <3> QED
      BY <1>7, <3>1, <3>2 DEF KickFindsExhausted, KickSkips, KickFails
  <2> QED
    BY <1>3, <1>4, <2>1, <2>2
<1>8. CASE KickLaunches(t)
  <2> DEFINE k == [kick[t] EXCEPT !.at = "record"]
  <2>1. kick' = [kick EXCEPT ![t] = k] /\ kick[t].at = "launch"
    BY <1>8 DEF KickLaunches, SetKick
  <2>2. k.at = "record" /\ k.batch = kick[t].batch
    BY <1>5 DEF KickRecord
  <2> HIDE DEF k
  <2> QED
    BY <1>3, <1>4, <1>8, <2>1, <2>2 DEF KickLaunches, Holding
<1>9. CASE KickRecords(t)
  <2>1. PICK q \in Run : /\ run' = [run EXCEPT ![q] = [NotRecorded EXCEPT !.status = "pending"]]
                         /\ kick' = [kick EXCEPT ![t] =
                                       [kick[t] EXCEPT !.at = "stamp", !.run = q]]
    BY <1>9 DEF KickRecords, SetKick
  <2> DEFINE k == [kick[t] EXCEPT !.at = "stamp", !.run = q]
  <2>2. k.at = "stamp" /\ k.batch = kick[t].batch
    BY <1>5 DEF KickRecord
  <2>3. kick[t].at = "record" /\ batch' = batch
    BY <1>9 DEF KickRecords
  <2>4. \A r \in Run : run'[r].batch \in {run[r].batch, Nothing}
    BY <2>1 DEF NotRecorded, TypeOK
  <2>5. kick' = [kick EXCEPT ![t] = k]
    BY <2>1
  <2> HIDE DEF k
  <2> QED
    BY <1>3, <1>4, <2>2, <2>3, <2>4, <2>5 DEF Holding
<1>10. CASE KickStamps(t) /\ ~answers
  <2>1. kick' = [kick EXCEPT ![t] = IdleKick] /\ IdleKick.at = "idle"
        /\ run' = run /\ batch' = batch
    BY <1>10 DEF KickStamps, SetRun, SetKick, IdleKick
  <2> QED
    BY <1>3, <1>4, <2>1
<1> QED
  BY <1>1, <1>2, <1>6, <1>7, <1>8, <1>9, <1>10 DEF KickStep

\* The steps of requests and checks, which create and cancel batches.
LEMMA CallKeepsBound ==
    ASSUME TypeOK, TypeOK', BatchNotOverfired, NEW c \in Caller, CallStep(c)
    PROVE  BatchNotOverfired'
<1>1. \A t \in KickThread :
        kick'[t].at \in Holding
          => kick[t].at \in Holding /\ kick'[t].batch = kick[t].batch
  <2>1. kick' = kick
    BY DEF CallStep, ChecksBatch, ListsFailures, ResetsRun, CreatesBatch, EnablesRunner,
           CancelsBatches, MarksCancelled, FindsBatch, ReadsConfig, PausesRunner,
           MovesNextRun, SetCall
  <2> QED
    BY <2>1
<1>2. \A r \in Run : run'[r].batch \in {run[r].batch, Nothing}
  <2>1. CASE run' = run
    BY <2>1
  <2>2. CASE ResetsRun(c)
    <3>1. PICK r : SetRun(r, [run[r] EXCEPT !.status = "reset"])
      BY <2>2 DEF ResetsRun
    <3>2. r \in Run => [run[r] EXCEPT !.status = "reset"].batch = run[r].batch
      BY DEF TypeOK, RunRecord
    <3> QED
      BY <3>1, <3>2, RunBatchKept DEF TypeOK
  <2> QED
    BY <2>1, <2>2 DEF CallStep, ChecksBatch, ListsFailures, CreatesBatch, EnablesRunner,
           CancelsBatches, MarksCancelled, FindsBatch, ReadsConfig, PausesRunner,
           MovesNextRun
<1>3. \A b \in Batch : Spent(b)' >= Spent(b)
  <2> TAKE b \in Batch
  <2>0. Spent(b) \in Int /\ batch[b] \in BatchRecord
    BY DEF Spent, TypeOK, BatchRecord
  <2>1. CASE batch' = batch
    BY <2>0, <2>1 DEF Spent
  <2>2. CASE CreatesBatch(c)
    <3> DEFINE opened == [NotQueued EXCEPT !.requested = call[c].count,
                                           !.remaining = call[c].count]
    <3>1. PICK a \in Batch : batch[a] = NotQueued /\ SetBatch(a, opened)
      BY <2>2 DEF CreatesBatch
    <3>2. CASE batch'[b] = batch[b]
      BY <2>0, <3>2 DEF Spent
    <3>3. CASE a = b /\ batch'[b] = opened
      <4>1. call[c].count \in Nat
        BY DEF TypeOK, CallRecord
      <4>2. batch'[b].requested = call[c].count /\ batch'[b].remaining = call[c].count
        BY <3>3 DEF NotQueued
      <4>3. Spent(b) = 0
        BY <3>1, <3>3 DEF Spent, NotQueued
      <4> QED
        BY <4>1, <4>2, <4>3 DEF Spent
    <3> QED
      BY <3>1, <3>2, <3>3, OneBatchWritten DEF TypeOK
  <2>3. CASE c = "request" /\ CancelsBatches
    <3>1. CASE Active(b) /\ answers
      <4>1. batch'[b].requested = batch[b].requested /\ batch'[b].remaining = 0
        BY <2>0, <2>3, <3>1 DEF CancelsBatches, BatchRecord
      <4> QED
        BY <2>0, <4>1 DEF Spent, BatchRecord
    <3>2. CASE ~(Active(b) /\ answers)
      <4>1. batch'[b] = batch[b]
        BY <2>3, <3>2 DEF CancelsBatches
      <4> QED
        BY <2>0, <4>1 DEF Spent
    <3> QED
      BY <3>1, <3>2
  <2>4. CASE c = "request" /\ MarksCancelled
    <3>0. SetBatch(call["request"].batch,
                   [batch[call["request"].batch] EXCEPT !.cancelled = TRUE])
      BY <2>4 DEF MarksCancelled
    <3>1. batch'[b].requested = batch[b].requested /\ batch'[b].remaining = batch[b].remaining
      BY <2>0, <3>0, OneBatchWritten DEF TypeOK, BatchRecord
    <3> QED
      BY <2>0, <3>1 DEF Spent
  <2> QED
    BY <2>1, <2>2, <2>3, <2>4 DEF CallStep, ChecksBatch, ListsFailures, ResetsRun,
           EnablesRunner, FindsBatch, ReadsConfig, PausesRunner, MovesNextRun
<1> QED
  BY <1>1, <1>2, <1>3, QuietFields

\* All other steps leave the batches' slots alone; a restart only drops kicks.
LEMMA OthersKeepBound ==
    ASSUME TypeOK, TypeOK', BatchNotOverfired,
           \/ LoopStep \/ Restart \/ Request \/ Midnight \/ GraphChanges
           \/ \E t \in SensorThread : SensorStep(t)
           \/ \E r \in Run : Age(r)
    PROVE  BatchNotOverfired'
<1>1. ASSUME NEW t \in SensorThread, SensorStep(t) PROVE BatchNotOverfired'
  <2>1. kick' = kick
    BY <1>1 DEF SensorStep, SensorCounts, SensorEnds, SensorPasses
  <2>2. \A r \in Run : run'[r].batch \in {run[r].batch, Nothing}
    <3>1. CASE run' = run
      BY <3>1
    <3>2. ASSUME NEW j \in sensor[t].todo, SensorEnds(t, j)
          PROVE  \A r \in Run : run'[r].batch = run[r].batch
      <4>1. PICK status : SetRun(j.run, [run[j.run] EXCEPT !.status = status])
        BY <3>2 DEF SensorEnds
      <4>2. j.run \in Run => [run[j.run] EXCEPT !.status = status].batch = run[j.run].batch
        BY DEF TypeOK, RunRecord
      <4> QED
        BY <4>1, <4>2, RunBatchKept DEF TypeOK
    <3> QED
      BY <1>1, <3>1, <3>2 DEF SensorStep, SensorCounts, SensorPasses
  <2>3. \A b \in Batch : Spent(b)' = Spent(b) /\ Spent(b) \in Int
    <3> TAKE b \in Batch
    <3>0. Spent(b) \in Int /\ batch[b] \in BatchRecord
      BY DEF Spent, TypeOK, BatchRecord
    <3>1. CASE batch' = batch
      BY <3>0, <3>1 DEF Spent
    <3>2. CASE SetBatch(sensor[t].count,
                        [batch[sensor[t].count] EXCEPT !.completed = @ + 1])
      <4>1. batch'[b].requested = batch[b].requested /\ batch'[b].remaining = batch[b].remaining
        BY <3>0, <3>2, OneBatchWritten DEF TypeOK, BatchRecord
      <4> QED
        BY <3>0, <4>1 DEF Spent
    <3> QED
      BY <1>1, <3>1, <3>2 DEF SensorStep, SensorCounts, SensorEnds, SensorPasses
  <2> QED
    BY <2>1, <2>2, <2>3, QuietFields
<1>2. ASSUME NEW r \in Run, Age(r) PROVE BatchNotOverfired'
  <2>1. \A q \in Run : run'[q].batch \in {run[q].batch, Nothing}
    BY <1>2 DEF Age, TypeOK, RunRecord
  <2>2. \A b \in Batch : Spent(b)' = Spent(b) /\ Spent(b) \in Int
    BY <1>2 DEF Age, Spent, TypeOK, BatchRecord
  <2>3. kick' = kick
    BY <1>2 DEF Age
  <2> QED
    BY <2>1, <2>2, <2>3, QuietFields
<1>3. ASSUME run' = run, batch' = batch,
             \A t \in KickThread :
               kick'[t].at \in Holding
                 => kick[t].at \in Holding /\ kick'[t].batch = kick[t].batch
      PROVE  BatchNotOverfired'
  <2>1. \A b \in Batch : Spent(b)' >= Spent(b)
    BY <1>3 DEF Spent, TypeOK, BatchRecord
  <2>2. \A r \in Run : run'[r].batch \in {run[r].batch, Nothing}
    BY <1>3
  <2> QED
    BY <1>3, <2>1, <2>2, QuietFields
<1>4. CASE Restart
  <2>1. \A t \in KickThread : kick'[t].at = "idle"
    BY <1>4 DEF Restart, IdleKick
  <2> QED
    BY <1>3, <1>4, <2>1 DEF Restart, Holding
<1>5. ASSUME NEW t \in KickThread, KickStart(t) PROVE BatchNotOverfired'
  <2>1. kick[t].at = "idle" /\ kick'[t].at \in {"idle", "find"}
    BY <1>5 DEF KickStart, SetKick, IdleKick, TypeOK
  <2>2. \A u \in KickThread \ {t} : kick'[u] = kick[u]
    BY <1>5 DEF KickStart, SetKick, TypeOK
  <2> QED
    BY <1>3, <1>5, <2>1, <2>2 DEF KickStart, Holding
<1>6. CASE LoopTurns \/ Midnight \/ GraphChanges \/ \E t \in SensorThread : SensorStart(t)
  BY <1>3, <1>6 DEF LoopTurns, Midnight, GraphChanges, SensorStart
<1>7. CASE Request
  <2>1. batch' = batch /\ run' = run /\ kick' = kick
    BY <1>7 DEF Request, PostRunBatch, PostBatch, PostCancel, PostConfig, PostSchedule,
                SetCall
  <2> QED
    BY <1>3, <2>1
<1> QED
  BY <1>1, <1>2, <1>4, <1>5, <1>6, <1>7 DEF LoopStep

\* A batch never fires more runs than were requested of it, for any number of
\* overlapping cycles, cancellations and restarts (reserve_batch_slot).
THEOREM NeverOverfired == Spec => []BatchNotOverfired
<1>1. Init => BatchNotOverfired
  <2> SUFFICES ASSUME Init, NEW b \in Batch
               PROVE  Cardinality(Stamped(b)) + Cardinality(Holders(b)) <= Spent(b)
    BY DEF BatchNotOverfired, Spent
  <2>1. Stamped(b) = {}
    BY NothingIsNone DEF Init, NotRecorded, Stamped
  <2>2. Holders(b) = {}
    BY DEF Init, Volatile, IdleKick, Holders, Holding
  <2>3. Spent(b) = 0
    BY DEF Init, NotQueued, Spent
  <2> QED
    BY <2>1, <2>2, <2>3, FS_EmptySet
<1>2. TypeOK /\ TypeOK' /\ BatchNotOverfired /\ [Next]_vars => BatchNotOverfired'
  <2> SUFFICES ASSUME TypeOK, TypeOK', BatchNotOverfired, [Next]_vars
               PROVE  BatchNotOverfired'
    OBVIOUS
  <2>1. CASE UNCHANGED vars
    BY <2>1 DEF vars, BatchNotOverfired, Stamped, Holders
  <2> QED
    BY <2>1, OthersKeepBound, KickKeepsBound, CallKeepsBound DEF Next
<1> QED
  BY <1>1, <1>2, TypeCorrect, PTL DEF Spec

-----------------------------------------------------------------------------
(* What the ledger rests on                                                *)

\* A run that was not recorded has no batch.
NoneHasNoBatch == \A r \in Run : run[r].status = "none" => run[r].batch = Nothing

\* A sensor counts for the batch its run was told, and that run still has it.
JobsAreCurrent ==
    \A t \in SensorThread : \A j \in sensor[t].todo :
        j.batch # Nothing => run[j.run].batch = j.batch

CountsFired ==
    \A t \in SensorThread :
        sensor[t].count # Nothing => \E r \in Run : run[r].batch = sensor[t].count

\* A kick that found a batch keeps it.
KickHasBatch ==
    \A t \in KickThread : kick[t].at \in Holding \cup {"reserve"} => kick[t].batch \in Batch

\* A kick that recorded a run is the only one to tell it its batch.
StampsFresh ==
    \A t \in KickThread :
        kick[t].at = "stamp"
          => /\ kick[t].run \in Run
             /\ run[kick[t].run].status # "none"
             /\ run[kick[t].run].batch = Nothing
             /\ \A u \in KickThread \ {t} : kick[u].at = "stamp" => kick[u].run # kick[t].run

\* A call that is past its check has a size a batch may have.
SizeIsValid ==
    \A c \in Caller : call[c].at \in {"list", "reset"} => call[c].count \in BatchSizes

FiredInv ==
    /\ NoneHasNoBatch
    /\ JobsAreCurrent
    /\ CountsFired
    /\ KickHasBatch
    /\ StampsFresh
    /\ SizeIsValid

\* Nothing is under way at first.
LEMMA FiredInit == Init => FiredInv
  BY DEF Init, Volatile, NotRecorded, IdleSensor, IdleKick, IdleCall, FiredInv,
         NoneHasNoBatch, JobsAreCurrent, CountsFired, KickHasBatch, StampsFresh,
         SizeIsValid, Holding

\* What a step does to the runs: a recorded run stays recorded, and a run that was
\* told its batch keeps it.
RunsLast ==
    \A r \in Run :
        /\ run[r].batch # Nothing => run'[r].batch = run[r].batch
        /\ run[r].status # "none" => run'[r].status # "none"
        /\ run'[r].status = "none" => run'[r].batch = Nothing

\* Steps that give a run a status keep its batch.
LEMMA StatusLasts ==
    ASSUME TypeOK, NoneHasNoBatch, NEW r, NEW status \in {"success", "failed", "timeout", "reset"},
           SetRun(r, [run[r] EXCEPT !.status = status])
    PROVE  RunsLast /\ \A q \in Run : run'[q].batch = run[q].batch
<1>1. \A q \in Run : /\ run'[q].batch = run[q].batch
                     /\ run'[q].status \in {run[q].status, status}
  BY DEF SetRun, TypeOK, RunRecord
<1>2. status # "none"
  OBVIOUS
<1> QED
  BY <1>1, <1>2 DEF RunsLast, NoneHasNoBatch

\* Steps that leave the runs alone, or only age them.
LEMMA SameRuns ==
    ASSUME NoneHasNoBatch,
           \A r \in Run : run'[r].batch = run[r].batch /\ run'[r].status = run[r].status
    PROVE  RunsLast
  BY DEF RunsLast, NoneHasNoBatch

\* Sensors keep what they hold as long as runs keep their batch.
LEMMA SensorsLast ==
    ASSUME TypeOK, JobsAreCurrent, CountsFired, RunsLast,
           \A t \in SensorThread :
             /\ sensor'[t].todo \subseteq sensor[t].todo
             /\ \/ sensor'[t].count \in {sensor[t].count, Nothing}
                \/ \E j \in sensor[t].todo : sensor'[t].count = j.batch
    PROVE  JobsAreCurrent' /\ CountsFired'
<1>0. \A t \in SensorThread : \A j \in sensor[t].todo :
        /\ j.run \in Run
        /\ j.batch # Nothing => run[j.run].batch = j.batch /\ run'[j.run].batch = j.batch
  BY DEF TypeOK, SensorRecord, Job, JobsAreCurrent, RunsLast
<1>1. JobsAreCurrent'
  BY <1>0 DEF JobsAreCurrent
<1>2. ASSUME NEW t \in SensorThread, sensor'[t].count # Nothing
      PROVE  \E r \in Run : run'[r].batch = sensor'[t].count
  <2>1. CASE sensor'[t].count = sensor[t].count
    <3>1. PICK r \in Run : run[r].batch = sensor[t].count
      BY <1>2, <2>1 DEF CountsFired
    <3> QED
      BY <1>2, <2>1, <3>1 DEF RunsLast
  <2>2. CASE \E j \in sensor[t].todo : sensor'[t].count = j.batch
    BY <1>0, <1>2, <2>2
  <2> QED
    BY <1>2, <2>1, <2>2
<1> QED
  BY <1>1, <1>2 DEF CountsFired

\* Kicks keep what they hold as long as no run of theirs is told a batch.
LEMMA KicksLast ==
    ASSUME KickHasBatch, StampsFresh, RunsLast,
           \A t \in KickThread :
             /\ kick'[t].at \in Holding \cup {"reserve"}
                  => /\ kick[t].at \in Holding \cup {"reserve"}
                     /\ kick'[t].batch = kick[t].batch
             /\ kick'[t].at = "stamp"
                  => /\ kick[t].at = "stamp" /\ kick'[t].run = kick[t].run
                     /\ run'[kick[t].run].batch = Nothing
    PROVE  KickHasBatch' /\ StampsFresh'
<1>1. KickHasBatch'
  BY DEF KickHasBatch
<1>2. StampsFresh'
  BY DEF StampsFresh, RunsLast
<1> QED
  BY <1>1, <1>2

\* The steps of the sensors.
LEMMA FiredSensor ==
    ASSUME TypeOK, FiredInv, NEW t \in SensorThread, SensorStep(t)
    PROVE  RunsLast /\ FiredInv'
<1>0. kick' = kick /\ call' = call /\ sensor[t] \in SensorRecord
  BY DEF SensorStep, SensorCounts, SensorEnds, SensorPasses, TypeOK
<1>1. RunsLast /\ \A q \in Run : run'[q].batch = run[q].batch
  <2>1. CASE run' = run
    BY <2>1, SameRuns DEF FiredInv
  <2>2. ASSUME NEW j \in sensor[t].todo, SensorEnds(t, j)
        PROVE  RunsLast /\ \A q \in Run : run'[q].batch = run[q].batch
    <3>1. PICK status \in {"success", "failed", "timeout"} :
            SetRun(j.run, [run[j.run] EXCEPT !.status = status])
      BY <2>2 DEF SensorEnds
    <3> QED
      BY <3>1, StatusLasts DEF FiredInv
  <2> QED
    BY <2>1, <2>2 DEF SensorStep, SensorCounts, SensorPasses
<1>2. \A u \in SensorThread :
        /\ sensor'[u].todo \subseteq sensor[u].todo
        /\ \/ sensor'[u].count \in {sensor[u].count, Nothing}
           \/ \E j \in sensor[u].todo : sensor'[u].count = j.batch
  <2>1. CASE SensorCounts(t)
    BY <1>0, <2>1 DEF SensorCounts, TypeOK, SensorRecord
  <2>2. ASSUME NEW j \in sensor[t].todo, SensorEnds(t, j)
        PROVE  /\ sensor'[t].todo \subseteq sensor[t].todo
               /\ sensor'[t].count = j.batch
               /\ \A u \in SensorThread \ {t} : sensor'[u] = sensor[u]
    BY <1>0, <2>2 DEF SensorEnds, TypeOK
  <2>3. ASSUME NEW j \in sensor[t].todo, SensorPasses(t, j)
        PROVE  /\ sensor'[t].todo \subseteq sensor[t].todo
               /\ sensor'[t].count = sensor[t].count
               /\ \A u \in SensorThread \ {t} : sensor'[u] = sensor[u]
    BY <1>0, <2>3 DEF SensorPasses, TypeOK, SensorRecord
  <2> QED
    BY <2>1, <2>2, <2>3 DEF SensorStep
<1>3. JobsAreCurrent' /\ CountsFired'
  BY <1>1, <1>2, SensorsLast DEF FiredInv
<1>4. KickHasBatch' /\ StampsFresh'
  BY <1>0, <1>1, KicksLast DEF FiredInv, StampsFresh
<1>5. NoneHasNoBatch' /\ SizeIsValid'
  BY <1>0, <1>1 DEF RunsLast, NoneHasNoBatch, FiredInv, SizeIsValid
<1> QED
  BY <1>1, <1>3, <1>4, <1>5 DEF FiredInv

\* The steps of the kicks.
LEMMA FiredKick ==
    ASSUME TypeOK, FiredInv, NEW t \in KickThread, KickStep(t)
    PROVE  RunsLast /\ FiredInv'
<1>0. /\ sensor' = sensor /\ call' = call /\ kick[t] \in KickRecord
      /\ \A u \in KickThread \ {t} : kick'[u] = kick[u]
      /\ \A k : SetKick(t, k) => kick'[t] = k
  BY DEF KickStep, KickFinds, KickReserves, KickFindsExhausted, KickLaunches, KickSkips,
     KickFails, KickRecords, KickStamps, SetKick, TypeOK
<1>1. ASSUME RunsLast, KickHasBatch', StampsFresh' PROVE RunsLast /\ FiredInv'
  <2>1. JobsAreCurrent' /\ CountsFired'
    BY <1>0, <1>1, SensorsLast DEF FiredInv
  <2>2. NoneHasNoBatch' /\ SizeIsValid'
    BY <1>0, <1>1 DEF RunsLast, NoneHasNoBatch, FiredInv, SizeIsValid
  <2> QED
    BY <1>1, <2>1, <2>2 DEF FiredInv
<1>2. ASSUME run' = run,
             kick'[t].at \in Holding \cup {"reserve"}
               => kick'[t].at # "stamp" /\ kick'[t].batch \in Batch
      PROVE  RunsLast /\ FiredInv'
  <2>1. RunsLast
    BY <1>2, SameRuns DEF FiredInv
  <2>2. KickHasBatch'
    BY <1>0, <1>2 DEF FiredInv, KickHasBatch
  <2>3. StampsFresh'
    BY <1>0, <1>2 DEF FiredInv, StampsFresh, Holding
  <2> QED
    BY <1>1, <2>1, <2>2, <2>3
<1>3. CASE KickFinds(t)
  <2>1. CASE SetKick(t, IdleKick)
    <3>1. kick'[t].at = "idle"
      BY <1>0, <2>1 DEF IdleKick
    <3> QED
      BY <1>2, <1>3, <3>1 DEF KickFinds, Holding
  <2>2. ASSUME NEW b \in Batch, SetKick(t, [kick[t] EXCEPT !.at = "reserve", !.batch = b])
        PROVE  RunsLast /\ FiredInv'
    <3>1. kick'[t] = [kick[t] EXCEPT !.at = "reserve", !.batch = b]
      BY <1>0, <2>2
    <3>2. kick'[t].at = "reserve" /\ kick'[t].batch = b
      BY <1>0, <3>1 DEF KickRecord
    <3> QED
      BY <1>2, <1>3, <3>2 DEF KickFinds
  <2> QED
    BY <1>3, <2>1, <2>2 DEF KickFinds
<1>4. CASE KickFindsExhausted(t) \/ KickSkips(t) \/ KickFails(t)
  BY <1>0, <1>2, <1>4 DEF KickFindsExhausted, KickSkips, KickFails, IdleKick, Holding
<1>5. CASE KickReserves(t) \/ KickLaunches(t)
  <2>1. PICK at \in {"launch", "record"} : kick'[t] = [kick[t] EXCEPT !.at = at]
    BY <1>0, <1>5 DEF KickReserves, KickLaunches
  <2>2. kick'[t].at \in {"launch", "record"} /\ kick'[t].batch = kick[t].batch
    BY <1>0, <2>1 DEF KickRecord
  <2>3. kick[t].batch \in Batch /\ run' = run
    BY <1>5 DEF KickReserves, KickLaunches, FiredInv, KickHasBatch, Holding
  <2> QED
    BY <1>2, <2>2, <2>3
<1>6. CASE KickRecords(t)
  <2>1. PICK r \in Run \ Recorded :
          /\ run' = [run EXCEPT ![r] = [NotRecorded EXCEPT !.status = "pending"]]
          /\ SetKick(t, [kick[t] EXCEPT !.at = "stamp", !.run = r])
    BY <1>6 DEF KickRecords
  <2>2. /\ run[r].status = "none" /\ run[r].batch = Nothing
        /\ run'[r].status = "pending" /\ run'[r].batch = Nothing
        /\ \A q \in Run \ {r} : run'[q] = run[q]
    BY <2>1 DEF Recorded, FiredInv, NoneHasNoBatch, NotRecorded, TypeOK
  <2>3. RunsLast
    BY <2>2 DEF RunsLast, FiredInv, NoneHasNoBatch
  <2>4. kick'[t] = [kick[t] EXCEPT !.at = "stamp", !.run = r]
    BY <1>0, <2>1
  <2>5. kick'[t].at = "stamp" /\ kick'[t].run = r /\ kick'[t].batch = kick[t].batch
    BY <1>0, <2>4 DEF KickRecord
  <2>6. kick[t].batch \in Batch
    BY <1>6 DEF KickRecords, FiredInv, KickHasBatch, Holding
  <2>7. KickHasBatch'
    BY <1>0, <2>5, <2>6 DEF FiredInv, KickHasBatch
  <2>8. ASSUME NEW u \in KickThread, u # t, kick'[u].at = "stamp"
        PROVE  /\ kick'[u].run \in Run /\ kick'[u].run # r
               /\ run'[kick'[u].run] = run[kick[u].run]
    BY <1>0, <2>2, <2>8 DEF FiredInv, StampsFresh
  <2>9. StampsFresh'
    BY <1>0, <2>1, <2>2, <2>5, <2>8 DEF FiredInv, StampsFresh
  <2> QED
    BY <1>1, <2>3, <2>7, <2>9
<1>7. CASE KickStamps(t)
  <2>1. PICK r \in Run : r = kick[t].run
    BY <1>7 DEF KickStamps, FiredInv, StampsFresh
  <2>2. /\ run[r].status # "none" /\ run[r].batch = Nothing
        /\ \A u \in KickThread \ {t} : kick[u].at = "stamp" => kick[u].run # r
    BY <1>7, <2>1 DEF KickStamps, FiredInv, StampsFresh
  <2>3. /\ run'[r].status = run[r].status
        /\ \A q \in Run \ {r} : run'[q] = run[q]
    BY <1>7, <2>1 DEF KickStamps, SetRun, TypeOK, RunRecord
  <2>4. RunsLast
    BY <2>2, <2>3 DEF RunsLast, FiredInv, NoneHasNoBatch
  <2>5. kick'[t].at = "idle"
    BY <1>0, <1>7 DEF KickStamps, IdleKick
  <2>6. KickHasBatch' /\ StampsFresh'
    <3>1. \A u \in KickThread :
            /\ kick'[u].at \in Holding \cup {"reserve"}
                 => /\ kick[u].at \in Holding \cup {"reserve"}
                    /\ kick'[u].batch = kick[u].batch
            /\ kick'[u].at = "stamp"
                 => /\ kick[u].at = "stamp" /\ kick'[u].run = kick[u].run
                    /\ run'[kick[u].run].batch = Nothing
      BY <1>0, <2>2, <2>3, <2>5 DEF FiredInv, StampsFresh, Holding
    <3> QED
      BY <2>4, <3>1, KicksLast DEF FiredInv
  <2> QED
    BY <1>1, <2>4, <2>6
<1> QED
  BY <1>3, <1>4, <1>5, <1>6, <1>7 DEF KickStep

\* The steps of the calls.
LEMMA FiredCall ==
    ASSUME TypeOK, FiredInv, NEW c \in Caller, CallStep(c)
    PROVE  RunsLast /\ FiredInv'
<1>0. /\ sensor' = sensor /\ kick' = kick /\ call[c] \in CallRecord
      /\ \A d \in Caller \ {c} : call'[d] = call[d]
      /\ \A s : SetCall(c, s) => call'[c] = s
  BY DEF CallStep, ChecksBatch, ListsFailures, ResetsRun, CreatesBatch, EnablesRunner,
     CancelsBatches, MarksCancelled, FindsBatch, ReadsConfig, PausesRunner, MovesNextRun,
     SetCall, TypeOK
<1>1. RunsLast /\ \A q \in Run : run'[q].batch = run[q].batch
  <2>1. CASE run' = run
    BY <2>1, SameRuns DEF FiredInv
  <2>2. CASE ResetsRun(c)
    <3>1. PICK r : SetRun(r, [run[r] EXCEPT !.status = "reset"])
      BY <2>2 DEF ResetsRun
    <3> QED
      BY <3>1, StatusLasts DEF FiredInv
  <2> QED
    BY <2>1, <2>2 DEF CallStep, ChecksBatch, ListsFailures, CreatesBatch, EnablesRunner,
       CancelsBatches, MarksCancelled, FindsBatch, ReadsConfig, PausesRunner, MovesNextRun
<1>2. call'[c].at \in {"list", "reset"} => call'[c].count \in BatchSizes
  <2>0. Return(c).at \in {"idle", "next"}
    BY DEF Return, IdleCall
  <2>1. CASE ChecksBatch(c)
    <3>1. CASE call[c].count \in BatchSizes /\ (NoActive \/ ~answers)
      <4>1. call'[c] = [call[c] EXCEPT !.at = "list"]
        BY <1>0, <2>1, <3>1 DEF ChecksBatch
      <4> QED
        BY <1>0, <3>1, <4>1 DEF CallRecord
    <3>2. CASE ~(call[c].count \in BatchSizes /\ (NoActive \/ ~answers))
      <4>1. call'[c] = Return(c)
        BY <1>0, <2>1, <3>2 DEF ChecksBatch
      <4> QED
        BY <2>0, <4>1
    <3> QED
      BY <3>1, <3>2
  <2>2. CASE ListsFailures(c)
    <3>1. PICK S : call'[c] = [call[c] EXCEPT !.at = "reset", !.todo = S]
      BY <1>0, <2>2 DEF ListsFailures
    <3>2. call'[c].count = call[c].count
      BY <1>0, <3>1 DEF CallRecord
    <3> QED
      BY <2>2, <3>2 DEF ListsFailures, At, FiredInv, SizeIsValid
  <2>3. CASE ResetsRun(c)
    <3>1. PICK r : call'[c] = [call[c] EXCEPT !.todo = @ \ {r}]
      BY <1>0, <2>3 DEF ResetsRun
    <3>2. call'[c].count = call[c].count
      BY <1>0, <3>1 DEF CallRecord
    <3> QED
      BY <2>3, <3>2 DEF ResetsRun, At, FiredInv, SizeIsValid
  <2>4. CASE CreatesBatch(c)
    BY <1>0, <2>4 DEF CreatesBatch, CallRecord
  <2>5. CASE EnablesRunner(c)
    BY <1>0, <2>0, <2>5 DEF EnablesRunner
  <2>6. CASE c = "request" /\ (CancelsBatches \/ MarksCancelled)
    <3>1. \/ SetCall(c, [IdleCall EXCEPT !.at = "config"])
          \/ SetCall(c, IdleCall)
      BY <2>6 DEF CancelsBatches, MarksCancelled
    <3>2. call'[c] = [IdleCall EXCEPT !.at = "config"] \/ call'[c] = IdleCall
      BY <1>0, <3>1
    <3> QED
      BY <3>2 DEF IdleCall
  <2>7. CASE FindsBatch(c)
    <3>1. \/ call'[c] = IdleCall
          \/ call'[c] = [call[c] EXCEPT !.at = "check"]
          \/ call'[c] = [call[c] EXCEPT !.at = "config"]
      <4>1. CASE ~NoActive /\ answers
        BY <1>0, <2>7, <4>1 DEF FindsBatch
      <4>2. CASE ~(~NoActive /\ answers) /\ c = "schedule"
        BY <1>0, <2>7, <4>2 DEF FindsBatch
      <4>3. CASE ~(~NoActive /\ answers) /\ c # "schedule"
        BY <1>0, <2>7, <4>3 DEF FindsBatch
      <4> QED
        BY <4>1, <4>2, <4>3
    <3> QED
      BY <1>0, <3>1 DEF IdleCall, CallRecord
  <2>8. CASE ReadsConfig(c)
    <3>1. call'[c] = IdleCall \/ call'[c] = [call[c] EXCEPT !.at = "pause"]
      BY <1>0, <2>8 DEF ReadsConfig
    <3> QED
      BY <1>0, <3>1 DEF IdleCall, CallRecord
  <2>9. CASE PausesRunner(c) \/ (c = "schedule" /\ MovesNextRun)
    BY <1>0, <2>9 DEF PausesRunner, MovesNextRun, IdleCall
  <2> QED
    BY <2>1, <2>2, <2>3, <2>4, <2>5, <2>6, <2>7, <2>8, <2>9 DEF CallStep
<1>3. SizeIsValid'
  BY <1>0, <1>2 DEF FiredInv, SizeIsValid
<1>4. JobsAreCurrent' /\ CountsFired' /\ NoneHasNoBatch'
  BY <1>0, <1>1, SensorsLast DEF FiredInv, RunsLast, NoneHasNoBatch
<1>5. KickHasBatch' /\ StampsFresh'
  BY <1>0, <1>1, KicksLast DEF FiredInv, StampsFresh
<1> QED
  BY <1>1, <1>3, <1>4, <1>5 DEF FiredInv

\* All other steps: a sensor lists the runs as they are, a kick starts without a
\* batch, a call without a place past its check.
LEMMA FiredOthers ==
    ASSUME TypeOK, FiredInv,
           \/ LoopStep \/ Restart \/ Request \/ Midnight \/ GraphChanges
           \/ \E r \in Run : Age(r)
    PROVE  RunsLast /\ FiredInv'
<1>1. RunsLast /\ \A q \in Run : run'[q].batch = run[q].batch
  <2>1. \A q \in Run : run'[q].batch = run[q].batch /\ run'[q].status = run[q].status
    <3>1. CASE run' = run
      BY <3>1
    <3>2. ASSUME NEW r \in Run, Age(r)
          PROVE  \A q \in Run : run'[q].batch = run[q].batch /\ run'[q].status = run[q].status
      BY <3>2 DEF Age, TypeOK, RunRecord
    <3> QED
      BY <3>1, <3>2 DEF LoopStep, LoopTurns, SensorStart, KickStart, SetKick, Restart, Request,
         PostRunBatch, PostBatch, PostCancel, PostConfig, PostSchedule, Midnight, GraphChanges
  <2> QED
    BY <2>1, SameRuns DEF FiredInv
<1>2. JobsAreCurrent' /\ CountsFired'
  <2>1. ASSUME NEW t \in SensorThread, SensorStart(t) PROVE JobsAreCurrent' /\ CountsFired'
    <3>1. PICK S \in SUBSET Run : sensor' = [sensor EXCEPT ![t].todo = Listed(S)]
      BY <2>1 DEF SensorStart, Found, Newest, WithStatus
    <3>2. \A j \in Listed(S) : run[j.run].batch = j.batch
      BY DEF Listed
    <3>3. /\ \A u \in SensorThread : sensor'[u].count = sensor[u].count
          /\ sensor'[t].todo = Listed(S)
          /\ \A u \in SensorThread \ {t} : sensor'[u].todo = sensor[u].todo
      BY <3>1 DEF TypeOK, SensorRecord
    <3>4. run' = run
      BY <2>1 DEF SensorStart
    <3> QED
      BY <3>2, <3>3, <3>4 DEF FiredInv, JobsAreCurrent, CountsFired
  <2>2. CASE sensor' = sensor
    BY <1>1, <2>2, SensorsLast DEF FiredInv
  <2>3. CASE Restart
    BY <2>3 DEF Restart, IdleSensor, JobsAreCurrent, CountsFired
  <2> QED
    BY <2>1, <2>2, <2>3 DEF LoopStep, LoopTurns, KickStart, SetKick, Request, PostRunBatch,
       PostBatch, PostCancel, PostConfig, PostSchedule, SetCall, Midnight, GraphChanges, Age
<1>3. KickHasBatch' /\ StampsFresh'
  <2>1. ASSUME NEW t \in KickThread, KickStart(t) PROVE KickHasBatch' /\ StampsFresh'
    <3>1. /\ kick'[t].at \in {"idle", "find"}
          /\ \A u \in KickThread \ {t} : kick'[u] = kick[u]
          /\ run' = run
      BY <2>1 DEF KickStart, SetKick, IdleKick, TypeOK
    <3> QED
      BY <3>1 DEF FiredInv, KickHasBatch, StampsFresh, Holding
  <2>2. CASE kick' = kick
    BY <1>1, <2>2, KicksLast DEF FiredInv, StampsFresh
  <2>3. CASE Restart
    BY <2>3 DEF Restart, IdleKick, KickHasBatch, StampsFresh, Holding
  <2> QED
    BY <2>1, <2>2, <2>3 DEF LoopStep, LoopTurns, SensorStart, Request, PostRunBatch,
       PostBatch, PostCancel, PostConfig, PostSchedule, SetCall, Midnight, GraphChanges, Age
<1>4. SizeIsValid'
  <2>1. \A d \in Caller : call'[d] = call[d] \/ call'[d].at \notin {"list", "reset"}
    <3>1. ASSUME NEW s, s.at \notin {"list", "reset"}, SetCall("request", s)
          PROVE  \A d \in Caller : call'[d] = call[d] \/ call'[d].at \notin {"list", "reset"}
      BY <3>1 DEF SetCall, TypeOK
    <3>2. CASE Request
      <4>1. CASE call' = call
        BY <4>1
      <4>2. ASSUME NEW n, SetCall("request", [IdleCall EXCEPT !.at = "check", !.count = n])
            PROVE  \A d \in Caller : call'[d] = call[d] \/ call'[d].at \notin {"list", "reset"}
        BY <3>1, <4>2 DEF IdleCall
      <4>3. CASE PostCancel
        BY <3>1, <4>3 DEF PostCancel, IdleCall
      <4> QED
        BY <3>2, <4>1, <4>2, <4>3 DEF Request, PostRunBatch, PostBatch, PostConfig, PostSchedule
    <3>3. CASE LoopTurns
      <4>1. ASSUME NEW e, NEW s, s.at = "find", call' = [call EXCEPT ![e] = s]
            PROVE  \A d \in Caller : call'[d] = call[d] \/ call'[d].at \notin {"list", "reset"}
        BY <4>1 DEF TypeOK
      <4>2. \/ call' = call
            \/ call' = [call EXCEPT !["schedule"] =
                          [IdleCall EXCEPT !.at = "find", !.count = schedule.rpd]]
            \/ call' = [call EXCEPT !["completion"] = [IdleCall EXCEPT !.at = "find"]]
        BY <3>3 DEF LoopTurns, SensorAwaited, KickAwaited, NoThread, ScheduleStarts,
                    CompletionStarts, CycleEnds
      <4>3. /\ [IdleCall EXCEPT !.at = "find", !.count = schedule.rpd].at = "find"
            /\ [IdleCall EXCEPT !.at = "find"].at = "find"
        BY DEF IdleCall
      <4> QED
        BY <4>1, <4>2, <4>3
    <3>4. CASE Restart
      BY <3>4 DEF Restart, IdleCall
    <3>5. CASE call' = call
      BY <3>5
    <3> QED
      BY <3>2, <3>3, <3>4, <3>5 DEF LoopStep, SensorStart, KickStart, SetKick, Midnight,
         GraphChanges, Age
  <2> QED
    BY <2>1 DEF FiredInv, SizeIsValid
<1>5. NoneHasNoBatch'
  BY <1>1 DEF RunsLast, NoneHasNoBatch
<1> QED
  BY <1>1, <1>2, <1>3, <1>4, <1>5 DEF FiredInv

LEMMA FiredKept ==
    ASSUME TypeOK, FiredInv, [Next]_vars
    PROVE  RunsLast /\ FiredInv'
<1>1. CASE UNCHANGED vars
  <2>1. RunsLast
    BY <1>1, SameRuns DEF vars, FiredInv
  <2>2. FiredInv'
    BY <1>1 DEF vars, FiredInv, NoneHasNoBatch, JobsAreCurrent, CountsFired, KickHasBatch,
                StampsFresh, SizeIsValid
  <2> QED
    BY <2>1, <2>2
<1> QED
  BY <1>1, FiredSensor, FiredKick, FiredCall, FiredOthers DEF Next

-----------------------------------------------------------------------------
(* The ledger                                                              *)

\* The slots of a batch, as the ledger sees them.
Slots ==
    [b \in Batch |->
       [requested |-> batch[b].requested, free |-> batch[b].remaining,
        launching |-> Cardinality(Holders(b)), fired |-> Cardinality(Stamped(b)),
        counted |-> batch[b].completed]]

CountsProper ==
    \A b \in Batch :
        /\ IsFiniteSet(Holders(b)) /\ IsFiniteSet(Stamped(b))
        /\ Cardinality(Holders(b)) \in Nat /\ Cardinality(Stamped(b)) \in Nat

\* What is counted is a number, here and in the next state.
LEMMA CountsAre == CountsProper
  BY FiniteCounts, FS_CardinalityType DEF CountsProper

LEMMA CountsAreNext == CountsProper'
  BY CountsAre, PTL

\* The fields of a batch's slots.
LEMMA SlotFields ==
    \A b \in Batch : /\ Slots[b].requested = batch[b].requested
                     /\ Slots[b].free = batch[b].remaining
                     /\ Slots[b].launching = Cardinality(Holders(b))
                     /\ Slots[b].fired = Cardinality(Stamped(b))
                     /\ Slots[b].counted = batch[b].completed
  BY DEF Slots

\* No slot is opened, given out or given up, no run fires and none is counted:
\* launches were lost, or nothing happened.
LEMMA LosesLaunches ==
    ASSUME \A b \in Batch : /\ batch'[b].requested = batch[b].requested
                            /\ batch'[b].remaining = batch[b].remaining
                            /\ batch'[b].completed = batch[b].completed
                            /\ Holders(b)' \subseteq Holders(b)
                            /\ Stamped(b)' = Stamped(b)
    PROVE  Ledger!Next
<1> DEFINE left == [b \in Batch |-> Cardinality(Holders(b)')]
<1>1. \A b \in Batch : /\ Cardinality(Holders(b)') \in Nat
                       /\ Cardinality(Holders(b)) \in Nat
                       /\ Cardinality(Holders(b)') <= Cardinality(Holders(b))
  BY CountsAre, CountsAreNext, FS_Subset DEF CountsProper
<1>2. Slots' = [b \in Batch |-> [Slots[b] EXCEPT !.launching = left[b]]]
  <2>1. \A b \in Batch :
          Slots'[b] = [requested |-> batch'[b].requested, free |-> batch'[b].remaining,
                       launching |-> Cardinality(Holders(b)'),
                       fired |-> Cardinality(Stamped(b)'), counted |-> batch'[b].completed]
    BY DEF Slots
  <2>2. \A b \in Batch :
          [Slots[b] EXCEPT !.launching = left[b]]
            = [requested |-> batch[b].requested, free |-> batch[b].remaining,
               launching |-> Cardinality(Holders(b)'),
               fired |-> Cardinality(Stamped(b)), counted |-> batch[b].completed]
    BY DEF Slots
  <2>3. \A b \in Batch : Slots'[b] = [Slots[b] EXCEPT !.launching = left[b]]
    <3> HIDE DEF left
    <3> TAKE b \in Batch
    <3>1. [requested |-> batch'[b].requested, free |-> batch'[b].remaining,
           launching |-> Cardinality(Holders(b)'), fired |-> Cardinality(Stamped(b)'),
           counted |-> batch'[b].completed]
            = [requested |-> batch[b].requested, free |-> batch[b].remaining,
               launching |-> Cardinality(Holders(b)'), fired |-> Cardinality(Stamped(b)),
               counted |-> batch[b].completed]
      OBVIOUS
    <3> QED
      BY <2>1, <2>2, <3>1
  <2>4. Slots' = [b \in Batch |-> Slots'[b]]
    BY DEF Slots
  <2> QED
    BY <2>3, <2>4
<1>3. left \in [Batch -> UNION {0 .. Slots[b].launching : b \in Batch}]
  <2>1. \A b \in Batch : Cardinality(Holders(b)') \in 0 .. Slots[b].launching
    BY <1>1, SlotFields
  <2> QED
    BY <2>1
<1>4. \A b \in Batch : left[b] <= Slots[b].launching
  BY <1>1, SlotFields
<1> HIDE DEF left
<1>5. \E l \in [Batch -> UNION {0 .. Slots[b].launching : b \in Batch}] :
        /\ \A b \in Batch : l[b] <= Slots[b].launching
        /\ Slots' = [b \in Batch |-> [Slots[b] EXCEPT !.launching = l[b]]]
  BY <1>2, <1>3, <1>4
<1>6. Ledger!Lose
  BY <1>5 DEF Ledger!Lose, Slots
<1> QED
  BY <1>6 DEF Ledger!Next

\* What a step does to the sets is what it does to fields of kicks and runs.
LEMMA LosesFields ==
    ASSUME TypeOK,
           \A b \in Batch : /\ batch'[b].requested = batch[b].requested
                            /\ batch'[b].remaining = batch[b].remaining
                            /\ batch'[b].completed = batch[b].completed,
           \A t \in KickThread :
             kick'[t].at \in Holding
               => kick[t].at \in Holding /\ kick'[t].batch = kick[t].batch,
           \A r \in Run : run'[r].batch = run[r].batch
    PROVE  Ledger!Next
<1>1. \A b \in Batch : Holders(b)' \subseteq Holders(b) /\ Stamped(b)' = Stamped(b)
  BY DEF Holders, Stamped
<1> QED
  BY <1>1, LosesLaunches

\* The slots of one batch change, as the ledger sees them.
LEMMA OneSlotChanges ==
    ASSUME NEW b \in Batch, NEW q, NEW f, NEW n, NEW s, NEW d,
           \A c \in Batch \ {b} : /\ batch'[c] = batch[c]
                                  /\ Holders(c)' = Holders(c)
                                  /\ Stamped(c)' = Stamped(c),
           batch'[b].requested = q, batch'[b].remaining = f, Cardinality(Holders(b))' = n,
           Cardinality(Stamped(b))' = s, batch'[b].completed = d
    PROVE  Slots' = [Slots EXCEPT ![b] = [requested |-> q, free |-> f, launching |-> n,
                                          fired |-> s, counted |-> d]]
<1>1. \A c \in Batch :
        Slots'[c] = [requested |-> batch'[c].requested, free |-> batch'[c].remaining,
                     launching |-> Cardinality(Holders(c)'),
                     fired |-> Cardinality(Stamped(c)'), counted |-> batch'[c].completed]
  BY DEF Slots
<1>2. \A c \in Batch :
        Slots[c] = [requested |-> batch[c].requested, free |-> batch[c].remaining,
                    launching |-> Cardinality(Holders(c)),
                    fired |-> Cardinality(Stamped(c)), counted |-> batch[c].completed]
  BY DEF Slots
<1>3. Slots = [c \in Batch |-> Slots[c]] /\ Slots' = [c \in Batch |-> Slots'[c]]
  BY DEF Slots
<1>4. Slots'[b] = [requested |-> q, free |-> f, launching |-> n, fired |-> s, counted |-> d]
  BY <1>1
<1>5. \A c \in Batch \ {b} : Slots'[c] = Slots[c]
  BY <1>1, <1>2, ZenonT(30)
<1> QED
  BY <1>3, <1>4, <1>5

\* A sensor counts a run of a batch that fired one, or counts nothing.
LEMMA LedgerSensor ==
    ASSUME TypeOK, FiredInv, NEW t \in SensorThread, SensorStep(t)
    PROVE  Ledger!Next
<1>0. kick' = kick
  BY DEF SensorStep, SensorCounts, SensorEnds, SensorPasses
<1>1. \A q \in Run : run'[q].batch = run[q].batch
  <2>1. CASE run' = run
    BY <2>1
  <2>2. ASSUME NEW j \in sensor[t].todo, SensorEnds(t, j)
        PROVE  \A q \in Run : run'[q].batch = run[q].batch
    <3>1. PICK status \in {"success", "failed", "timeout"} :
            SetRun(j.run, [run[j.run] EXCEPT !.status = status])
      BY <2>2 DEF SensorEnds
    <3> QED
      BY <3>1, StatusLasts DEF FiredInv
  <2> QED
    BY <2>1, <2>2 DEF SensorStep, SensorCounts, SensorPasses
<1>2. CASE batch' = batch
  BY <1>0, <1>1, <1>2, LosesFields
<1>3. CASE batch' # batch
  <2>1. SensorCounts(t)
    BY <1>3 DEF SensorStep, SensorEnds, SensorPasses
  <2>2. PICK b \in Batch : b = sensor[t].count
    BY <2>1 DEF SensorCounts, TypeOK, SensorRecord
  <2>3. batch' = [batch EXCEPT ![b] = [batch[b] EXCEPT !.completed = @ + 1]]
    BY <1>3, <2>1, <2>2 DEF SensorCounts, SetBatch
  <2>4. /\ \A c \in Batch \ {b} : batch'[c] = batch[c]
        /\ batch'[b].requested = batch[b].requested
        /\ batch'[b].remaining = batch[b].remaining
        /\ batch'[b].completed = batch[b].completed + 1
    BY <2>3 DEF TypeOK, BatchRecord
  <2>5. \A c \in Batch : Holders(c)' = Holders(c) /\ Stamped(c)' = Stamped(c)
    BY <1>0, <1>1 DEF Holders, Stamped
  <2>6. Slots' = [Slots EXCEPT ![b] = [requested |-> batch[b].requested,
                                       free |-> batch[b].remaining,
                                       launching |-> Cardinality(Holders(b)),
                                       fired |-> Cardinality(Stamped(b)),
                                       counted |-> batch[b].completed + 1]]
    BY <2>4, <2>5, OneSlotChanges
  <2>7. Slots' = [Slots EXCEPT ![b].counted = @ + 1]
    BY <2>6 DEF Slots
  <2>8. Cardinality(Stamped(b)) > 0
    <3>1. Stamped(b) # {}
      BY <2>2, NothingIsNone DEF FiredInv, CountsFired, Stamped
    <3> QED
      BY <3>1, CountsAre, FS_EmptySet DEF CountsProper
  <2>9. Ledger!Count(b)
    BY <2>7, <2>8, SlotFields DEF Ledger!Count, Slots
  <2> QED
    BY <2>9 DEF Ledger!Next
<1> QED
  BY <1>2, <1>3

\* A kick: a slot is taken, fires a run, is wasted or is lost.
LEMMA LedgerKick ==
    ASSUME TypeOK, FiredInv, NEW t \in KickThread, KickStep(t)
    PROVE  Ledger!Next
<1>0. /\ kick[t] \in KickRecord
      /\ \A u \in KickThread \ {t} : kick'[u] = kick[u]
      /\ \A k : SetKick(t, k) => kick'[t] = k
  BY DEF KickStep, KickFinds, KickReserves, KickFindsExhausted, KickLaunches, KickSkips,
     KickFails, KickRecords, KickStamps, SetKick, TypeOK
<1>1. ASSUME batch' = batch,
             \A r \in Run : run'[r].batch = run[r].batch,
             kick'[t].at \in Holding
               => kick[t].at \in Holding /\ kick'[t].batch = kick[t].batch
      PROVE  Ledger!Next
  BY <1>0, <1>1, LosesFields
<1>2. ASSUME NEW b \in Batch, b = kick[t].batch, Active(b),
             batch' = [batch EXCEPT ![kick[t].batch].remaining = @ - 1]
      PROVE  /\ \A c \in Batch \ {b} : batch'[c] = batch[c]
             /\ batch'[b].requested = batch[b].requested
             /\ batch'[b].remaining = batch[b].remaining - 1
             /\ batch'[b].completed = batch[b].completed
             /\ batch[b].remaining > 0
  BY <1>2 DEF TypeOK, BatchRecord, Active
<1>3. CASE KickReserves(t)
  <2>1. PICK b \in Batch : b = kick[t].batch
    BY <1>3 DEF KickReserves, FiredInv, KickHasBatch
  <2>2. kick'[t].at = "launch" /\ kick'[t].batch = b
    BY <1>0, <1>3, <2>1 DEF KickReserves, KickRecord
  <2>3. run' = run /\ kick[t].at = "reserve" /\ Active(b)
        /\ batch' = [batch EXCEPT ![kick[t].batch].remaining = @ - 1]
    BY <1>3, <2>1 DEF KickReserves
  <2>4. \A c \in Batch : Stamped(c)' = Stamped(c)
    BY <2>3 DEF Stamped
  <2>5. \A c \in Batch \ {b} : Holders(c)' = Holders(c)
    BY <1>0, <2>2, <2>3 DEF Holders, Holding
  <2>6. Holders(b)' = Holders(b) \cup {t} /\ t \notin Holders(b)
    BY <1>0, <2>2, <2>3 DEF Holders, Holding
  <2>7. Cardinality(Holders(b)') = Cardinality(Holders(b)) + 1
    BY <2>6, CountsAre, FS_AddElement DEF CountsProper
  <2>8. Slots' = [Slots EXCEPT ![b] = [requested |-> batch[b].requested,
                                       free |-> batch[b].remaining - 1,
                                       launching |-> Cardinality(Holders(b)) + 1,
                                       fired |-> Cardinality(Stamped(b)),
                                       counted |-> batch[b].completed]]
    BY <1>2, <2>1, <2>3, <2>4, <2>5, <2>7, OneSlotChanges
  <2>9. Slots' = [Slots EXCEPT ![b].free = @ - 1, ![b].launching = @ + 1]
    BY <2>8 DEF Slots
  <2>10. Ledger!Take(b)
    BY <1>2, <2>1, <2>3, <2>9, SlotFields DEF Ledger!Take, Slots
  <2> QED
    BY <2>10 DEF Ledger!Next
<1>4. CASE KickFindsExhausted(t)
  <2>1. kick'[t].at = "idle" /\ kick[t].at = "reserve" /\ run' = run
    BY <1>0, <1>4 DEF KickFindsExhausted, IdleKick
  <2>2. CASE batch' = batch
    BY <1>1, <2>1, <2>2 DEF Holding
  <2>3. CASE batch' # batch
    <3>1. PICK b \in Batch : b = kick[t].batch
      BY <2>1 DEF FiredInv, KickHasBatch
    <3>2. Active(b) /\ batch' = [batch EXCEPT ![kick[t].batch].remaining = @ - 1]
      BY <1>4, <2>3, <3>1 DEF KickFindsExhausted
    <3>3. \A c \in Batch : Holders(c)' = Holders(c) /\ Stamped(c)' = Stamped(c)
      BY <1>0, <2>1 DEF Holders, Holding, Stamped
    <3>4. Slots' = [Slots EXCEPT ![b] = [requested |-> batch[b].requested,
                                         free |-> batch[b].remaining - 1,
                                         launching |-> Cardinality(Holders(b)),
                                         fired |-> Cardinality(Stamped(b)),
                                         counted |-> batch[b].completed]]
      BY <1>2, <3>1, <3>2, <3>3, OneSlotChanges
    <3>5. Slots' = [Slots EXCEPT ![b].free = @ - 1]
      BY <3>4 DEF Slots
    <3>6. Ledger!Waste(b)
      BY <1>2, <3>1, <3>2, <3>5, SlotFields DEF Ledger!Waste, Slots
    <3> QED
      BY <3>6 DEF Ledger!Next
  <2> QED
    BY <2>2, <2>3
<1>5. CASE KickStamps(t) /\ answers
  <2>0. PICK r \in Run : r = kick[t].run
    BY <1>5 DEF KickStamps, FiredInv, StampsFresh
  <2>1. PICK b \in Batch : b = kick[t].batch
    BY <1>5 DEF KickStamps, FiredInv, KickHasBatch, Holding
  <2>2. run[r].batch = Nothing
    BY <1>5, <2>0 DEF KickStamps, FiredInv, StampsFresh
  <2>3. run'[r].batch = b /\ \A q \in Run \ {r} : run'[q] = run[q]
    BY <1>5, <2>0, <2>1 DEF KickStamps, SetRun, TypeOK, RunRecord
  <2>4. kick[t].at = "stamp" /\ kick'[t].at = "idle" /\ batch' = batch
    BY <1>0, <1>5 DEF KickStamps, IdleKick
  <2>5. t \in Holders(b) /\ Holders(b)' = Holders(b) \ {t}
    BY <1>0, <2>1, <2>4 DEF Holders, Holding
  <2>6. r \notin Stamped(b) /\ Stamped(b)' = Stamped(b) \cup {r}
    BY <2>2, <2>3, NothingIsNone DEF Stamped
  <2>7. \A c \in Batch \ {b} : Holders(c)' = Holders(c) /\ Stamped(c)' = Stamped(c)
    BY <1>0, <2>1, <2>2, <2>3, <2>4, NothingIsNone DEF Holders, Holding, Stamped
  <2>8. /\ Cardinality(Holders(b)') = Cardinality(Holders(b)) - 1
        /\ Cardinality(Stamped(b)') = Cardinality(Stamped(b)) + 1
    <3>1. IsFiniteSet(Holders(b)) /\ IsFiniteSet(Stamped(b))
      BY CountsAre DEF CountsProper
    <3>2. Cardinality(Holders(b)') = Cardinality(Holders(b)) - 1
      BY <2>5, <3>1, FS_RemoveElement
    <3>3. Cardinality(Stamped(b)') = Cardinality(Stamped(b)) + 1
      BY <2>6, <3>1, FS_AddElement
    <3> QED
      BY <3>2, <3>3
  <2>9. Cardinality(Holders(b)) > 0
    BY <2>5, CountsAre, FS_EmptySet DEF CountsProper
  <2>10. Slots' = [Slots EXCEPT ![b] = [requested |-> batch[b].requested,
                                        free |-> batch[b].remaining,
                                        launching |-> Cardinality(Holders(b)) - 1,
                                        fired |-> Cardinality(Stamped(b)) + 1,
                                        counted |-> batch[b].completed]]
    BY <2>4, <2>7, <2>8, OneSlotChanges
  <2>11. Slots' = [Slots EXCEPT ![b].launching = @ - 1, ![b].fired = @ + 1]
    BY <2>10 DEF Slots
  <2>12. Ledger!Fire(b)
    BY <2>9, <2>11, SlotFields DEF Ledger!Fire, Slots
  <2> QED
    BY <2>12 DEF Ledger!Next
<1>6. CASE KickStamps(t) /\ ~answers
  <2>1. batch' = batch /\ run' = run /\ kick'[t].at = "idle"
    BY <1>0, <1>6 DEF KickStamps, SetRun, IdleKick
  <2> QED
    BY <1>1, <2>1 DEF Holding
<1>7. CASE KickFinds(t)
  <2>1. kick'[t].at \in {"idle", "reserve"}
    <3>1. CASE SetKick(t, IdleKick)
      BY <1>0, <3>1 DEF IdleKick
    <3>2. ASSUME NEW b \in Batch, SetKick(t, [kick[t] EXCEPT !.at = "reserve", !.batch = b])
          PROVE  kick'[t].at = "reserve"
      <4>1. kick'[t] = [kick[t] EXCEPT !.at = "reserve", !.batch = b]
        BY <1>0, <3>2
      <4> QED
        BY <1>0, <4>1 DEF KickRecord
    <3> QED
      BY <1>7, <3>1, <3>2 DEF KickFinds
  <2>2. batch' = batch /\ run' = run
    BY <1>7 DEF KickFinds
  <2> QED
    BY <1>1, <2>1, <2>2 DEF Holding
<1>8. CASE KickSkips(t) \/ KickFails(t)
  <2>1. kick'[t].at = "idle"
    BY <1>0, <1>8 DEF KickSkips, KickFails, IdleKick
  <2>2. batch' = batch /\ run' = run
    BY <1>8 DEF KickSkips, KickFails
  <2> QED
    BY <1>1, <2>1, <2>2 DEF Holding
<1>9. CASE KickLaunches(t)
  <2>1. kick'[t] = [kick[t] EXCEPT !.at = "record"] /\ kick[t].at = "launch"
        /\ batch' = batch /\ run' = run
    BY <1>0, <1>9 DEF KickLaunches
  <2>2. kick'[t].batch = kick[t].batch
    BY <1>0, <2>1 DEF KickRecord
  <2> QED
    BY <1>1, <2>1, <2>2 DEF Holding
<1>10. CASE KickRecords(t)
  <2>1. PICK r \in Run \ Recorded :
          /\ run' = [run EXCEPT ![r] = [NotRecorded EXCEPT !.status = "pending"]]
          /\ SetKick(t, [kick[t] EXCEPT !.at = "stamp", !.run = r])
    BY <1>10 DEF KickRecords
  <2>2. run[r].batch = Nothing
    BY <2>1 DEF Recorded, FiredInv, NoneHasNoBatch
  <2>3. \A q \in Run : run'[q].batch = run[q].batch
    BY <2>1, <2>2 DEF TypeOK, NotRecorded
  <2>4. kick'[t] = [kick[t] EXCEPT !.at = "stamp", !.run = r]
    BY <1>0, <2>1
  <2>5. kick'[t].batch = kick[t].batch
    BY <1>0, <2>4 DEF KickRecord
  <2>6. kick[t].at = "record" /\ batch' = batch
    BY <1>10 DEF KickRecords
  <2> QED
    BY <1>1, <2>3, <2>5, <2>6 DEF Holding
<1> QED
  BY <1>3, <1>4, <1>5, <1>6, <1>7, <1>8, <1>9, <1>10 DEF KickStep

\* Requests and checks: a batch is opened, batches are cancelled.
LEMMA LedgerCall ==
    ASSUME TypeOK, FiredInv, BatchNotOverfired, NEW c \in Caller, CallStep(c)
    PROVE  Ledger!Next
<1>0. kick' = kick
  BY DEF CallStep, ChecksBatch, ListsFailures, ResetsRun, CreatesBatch, EnablesRunner,
     CancelsBatches, MarksCancelled, FindsBatch, ReadsConfig, PausesRunner, MovesNextRun,
     SetCall
<1>1. \A q \in Run : run'[q].batch = run[q].batch
  <2>1. CASE run' = run
    BY <2>1
  <2>2. CASE ResetsRun(c)
    <3>1. PICK r : SetRun(r, [run[r] EXCEPT !.status = "reset"])
      BY <2>2 DEF ResetsRun
    <3> QED
      BY <3>1, StatusLasts DEF FiredInv
  <2> QED
    BY <2>1, <2>2 DEF CallStep, ChecksBatch, ListsFailures, CreatesBatch, EnablesRunner,
       CancelsBatches, MarksCancelled, FindsBatch, ReadsConfig, PausesRunner, MovesNextRun
<1>2. \A b \in Batch : Holders(b)' = Holders(b) /\ Stamped(b)' = Stamped(b)
  BY <1>0, <1>1 DEF Holders, Stamped
<1>3. CASE batch' = batch
  BY <1>2, <1>3, LosesLaunches
<1>4. CASE CreatesBatch(c) /\ batch' # batch
  <2> DEFINE opened == [NotQueued EXCEPT !.requested = call[c].count,
                                         !.remaining = call[c].count]
  <2>1. PICK b \in Batch : batch[b] = NotQueued /\ SetBatch(b, opened)
    BY <1>4 DEF CreatesBatch
  <2>2. PICK n \in BatchSizes : n = call[c].count
    BY <1>4 DEF CreatesBatch, At, FiredInv, SizeIsValid
  <2>3. batch' = [batch EXCEPT ![b] = opened]
    BY <1>4, <2>1 DEF SetBatch
  <2>4. opened.requested = n /\ opened.remaining = n /\ opened.completed = 0
    BY <2>2 DEF NotQueued
  <2>5. /\ \A a \in Batch \ {b} : batch'[a] = batch[a]
        /\ batch'[b].requested = n /\ batch'[b].remaining = n /\ batch'[b].completed = 0
    <3> HIDE DEF opened
    <3> QED
      BY <2>3, <2>4 DEF TypeOK
  <2>6. Cardinality(Holders(b)) = 0 /\ Cardinality(Stamped(b)) = 0
    <3>1. Cardinality(Stamped(b)) + Cardinality(Holders(b)) <= 0
      BY <2>1 DEF BatchNotOverfired, NotQueued
    <3> QED
      BY <3>1, CountsAre DEF CountsProper
  <2>7. Slots' = [Slots EXCEPT ![b] = [requested |-> n, free |-> n, launching |-> 0,
                                       fired |-> 0, counted |-> 0]]
    BY <1>2, <2>5, <2>6, OneSlotChanges
  <2>8. Slots[b] = [requested |-> 0, free |-> 0, launching |-> 0, fired |-> 0, counted |-> 0]
    BY <2>1, <2>6 DEF Slots, NotQueued
  <2>9. Slots' = [Slots EXCEPT ![b].requested = n, ![b].free = n]
    BY <2>7, <2>8 DEF Slots
  <2>10. Ledger!Open(b, n)
    BY <2>8, <2>9 DEF Ledger!Open, Ledger!Unopened, Slots
  <2> QED
    BY <2>10 DEF Ledger!Next
<1>5. CASE CancelsBatches /\ batch' # batch
  <2>0. answers
    <3>1. CASE ~answers
      <4>1. batch' = [b \in Batch |-> batch[b]]
        BY <1>5, <3>1 DEF CancelsBatches
      <4> QED
        BY <1>5, <4>1 DEF TypeOK
    <3> QED
      BY <3>1
  <2>1. \A b \in Batch : /\ batch'[b].requested = batch[b].requested
                         /\ batch'[b].remaining = 0
                         /\ batch'[b].completed = batch[b].completed
    <3> TAKE b \in Batch
    <3>1. batch[b] \in BatchRecord
      BY DEF TypeOK
    <3>2. CASE Active(b)
      BY <1>5, <2>0, <3>1, <3>2 DEF CancelsBatches, BatchRecord
    <3>3. CASE ~Active(b)
      <4>1. batch'[b] = batch[b]
        BY <1>5, <3>3 DEF CancelsBatches
      <4> QED
        BY <3>1, <3>3, <4>1 DEF Active, BatchRecord
    <3> QED
      BY <3>2, <3>3
  <2>2. \A b \in Batch : Slots'[b] = [Slots[b] EXCEPT !.free = 0]
    <3> TAKE b \in Batch
    <3>1. Slots'[b] = [requested |-> batch'[b].requested, free |-> batch'[b].remaining,
                       launching |-> Cardinality(Holders(b)'),
                       fired |-> Cardinality(Stamped(b)'), counted |-> batch'[b].completed]
      BY DEF Slots
    <3>2. [Slots[b] EXCEPT !.free = 0]
            = [requested |-> batch[b].requested, free |-> 0,
               launching |-> Cardinality(Holders(b)), fired |-> Cardinality(Stamped(b)),
               counted |-> batch[b].completed]
      BY DEF Slots
    <3>3. [requested |-> batch'[b].requested, free |-> batch'[b].remaining,
           launching |-> Cardinality(Holders(b)'), fired |-> Cardinality(Stamped(b)'),
           counted |-> batch'[b].completed]
            = [requested |-> batch[b].requested, free |-> 0,
               launching |-> Cardinality(Holders(b)), fired |-> Cardinality(Stamped(b)),
               counted |-> batch[b].completed]
      BY <1>2, <2>1
    <3> QED
      BY <3>1, <3>2, <3>3
  <2>3. Slots' = [b \in Batch |-> Slots'[b]]
    BY DEF Slots
  <2>4. Slots' = [b \in Batch |-> [Slots[b] EXCEPT !.free = 0]]
    BY <2>2, <2>3
  <2>5. Ledger!Cancel
    BY <2>4 DEF Ledger!Cancel, Slots
  <2> QED
    BY <2>5 DEF Ledger!Next
<1>6. CASE c = "request" /\ MarksCancelled
  <2>1. PICK b : SetBatch(b, [batch[b] EXCEPT !.cancelled = TRUE])
    BY <1>6 DEF MarksCancelled
  <2>2. \A a \in Batch : /\ batch'[a].requested = batch[a].requested
                         /\ batch'[a].remaining = batch[a].remaining
                         /\ batch'[a].completed = batch[a].completed
    BY <2>1, OneBatchWritten DEF TypeOK, BatchRecord
  <2> QED
    BY <1>2, <2>2, LosesLaunches
<1> QED
  BY <1>3, <1>4, <1>5, <1>6 DEF CallStep, ChecksBatch, ListsFailures, ResetsRun,
     EnablesRunner, FindsBatch, ReadsConfig, PausesRunner, MovesNextRun

\* All other steps: a restart loses launches, nothing else touches a slot.
LEMMA LedgerOthers ==
    ASSUME TypeOK,
           \/ LoopStep \/ Restart \/ Request \/ Midnight \/ GraphChanges
           \/ \E r \in Run : Age(r)
    PROVE  Ledger!Next
<1>1. batch' = batch
  BY DEF LoopStep, LoopTurns, SensorStart, KickStart, SetKick, Restart, Request,
     PostRunBatch, PostBatch, PostCancel, PostConfig, PostSchedule, Midnight, GraphChanges, Age
<1>2. \A q \in Run : run'[q].batch = run[q].batch
  <2>1. CASE run' = run
    BY <2>1
  <2>2. ASSUME NEW r \in Run, Age(r) PROVE \A q \in Run : run'[q].batch = run[q].batch
    BY <2>2 DEF Age, TypeOK, RunRecord
  <2> QED
    BY <2>1, <2>2 DEF LoopStep, LoopTurns, SensorStart, KickStart, SetKick, Restart, Request,
       PostRunBatch, PostBatch, PostCancel, PostConfig, PostSchedule, Midnight, GraphChanges
<1>3. \A t \in KickThread :
        kick'[t].at \in Holding
          => kick[t].at \in Holding /\ kick'[t].batch = kick[t].batch
  <2>1. CASE kick' = kick
    BY <2>1
  <2>2. CASE Restart
    BY <2>2 DEF Restart, IdleKick, Holding
  <2>3. ASSUME NEW t \in KickThread, KickStart(t)
        PROVE  /\ kick'[t].at \in {"idle", "find"}
               /\ \A u \in KickThread \ {t} : kick'[u] = kick[u]
    BY <2>3 DEF KickStart, SetKick, IdleKick, TypeOK
  <2> QED
    BY <2>1, <2>2, <2>3 DEF LoopStep, LoopTurns, SensorStart, Request, PostRunBatch,
       PostBatch, PostCancel, PostConfig, PostSchedule, SetCall, Midnight, GraphChanges, Age,
       Holding
<1> QED
  BY <1>1, <1>2, <1>3, LosesFields

\* No slot is open at first.
LEMMA LedgerInit == Init => Ledger!Init
<1> SUFFICES ASSUME Init PROVE Ledger!Init
  OBVIOUS
<1>1. \A b \in Batch : Cardinality(Holders(b)) = 0 /\ Cardinality(Stamped(b)) = 0
  <2> TAKE b \in Batch
  <2>1. Holders(b) = {}
    BY DEF Init, Volatile, IdleKick, Holders, Holding
  <2>2. Stamped(b) = {}
    BY NothingIsNone DEF Init, NotRecorded, Stamped
  <2> QED
    BY <2>1, <2>2, FS_EmptySet
<1>2. \A b \in Batch :
        Slots[b] = [requested |-> 0, free |-> 0, launching |-> 0, fired |-> 0, counted |-> 0]
  BY <1>1 DEF Slots, Init, NotQueued
<1>3. Slots = [b \in Batch |-> Slots[b]]
  BY DEF Slots
<1>4. Slots = [b \in Batch |->
                [requested |-> 0, free |-> 0, launching |-> 0, fired |-> 0, counted |-> 0]]
  BY <1>2, <1>3
<1> QED
  BY <1>4 DEF Ledger!Init, Ledger!Unopened, Slots

\* Batches implement the ledger, for every number of batches, runs and threads, with
\* threads that outlive their cycle, restarts, every kind of request, and a graph whose
\* every query may go without an answer or without effect: a slot is given out once and
\* never comes back, a run that was told its batch stays with it, and a batch is only
\* counted for when it fired a run (create_dogfood_batch, reserve_batch_slot,
\* cancel_batch, record_batch_completion).
THEOREM LedgerIsKept == Spec => KeepsLedger
<1>1. Init => FiredInv /\ Ledger!Init
  BY FiredInit, LedgerInit
<1>2. TypeOK /\ FiredInv /\ [Next]_vars => FiredInv'
  BY FiredKept
<1>3. TypeOK /\ FiredInv /\ BatchNotOverfired /\ [Next]_vars
        => Ledger!Next \/ Slots' = Slots
  <2> SUFFICES ASSUME TypeOK, FiredInv, BatchNotOverfired, [Next]_vars
               PROVE  Ledger!Next \/ Slots' = Slots
    OBVIOUS
  <2>1. CASE UNCHANGED vars
    BY <2>1 DEF vars, Slots, Holders, Stamped
  <2> QED
    BY <2>1, LedgerOthers, LedgerSensor, LedgerKick, LedgerCall DEF Next
<1>4. (Ledger!Next \/ Slots' = Slots) => [Ledger!Next]_Slots
  OBVIOUS
<1>5. Slots = [b \in Batch |->
               [requested |-> batch[b].requested, free |-> batch[b].remaining,
                launching |-> Cardinality(Holders(b)), fired |-> Cardinality(Stamped(b)),
                counted |-> batch[b].completed]]
  BY DEF Slots
<1> QED
  BY <1>1, <1>2, <1>3, <1>4, TypeCorrect, NeverOverfired, PTL
     DEF Spec, KeepsLedger, Ledger!Spec, Slots

\* The ledger with what is proved of it.
Promise == INSTANCE BatchLedgerProofs WITH Size <- BatchSizes, slots <- Slots

\* Free slots, launches and fired runs together never exceed what was requested, and
\* what is counted was fired.
SlotsAddUp ==
    \A b \in Batch :
        /\ batch[b].remaining + Cardinality(Holders(b)) + Cardinality(Stamped(b))
             <= batch[b].requested
        /\ batch[b].completed > 0 => Stamped(b) # {}

\* What the ledger promises holds of the batches that implement it: dashboards that show a
\* completed run show one that was fired (record_batch_completion).
THEOREM CountedWereFired == Spec => []SlotsAddUp
<1>0. BatchSizes \subseteq Nat
  BY SizesAssumption
<1>1. Promise!Spec => []Promise!WithinRequested
  BY <1>0, Promise!LedgerPromise
<1>2. Ledger!Init => Promise!Init
  BY DEF Ledger!Init, Promise!Init, Ledger!Unopened, Promise!Unopened, Slots
<1>3. Ledger!Next => Promise!Next
  <2>1. \A b \in Batch, n \in BatchSizes : Ledger!Open(b, n) => Promise!Open(b, n)
    BY DEF Ledger!Open, Promise!Open, Ledger!Unopened, Promise!Unopened, Slots
  <2>2. \A b \in Batch : Ledger!Take(b) => Promise!Take(b)
    BY DEF Ledger!Take, Promise!Take, Slots
  <2>3. \A b \in Batch : Ledger!Waste(b) => Promise!Waste(b)
    BY DEF Ledger!Waste, Promise!Waste, Slots
  <2>4. \A b \in Batch : Ledger!Fire(b) => Promise!Fire(b)
    BY DEF Ledger!Fire, Promise!Fire, Slots
  <2>5. \A b \in Batch : Ledger!Count(b) => Promise!Count(b)
    BY DEF Ledger!Count, Promise!Count, Slots
  <2>6. Ledger!Lose => Promise!Lose
    BY DEF Ledger!Lose, Promise!Lose, Slots
  <2>7. Ledger!Cancel => Promise!Cancel
    BY DEF Ledger!Cancel, Promise!Cancel, Slots
  <2> QED
    BY <2>1, <2>2, <2>3, <2>4, <2>5, <2>6, <2>7 DEF Ledger!Next, Promise!Next
<1>4. Promise!WithinRequested => SlotsAddUp
  <2> SUFFICES ASSUME Promise!WithinRequested, NEW b \in Batch
               PROVE  /\ batch[b].remaining + Cardinality(Holders(b)) + Cardinality(Stamped(b))
                           <= batch[b].requested
                      /\ batch[b].completed > 0 => Stamped(b) # {}
    BY DEF SlotsAddUp
  <2>1. /\ batch[b].remaining + Cardinality(Holders(b)) + Cardinality(Stamped(b))
             <= batch[b].requested
        /\ batch[b].completed > 0 => Cardinality(Stamped(b)) > 0
    BY SlotFields DEF Promise!WithinRequested
  <2> QED
    BY <2>1, FS_EmptySet
<1>5. Slots = [b \in Batch |->
               [requested |-> batch[b].requested, free |-> batch[b].remaining,
                launching |-> Cardinality(Holders(b)), fired |-> Cardinality(Stamped(b)),
                counted |-> batch[b].completed]]
  BY DEF Slots
<1> QED
  BY <1>1, <1>2, <1>3, <1>4, LedgerIsKept, PTL
     DEF KeepsLedger, Ledger!Spec, Promise!Spec, Slots
=============================================================================
