-------------------------- MODULE DbMigrationProofs --------------------------
(***************************************************************************)
(* DbMigration, for every set of tasks, files and texts: the ledger never  *)
(* disagrees with what took effect, and no task reports what is not so.    *)
(***************************************************************************)
EXTENDS DbMigration, TLAPS

Started == [at: {"read", "insert", "commit", "verify", "done"}, target: Target, file: File,
            text: Text, verifies: BOOLEAN, status: Status]

\* A task about to commit holds its key alone, and the key is free.
HoldsKey(k) == task[k].at = "commit" => Row(k) = None /\ ~KeyLocked(k)

\* Only a task that found or made its row goes on to verify.
Verifying(k) == task[k].at = "verify" => task[k].status \in {"applied", "already applied"}

MigrationInv ==
    /\ TypeOK
    /\ LedgerInSync
    /\ ReportsHold
    /\ \A k \in Task : HoldsKey(k) /\ Verifying(k)

LEMMA MigrationInit == Init => MigrationInv
  <1> SUFFICES ASSUME Init PROVE MigrationInv
    OBVIOUS
  <1>1. TypeOK
    BY DEF Init, TypeOK
  <1>2. LedgerInSync
    BY TextAssumption DEF Init, LedgerInSync
  <1>3. \A k \in Task : task[k].at = "idle"
    BY DEF Init, Idle
  <1> QED
    BY <1>1, <1>2, <1>3 DEF MigrationInv, ReportsHold, HoldsKey, Verifying

\* A step of one task that leaves the databases alone and takes no key.
LEMMA QuietStep ==
  ASSUME MigrationInv, NEW k \in Task, NEW r \in {Idle} \union Started,
         task' = [task EXCEPT ![k] = r], UNCHANGED <<ledger, applied>>,
         r.at # "commit",
         r.at \in {"verify", "done"} =>
            /\ r.status \in {"applied", "already applied", "verified"} =>
                   ledger[r.target][r.file] = r.text
            /\ r.status = "verified" => ledger["v2"][Aligning] # None,
         r.at = "verify" => r.status \in {"applied", "already applied"}
  PROVE  MigrationInv'
  <1>1. task'[k] = r /\ \A j \in Task \ {k} : task'[j] = task[j]
    BY DEF MigrationInv, TypeOK
  <1>2. TypeOK'
    BY DEF MigrationInv, TypeOK, Started
  <1>3. LedgerInSync'
    BY DEF MigrationInv, LedgerInSync
  <1>4. ReportsHold'
    BY <1>1 DEF MigrationInv, ReportsHold, Row
  <1>5. ASSUME NEW j \in Task PROVE HoldsKey(j)' /\ Verifying(j)'
    <2>1. CASE j = k
      BY <1>1, <2>1 DEF HoldsKey, Verifying
    <2>2. CASE j # k
      <3>1. Verifying(j)'
        BY <1>1, <2>2 DEF MigrationInv, Verifying
      <3>2. ASSUME task[j].at = "commit" PROVE Row(j)' = None /\ ~KeyLocked(j)'
        <4>1. Row(j) = None /\ ~KeyLocked(j)
          BY <3>2 DEF MigrationInv, HoldsKey
        <4> QED
          BY <1>1, <2>2, <4>1 DEF Row, KeyLocked
      <3> QED
        BY <1>1, <2>2, <3>1, <3>2 DEF HoldsKey
    <2> QED
      BY <2>1, <2>2
  <1> QED
    BY <1>2, <1>3, <1>4, <1>5 DEF MigrationInv

\* The record a report leaves of a task.
Reported(k, status) ==
    [task[k] EXCEPT !.at = IF @ = "verify" \/ ~task[k].verifies \/ status = "failed"
                              THEN "done" ELSE "verify",
                    !.status = status]

LEMMA ReportedTask ==
  ASSUME MigrationInv, NEW k \in Task, task[k] \in Started, NEW status \in Status
  PROVE  LET r == Reported(k, status)
         IN  /\ r \in Started
             /\ Reports(k, status) => task' = [task EXCEPT ![k] = r]
             /\ r.at \in {"verify", "done"} /\ r.status = status
             /\ r.at = "verify" => task[k].at # "verify" /\ status # "failed"
             /\ r.target = task[k].target /\ r.file = task[k].file /\ r.text = task[k].text
  BY DEF Reported, Reports, Started, MigrationInv, TypeOK

LEMMA StartedTask ==
  ASSUME MigrationInv, NEW k \in Task, task[k].at # "idle"
  PROVE  task[k] \in Started /\ task[k].target \in Target /\ task[k].file \in File
         /\ task[k].text \in Text /\ task[k].at \in {"read", "insert", "commit", "verify", "done"}
  BY DEF MigrationInv, TypeOK, Started, Idle

LEMMA MigrationStep ==
  ASSUME MigrationInv, [Next]_vars
  PROVE  MigrationInv'
  <1>1. ASSUME NEW k \in Task, NEW d \in Target, NEW f \in File, NEW x \in Text, NEW v \in BOOLEAN,
               Start(k, d, f, x, v)
        PROVE  MigrationInv'
    <2> DEFINE r == [at |-> "read", target |-> d, file |-> f, text |-> x,
                     verifies |-> v, status |-> "running"]
    <2>1. r \in Started /\ r.at = "read"
      BY DEF Started, Status
    <2> QED
      BY <1>1, <2>1, QuietStep DEF Start
  <1>2. ASSUME NEW k \in Task, FindUnapplied(k) PROVE MigrationInv'
    <2> DEFINE r == [task[k] EXCEPT !.at = "insert"]
    <2>1. r \in Started /\ r.at = "insert" /\ task' = [task EXCEPT ![k] = r]
      BY <1>2, StartedTask DEF FindUnapplied, Goes, Started, MigrationInv, TypeOK
    <2> QED
      BY <1>2, <2>1, QuietStep DEF FindUnapplied
  <1>3. ASSUME NEW k \in Task, FindApplied(k) PROVE MigrationInv'
    <2> DEFINE r == Reported(k, "already applied")
    <2>1. /\ r \in Started /\ task' = [task EXCEPT ![k] = r]
          /\ r.at \in {"verify", "done"} /\ r.status = "already applied"
          /\ r.target = task[k].target /\ r.file = task[k].file /\ r.text = task[k].text
      BY <1>3, StartedTask, ReportedTask DEF FindApplied, Status
    <2>2. ledger[r.target][r.file] = r.text
      BY <1>3, <2>1 DEF FindApplied, Row
    <2> HIDE DEF r
    <2> QED
      BY <1>3, <2>1, <2>2, QuietStep DEF FindApplied
  <1>4. ASSUME NEW k \in Task, InsertRow(k) PROVE MigrationInv'
    <2>0. task[k] \in Started /\ task[k].target \in Target /\ task[k].file \in File
      BY <1>4, StartedTask DEF InsertRow
    <2>1. /\ task'[k] = [task[k] EXCEPT !.at = "commit"] /\ task'[k] \in Started
          /\ task'[k].at = "commit" /\ task'[k].target = task[k].target /\ task'[k].file = task[k].file
          /\ \A j \in Task \ {k} : task'[j] = task[j]
          /\ UNCHANGED <<ledger, applied>>
      BY <1>4, <2>0 DEF InsertRow, Goes, MigrationInv, TypeOK, Started
    <2>2. TypeOK'
      BY <1>4, <2>1 DEF InsertRow, Goes, MigrationInv, TypeOK, Started
    <2>3. LedgerInSync' /\ ReportsHold'
      <3>1. LedgerInSync'
        BY <2>1 DEF MigrationInv, LedgerInSync
      <3>2. \A j \in Task : task'[j].at \in {"verify", "done"} => task'[j] = task[j]
        BY <2>1
      <3> QED
        BY <2>1, <3>1, <3>2 DEF MigrationInv, ReportsHold, Row
    <2>4. ASSUME NEW j \in Task PROVE HoldsKey(j)' /\ Verifying(j)'
      <3>1. CASE j = k
        BY <1>4, <2>1, <3>1 DEF InsertRow, HoldsKey, Verifying, Row, KeyLocked
      <3>2. CASE j # k
        <4>1. Verifying(j)'
          BY <2>1, <3>2 DEF MigrationInv, Verifying
        <4>2. ASSUME task[j].at = "commit" PROVE HoldsKey(j)'
          <5>1. ~(task[j].target = task[k].target /\ task[j].file = task[k].file)
            BY <1>4, <3>2, <4>2 DEF InsertRow, KeyLocked
          <5> QED
            BY <2>1, <3>2, <4>2, <5>1, ZenonT(30) DEF MigrationInv, HoldsKey, Row, KeyLocked
        <4> QED
          BY <2>1, <3>2, <4>1, <4>2 DEF HoldsKey
      <3> QED
        BY <3>1, <3>2
    <2> QED
      BY <2>2, <2>3, <2>4 DEF MigrationInv
  <1>5. ASSUME NEW k \in Task, Commit(k) PROVE MigrationInv'
    <2> DEFINE d == task[k].target
               f == task[k].file
               x == task[k].text
    <2>0. /\ task[k] \in Started /\ d \in Target /\ f \in File /\ x \in Text /\ task[k].at = "commit"
          /\ ledger[d][f] = None
      BY <1>5, StartedTask DEF Commit, MigrationInv, HoldsKey, Row
    <2>1. PICK status \in {"applied", "failed"} : Reports(k, status)
      BY <1>5 DEF Commit
    <2>2. /\ task'[k] \in Started /\ task'[k].at \in {"verify", "done"}
          /\ task'[k].target = d /\ task'[k].file = f /\ task'[k].text = x
          /\ task'[k].status = status /\ (task'[k].at = "verify" => status # "failed")
          /\ \A j \in Task \ {k} : task'[j] = task[j]
      <3> DEFINE r == Reported(k, status)
      <3>1. /\ r \in Started /\ task' = [task EXCEPT ![k] = r]
            /\ r.at \in {"verify", "done"} /\ r.status = status
            /\ r.at = "verify" => status # "failed"
            /\ r.target = d /\ r.file = f /\ r.text = x
        <4>1. status \in Status
          BY DEF Status
        <4> QED
          BY <2>0, <2>1, <4>1, ReportedTask
      <3> HIDE DEF r
      <3> QED
        BY <3>1 DEF MigrationInv, TypeOK
    <2>3. /\ ledger' \in [Target -> [File -> Text \union {None}]]
          /\ ledger'[d][f] = x
          /\ \A e \in Target, g \in File : <<e, g>> # <<d, f>> => ledger'[e][g] = ledger[e][g]
      BY <1>5, <2>0 DEF Commit, MigrationInv, TypeOK
    <2>4. /\ applied' \in [Target -> [File -> [Text -> Nat]]]
          /\ applied'[d][f][x] = applied[d][f][x] + 1
          /\ \A e \in Target, g \in File, y \in Text :
                <<e, g, y>> # <<d, f, x>> => applied'[e][g][y] = applied[e][g][y]
      <3>1. applied \in [Target -> [File -> [Text -> Nat]]]
        BY DEF MigrationInv, TypeOK
      <3>2. applied' = [applied EXCEPT ![d][f][x] = applied[d][f][x] + 1]
        BY <1>5 DEF Commit
      <3>3. applied[d][f][x] + 1 \in Nat
        BY <2>0, <3>1
      <3> QED
        BY <2>0, <3>1, <3>2, <3>3, SMTT(30)
    <2>5. TypeOK'
      <3>1. task' \in [Task -> {Idle} \union Started]
        BY <2>1, <2>2 DEF MigrationInv, TypeOK, Reports, Started
      <3> QED
        BY <2>3, <2>4, <3>1 DEF TypeOK, Started
    <2>6. LedgerInSync'
      <3> SUFFICES ASSUME NEW e \in Target, NEW g \in File, NEW y \in Text
                   PROVE  applied'[e][g][y] = IF ledger'[e][g] = y THEN 1 ELSE 0
        BY DEF LedgerInSync
      <3>1. applied[e][g][y] = IF ledger[e][g] = y THEN 1 ELSE 0
        BY DEF MigrationInv, LedgerInSync
      <3>2. CASE <<e, g>> = <<d, f>> /\ y = x
        <4>1. applied[d][f][x] = 0
          BY <2>0, <3>1, <3>2, TextAssumption
        <4> QED
          BY <2>3, <2>4, <3>2, <4>1
      <3>3. CASE <<e, g>> = <<d, f>> /\ y # x
        <4>1. applied'[e][g][y] = applied[e][g][y]
          BY <2>4, <3>3
        <4> QED
          BY <2>0, <2>3, <3>1, <3>3, <4>1, TextAssumption
      <3>4. CASE <<e, g>> # <<d, f>>
        <4>1. applied'[e][g][y] = applied[e][g][y] /\ ledger'[e][g] = ledger[e][g]
          BY <2>3, <2>4, <3>4
        <4> QED
          BY <3>1, <4>1
      <3> QED
        BY <3>2, <3>3, <3>4
    <2>7. ASSUME NEW j \in Task, j # k, task[j].at = "commit"
          PROVE  <<task[j].target, task[j].file>> # <<d, f>>
      BY <2>0, <2>7 DEF MigrationInv, HoldsKey, KeyLocked
    <2>8. ReportsHold'
      <3> SUFFICES ASSUME NEW j \in Task, task'[j].at \in {"verify", "done"}
                   PROVE  /\ task'[j].status \in {"applied", "already applied", "verified"} =>
                                Row(j)' = task'[j].text
                          /\ task'[j].status = "verified" => ledger'["v2"][Aligning] # None
        BY DEF ReportsHold
      <3>1. CASE j = k
        BY <2>2, <2>3, <3>1 DEF Row
      <3>2. CASE j # k
        <4>1. task'[j] = task[j] /\ task[j] \in Started /\ task[j].target \in Target
              /\ task[j].file \in File /\ task[j].text \in Text
          BY <2>2, <3>2, StartedTask
        <4>2. task[j].status \in {"applied", "already applied", "verified"} =>
                 ledger[task[j].target][task[j].file] = task[j].text
          BY <4>1 DEF MigrationInv, ReportsHold, Row
        <4>3. task[j].status = "verified" => ledger["v2"][Aligning] # None
          BY <4>1 DEF MigrationInv, ReportsHold
        <4>4. "v2" \in Target
          BY DEF Target
        <4> QED
          BY <2>0, <2>3, <4>1, <4>2, <4>3, <4>4, FileAssumption, TextAssumption DEF Row
      <3> QED
        BY <3>1, <3>2
    <2>9. ASSUME NEW j \in Task PROVE HoldsKey(j)' /\ Verifying(j)'
      <3>1. CASE j = k
        BY <2>1, <2>2, <3>1 DEF HoldsKey, Verifying
      <3>2. CASE j # k
        <4>1. task'[j] = task[j] /\ Verifying(j)'
          BY <2>2, <3>2 DEF MigrationInv, Verifying
        <4>2. ASSUME task[j].at = "commit" PROVE Row(j)' = None /\ ~KeyLocked(j)'
          <5>1. task[j].target \in Target /\ task[j].file \in File
            BY <4>2, StartedTask
          <5>2. Row(j) = None /\ ~KeyLocked(j)
            BY <4>2 DEF MigrationInv, HoldsKey
          <5>3. Row(j)' = None
            BY <2>3, <2>7, <3>2, <4>1, <4>2, <5>1, <5>2 DEF Row
          <5>4. ~KeyLocked(j)'
            BY <2>2, <3>2, <4>1, <5>2 DEF KeyLocked
          <5> QED
            BY <5>3, <5>4
        <4> QED
          BY <4>1, <4>2 DEF HoldsKey
      <3> QED
        BY <3>1, <3>2
    <2> QED
      BY <2>5, <2>6, <2>8, <2>9 DEF MigrationInv
  <1>6. ASSUME NEW k \in Task, RollBack(k) \/ VerifyFails(k) PROVE MigrationInv'
    <2> DEFINE r == Reported(k, "failed")
    <2>1. /\ r \in Started /\ task' = [task EXCEPT ![k] = r] /\ r.at = "done" /\ r.status = "failed"
      BY <1>6, StartedTask, ReportedTask DEF RollBack, VerifyFails, Status
    <2> HIDE DEF r
    <2> QED
      BY <1>6, <2>1, QuietStep DEF RollBack, VerifyFails
  <1>7. ASSUME NEW k \in Task, Verify(k) PROVE MigrationInv'
    <2> DEFINE r == Reported(k, "verified")
    <2>1. /\ r \in Started /\ task' = [task EXCEPT ![k] = r] /\ r.at = "done" /\ r.status = "verified"
          /\ r.target = task[k].target /\ r.file = task[k].file /\ r.text = task[k].text
      BY <1>7, StartedTask, ReportedTask DEF Verify, Status
    <2>2. ledger[r.target][r.file] = r.text
      BY <1>7, <2>1 DEF Verify, MigrationInv, Verifying, ReportsHold, Row
    <2> HIDE DEF r
    <2> QED
      BY <1>7, <2>1, <2>2, QuietStep DEF Verify
  <1>8. ASSUME NEW k \in Task, Collect(k) \/ Stop(k) PROVE MigrationInv'
    <2>1. Idle.at = "idle"
      BY DEF Idle
    <2> QED
      BY <1>8, <2>1, QuietStep DEF Collect, Stop
  <1>9. CASE UNCHANGED vars
    <2>1. UNCHANGED <<ledger, applied, task>>
      BY <1>9 DEF vars
    <2>2. TypeOK' /\ LedgerInSync'
      BY <2>1 DEF MigrationInv, TypeOK, LedgerInSync
    <2>3. ReportsHold'
      BY <2>1 DEF MigrationInv, ReportsHold, Row
    <2>4. ASSUME NEW k \in Task PROVE HoldsKey(k)' /\ Verifying(k)'
      BY <2>1 DEF MigrationInv, HoldsKey, Verifying, Row, KeyLocked
    <2> QED
      BY <2>2, <2>3, <2>4 DEF MigrationInv
  <1> QED
    BY <1>1, <1>2, <1>3, <1>4, <1>5, <1>6, <1>7, <1>8, <1>9 DEF Next, Works

LEMMA MigrationInvariant == Spec => []MigrationInv
  BY MigrationInit, MigrationStep, PTL DEF Spec

\* The state stays well typed.
THEOREM MigrationTypes == Spec => []TypeOK
  BY MigrationInvariant, PTL DEF MigrationInv

\* The ledger of a database records exactly the files that took effect in it,
\* each once and with the text that did.
THEOREM LedgerAgrees == Spec => []LedgerInSync
  BY MigrationInvariant, PTL DEF MigrationInv

\* What a task reports holds for as long as its report stands.
THEOREM ReportsAreTrue == Spec => []ReportsHold
  BY MigrationInvariant, PTL DEF MigrationInv

\* No task rewrites or removes a recorded file.
THEOREM LedgerGrows == Spec => LedgerOnlyGrows
  <1>1. ASSUME MigrationInv, [Next]_vars, NEW d \in Target, NEW f \in File, ledger[d][f] # None
        PROVE  ledger'[d][f] = ledger[d][f]
    <2>1. ASSUME NEW k \in Task, Commit(k) PROVE ledger'[d][f] = ledger[d][f]
      <3>1. ledger[task[k].target][task[k].file] = None
        BY <1>1, <2>1 DEF Commit, MigrationInv, HoldsKey, Row
      <3> QED
        BY <1>1, <2>1, <3>1 DEF Commit, MigrationInv, TypeOK
    <2> QED
      BY <1>1, <2>1 DEF Next, Works, Start, FindUnapplied, FindApplied, InsertRow, RollBack,
         Verify, VerifyFails, Collect, Stop, vars
  <1>2. MigrationInv /\ [Next]_vars =>
          [\A d \in Target, f \in File : ledger[d][f] # None => ledger'[d][f] = ledger[d][f]]_vars
    BY <1>1
  <1> QED
    BY <1>2, MigrationInvariant, PTL DEF Spec, LedgerOnlyGrows
=============================================================================
