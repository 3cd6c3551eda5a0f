---------------------------- MODULE DbMigration ----------------------------
(***************************************************************************)
(* The migration operator: apply_migration_idempotent on one of the two    *)
(* databases (nexus/operator/db_apply_migration.py) and the one-shot task  *)
(* that applies to V2 and verifies (db_apply_migration_with_verify.py).    *)
(* A task reads the ledger, runs the file and records it in one READ       *)
(* COMMITTED transaction; tasks run side by side, from images whose copies *)
(* of a file may differ, and a commit may be lost on the way back.         *)
(***************************************************************************)
EXTENDS Naturals

CONSTANTS
    Task,      \* operator tasks
    File,      \* migration file names
    Aligning,  \* the file that aligns approval_tokens with the code (013)
    Text       \* what a file may hold; its checksum stands for it

Target == {"v1", "v2"}
None == "no row"

ASSUME FileAssumption == Aligning \in File
ASSUME TextAssumption == None \notin Text

VARIABLES
    ledger,    \* schema_migrations of each database: the checksum of a file
    applied,   \* how often each text of a file took effect in each database
    task       \* where each task is

vars == <<ledger, applied, task>>

Idle == [at |-> "idle"]

Init ==
    /\ ledger = [d \in Target |-> [f \in File |-> None]]
    /\ applied = [d \in Target |-> [f \in File |-> [x \in Text |-> 0]]]
    /\ task = [k \in Task |-> Idle]

Row(k) == ledger[task[k].target][task[k].file]

Goes(k, step) == task' = [task EXCEPT ![k].at = step]

\* What a task ends with: "applied", "already applied", "failed" or "verified".
Reports(k, status) ==
    task' = [task EXCEPT ![k].at = IF @ = "verify" \/ ~task[k].verifies \/ status = "failed"
                                      THEN "done" ELSE "verify",
                         ![k].status = status]

-----------------------------------------------------------------------------
\* A task is started on a file of its image; the verifying task is for V2.
Start(k, d, f, x, verifies) ==
    /\ task[k].at = "idle"
    /\ verifies => d = "v2"
    /\ task' = [task EXCEPT ![k] = [at |-> "read", target |-> d, file |-> f, text |-> x,
                                    verifies |-> verifies, status |-> "running"]]
    /\ UNCHANGED <<ledger, applied>>

\* The ledger has no row: the file is to be applied.
FindUnapplied(k) ==
    /\ task[k].at = "read"
    /\ Row(k) = None
    /\ Goes(k, "insert")
    /\ UNCHANGED <<ledger, applied>>

\* Mutant: a row is enough, whatever its checksum.
FindAppliedByName(k) ==
    /\ task[k].at = "read"
    /\ Row(k) # None
    /\ Reports(k, "already applied")
    /\ UNCHANGED <<ledger, applied>>

\* The recorded checksum is the file's.
FindApplied(k) ==
    /\ task[k].at = "read"
    /\ Row(k) = task[k].text
    /\ Reports(k, "already applied")
    /\ UNCHANGED <<ledger, applied>>

\* Another task holds the same key, inserted and not yet committed.
KeyLocked(k) ==
    \E j \in Task \ {k} :
        /\ task[j].at = "commit"
        /\ task[j].target = task[k].target /\ task[j].file = task[k].file

\* Mutant: the row is upserted.
InsertRowAgain(k) ==
    /\ task[k].at = "insert"
    /\ ~KeyLocked(k)
    /\ Goes(k, "commit")
    /\ UNCHANGED <<ledger, applied>>

\* The file ran in the transaction, and so does the INSERT of its row; the
\* database makes it wait for a task that holds the key.
InsertRow(k) ==
    /\ task[k].at = "insert"
    /\ ~KeyLocked(k)
    /\ Row(k) = None
    /\ Goes(k, "commit")
    /\ UNCHANGED <<ledger, applied>>

\* The transaction is committed, with or without its task hearing of it.
Commit(k) ==
    LET d == task[k].target  f == task[k].file  x == task[k].text
    IN  /\ task[k].at = "commit"
        /\ ledger' = [ledger EXCEPT ![d][f] = x]
        /\ applied' = [applied EXCEPT ![d][f][x] = @ + 1]
        /\ Reports(k, "applied") \/ Reports(k, "failed")

\* Mutant: a task whose key was taken goes on waiting.
RollBackUnlessTaken(k) ==
    /\ task[k].at \in {"read", "insert", "commit"}
    /\ task[k].at = "insert" => Row(k) = None
    /\ Reports(k, "failed")
    /\ UNCHANGED <<ledger, applied>>

\* The statement or the commit fails and the transaction is rolled back: the
\* checksum differs, the file does not run, the key is taken, the network.
RollBack(k) ==
    /\ task[k].at \in {"read", "insert", "commit"}
    /\ task[k].at = "insert" => ~KeyLocked(k)
    /\ Reports(k, "failed")
    /\ UNCHANGED <<ledger, applied>>

\* The verifications of the wrapper: the row, the columns and foreign key of
\* approval_tokens and a token issued and verified.
Verify(k) ==
    /\ task[k].at = "verify"
    /\ Row(k) # None
    /\ ledger["v2"][Aligning] # None
    /\ Reports(k, "verified")
    /\ UNCHANGED <<ledger, applied>>

VerifyFails(k) ==
    /\ task[k].at = "verify"
    /\ Reports(k, "failed")
    /\ UNCHANGED <<ledger, applied>>

\* The operator takes the task's result; it may be started again.
Collect(k) ==
    /\ task[k].at = "done"
    /\ task' = [task EXCEPT ![k] = Idle]
    /\ UNCHANGED <<ledger, applied>>

\* The container ends in the middle of its task.
Stop(k) ==
    /\ task[k].at \notin {"idle", "done"}
    /\ task' = [task EXCEPT ![k] = Idle]
    /\ UNCHANGED <<ledger, applied>>

Works(k) ==
    \/ FindUnapplied(k) \/ FindApplied(k) \/ InsertRow(k) \/ Commit(k) \/ RollBack(k)
    \/ Verify(k) \/ VerifyFails(k) \/ Collect(k)

Next ==
    \E k \in Task :
        \/ \E d \in Target, f \in File, x \in Text, v \in BOOLEAN : Start(k, d, f, x, v)
        \/ Works(k)
        \/ Stop(k)

Spec == Init /\ [][Next]_vars

\* A started task is carried on until it ends, in a container of its own; the
\* database wakes those that wait for a key when the transaction holding it ends
\* and does not pass a waiter over for ever.
FairSpec == Spec /\ \A k \in Task : SF_vars(Works(k))

-----------------------------------------------------------------------------
Status == {"running", "applied", "already applied", "failed", "verified"}

TypeOK ==
    /\ ledger \in [Target -> [File -> Text \union {None}]]
    /\ applied \in [Target -> [File -> [Text -> Nat]]]
    /\ task \in [Task -> {Idle} \union
            [at: {"read", "insert", "commit", "verify", "done"}, target: Target, file: File,
             text: Text, verifies: BOOLEAN, status: Status]]

\* A file takes effect at most once in a database, with one text only, and the
\* ledger records exactly the files that did ("partial application can never
\* leave the ledger out of sync"), however tasks race and fail.
LedgerInSync ==
    \A d \in Target, f \in File, x \in Text :
        applied[d][f][x] = IF ledger[d][f] = x THEN 1 ELSE 0

\* What a task reports it can show: its file is recorded with its own text, and
\* a verified one found the tokens table aligned.
ReportsHold ==
    \A k \in Task : task[k].at \in {"verify", "done"} =>
        /\ task[k].status \in {"applied", "already applied", "verified"} =>
               Row(k) = task[k].text
        /\ task[k].status = "verified" => ledger["v2"][Aligning] # None

\* A recorded file is never applied again nor forgotten.
LedgerOnlyGrows ==
    [][\A d \in Target, f \in File : ledger[d][f] # None => ledger'[d][f] = ledger[d][f]]_vars

\* Tasks do not wait for each other for ever.
TasksEnd == \A k \in Task : task[k].at # "idle" ~> task[k].at = "idle"
=============================================================================
