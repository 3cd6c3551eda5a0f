------------------------------- MODULE MCTasks -------------------------------
(* Instances of two parts in which what is asked for takes its turn and has to *)
(* end: the migrations operators run, and the diagnoses.  They share no state, *)
(* so a behaviour is about one of them (`part`) and the other stays as it      *)
(* starts, with nothing under way.                                             *)
EXTENDS DbMigration, Diagnosis

VARIABLE part

taskVars == <<part, vars, diagnosisVars>>

TasksInit == part \in {"migrations", "diagnoses"} /\ Init /\ DiagnosisInit

TasksNext ==
    /\ UNCHANGED part
    /\ \/ part = "migrations" /\ Next /\ UNCHANGED diagnosisVars
       \/ part = "diagnoses"  /\ DiagnosisNext /\ UNCHANGED vars

TasksSpec ==
    /\ TasksInit
    /\ [][TasksNext]_taskVars
    /\ \A k \in Task : SF_vars(Works(k))
    /\ DiagnosisFairness

-----------------------------------------------------------------------------
\* Nothing that waits for something else waits for ever: a migration for the lock
\* of another, a diagnosis for those queued before it.
WorkGoesOn == TasksEnd /\ QueueDrains
=============================================================================
