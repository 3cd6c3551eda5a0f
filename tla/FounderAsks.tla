---------------------------- MODULE FounderAsks ----------------------------
(***************************************************************************)
(* Questions that pause a state machine until the founder answers          *)
(* (askcustomer/service and the two Lambdas that enqueue).  An answer is   *)
(* one transaction on the locked row; resuming the execution follows it    *)
(* and its failure is logged.                                              *)
(***************************************************************************)
CONSTANTS Ask,       \* the proposals
          Answer,    \* what can be answered
          Founder    \* the browsers that answer

VARIABLES
    ask,         \* ask_customer_state: per proposal its status and answer
    execution,   \* what Step Functions holds: the execution's state and output
    answering    \* per founder, the answer that is committed and not signalled yet

askVars == <<ask, execution, answering>>

NoAnswer == "no answer"

AsksInit ==
    /\ ask = [a \in Ask |-> [status |-> "none", answer |-> NoAnswer]]
    /\ execution = [a \in Ask |-> [state |-> "running", output |-> NoAnswer]]
    /\ answering = [f \in Founder |-> [ask |-> "none", answer |-> NoAnswer]]

\* WaitForCustomerAnswer invokes the Lambda: the row is stored; or the exception fails
\* the task (askcustomer_enqueue); or it is answered with a 500 that nobody reads
\* (lambda_handler) while the execution waits for its token.
EnqueueAsk(a) ==
    /\ execution[a].state = "running"
    /\ \E stored, raises \in BOOLEAN :
        /\ ask' = IF stored THEN [ask EXCEPT ![a].status = "pending"] ELSE ask
        /\ execution' = [execution EXCEPT ![a].state =
               IF stored \/ ~raises THEN "waiting" ELSE "failed"]
    /\ UNCHANGED answering

\* Mutant: a row that exists may be answered.
Exists(a) == ask[a].status # "none"

\* The row under FOR UPDATE must be pending.
MayAnswer(a) == ask[a].status = "pending"

\* resolve_ask's transaction
ResolveAsk(f) ==
    /\ answering[f].ask = "none"
    /\ \E a \in Ask, answer \in Answer :
        /\ MayAnswer(a)
        /\ ask' = [ask EXCEPT ![a] = [status |-> "answered", answer |-> answer]]
        /\ answering' = [answering EXCEPT ![f] = [ask |-> a, answer |-> answer]]
    /\ UNCHANGED execution

\* send_task_success: the first output the token gets resumes the execution; a call
\* that fails is logged.
Signal(f) ==
    LET a == answering[f].ask
    IN  /\ a # "none"
        /\ \E sent \in BOOLEAN :
            execution' = IF sent /\ execution[a].state = "waiting"
                         THEN [execution EXCEPT ![a] = [state |-> "resumed",
                                                        output |-> answering[f].answer]]
                         ELSE execution
        /\ answering' = [answering EXCEPT ![f] = [ask |-> "none", answer |-> NoAnswer]]
        /\ UNCHANGED ask

AsksNext ==
    \/ \E a \in Ask : EnqueueAsk(a)
    \/ \E f \in Founder : ResolveAsk(f) \/ Signal(f)

AsksSpec == AsksInit /\ [][AsksNext]_askVars

\* Whichever of several answers resumed the execution is the one on record, and
\* nothing resumes an execution whose question has no answer (resolve_ask).
ResumedWithTheRecord ==
    \A a \in Ask : execution[a].state = "resumed" =>
        ask[a].status = "answered" /\ ask[a].answer = execution[a].output
=============================================================================
