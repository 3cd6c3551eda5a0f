---------------------------- MODULE BatchLedger ----------------------------
(***************************************************************************)
(* What a dogfood batch promises, whatever becomes of its runs and of the  *)
(* answers of the graph: it is opened once, with a number of slots; a free *)
(* slot is taken once, by a launch, and a launch fires one run or none.  A *)
(* slot may be wasted or lost, and a cancelled batch gives its free slots  *)
(* up; none comes back.  What is counted was fired, if perhaps more than   *)
(* once.                                                                   *)
(***************************************************************************)
EXTENDS Naturals

CONSTANTS
    Batch,   \* the batches
    Size     \* how many slots a batch may be opened with

VARIABLE slots   \* of each batch, its slots by what became of them

Unopened == [requested |-> 0, free |-> 0, launching |-> 0, fired |-> 0, counted |-> 0]

Init == slots = [b \in Batch |-> Unopened]

\* A batch of n slots is queued.
Open(b, n) ==
    /\ slots[b] = Unopened
    /\ slots' = [slots EXCEPT ![b].requested = n, ![b].free = n]

\* A launch takes a slot of the batch.
Take(b) ==
    /\ slots[b].free > 0
    /\ slots' = [slots EXCEPT ![b].free = @ - 1, ![b].launching = @ + 1]

\* A slot is taken and whoever took it does not learn of it.
Waste(b) ==
    /\ slots[b].free > 0
    /\ slots' = [slots EXCEPT ![b].free = @ - 1]

\* A launch becomes a run of the batch.
Fire(b) ==
    /\ slots[b].launching > 0
    /\ slots' = [slots EXCEPT ![b].launching = @ - 1, ![b].fired = @ + 1]

\* The end of a run is counted.
Count(b) ==
    /\ slots[b].fired > 0
    /\ slots' = [slots EXCEPT ![b].counted = @ + 1]

\* Launches are lost, with the process or one by one.
Lose ==
    \E left \in [Batch -> UNION {0 .. slots[b].launching : b \in Batch}] :
        /\ \A b \in Batch : left[b] <= slots[b].launching
        /\ slots' = [b \in Batch |-> [slots[b] EXCEPT !.launching = left[b]]]

\* Every batch with free slots is cancelled.
Cancel == slots' = [b \in Batch |-> [slots[b] EXCEPT !.free = 0]]

Next ==
    \/ \E b \in Batch, n \in Size : Open(b, n)
    \/ \E b \in Batch : Take(b) \/ Waste(b) \/ Fire(b) \/ Count(b)
    \/ Lose
    \/ Cancel

Spec == Init /\ [][Next]_slots

\* No batch has free, launches and has fired more than was requested of it, and
\* none counts before it has fired.
WithinRequested ==
    \A b \in Batch :
        /\ slots[b].free + slots[b].launching + slots[b].fired <= slots[b].requested
        /\ slots[b].counted > 0 => slots[b].fired > 0
=============================================================================
