------------------------- MODULE BatchLedgerProofs -------------------------
(* The ledger's promise, for every set of batches and of sizes.             *)
EXTENDS BatchLedger, TLAPS

Slots == [requested: Nat, free: Nat, launching: Nat, fired: Nat, counted: Nat]

\* The inductive invariant: counters are naturals and fit in what was requested.
Inv == slots \in [Batch -> Slots] /\ WithinRequested

\* Every slot of a batch is in at most one place, whatever is wasted, lost or
\* cancelled, and what is counted was fired (reserve_batch_slot,
\* record_batch_completion, cancel_batch).
THEOREM LedgerPromise ==
  ASSUME Size \subseteq Nat PROVE Spec => []WithinRequested
<1>1. Init => Inv
  BY DEF Init, Inv, Unopened, Slots, WithinRequested
<1>2. Inv /\ [Next]_slots => Inv'
  <2> SUFFICES ASSUME Inv, [Next]_slots PROVE Inv'
    OBVIOUS
  <2> USE DEF Inv, Slots, WithinRequested
  <2>1. ASSUME NEW b \in Batch, NEW n \in Size, Open(b, n) PROVE Inv'
    <3>1. n \in Nat
      OBVIOUS
    <3>2. /\ slots[b] = [requested |-> 0, free |-> 0, launching |-> 0, fired |-> 0,
                     counted |-> 0]
          /\ slots' = [slots EXCEPT ![b].requested = n, ![b].free = n]
      BY <2>1 DEF Open, Unopened
    <3>3. slots' \in [Batch -> Slots]
      BY <3>1, <3>2
    <3>4. slots'[b].requested = n /\ slots'[b].free = n
      BY <3>1, <3>2
    <3>5. slots'[b].launching = 0 /\ slots'[b].fired = 0 /\ slots'[b].counted = 0
      BY <3>1, <3>2
    <3>6. \A c \in Batch \ {b} : slots'[c] = slots[c]
      BY <3>1, <3>2
    <3> QED
      BY <3>1, <3>3, <3>4, <3>5, <3>6
  <2>2. ASSUME NEW b \in Batch, Take(b) PROVE Inv'
    BY <2>2 DEF Take
  <2>3. ASSUME NEW b \in Batch, Waste(b) PROVE Inv'
    BY <2>3 DEF Waste
  <2>7. ASSUME NEW b \in Batch, Fire(b) PROVE Inv'
    BY <2>7 DEF Fire
  <2>8. ASSUME NEW b \in Batch, Count(b) PROVE Inv'
    BY <2>8 DEF Count
  <2>4. CASE Lose
    <3>1. PICK left \in [Batch -> UNION {0 .. slots[c].launching : c \in Batch}] :
            /\ \A b \in Batch : left[b] <= slots[b].launching
            /\ slots' = [b \in Batch |-> [slots[b] EXCEPT !.launching = left[b]]]
      BY <2>4 DEF Lose
    <3>2. \A b \in Batch : left[b] \in Nat
      <4> TAKE b \in Batch
      <4>1. PICK c \in Batch : left[b] \in 0 .. slots[c].launching
        BY <3>1
      <4> QED
        BY <4>1
    <3>3. \A b \in Batch :
            slots'[b] \in Slots
              /\ slots'[b].requested = slots[b].requested
              /\ slots'[b].free = slots[b].free
              /\ slots'[b].launching <= slots[b].launching
              /\ slots'[b].fired = slots[b].fired
              /\ slots'[b].counted = slots[b].counted
      BY <3>1, <3>2
    <3>4. slots' \in [Batch -> Slots]
      BY <3>1, <3>3
    <3> QED
      BY <3>3, <3>4
  <2>5. CASE Cancel
    BY <2>5 DEF Cancel
  <2>6. CASE UNCHANGED slots
    BY <2>6
  <2> QED
    BY <2>1, <2>2, <2>3, <2>4, <2>5, <2>6, <2>7, <2>8 DEF Next
<1>3. Inv => WithinRequested
  BY DEF Inv
<1> QED
  BY <1>1, <1>2, <1>3, PTL DEF Spec
=============================================================================
