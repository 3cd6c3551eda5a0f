------------------------- MODULE HealExecutorProofs -------------------------
(***************************************************************************)
(* Theorems about HealExecutor, for every set of sources, every table of   *)
(* chains and capabilities and every length of the windows.                *)
(*                                                                         *)
(* WaitMatchesStep and AttemptsWithinCap are not inductive: a state that   *)
(* satisfies them may hold an attempt too many for the step it is at, which *)
(* the next step would carry over the cap.  Inv says what a chain in       *)
(* progress really looks like: at its k-th step it has made at most k      *)
(* attempts, because an attempt is only made on entering a step.  And a    *)
(* lost message of a window that still runs was lost before Telegram began *)
(* to answer: what the phone has answered and what the window has left     *)
(* never add up to more than a window.                                     *)
(***************************************************************************)
EXTENDS HealExecutor, SequenceTheorems, TLAPS

ProperChain(c) ==
    /\ c \in ChainProgress
    /\ c.step < Len(Chain[c.pattern])
    /\ c.toWait = Step(c).verify
    /\ c.waited <= c.toWait
    /\ c.attempts <= c.step + 1

ChainsProper == \A s \in Source : IsActive(s) => ProperChain(activeChain[s])

\* A lost message of a running window was sent before Telegram began to answer.
LossIsOld ==
    \A k \in Source \X Action :
        k \in lost /\ escalation[k] > 0 => phone + escalation[k] <= DedupTime + 1

MessagesProper ==
    /\ escalation \in [Source \X Action -> 0..DedupTime]
    /\ lost \subseteq Source \X Action
    /\ phone \in 0..DedupTime + 1
    /\ LossIsOld

Inv == TypeOK /\ ChainsProper /\ LossIsOld

-----------------------------------------------------------------------------
(* Lemmas on the constants and on the values a step writes.                *)

\* The marker of a source without a chain is no progress of any chain.
LEMMA NoChainIsNoProgress == NoChain \notin ChainProgress
  BY ConstantsAssumption DEF NoChain, ChainProgress

\* The steps of a chain, by their index.
LEMMA ChainSteps ==
  ASSUME NEW p \in Pattern, NEW i \in 1..Len(Chain[p])
  PROVE  Chain[p][i] \in [cap: Capability, verify: Nat \ {0}]
  <1>1. Chain[p] \in Seq([cap: Capability, verify: Nat \ {0}])
    BY ChainAssumption
  <1> QED
    BY <1>1, ElementOfSeq

\* A poll without a chain enters the first step with no attempt made.
LEMMA FirstStepProper ==
  ASSUME NEW p \in Pattern
  PROVE  /\ ProperChain(FirstStep(p))
         /\ FirstStep(p).attempts <= FirstStep(p).step
  <1>1. Len(Chain[p]) \in Nat /\ Len(Chain[p]) >= 1
    BY ChainAssumption
  <1>2. Chain[p][1] \in [cap: Capability, verify: Nat \ {0}]
    BY <1>1, ChainSteps
  <1> QED
    BY <1>1, <1>2 DEF ProperChain, FirstStep, ChainProgress, Step

\* Advancing a chain that is not exhausted leads to a step of its table, with
\* no attempt of that step made.
LEMMA AdvancedProper ==
  ASSUME NEW c, ProperChain(c), ~IsExhausted(c, c.step + 1)
  PROVE  /\ ProperChain(Advanced(c))
         /\ Advanced(c).attempts <= Advanced(c).step
  <1>1. /\ c \in ChainProgress /\ c.pattern \in Pattern /\ c.step \in Nat
        /\ c.attempts <= c.step + 1
    BY DEF ProperChain, ChainProgress
  <1>2. Len(Chain[c.pattern]) \in Nat /\ c.step + 2 \in 1..Len(Chain[c.pattern])
    BY <1>1, ChainAssumption DEF IsExhausted
  <1>3. Chain[c.pattern][c.step + 2] \in [cap: Capability, verify: Nat \ {0}]
    BY <1>1, <1>2, ChainSteps
  <1> DEFINE d == Advanced(c)
  <1>4. /\ d \in ChainProgress
        /\ d.pattern = c.pattern /\ d.step = c.step + 1 /\ d.waited = 0
        /\ d.toWait = Chain[c.pattern][c.step + 2].verify
        /\ d.attempts = c.attempts
    <2> DEFINE w == Chain[c.pattern][c.step + 2].verify
               d1 == [c EXCEPT !.step = @ + 1]
               d2 == [d1 EXCEPT !.waited = 0]
    <2>1. w \in Nat
      BY <1>3
    <2>2. d1 \in ChainProgress
      BY <1>1 DEF ChainProgress
    <2>3. d2 \in ChainProgress
      BY <2>2 DEF ChainProgress
    <2>4. [d2 EXCEPT !.toWait = w] \in ChainProgress
      BY <2>1, <2>3 DEF ChainProgress
    <2>5. d = [d2 EXCEPT !.toWait = w]
      BY DEF Advanced
    <2> QED
      BY <1>1, <2>1, <2>4, <2>5 DEF Advanced, ChainProgress
  <1>5. c.step + 1 + 1 = c.step + 2
    BY <1>1
  <1> QED
    BY <1>1, <1>2, <1>3, <1>4, <1>5 DEF ProperChain, ChainProgress, Step

\* What a step of a chain writes back keeps the chain proper, whether it
\* succeeded, failed or found no budget.
LEMMA AttemptProper ==
  ASSUME NEW c, ProperChain(c), c.attempts <= c.step
  PROVE  /\ ProperChain([c EXCEPT !.attempts = @ + 1])
         /\ ProperChain([c EXCEPT !.attempts = @ + 1, !.waited = c.toWait])
  <1> DEFINE d == [c EXCEPT !.attempts = @ + 1]
             e == [c EXCEPT !.attempts = @ + 1, !.waited = c.toWait]
  <1>1. c \in ChainProgress /\ c.attempts \in Nat /\ c.step \in Nat /\ c.toWait \in Nat
    BY DEF ProperChain, ChainProgress
  <1>2. /\ d \in ChainProgress
        /\ d.pattern = c.pattern /\ d.step = c.step /\ d.waited = c.waited
        /\ d.toWait = c.toWait /\ d.attempts = c.attempts + 1
    BY <1>1 DEF ChainProgress
  <1>3. /\ e \in ChainProgress
        /\ e.pattern = c.pattern /\ e.step = c.step /\ e.waited = c.toWait
        /\ e.toWait = c.toWait /\ e.attempts = c.attempts + 1
    <2>1. [d EXCEPT !.waited = c.toWait] \in ChainProgress
      BY <1>1, <1>2 DEF ChainProgress
    <2> QED
      BY <1>1, <2>1 DEF ChainProgress
  <1> QED
    BY <1>1, <1>2, <1>3 DEF ProperChain, Step

-----------------------------------------------------------------------------
(* What the helpers do to the typed state.                                 *)

\* Counting a call keeps the window a window.
LEMMA SpendTyped ==
  ASSUME NEW cap, TypeOK, Spend(cap)
  PROVE  callTimes' \in [1..BudgetSize -> 0..BudgetTime]
  BY ConstantsAssumption DEF TypeOK, Spend

\* An escalation leaves the window of its source and action running, and its
\* message is lost only while Telegram refuses or since less than a window.
LEMMA EscalateSafe ==
  ASSUME NEW s \in Source, NEW a \in Action, Inv, Escalate(s, a)
  PROVE  /\ MessagesProper'
         /\ Told(s, a)' \/ phone <= DedupTime
  <1> DEFINE k == <<s, a>>
             lost2 == IF phone > 0 THEN lost \ {k} ELSE lost \cup {k}
  <1>1. DedupTime \in Nat \ {0}
    BY ConstantsAssumption
  <1>2. /\ escalation \in [Source \X Action -> 0..DedupTime]
        /\ lost \subseteq Source \X Action
        /\ phone \in 0..DedupTime + 1 /\ phone' = phone
        /\ LossIsOld
    BY DEF TypeOK, Escalate, Inv
  <1>3. k \in Source \X Action /\ escalation[k] \in 0..DedupTime
    BY <1>2
  <1>4. CASE escalation[k] > 0
    <2>1. escalation' = escalation /\ lost' = lost
      BY <1>4 DEF Escalate
    <2>2. MessagesProper'
      BY <1>2, <2>1 DEF MessagesProper, LossIsOld
    <2>3. k \in lost => phone <= DedupTime
      BY <1>1, <1>2, <1>3, <1>4 DEF LossIsOld
    <2> QED
      BY <1>4, <2>1, <2>2, <2>3 DEF Told
  <1>5. CASE ~(escalation[k] > 0)
    <2>1. escalation' = [escalation EXCEPT ![k] = DedupTime] /\ lost' = lost2
      BY <1>5 DEF Escalate
    <2>2. /\ escalation' \in [Source \X Action -> 0..DedupTime]
          /\ escalation'[k] = DedupTime
          /\ \A j \in Source \X Action : j # k => escalation'[j] = escalation[j]
      BY <1>1, <1>2, <1>3, <2>1
    <2>3. /\ lost' \subseteq Source \X Action
          /\ \A j \in lost' : j = k \/ j \in lost
          /\ k \in lost' => ~(phone > 0)
      BY <1>2, <1>3, <2>1, Zenon
    <2>4. ASSUME NEW j \in Source \X Action, j \in lost', escalation'[j] > 0
          PROVE  phone + escalation'[j] <= DedupTime + 1
      <3>1. CASE j = k
        BY <1>1, <1>2, <2>2, <2>3, <2>4, <3>1
      <3>2. CASE j # k
        BY <1>2, <2>2, <2>3, <2>4, <3>2 DEF LossIsOld
      <3> QED
        BY <3>1, <3>2
    <2>5. MessagesProper'
      BY <1>2, <2>2, <2>3, <2>4 DEF MessagesProper, LossIsOld
    <2>6. Told(s, a)' \/ phone <= DedupTime
      BY <1>1, <1>2, <2>2, <2>3 DEF Told
    <2> QED
      BY <2>5, <2>6
  <1> QED
    BY <1>4, <1>5

\* A step that sends nothing keeps what is known of the messages.
LEMMA NoMessageSafe ==
  ASSUME Inv, UNCHANGED <<escalation, lost, phone>>
  PROVE  MessagesProper'
  BY DEF Inv, TypeOK, MessagesProper, LossIsOld

\* A new cooldown is a cooldown.
LEMMA CooldownTyped ==
  ASSUME NEW cap, NEW t, NEW r \in {"success", "failed"}, TypeOK, SetCooldown(cap, t, r)
  PROVE  cooldown' \in [Capability \X TargetName -> CooldownEntry]
  <1>1. CooldownTime \in 1..CooldownTime
    BY ConstantsAssumption
  <1>2. [left |-> CooldownTime, outcome |-> r] \in CooldownEntry
    BY <1>1 DEF CooldownEntry
  <1>3. \A K, V, k, v : \A f \in [K -> V] : v \in V => [f EXCEPT ![k] = v] \in [K -> V]
    OBVIOUS
  <1>4. cooldown' = [cooldown EXCEPT ![<<cap, t>>] = [left |-> CooldownTime, outcome |-> r]]
    BY DEF SetCooldown
  <1> QED
    BY <1>2, <1>3, <1>4, Zenon DEF TypeOK

\* An incident only takes the states of an incident.
LEMMA IncidentTyped ==
  ASSUME NEW s \in Source, TypeOK,
         NEW i \in {incident[s], Opened(s), Acknowledged(incident[s]),
                    Acknowledged(Opened(s)), "none"},
         SetIncident(s, i)
  PROVE  incident' \in [Source -> {"none", "open", "acknowledged"}]
  BY DEF TypeOK, SetIncident, Opened, Acknowledged

\* Writing one source's chain keeps the chains of all sources proper.
LEMMA ChainTyped ==
  ASSUME NEW s \in Source, NEW c, c = NoChain \/ ProperChain(c), Inv, SetChain(s, c)
  PROVE  /\ activeChain' \in [Source -> ChainProgress \cup {NoChain}]
         /\ ChainsProper'
  <1>1. activeChain' = [activeChain EXCEPT ![s] = c]
    BY DEF SetChain
  <1>2. c \in ChainProgress \cup {NoChain}
    BY DEF ProperChain
  <1>3. activeChain \in [Source -> ChainProgress \cup {NoChain}]
    BY DEF Inv, TypeOK
  <1>4. activeChain' \in [Source -> ChainProgress \cup {NoChain}]
    BY <1>1, <1>2, <1>3
  <1>5. ASSUME NEW t \in Source, activeChain'[t] # NoChain
        PROVE  ProperChain(activeChain'[t])
    <2>1. CASE t = s
      BY <2>1, <1>1, <1>3, <1>5
    <2>2. CASE t # s
      <3>1. activeChain'[t] = activeChain[t]
        BY <2>2, <1>1, <1>3
      <3> QED
        BY <3>1, <1>5 DEF Inv, ChainsProper, IsActive
    <2> QED
      BY <2>1, <2>2
  <1>6. ASSUME NEW t \in Source, activeChain'[t] # NoChain
        PROVE  ProperChain(activeChain[t])'
    BY <1>5, <1>6 DEF ProperChain, Step
  <1> QED
    BY <1>4, <1>6 DEF ChainsProper, IsActive

\* The empty tables a process starts with are typed, and hold no chain.
LEMMA InitialMemory ==
  /\ [s \in Source |-> NoChain] \in [Source -> ChainProgress \cup {NoChain}]
  /\ [k \in Capability \X TargetName |-> Expired]
       \in [Capability \X TargetName -> CooldownEntry]
  /\ [k \in Source \X Action |-> 0] \in [Source \X Action -> 0..DedupTime]
  /\ [i \in 1..BudgetSize |-> 0] \in [1..BudgetSize -> 0..BudgetTime]
  BY ConstantsAssumption DEF CooldownEntry

-----------------------------------------------------------------------------
(* One lemma for each group of actions: Inv is kept.                       *)

\* Running, refusing or skipping the step a chain has just entered.
LEMMA ExecuteChainStepSafe ==
  ASSUME Inv, UNCHANGED report, NEW s \in Source, NEW o \in Observation, NEW c,
         ProperChain(c), c.attempts <= c.step, ExecuteChainStep(s, o, c)
  PROVE  Inv'
  <1> USE DEF Inv
  <1>1. o.action \in Action
    BY DEF Observation
  <1>2. CASE RefuseDangerousStep(s, o, c)
    <2>1. SetChain(s, NoChain) /\ Escalate(s, o.action)
          /\ UNCHANGED <<cooldown, callTimes, incident>>
      BY <1>2 DEF RefuseDangerousStep
    <2>2. MessagesProper'
      BY <1>1, <2>1, EscalateSafe
    <2>3. activeChain' \in [Source -> ChainProgress \cup {NoChain}] /\ ChainsProper'
      BY <2>1, ChainTyped
    <2> QED
      BY <2>1, <2>2, <2>3, NoMessageSafe DEF TypeOK, MessagesProper
  <1>3. CASE StepSucceeds(s, o, c)
    <2>1. /\ Spend(Step(c).cap) /\ SetCooldown(Step(c).cap, Target[s], "success")
          /\ SetChain(s, [c EXCEPT !.attempts = @ + 1])
          /\ SetIncident(s, Acknowledged(incident[s]))
          /\ UNCHANGED <<escalation, lost, phone>>
      BY <1>3 DEF StepSucceeds, NoMessage
    <2>2. callTimes' \in [1..BudgetSize -> 0..BudgetTime]
      BY <2>1, SpendTyped
    <2>3. cooldown' \in [Capability \X TargetName -> CooldownEntry]
      BY <2>1, CooldownTyped
    <2>4. activeChain' \in [Source -> ChainProgress \cup {NoChain}] /\ ChainsProper'
      BY <2>1, AttemptProper, ChainTyped
    <2>5. incident' \in [Source -> {"none", "open", "acknowledged"}]
      BY <2>1, IncidentTyped
    <2> QED
      BY <2>1, <2>2, <2>3, <2>4, <2>5, NoMessageSafe DEF TypeOK, MessagesProper
  <1>4. CASE StepFails(s, o, c)
    <2>1. /\ Spend(Step(c).cap)
          /\ SetChain(s, [c EXCEPT !.attempts = @ + 1, !.waited = c.toWait])
          /\ UNCHANGED <<cooldown, escalation, lost, phone, incident>>
      BY <1>4 DEF StepFails
    <2>2. callTimes' \in [1..BudgetSize -> 0..BudgetTime]
      BY <2>1, SpendTyped
    <2>3. activeChain' \in [Source -> ChainProgress \cup {NoChain}] /\ ChainsProper'
      BY <2>1, AttemptProper, ChainTyped
    <2> QED
      BY <2>1, <2>2, <2>3, NoMessageSafe DEF TypeOK, MessagesProper
  <1>5. CASE StepRateLimited(s, o, c)
    <2>1. SetChain(s, c) /\ UNCHANGED <<cooldown, escalation, lost, phone, callTimes, incident>>
      BY <1>5 DEF StepRateLimited
    <2>2. activeChain' \in [Source -> ChainProgress \cup {NoChain}] /\ ChainsProper'
      BY <2>1, ChainTyped
    <2> QED
      BY <2>1, <2>2, NoMessageSafe DEF TypeOK, MessagesProper
  <1> QED
    BY <1>2, <1>3, <1>4, <1>5 DEF ExecuteChainStep

\* The single action of a decision without a chain.
LEMMA ExecuteDecisionSafe ==
  ASSUME Inv, UNCHANGED report, NEW s \in Source, NEW o \in Observation,
         ExecuteDecision(s, o)
  PROVE  Inv'
  <1> USE DEF Inv
  <1>1. o.action \in Action
    BY DEF Observation
  <1>2. UNCHANGED activeChain /\ ChainsProper'
    <2>1. UNCHANGED activeChain
      BY DEF ExecuteDecision, SkipDecision, EscalateDecision, EscalateForHuman,
             HoldDecision, ActionSucceeds, ActionFails
    <2> QED
      BY <2>1 DEF ChainsProper, IsActive, ProperChain, Step
  <1>3. CASE SkipDecision(s, o)
    <2>1. incident' \in [Source -> {"none", "open", "acknowledged"}]
      BY <1>3 DEF SkipDecision, TypeOK
    <2> QED
      BY <1>2, <1>3, <2>1, NoMessageSafe DEF SkipDecision, TypeOK, MessagesProper
  <1>4. CASE EscalateDecision(s, o)
    <2>1. /\ SetIncident(s, Acknowledged(Opened(s))) /\ Escalate(s, o.action)
          /\ UNCHANGED <<cooldown, callTimes>>
      BY <1>4 DEF EscalateDecision
    <2>2. /\ MessagesProper'
          /\ incident' \in [Source -> {"none", "open", "acknowledged"}]
      BY <1>1, <2>1, EscalateSafe, IncidentTyped
    <2> QED
      BY <1>2, <2>1, <2>2, NoMessageSafe DEF TypeOK, MessagesProper
  <1>5. CASE EscalateForHuman(s, o)
    <2>1. /\ SetIncident(s, Opened(s)) /\ Escalate(s, o.action)
          /\ UNCHANGED <<cooldown, callTimes>>
      BY <1>5 DEF EscalateForHuman
    <2>2. /\ MessagesProper'
          /\ incident' \in [Source -> {"none", "open", "acknowledged"}]
      BY <1>1, <2>1, EscalateSafe, IncidentTyped
    <2> QED
      BY <1>2, <2>1, <2>2, NoMessageSafe DEF TypeOK, MessagesProper
  <1>6. CASE HoldDecision(s, o)
    <2>1. SetIncident(s, Opened(s)) /\ UNCHANGED <<cooldown, escalation, lost, phone, callTimes>>
      BY <1>6 DEF HoldDecision
    <2>2. incident' \in [Source -> {"none", "open", "acknowledged"}]
      BY <2>1, IncidentTyped
    <2> QED
      BY <1>2, <2>1, <2>2, NoMessageSafe DEF TypeOK, MessagesProper
  <1>7. CASE ActionSucceeds(s, o)
    <2> DEFINE cap == ActionCapability[o.action]
    <2>1. /\ Spend(cap) /\ SetCooldown(cap, Target[s], "success")
          /\ SetIncident(s, Acknowledged(Opened(s)))
          /\ UNCHANGED <<escalation, lost, phone>>
      BY <1>7 DEF ActionSucceeds
    <2>2. /\ callTimes' \in [1..BudgetSize -> 0..BudgetTime]
          /\ incident' \in [Source -> {"none", "open", "acknowledged"}]
      BY <2>1, SpendTyped, IncidentTyped
    <2>3. cooldown' \in [Capability \X TargetName -> CooldownEntry]
      BY <2>1, CooldownTyped
    <2> QED
      BY <1>2, <2>1, <2>2, <2>3, NoMessageSafe DEF TypeOK, MessagesProper
  <1>8. CASE ActionFails(s, o)
    <2> DEFINE cap == ActionCapability[o.action]
    <2>1. /\ Spend(cap) /\ SetCooldown(cap, Target[s], "failed")
          /\ SetIncident(s, Opened(s)) /\ Escalate(s, o.action)
      BY <1>8 DEF ActionFails
    <2>2. /\ callTimes' \in [1..BudgetSize -> 0..BudgetTime]
          /\ incident' \in [Source -> {"none", "open", "acknowledged"}]
          /\ MessagesProper'
      BY <1>1, <2>1, SpendTyped, IncidentTyped, EscalateSafe
    <2>3. cooldown' \in [Capability \X TargetName -> CooldownEntry]
      BY <2>1, CooldownTyped
    <2> QED
      BY <1>2, <2>2, <2>3, NoMessageSafe DEF TypeOK, MessagesProper
  <1> QED
    BY <1>3, <1>4, <1>5, <1>6, <1>7, <1>8 DEF ExecuteDecision

\* One poll of one source.
LEMMA PollSafe ==
  ASSUME Inv, NEW s \in Source, Poll(s)
  PROVE  Inv'
  <1> DEFINE o == report[s]
             c == activeChain[s]
  <1>1. o \in Observation /\ UNCHANGED report
    BY DEF Inv, TypeOK, Poll
  <1>2. IsActive(s) => ProperChain(c)
    BY DEF Inv, ChainsProper
  <1>3. CASE KeepWaiting(s, o)
    <2>1. /\ IsActive(s) /\ c.waited + 1 < c.toWait
          /\ SetChain(s, [c EXCEPT !.waited = @ + 1])
          /\ UNCHANGED <<cooldown, escalation, lost, phone, callTimes, incident>>
      <3>1. c \in ChainProgress
        BY <1>2, <1>3 DEF KeepWaiting, ProperChain
      <3> QED
        BY <1>3, <3>1 DEF KeepWaiting, WindowOver, ChainProgress
    <2>2. ProperChain([c EXCEPT !.waited = @ + 1])
      BY <1>2, <2>1 DEF ProperChain, ChainProgress, Step
    <2>3. activeChain' \in [Source -> ChainProgress \cup {NoChain}] /\ ChainsProper'
      BY <2>1, <2>2, ChainTyped
    <2> QED
      BY <1>1, <2>1, <2>3, NoMessageSafe DEF Inv, TypeOK, MessagesProper
  <1>4. CASE VerifyHealed(s, o)
    <2>1. SetChain(s, NoChain) /\ SetIncident(s, "none")
          /\ UNCHANGED <<cooldown, escalation, lost, phone, callTimes>>
      BY <1>4 DEF VerifyHealed
    <2>2. activeChain' \in [Source -> ChainProgress \cup {NoChain}] /\ ChainsProper'
      BY <2>1, ChainTyped
    <2>3. incident' \in [Source -> {"none", "open", "acknowledged"}]
      BY <2>1, IncidentTyped DEF Inv
    <2> QED
      BY <1>1, <2>1, <2>2, <2>3, NoMessageSafe DEF Inv, TypeOK, MessagesProper
  <1>5. CASE ExhaustChain(s, o)
    <2>1. SetChain(s, NoChain) /\ Escalate(s, o.action)
          /\ UNCHANGED <<cooldown, callTimes, incident>>
      BY <1>5 DEF ExhaustChain
    <2>2. activeChain' \in [Source -> ChainProgress \cup {NoChain}] /\ ChainsProper'
      BY <2>1, ChainTyped
    <2>3. MessagesProper'
      BY <1>1, <2>1, EscalateSafe DEF Inv, Observation
    <2> QED
      BY <1>1, <2>1, <2>2, <2>3, NoMessageSafe DEF Inv, TypeOK, MessagesProper
  <1>6. CASE AdvanceChain(s, o)
    <2>1. /\ ProperChain(c) /\ ~IsExhausted(c, c.step + 1)
          /\ ExecuteChainStep(s, o, Advanced(c))
      BY <1>2, <1>6 DEF AdvanceChain
    <2>2. ProperChain(Advanced(c)) /\ Advanced(c).attempts <= Advanced(c).step
      BY <2>1, AdvancedProper
    <2> QED
      BY <1>1, <2>1, <2>2, ExecuteChainStepSafe
  <1>7. CASE StartChain(s, o)
    <2>1. o.pattern \in Pattern /\ ExecuteChainStep(s, o, FirstStep(o.pattern))
      BY <1>7 DEF StartChain
    <2>2. /\ ProperChain(FirstStep(o.pattern))
          /\ FirstStep(o.pattern).attempts <= FirstStep(o.pattern).step
      BY <2>1, FirstStepProper
    <2> QED
      BY <1>1, <2>1, <2>2, ExecuteChainStepSafe
  <1>8. CASE ActWithoutChain(s, o)
    BY <1>1, <1>8, ExecuteDecisionSafe DEF ActWithoutChain
  <1> QED
    BY <1>3, <1>4, <1>5, <1>6, <1>7, <1>8 DEF Poll, ExecuteOrContinueChain

\* A chain that is not written stays proper.
LEMMA ChainsKept ==
  ASSUME ChainsProper, UNCHANGED activeChain
  PROVE  ChainsProper'
  BY DEF ChainsProper, IsActive, ProperChain, Step

\* A unit of time shortens a cooldown, which expires at its end.
LEMMA CooledByOne ==
  ASSUME NEW e \in CooldownEntry
  PROVE  /\ CooledBy1(e) \in CooldownEntry
         /\ CooledBy1(e).left \in Nat /\ e.left \in Nat
         /\ CooledBy1(e).left <= e.left
  <1>1. CooldownTime \in Nat
    BY ConstantsAssumption
  <1>2. e.left \in Nat /\ Expired.left = 0 /\ Expired \in CooldownEntry
    BY <1>1 DEF CooldownEntry, Expired
  <1>3. CASE e.left <= 1
    BY <1>2, <1>3 DEF CooledBy1
  <1>4. CASE ~(e.left <= 1)
    <2>1. e \in [left: 1..CooldownTime, outcome: {"success", "failed"}]
      BY <1>2, <1>4 DEF CooldownEntry
    <2>2. e.left - 1 \in 1..CooldownTime
      BY <1>1, <1>4, <2>1
    <2> QED
      BY <1>4, <2>1, <2>2 DEF CooledBy1, CooldownEntry
  <1> QED
    BY <1>3, <1>4

\* Time passes.
LEMMA TickSafe ==
  ASSUME Inv, Tick
  PROVE  Inv'
  <1>1. /\ cooldown' = [k \in Capability \X TargetName |-> CooledBy1(cooldown[k])]
        /\ escalation' = [k \in Source \X Action |-> Countdown(escalation[k])]
        /\ lost' = {k \in lost : escalation[k] > 1}
        /\ phone' = IF phone \in 1..DedupTime THEN phone + 1 ELSE phone
        /\ callTimes' = [i \in 1..BudgetSize |-> Countdown(callTimes[i])]
        /\ UNCHANGED <<activeChain, incident, report>>
    BY DEF Tick
  <1>2. DedupTime \in Nat /\ BudgetTime \in Nat /\ CooldownTime \in Nat
    BY ConstantsAssumption
  <1>3. ASSUME NEW k \in Capability \X TargetName
        PROVE  CooledBy1(cooldown[k]) \in CooldownEntry
    BY CooledByOne DEF Inv, TypeOK
  <1>4. ASSUME NEW k \in Source \X Action
        PROVE  Countdown(escalation[k]) \in 0..DedupTime
    BY <1>2 DEF Inv, TypeOK, Countdown
  <1>5. ASSUME NEW i \in 1..BudgetSize
        PROVE  Countdown(callTimes[i]) \in 0..BudgetTime
    BY <1>2 DEF Inv, TypeOK, Countdown
  <1>6. /\ lost' \subseteq Source \X Action /\ phone' \in 0..DedupTime + 1
        /\ phone' <= phone + 1
    BY <1>1, <1>2 DEF Inv, TypeOK
  <1>7. LossIsOld'
    <2> SUFFICES ASSUME NEW k \in Source \X Action, k \in lost', escalation'[k] > 0
                 PROVE  phone' + escalation'[k] <= DedupTime + 1
      BY DEF LossIsOld
    <2>1. k \in lost /\ escalation[k] \in 0..DedupTime /\ phone \in 0..DedupTime + 1
      BY <1>1 DEF Inv, TypeOK
    <2>2. escalation'[k] = Countdown(escalation[k])
      BY <1>1
    <2>3. escalation[k] > 0 /\ escalation'[k] = escalation[k] - 1
      BY <1>2, <2>1, <2>2 DEF Countdown
    <2>4. phone + escalation[k] <= DedupTime + 1
      BY <2>1, <2>3 DEF Inv, LossIsOld
    <2> QED
      BY <1>2, <1>6, <2>1, <2>3, <2>4
  <1> QED
    BY <1>1, <1>3, <1>4, <1>5, <1>6, <1>7, ChainsKept DEF Inv, TypeOK

\* Memory is lost, the graph is kept.
LEMMA RestartSafe ==
  ASSUME Inv, Restart
  PROVE  Inv'
  BY InitialMemory DEF Restart, Inv, TypeOK, ChainsProper, IsActive, LossIsOld

\* Telegram stops answering, or answers again: what a window has left is at most
\* a window.
LEMMA PhoneSafe ==
  ASSUME Inv, PhoneChanges
  PROVE  Inv'
  <1>1. DedupTime \in Nat
    BY ConstantsAssumption
  <1>2. /\ UNCHANGED <<activeChain, cooldown, escalation, lost, callTimes, incident, report>>
        /\ phone \in 0..DedupTime + 1 /\ phone' \in {0, 1}
        /\ phone' = 1 => phone = 0
    BY <1>1 DEF PhoneChanges, Inv, TypeOK
  <1>3. LossIsOld'
    <2> SUFFICES ASSUME NEW k \in Source \X Action
                 PROVE  phone' + escalation'[k] <= DedupTime + 1
      BY DEF LossIsOld
    <2>1. escalation'[k] \in 0..DedupTime
      BY <1>2 DEF Inv, TypeOK
    <2> QED
      BY <1>1, <1>2, <2>1
  <1> QED
    BY <1>1, <1>2, <1>3, ChainsKept DEF Inv, TypeOK

-----------------------------------------------------------------------------
(* The theorems.                                                           *)

\* The process starts with empty tables.
LEMMA InitSafe == Init => Inv
  <1> SUFFICES ASSUME Init PROVE Inv
    OBVIOUS
  <1>1. incident \in [Source -> {"none", "open", "acknowledged"}]
    BY DEF Init
  <1>2. report \in [Source -> Observation]
    BY ConstantsAssumption DEF Init
  <1> QED
    BY <1>1, <1>2, InitialMemory DEF Init, Inv, TypeOK, ChainsProper, IsActive, LossIsOld

\* Every step keeps the invariant.
LEMMA NextSafe == Inv /\ [Next]_vars => Inv'
  <1> SUFFICES ASSUME Inv, [Next]_vars PROVE Inv'
    OBVIOUS
  <1>1. CASE \E s \in Source : Poll(s)
    BY <1>1, PollSafe
  <1>2. ASSUME NEW s \in Source, NEW o \in Observations[s], ReportChanges(s, o)
        PROVE  Inv'
    <2>1. o \in Observation
      BY ConstantsAssumption
    <2> QED
      BY <1>2, <2>1, ChainsKept DEF ReportChanges, Inv, TypeOK, LossIsOld
  <1>3. CASE Tick
    BY <1>3, TickSafe
  <1>4. CASE Restart
    BY <1>4, RestartSafe
  <1>5. CASE CloseStale
    BY <1>5, ChainsKept DEF CloseStale, Inv, TypeOK, LossIsOld
  <1>6. CASE UNCHANGED vars
    BY <1>6, ChainsKept DEF vars, Inv, TypeOK, LossIsOld
  <1>7. CASE PhoneChanges
    BY <1>7, PhoneSafe
  <1> QED
    BY <1>1, <1>2, <1>3, <1>4, <1>5, <1>6, <1>7 DEF Next

\* Inv holds in every reachable state: each attempt a chain has made, it made
\* on entering one of the steps it has reached.
THEOREM Invariance == Spec => []Inv
  BY InitSafe, NextSafe, PTL DEF Spec

\* Every variable of the executor keeps its type.
THEOREM TypeCorrect == Spec => []TypeOK
  <1>1. Inv => TypeOK
    BY DEF Inv
  <1> QED
    BY <1>1, Invariance, PTL

\* The verification window in force is always that of the step the chain is at.
THEOREM WaitsCorrect == Spec => []WaitMatchesStep
  <1>1. Inv => WaitMatchesStep
    BY DEF Inv, ChainsProper, ProperChain, WaitMatchesStep
  <1> QED
    BY <1>1, Invariance, PTL

\* max_total_attempts is respected by the walk itself, for every table whose
\* chains are no longer than the cap.
THEOREM AttemptsCapped == Spec => []AttemptsWithinCap
  <1>1. ASSUME Inv, NEW s \in Source
        PROVE  activeChain[s].attempts <= MaxTotalAttempts
    <2>1. CASE IsActive(s)
      <3>1. ProperChain(activeChain[s])
        BY <1>1, <2>1 DEF Inv, ChainsProper
      <3> QED
        BY <3>1, ChainAssumption DEF ProperChain, ChainProgress
    <2>2. CASE ~IsActive(s)
      BY <2>2, ChainAssumption DEF IsActive, NoChain
    <2> QED
      BY <2>1, <2>2
  <1>2. Inv => AttemptsWithinCap
    BY <1>1 DEF AttemptsWithinCap
  <1> QED
    BY <1>2, Invariance, PTL

-----------------------------------------------------------------------------
(* Action properties.                                                      *)

\* A poll writes the chain of its own source only.
LEMMA PollWritesOwnChain ==
  ASSUME Inv, NEW s \in Source, NEW t \in Source, t # s, Poll(s)
  PROVE  activeChain'[t] = activeChain[t]
  <1>1. activeChain \in [Source -> ChainProgress \cup {NoChain}]
    BY DEF Inv, TypeOK
  <1>2. \A c : SetChain(s, c) => activeChain'[t] = activeChain[t]
    BY <1>1 DEF SetChain
  <1>3. ASSUME NEW o, NEW c, ExecuteChainStep(s, o, c)
        PROVE  activeChain'[t] = activeChain[t]
    BY <1>2, <1>3 DEF ExecuteChainStep, RefuseDangerousStep, StepSucceeds, StepFails,
                      StepRateLimited
  <1>4. ASSUME NEW o, ExecuteDecision(s, o)
        PROVE  activeChain'[t] = activeChain[t]
    BY <1>4 DEF ExecuteDecision, SkipDecision, EscalateDecision, EscalateForHuman,
                HoldDecision, ActionSucceeds, ActionFails
  <1> QED
    BY <1>2, <1>3, <1>4 DEF Poll, ExecuteOrContinueChain, KeepWaiting, VerifyHealed,
       ExhaustChain, AdvanceChain, StartChain, ActWithoutChain

\* A step of a chain drops the chain only when it refuses to run and says so:
\* the operator has the message unless Telegram was down within the window.
LEMMA StepEndsLoudly ==
  ASSUME Inv, NEW s \in Source, NEW o \in Observation, NEW c, ProperChain(c),
         c.attempts <= c.step, ExecuteChainStep(s, o, c), activeChain'[s] = NoChain
  PROVE  Told(s, o.action)' \/ phone <= DedupTime
  <1>1. o.action \in Action
    BY DEF Observation
  <1>2. activeChain \in [Source -> ChainProgress \cup {NoChain}]
    BY DEF Inv, TypeOK
  <1>3. ASSUME NEW d, SetChain(s, d), ProperChain(d) PROVE FALSE
    <2>1. activeChain'[s] = d
      BY <1>2, <1>3 DEF SetChain
    <2> QED
      BY <2>1, <1>3, NoChainIsNoProgress DEF ProperChain
  <1>4. CASE RefuseDangerousStep(s, o, c)
    BY <1>1, <1>4, EscalateSafe DEF RefuseDangerousStep
  <1>5. CASE StepSucceeds(s, o, c)
    BY <1>3, <1>5, AttemptProper DEF StepSucceeds
  <1>6. CASE StepFails(s, o, c)
    BY <1>3, <1>6, AttemptProper DEF StepFails
  <1>7. CASE StepRateLimited(s, o, c)
    BY <1>3, <1>7 DEF StepRateLimited
  <1> QED
    BY <1>4, <1>5, <1>6, <1>7 DEF ExecuteChainStep

\* A poll that ends a chain found the sensor healthy or told the operator, if
\* Telegram has answered for a window.
LEMMA PollEndsLoudly ==
  ASSUME Inv, NEW s \in Source, Poll(s), IsActive(s), activeChain'[s] = NoChain
  PROVE  report[s].healthy \/ Told(s, report[s].action)' \/ phone <= DedupTime
  <1> DEFINE c == activeChain[s]
  <1>0. PICK o \in Observation : o = report[s]
    BY DEF Inv, TypeOK
  <1>1. /\ o.action \in Action /\ report' = report
        /\ ExecuteOrContinueChain(s, o)
    BY <1>0 DEF Poll, Observation
  <1> SUFFICES o.healthy \/ Told(s, o.action)' \/ phone <= DedupTime
    BY <1>0, <1>1 DEF Told
  <1>2. ProperChain(c) /\ c \in ChainProgress
    BY DEF Inv, ChainsProper, ProperChain
  <1>3. CASE KeepWaiting(s, o)
    <2>1. SetChain(s, [c EXCEPT !.waited = @ + 1])
      BY <1>3 DEF KeepWaiting
    <2>2. [c EXCEPT !.waited = @ + 1] \in ChainProgress
      BY <1>2 DEF ChainProgress
    <2>3. activeChain'[s] = [c EXCEPT !.waited = @ + 1]
      BY <2>1 DEF SetChain, Inv, TypeOK
    <2> QED
      BY <2>2, <2>3, NoChainIsNoProgress
  <1>4. CASE VerifyHealed(s, o)
    BY <1>4 DEF VerifyHealed
  <1>5. CASE ExhaustChain(s, o)
    BY <1>1, <1>5, EscalateSafe DEF ExhaustChain
  <1>6. CASE AdvanceChain(s, o)
    <2>1. /\ ~IsExhausted(c, c.step + 1)
          /\ ExecuteChainStep(s, o, Advanced(c))
      BY <1>6 DEF AdvanceChain
    <2>2. ProperChain(Advanced(c)) /\ Advanced(c).attempts <= Advanced(c).step
      BY <1>2, <2>1, AdvancedProper
    <2> QED
      BY <1>1, <2>1, <2>2, StepEndsLoudly
  <1>7. CASE StartChain(s, o) \/ ActWithoutChain(s, o)
    BY <1>7 DEF StartChain, ActWithoutChain
  <1> QED
    BY <1>1, <1>3, <1>4, <1>5, <1>6, <1>7 DEF ExecuteOrContinueChain

\* Only polls and restarts end chains, and no poll does it in silence once Telegram
\* has answered for a window: a source's chain is over because its sensor is
\* healthy or the operator has a message of it, sent in the running window, and
\* no message lost before still holds that window.
THEOREM EndsAreLoud == Spec => GivesUpLoudly
  <1>1. ASSUME Inv, [Next]_vars, NEW s \in Source
        PROVE  EndsLoudly(s)
    <2> SUFFICES ASSUME IsActive(s), activeChain'[s] = NoChain, ~Restart
                 PROVE  report[s].healthy \/ Told(s, report[s].action)' \/ phone <= DedupTime
      BY DEF EndsLoudly
    <2>1. activeChain[s] # NoChain
      BY DEF IsActive
    <2>2. CASE \E t \in Source : Poll(t)
      BY <1>1, <2>1, <2>2, PollWritesOwnChain, PollEndsLoudly
    <2>3. CASE UNCHANGED activeChain
      BY <2>1, <2>3
    <2> QED
      BY <1>1, <2>2, <2>3 DEF Next, ReportChanges, Tick, CloseStale, PhoneChanges, vars
  <1>2. Inv /\ [Next]_vars => [\A s \in Source : EndsLoudly(s)]_vars
    BY <1>1
  <1> QED
    BY <1>2, Invariance, PTL DEF Spec, GivesUpLoudly

\* A dangerous decision runs no capability, whatever chain it finds in progress.
THEOREM DangerIsRefused == Spec => DangerousNeverRuns
  <1>1. ASSUME NEW s \in Source, report[s].blast = "dangerous", Poll(s)
        PROVE  RunsNothing
    <2> DEFINE o == report[s]
    <2>1. ~Permitted(s, o)
      BY <1>1 DEF Permitted, NeedsHuman
    <2>2. ASSUME NEW c, ExecuteChainStep(s, o, c) PROVE RunsNothing
      BY <1>1, <2>2 DEF ExecuteChainStep, RefuseDangerousStep, StepSucceeds, StepFails,
                        StepRateLimited, RunsNothing
    <2>3. ASSUME ExecuteDecision(s, o) PROVE RunsNothing
      BY <2>1, <2>3 DEF ExecuteDecision, SkipDecision, EscalateDecision, EscalateForHuman,
                        HoldDecision, ActionSucceeds, ActionFails, RunsNothing
    <2> QED
      BY <1>1, <2>2, <2>3 DEF Poll, ExecuteOrContinueChain, KeepWaiting, VerifyHealed,
         ExhaustChain, AdvanceChain, StartChain, ActWithoutChain, RunsNothing
  <1>2. [\A s \in Source : report[s].blast = "dangerous" /\ Poll(s) => RunsNothing]_vars
    BY <1>1
  <1> QED
    BY <1>2, PTL DEF DangerousNeverRuns

-----------------------------------------------------------------------------
(* Cooldowns and the hourly budget.                                        *)

\* SetCooldown starts the cooldown of one capability on one target.
LEMMA CooldownSet ==
  ASSUME Inv, NEW cap, NEW t, NEW r, SetCooldown(cap, t, r),
         NEW k \in Capability \X TargetName, RestartsCooldown(k)
  PROVE  k = <<cap, t>>
  <1>1. cooldown' = [cooldown EXCEPT ![<<cap, t>>] = [left |-> CooldownTime, outcome |-> r]]
    BY DEF SetCooldown
  <1>2. k \in DOMAIN cooldown /\ cooldown[k].left \in Nat
    BY CooledByOne DEF Inv, TypeOK
  <1>3. ASSUME k # <<cap, t>> PROVE FALSE
    <2>1. cooldown'[k] = cooldown[k]
      BY <1>1, <1>2, <1>3
    <2> QED
      BY <1>2, <2>1 DEF RestartsCooldown
  <1> QED
    BY <1>3

\* A cooldown nobody writes does not start.
LEMMA CooldownKept ==
  ASSUME Inv, NEW k \in Capability \X TargetName, UNCHANGED cooldown
  PROVE  ~RestartsCooldown(k)
  <1>1. cooldown[k].left \in Nat
    BY CooledByOne DEF Inv, TypeOK
  <1> QED
    BY <1>1 DEF RestartsCooldown

\* Time and restarts only shorten cooldowns.
LEMMA CooldownShrinks ==
  ASSUME Inv, NEW k \in Capability \X TargetName, Tick \/ Restart
  PROVE  ~RestartsCooldown(k)
  <1>1. cooldown[k] \in CooldownEntry
    BY DEF Inv, TypeOK
  <1>2. /\ cooldown[k].left \in Nat /\ CooledBy1(cooldown[k]).left \in Nat
        /\ CooledBy1(cooldown[k]).left <= cooldown[k].left
    BY <1>1, CooledByOne
  <1>3. Expired.left = 0
    BY DEF Expired
  <1>4. CASE cooldown'[k] = CooledBy1(cooldown[k])
    BY <1>2, <1>4 DEF RestartsCooldown
  <1>5. CASE cooldown'[k] = Expired
    BY <1>2, <1>3, <1>5 DEF RestartsCooldown
  <1> QED
    BY <1>4, <1>5 DEF Tick, Restart

\* A counted call takes the slot that the oldest counted call has left.
LEMMA SlotTaken ==
  ASSUME NEW cap, cap \notin Exempt, HasBudget(cap), Spend(cap)
  PROVE  TakesSlot
  BY ConstantsAssumption DEF HasBudget, Spend, TakesSlot

\* No step, of a chain or of a single action, completes a counted capability
\* without a free slot of the hourly budget.
THEOREM HealsAreBudgeted == Spec => EveryHealIsBudgeted
  <1>1. ASSUME Inv, [Next]_vars, NEW k \in Capability \X TargetName,
               RestartsCooldown(k), k[1] \notin Exempt
        PROVE  TakesSlot
    <2>1. ASSUME NEW cap, NEW t, NEW r, HasBudget(cap), Spend(cap), SetCooldown(cap, t, r)
          PROVE  TakesSlot
      <3>1. k = <<cap, t>>
        BY <1>1, <2>1, CooldownSet
      <3> QED
        BY <1>1, <2>1, <3>1, SlotTaken
    <2>2. ~UNCHANGED cooldown
      BY <1>1, CooldownKept
    <2>3. ASSUME NEW s, NEW o, NEW c, ExecuteChainStep(s, o, c) PROVE TakesSlot
      BY <2>1, <2>2, <2>3 DEF ExecuteChainStep, RefuseDangerousStep, StepSucceeds,
                             StepFails, StepRateLimited
    <2>4. ASSUME NEW s, NEW o, ExecuteDecision(s, o) PROVE TakesSlot
      BY <2>1, <2>2, <2>4 DEF ExecuteDecision, SkipDecision, EscalateDecision,
         EscalateForHuman, HoldDecision, ActionSucceeds, ActionFails, Permitted
    <2>5. ASSUME NEW s \in Source, Poll(s) PROVE TakesSlot
      BY <2>2, <2>3, <2>4, <2>5 DEF Poll, ExecuteOrContinueChain, KeepWaiting,
         VerifyHealed, ExhaustChain, AdvanceChain, StartChain, ActWithoutChain
    <2>6. ~Tick /\ ~Restart
      BY <1>1, CooldownShrinks
    <2> QED
      BY <1>1, <2>2, <2>5, <2>6 DEF Next, ReportChanges, CloseStale, PhoneChanges, vars
  <1>2. Inv /\ [Next]_vars =>
          [\A k \in Capability \X TargetName :
              RestartsCooldown(k) /\ k[1] \notin Exempt => TakesSlot]_vars
    BY <1>1
  <1> QED
    BY <1>2, Invariance, PTL DEF Spec, EveryHealIsBudgeted

\* The single-action path re-fires a capability on a target only when the
\* cooldown has run out, or past the grace period of a failure.
THEOREM SingleActionsCoolDown == Spec => SingleActionCoolsDown
  <1>1. ASSUME Inv, [Next]_vars, NEW k \in Capability \X TargetName,
               UNCHANGED activeChain, RestartsCooldown(k)
        PROVE  Retriable(k)
    <2>1. ~UNCHANGED cooldown
      BY <1>1, CooldownKept
    <2>2. ASSUME NEW cap, NEW t, NEW r, ~CoolingDown(<<cap, t>>), SetCooldown(cap, t, r)
          PROVE  Retriable(k)
      <3>1. k = <<cap, t>> /\ ~CoolingDown(k)
        BY <1>1, <2>2, CooldownSet
      <3>2. cooldown[k] \in CooldownEntry
        BY <1>1 DEF Inv, TypeOK
      <3>3. CASE cooldown[k] = Expired
        BY <3>3 DEF Retriable, Expired
      <3>4. CASE cooldown[k] \in [left: 1..CooldownTime, outcome: {"success", "failed"}]
        BY <3>1, <3>4, ConstantsAssumption DEF CoolingDown, Retriable
      <3> QED
        BY <3>2, <3>3, <3>4 DEF CooldownEntry
    <2>3. ASSUME NEW s \in Source, NEW o, NEW c, ProperChain(c), c.attempts <= c.step,
                 ExecuteChainStep(s, o, c)
          PROVE  activeChain[s] = [c EXCEPT !.attempts = @ + 1]
      <3>1. StepSucceeds(s, o, c)
        BY <2>1, <2>3 DEF ExecuteChainStep, RefuseDangerousStep, StepFails, StepRateLimited
      <3> QED
        BY <1>1, <3>1 DEF StepSucceeds, SetChain, Inv, TypeOK
    <2>4. ASSUME NEW s \in Source, StartChain(s, report[s]) PROVE FALSE
      <3> DEFINE c == FirstStep(report[s].pattern)
      <3>1. ProperChain(c) /\ c.attempts <= c.step /\ ExecuteChainStep(s, report[s], c)
        BY <2>4, FirstStepProper DEF StartChain
      <3>2. activeChain[s] = [c EXCEPT !.attempts = @ + 1]
        BY <2>3, <3>1
      <3>3. activeChain[s] \in ChainProgress
        <4>1. ProperChain([c EXCEPT !.attempts = @ + 1])
          BY <3>1, AttemptProper
        <4> QED
          BY <3>2, <4>1 DEF ProperChain
      <3> QED
        BY <2>4, <3>3, NoChainIsNoProgress DEF StartChain, IsActive
    <2>5. ASSUME NEW s \in Source, AdvanceChain(s, report[s]) PROVE FALSE
      <3> DEFINE c == activeChain[s]
                 d == Advanced(c)
      <3>1. ProperChain(c) /\ ~IsExhausted(c, c.step + 1)
        BY <1>1, <2>5 DEF AdvanceChain, Inv, ChainsProper
      <3>2. ProperChain(d) /\ d.attempts <= d.step /\ ExecuteChainStep(s, report[s], d)
        BY <2>5, <3>1, AdvancedProper DEF AdvanceChain
      <3>3. c = [d EXCEPT !.attempts = @ + 1]
        BY <2>3, <3>2
      <3>4. c \in ChainProgress /\ d \in ChainProgress
        BY <3>1, <3>2 DEF ProperChain
      <3>5. d.step = c.step + 1 /\ c.step = d.step
        <4>1. d.step = c.step + 1
          BY <3>4 DEF Advanced, ChainProgress
        <4>2. [d EXCEPT !.attempts = @ + 1].step = d.step
          BY <3>4 DEF ChainProgress
        <4> QED
          BY <3>3, <4>1, <4>2
      <3> QED
        BY <3>4, <3>5 DEF ChainProgress
    <2>6. ASSUME NEW s \in Source, ActWithoutChain(s, report[s]) PROVE Retriable(k)
      BY <2>1, <2>2, <2>6 DEF ActWithoutChain, ExecuteDecision, SkipDecision,
         EscalateDecision, EscalateForHuman, HoldDecision, ActionSucceeds, ActionFails,
         Permitted
    <2>7. ASSUME NEW s \in Source, Poll(s) PROVE Retriable(k)
      BY <2>1, <2>4, <2>5, <2>6, <2>7 DEF Poll, ExecuteOrContinueChain, KeepWaiting,
         VerifyHealed, ExhaustChain
    <2>8. ~Tick /\ ~Restart
      BY <1>1, CooldownShrinks
    <2> QED
      BY <1>1, <2>1, <2>7, <2>8 DEF Next, ReportChanges, CloseStale, PhoneChanges, vars
  <1>2. Inv /\ [Next]_vars =>
          [\A k \in Capability \X TargetName :
              UNCHANGED activeChain /\ RestartsCooldown(k) => Retriable(k)]_vars
    BY <1>1
  <1> QED
    BY <1>2, Invariance, PTL DEF Spec, SingleActionCoolsDown

=============================================================================
