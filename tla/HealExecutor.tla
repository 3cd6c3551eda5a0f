---------------------------- MODULE HealExecutor ----------------------------
(***************************************************************************)
(* The autonomous executor: what one poll of a sensor does with the        *)
(* decision triage made of its report.  A poll is one call of              *)
(* execute_or_continue_chain; the request that makes it has no await, so   *)
(* it runs to its end before the next one starts.  A GET makes the calls   *)
(* of all its sources in one go; here each call is a step of its own,      *)
(* which adds behaviours and loses none.                                   *)
(*                                                                         *)
(* Clocks are countdowns in one unit of time: Tick lets a unit pass, and   *)
(* an entry whose countdown is 0 is as good as absent.  Any number of      *)
(* polls fits in a unit.                                                   *)
(***************************************************************************)
EXTENDS Naturals, Sequences

CONSTANTS
    Source,            \* incident sources: daemon, ci, tenant:T, ...
    Target,            \* the cooldown target of each source
    Observations,      \* the observations each source can deliver
    Action,            \* triage actions
    Capability,        \* registered capabilities the executor reaches
    ActionCapability,  \* executor.ACTION_CAPABILITY_MAP
    Exempt,            \* capabilities outside the hourly budget
    Chain,             \* heal_chain.CHAINS
    None,              \* a decision without a pattern, a source without a chain
    MaxTotalAttempts,  \* HealChain.max_total_attempts
    CooldownTime,      \* COOLDOWN_MINUTES
    GraceTime,         \* the part of it that also blocks a failed action
    DedupTime,         \* ESCALATION_DEDUP_SECONDS
    BudgetTime,        \* the registry's hour
    BudgetSize         \* MAX_HEALING_ACTIONS_PER_HOUR

SkipActions       == {"noop", "monitor", "retry_with_fence_stripping"}
EscalationActions == {"escalate_to_operator", "escalate_with_diagnosis"}
SafeConfidence     == 80
ModerateConfidence == 90

TargetName == {Target[s] : s \in Source}
Pattern    == DOMAIN Chain

\* What a poll is given: the triage decision, the sensor's own verdict, and
\* whether the route calls the executor at all on such a report.
Observation ==
    [action: Action, pattern: STRING,
     blast: {"safe", "moderate", "dangerous"}, conf: Nat,
     healthy: BOOLEAN, polled: BOOLEAN]

ASSUME ConstantsAssumption ==
    /\ Target \in [Source -> TargetName]
    /\ Observations \in [Source -> SUBSET Observation]
    /\ ActionCapability \in [DOMAIN ActionCapability -> Capability]
    /\ None \notin Pattern
    /\ {CooldownTime, GraceTime, DedupTime, BudgetTime, BudgetSize} \subseteq Nat \ {0}
    /\ GraceTime <= CooldownTime

\* Every chain has a step, and none has more than the declared cap.
ASSUME ChainAssumption ==
    /\ MaxTotalAttempts \in Nat
    /\ \A p \in Pattern :
         /\ Chain[p] \in Seq([cap: Capability, verify: Nat \ {0}])
         /\ Len(Chain[p]) \in 1..MaxTotalAttempts

VARIABLES
    activeChain,   \* _active_chains: the progress of each source's chain
    cooldown,      \* _cooldowns and _last_outcomes, by capability and target
    escalation,    \* _escalation_last_fired, by source and action
    lost,          \* those whose message was refused by, or never sent to, Telegram
    phone,         \* Telegram: 0 while it refuses, n if it has answered n-1 units
    callTimes,     \* the registry's window: time left of its last calls
    incident,      \* the incident node of each source
    report         \* what each source would deliver if it were polled now

vars == <<activeChain, cooldown, escalation, lost, phone, callTimes, incident, report>>

-----------------------------------------------------------------------------
ChainProgress ==
    [pattern: Pattern, step: Nat, waited: Nat, toWait: Nat, attempts: Nat]

NoChain == [pattern |-> None, step |-> 0, waited |-> 0, toWait |-> 0, attempts |-> 0]

Expired == [left |-> 0, outcome |-> None]

\* The cooldown of a capability on a target, with the outcome that started it.
CooldownEntry == {Expired} \cup [left: 1..CooldownTime, outcome: {"success", "failed"}]

TypeOK ==
    /\ activeChain \in [Source -> ChainProgress \cup {NoChain}]
    /\ cooldown \in [Capability \X TargetName -> CooldownEntry]
    /\ escalation \in [Source \X Action -> 0..DedupTime]
    /\ lost \subseteq Source \X Action
    /\ phone \in 0..DedupTime + 1
    /\ callTimes \in [1..BudgetSize -> 0..BudgetTime]
    /\ incident \in [Source -> {"none", "open", "acknowledged"}]
    /\ report \in [Source -> Observation]

Init ==
    /\ activeChain = [s \in Source |-> NoChain]
    /\ cooldown = [k \in Capability \X TargetName |-> Expired]
    /\ escalation = [k \in Source \X Action |-> 0]
    /\ lost = {}
    /\ phone \in 0..DedupTime + 1
    /\ callTimes = [i \in 1..BudgetSize |-> 0]
    /\ incident = [s \in Source |-> "none"]
    /\ report \in [Source -> UNION {Observations[s] : s \in Source}]
    /\ \A s \in Source : report[s] \in Observations[s]

-----------------------------------------------------------------------------
(* The registry.  callTimes holds the last BudgetSize counted calls, the   *)
(* oldest first: a new one is admitted when the oldest has left the hour.  *)

HasBudget(cap) == cap \in Exempt \/ callTimes[1] = 0

\* Mutant: the call is made without being counted.
SpendNothing(cap) == UNCHANGED callTimes

Spend(cap) ==
    callTimes' = IF cap \in Exempt THEN callTimes
                 ELSE [i \in 1..BudgetSize |->
                          IF i = BudgetSize THEN BudgetTime ELSE callTimes[i + 1]]

(* Incidents, at most one open for each source.                            *)

Opened(s)       == IF incident[s] = "none" THEN "open" ELSE incident[s]
Acknowledged(i) == IF i = "open" THEN "acknowledged" ELSE i
SetIncident(s, i) == incident' = [incident EXCEPT ![s] = i]

\* Mutant: the test of the window is turned round.
EscalateInverted(s, action) ==
    LET k == <<s, action>> IN
    /\ IF escalation[k] = 0
       THEN UNCHANGED <<escalation, lost>>
       ELSE /\ escalation' = [escalation EXCEPT ![k] = DedupTime]
            /\ lost' = IF phone > 0 THEN lost \ {k} ELSE lost \cup {k}
    /\ UNCHANGED phone

\* _escalate: at most one message in a deduplication window.  The window is
\* taken before send_escalation runs; a send that fails, or is answered with
\* anything but 200, raises nothing and gives the window back to nobody.
Escalate(s, action) ==
    LET k == <<s, action>> IN
    /\ IF escalation[k] > 0
       THEN UNCHANGED <<escalation, lost>>
       ELSE /\ escalation' = [escalation EXCEPT ![k] = DedupTime]
            /\ lost' = IF phone > 0 THEN lost \ {k} ELSE lost \cup {k}
    /\ UNCHANGED phone

\* The operator has a message of this source and action in the running window.
Told(s, action) == escalation[<<s, action>>] > 0 /\ <<s, action>> \notin lost

NoMessage == UNCHANGED <<escalation, lost, phone>>

SetCooldown(cap, target, result) ==
    cooldown' = [cooldown EXCEPT ![<<cap, target>>] = [left |-> CooldownTime, outcome |-> result]]

SetChain(s, progress) == activeChain' = [activeChain EXCEPT ![s] = progress]

-----------------------------------------------------------------------------
(* _execute_chain_step, for a chain already moved to the step it runs.     *)

Step(c) == Chain[c.pattern][c.step + 1]

RefuseDangerousStep(s, o, c) ==
    /\ o.blast = "dangerous"
    /\ SetChain(s, NoChain)
    /\ Escalate(s, o.action)
    /\ UNCHANGED <<cooldown, callTimes, incident>>

\* Mutant: the blast radius of the current decision is not looked at again.
StepSucceedsUngated(s, o, c) ==
    /\ HasBudget(Step(c).cap)
    /\ Spend(Step(c).cap)
    /\ SetCooldown(Step(c).cap, Target[s], "success")
    /\ SetChain(s, [c EXCEPT !.attempts = @ + 1])
    /\ SetIncident(s, Acknowledged(incident[s]))
    /\ NoMessage

StepSucceeds(s, o, c) ==
    /\ o.blast # "dangerous"
    /\ HasBudget(Step(c).cap)
    /\ Spend(Step(c).cap)
    /\ SetCooldown(Step(c).cap, Target[s], "success")
    /\ SetChain(s, [c EXCEPT !.attempts = @ + 1])
    /\ SetIncident(s, Acknowledged(incident[s]))
    /\ NoMessage

\* A step that failed is verified at the next poll: there is nothing to wait for.
StepFails(s, o, c) ==
    /\ o.blast # "dangerous"
    /\ HasBudget(Step(c).cap)
    /\ Spend(Step(c).cap)
    /\ SetChain(s, [c EXCEPT !.attempts = @ + 1, !.waited = c.toWait])
    /\ UNCHANGED <<cooldown, escalation, lost, phone, incident>>

\* Over budget: nothing ran and nothing is recorded, but the chain has moved.
StepRateLimited(s, o, c) ==
    /\ o.blast # "dangerous"
    /\ ~HasBudget(Step(c).cap)
    /\ SetChain(s, c)
    /\ UNCHANGED <<cooldown, escalation, lost, phone, callTimes, incident>>

ExecuteChainStep(s, o, c) ==
    \/ RefuseDangerousStep(s, o, c)
    \/ StepSucceeds(s, o, c)
    \/ StepFails(s, o, c)
    \/ StepRateLimited(s, o, c)

-----------------------------------------------------------------------------
(* execute_decision: the single action of a decision without a chain.      *)

IsSkipped(o) == o.action \in SkipActions

\* Mutant: a healthy report leaves the incident as it is.
SkipWithoutResolving(s, o) ==
    /\ IsSkipped(o)
    /\ UNCHANGED <<activeChain, cooldown, escalation, lost, phone, callTimes, incident>>

SkipDecision(s, o) ==
    /\ IsSkipped(o)
    /\ incident' = IF o.action = "noop" THEN [incident EXCEPT ![s] = "none"] ELSE incident
    /\ UNCHANGED <<activeChain, cooldown, escalation, lost, phone, callTimes>>

EscalateDecision(s, o) ==
    /\ o.action \in EscalationActions
    /\ SetIncident(s, Acknowledged(Opened(s)))
    /\ Escalate(s, o.action)
    /\ UNCHANGED <<activeChain, cooldown, callTimes>>

NeedsHuman(o) ==
    \/ o.blast = "moderate" /\ o.conf < ModerateConfidence
    \/ o.blast = "dangerous"

Timid(o) == o.blast = "safe" /\ o.conf < SafeConfidence

IsMapped(o) == o.action \in DOMAIN ActionCapability /\ ~IsSkipped(o)
                  /\ o.action \notin EscalationActions

EscalateForHuman(s, o) ==
    /\ IsMapped(o)
    /\ NeedsHuman(o)
    /\ SetIncident(s, Opened(s))
    /\ Escalate(s, o.action)
    /\ UNCHANGED <<activeChain, cooldown, callTimes>>

\* Mutant: the outcome of the last attempt is ignored.
CoolingDownInGrace(k) == cooldown[k].left > CooldownTime - GraceTime

\* A running cooldown blocks an action that succeeded; one that failed may be
\* retried once the grace period is over.
CoolingDown(k) ==
    /\ cooldown[k].left > 0
    /\ cooldown[k].outcome = "success" \/ cooldown[k].left > CooldownTime - GraceTime

Permitted(s, o) ==
    /\ IsMapped(o)
    /\ ~NeedsHuman(o)
    /\ ~Timid(o)
    /\ ~CoolingDown(<<ActionCapability[o.action], Target[s]>>)
    /\ HasBudget(ActionCapability[o.action])

\* An incident is opened for it and nothing else: the action maps to no
\* capability, or a gate (confidence, cooldown, budget) holds it back.
HoldDecision(s, o) ==
    /\ ~IsSkipped(o)
    /\ o.action \notin EscalationActions
    /\ IsMapped(o) => ~NeedsHuman(o) /\ ~Permitted(s, o)
    /\ SetIncident(s, Opened(s))
    /\ UNCHANGED <<activeChain, cooldown, escalation, lost, phone, callTimes>>

ActionSucceeds(s, o) ==
    /\ Permitted(s, o)
    /\ Spend(ActionCapability[o.action])
    /\ SetCooldown(ActionCapability[o.action], Target[s], "success")
    /\ SetIncident(s, Acknowledged(Opened(s)))
    /\ UNCHANGED <<activeChain, escalation, lost, phone>>

ActionFails(s, o) ==
    /\ Permitted(s, o)
    /\ Spend(ActionCapability[o.action])
    /\ SetCooldown(ActionCapability[o.action], Target[s], "failed")
    /\ Escalate(s, o.action)
    /\ SetIncident(s, Opened(s))
    /\ UNCHANGED activeChain

ExecuteDecision(s, o) ==
    \/ SkipDecision(s, o)
    \/ EscalateDecision(s, o)
    \/ EscalateForHuman(s, o)
    \/ HoldDecision(s, o)
    \/ ActionSucceeds(s, o)
    \/ ActionFails(s, o)

-----------------------------------------------------------------------------
(* execute_or_continue_chain.                                              *)

IsActive(s) == activeChain[s] # NoChain

\* The poll counts itself first, then asks whether the window is over.
WindowOver(c) == c.waited + 1 >= c.toWait

\* Mutant: a waiting poll does not count itself.
KeepWaitingUncounted(s, o) ==
    /\ IsActive(s)
    /\ ~WindowOver(activeChain[s])
    /\ UNCHANGED <<activeChain, cooldown, escalation, lost, phone, callTimes, incident>>

KeepWaiting(s, o) ==
    /\ IsActive(s)
    /\ ~WindowOver(activeChain[s])
    /\ SetChain(s, [activeChain[s] EXCEPT !.waited = @ + 1])
    /\ UNCHANGED <<cooldown, escalation, lost, phone, callTimes, incident>>

VerifyHealed(s, o) ==
    /\ IsActive(s)
    /\ WindowOver(activeChain[s])
    /\ o.healthy
    /\ SetChain(s, NoChain)
    /\ SetIncident(s, "none")
    /\ UNCHANGED <<cooldown, escalation, lost, phone, callTimes>>

IsExhausted(c, step) == step >= Len(Chain[c.pattern])

\* Mutant: the exhausted chain is dropped without a word.
ExhaustQuietly(s, o) ==
    /\ IsActive(s)
    /\ WindowOver(activeChain[s])
    /\ ~o.healthy
    /\ IsExhausted(activeChain[s], activeChain[s].step + 1)
    /\ SetChain(s, NoChain)
    /\ UNCHANGED <<cooldown, escalation, lost, phone, callTimes, incident>>

ExhaustChain(s, o) ==
    /\ IsActive(s)
    /\ WindowOver(activeChain[s])
    /\ ~o.healthy
    /\ IsExhausted(activeChain[s], activeChain[s].step + 1)
    /\ SetChain(s, NoChain)
    /\ Escalate(s, o.action)
    /\ UNCHANGED <<cooldown, callTimes, incident>>

\* Mutants: the wait of the previous step is kept; the step is repeated.
AdvancedSameWait(c) == [c EXCEPT !.step = @ + 1, !.waited = 0]
AdvancedInPlace(c)  == [c EXCEPT !.waited = 0]

\* progress.advance(), with the wait of the step it arrives at.
Advanced(c) ==
    [c EXCEPT !.step = @ + 1, !.waited = 0, !.toWait = Chain[c.pattern][c.step + 2].verify]

AdvanceChain(s, o) ==
    /\ IsActive(s)
    /\ WindowOver(activeChain[s])
    /\ ~o.healthy
    /\ ~IsExhausted(activeChain[s], activeChain[s].step + 1)
    /\ ExecuteChainStep(s, o, Advanced(activeChain[s]))

FirstStep(pattern) ==
    [pattern |-> pattern, step |-> 0, waited |-> 0,
     toWait |-> Chain[pattern][1].verify, attempts |-> 0]

StartChain(s, o) ==
    /\ ~IsActive(s)
    /\ ~IsSkipped(o)
    /\ o.pattern \in Pattern
    /\ ExecuteChainStep(s, o, FirstStep(o.pattern))

ActWithoutChain(s, o) ==
    /\ ~IsActive(s)
    /\ IsSkipped(o) \/ o.pattern \notin Pattern
    /\ ExecuteDecision(s, o)

ExecuteOrContinueChain(s, o) ==
    \/ KeepWaiting(s, o)
    \/ VerifyHealed(s, o)
    \/ ExhaustChain(s, o)
    \/ AdvanceChain(s, o)
    \/ StartChain(s, o)
    \/ ActWithoutChain(s, o)

\* Some sources are handed to the executor only while their report is bad.
Poll(s) ==
    /\ report[s].polled
    /\ ExecuteOrContinueChain(s, report[s])
    /\ UNCHANGED report

\* The world changes, and with it what the sensor reports and triage decides.
ReportChanges(s, o) ==
    /\ report' = [report EXCEPT ![s] = o]
    /\ UNCHANGED <<activeChain, cooldown, escalation, lost, phone, callTimes, incident>>

-----------------------------------------------------------------------------
\* Mutant: a countdown runs below zero.
CountdownUnderflow(n) == n - 1

Countdown(n) == IF n = 0 THEN 0 ELSE n - 1

CooledBy1(e) == IF e.left <= 1 THEN Expired ELSE [e EXCEPT !.left = @ - 1]

Tick ==
    /\ cooldown' = [k \in Capability \X TargetName |-> CooledBy1(cooldown[k])]
    /\ escalation' = [k \in Source \X Action |-> Countdown(escalation[k])]
    /\ lost' = {k \in lost : escalation[k] > 1}
    /\ phone' = IF phone \in 1..DedupTime THEN phone + 1 ELSE phone
    /\ callTimes' = [i \in 1..BudgetSize |-> Countdown(callTimes[i])]
    /\ UNCHANGED <<activeChain, incident, report>>

\* The process is replaced: what it kept in memory is gone, the graph is not.
Restart ==
    /\ activeChain' = [s \in Source |-> NoChain]
    /\ cooldown' = [k \in Capability \X TargetName |-> Expired]
    /\ escalation' = [k \in Source \X Action |-> 0]
    /\ lost' = {}
    /\ callTimes' = [i \in 1..BudgetSize |-> 0]
    /\ UNCHANGED <<phone, incident, report>>

\* Telegram stops answering, or answers again (no secret, no network, an error).
PhoneChanges ==
    /\ phone' = IF phone > 0 THEN 0 ELSE 1
    /\ UNCHANGED <<activeChain, cooldown, escalation, lost, callTimes, incident, report>>

\* POST /incidents/close-stale with a cut-off some of the open incidents meet.
CloseStale ==
    /\ \E S \in SUBSET {s \in Source : incident[s] # "none"} :
         /\ S # {}
         /\ incident' = [s \in Source |-> IF s \in S THEN "none" ELSE incident[s]]
    /\ UNCHANGED <<activeChain, cooldown, escalation, lost, phone, callTimes, report>>

Next ==
    \/ \E s \in Source : Poll(s)
    \/ \E s \in Source : \E o \in Observations[s] : ReportChanges(s, o)
    \/ Tick
    \/ Restart
    \/ PhoneChanges
    \/ CloseStale

Spec == Init /\ [][Next]_vars

\* The dashboard keeps polling and time keeps passing; nobody promises a
\* restart, a clean-up, a working Telegram or any particular report.
Fairness == WF_vars(Tick) /\ \A s \in Source : WF_vars(Poll(s))

FairSpec == Spec /\ Fairness
-----------------------------------------------------------------------------
(* Safety.                                                                 *)

\* The wait in force is the one the current step asks for, through starts,
\* advances and failed steps, and it is never overrun (ChainProgress,
\* cycles_waited and cycles_to_wait).
WaitMatchesStep ==
    \A s \in Source : IsActive(s) =>
        /\ activeChain[s].step < Len(Chain[activeChain[s].pattern])
        /\ activeChain[s].toWait = Step(activeChain[s]).verify
        /\ activeChain[s].waited <= activeChain[s].toWait

\* No chain makes more attempts than max_total_attempts allows "across all
\* steps", although no line of the executor compares the two numbers.
AttemptsWithinCap ==
    \A s \in Source : activeChain[s].attempts <= MaxTotalAttempts

\* A chain ends because its sensor is healthy or because the operator has been
\* told: a message of that source and decision went through inside the running
\* window.  The code knows no more of a send than that it was tried, so Telegram
\* may have refused it; but once Telegram has answered for one whole window, no
\* lost message keeps silencing the chains.  A restart drops a chain silently.
EndsLoudly(s) ==
    IsActive(s) /\ activeChain'[s] = NoChain =>
        \/ report[s].healthy
        \/ Told(s, report[s].action)'
        \/ phone <= DedupTime
        \/ Restart

GivesUpLoudly == [][\A s \in Source : EndsLoudly(s)]_vars

\* The single-action path restarts a cooldown only when it has run out, or after
\* the grace period of a failed attempt, also when a chain set it.  (A step of a
\* chain changes activeChain and looks at no cooldown.)
RestartsCooldown(k) == cooldown'[k].left > cooldown[k].left

Retriable(k) ==
    \/ cooldown[k].left = 0
    \/ cooldown[k].outcome = "failed" /\ cooldown[k].left <= CooldownTime - GraceTime

SingleActionCoolsDown ==
    [][\A k \in Capability \X TargetName :
          UNCHANGED activeChain /\ RestartsCooldown(k) => Retriable(k)]_vars

\* Whatever decision started a chain, a poll whose decision is dangerous runs no
\* capability: neither a step of the chain nor a single action.
RunsNothing == UNCHANGED <<cooldown, callTimes>>

DangerousNeverRuns ==
    [][\A s \in Source : report[s].blast = "dangerous" /\ Poll(s) => RunsNothing]_vars

\* No counted capability completes without taking a slot of the hourly budget,
\* and a slot is taken only when the oldest of the last BudgetSize counted calls
\* has left the hour (registry._check_rate), whichever path runs it.
TakesSlot == callTimes[1] = 0 /\ callTimes'[BudgetSize] = BudgetTime

EveryHealIsBudgeted ==
    [][\A k \in Capability \X TargetName :
          RestartsCooldown(k) /\ k[1] \notin Exempt => TakesSlot]_vars

(* Liveness, of the sources that are polled whatever their report.         *)

\* No chain is stuck: polls alone bring every chain to its end.
ChainEnds == \A s \in Source : IsActive(s) ~> ~IsActive(s)

\* Once a source only reports noop, its incident is closed for good, also when
\* the chain that was healing it was lost in a restart.
HealthResolves ==
    \A s \in Source :
        <>[](report[s].action = "noop") => <>[](incident[s] = "none")

\* A fault with a heal chain that never goes away keeps reaching the operator,
\* however often its steps fail, succeed in vain or find no budget, and however
\* many messages were lost before Telegram answered for good.
FaultReachesOperator ==
    \A s \in Source :
        /\ <>[](report[s].pattern \in Pattern /\ ~report[s].healthy)
        /\ <>[][~Restart]_vars
        /\ <>[](phone > 0)
        => []<>(\E a \in Action : Told(s, a))

-----------------------------------------------------------------------------
(* What a comment of the code says, and the code does not do.              *)

\* "If healthy -> resolve": a chain is resolved only on a report that would not
\* start it again.
HealedMeansHealed ==
    [][\A s \in Source :
          IsActive(s) /\ activeChain'[s] = NoChain /\ report[s].healthy /\ ~Restart =>
             IsSkipped(report[s])]_vars
=============================================================================
