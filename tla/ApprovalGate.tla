---------------------------- MODULE ApprovalGate ----------------------------
(***************************************************************************)
(* Approved mutations of overwatch_v2: issue_token and verify_token        *)
(* (auth/approval_tokens.py), the gate (tools/_approval_gate.py) and       *)
(* dispatch (tools/registry.py) with its two audit sinks.  Dispatches run  *)
(* concurrently; expiry and binding are read from the token, single use    *)
(* from a row of Postgres, the handler acts on another system, and what    *)
(* happened is written down last.                                          *)
(***************************************************************************)
EXTENDS Naturals

CONSTANTS
    Token,      \* token identifiers (jti)
    Attempt,    \* calls of dispatch
    Call,       \* what a call asks for: a tool with its parameters
    Lifetime    \* ttl_seconds, in steps of the clock

ASSUME LifetimeAssumption == Lifetime \in Nat

NoToken == "no token"
NoCall == "no call"

ASSUME NamesAssumption == NoToken \notin Token /\ NoCall \notin Call

VARIABLES
    token,       \* the row and claims of each token
    held,        \* the tokens a caller was given
    attempt,     \* where each dispatch is
    performed,   \* the dispatches whose mutation took place
    events,      \* action_events: <<dispatch, ok>>
    trail        \* echo-mutations: <<dispatch, outcome>>

gateVars == <<token, held, attempt, performed, events, trail>>

Unissued == [call |-> NoCall, left |-> 0, used |-> FALSE]

NotStarted == [at |-> "new", call |-> NoCall, token |-> NoToken, ok |-> FALSE]

GateInit ==
    /\ token = [t \in Token |-> Unissued]
    /\ held = {}
    /\ attempt = [a \in Attempt |-> NotStarted]
    /\ performed = {} /\ events = {} /\ trail = {}

Goes(a, step) == attempt' = [attempt EXCEPT ![a].at = step]

\* An audit write that may fail; its exception is swallowed.
MayEmit(log, row) == {log, log \union {row}}

\* The gate refuses: dispatch raises ApprovalRequired.
Refuse(a, c, t, outcome) ==
    /\ attempt' = [attempt EXCEPT ![a] = [at |-> "done", call |-> c, token |-> t, ok |-> FALSE]]
    /\ trail' \in MayEmit(trail, <<a, outcome>>)
    /\ UNCHANGED <<token, held, performed, events>>

-----------------------------------------------------------------------------
\* issue_token signs, records the row, then returns: a token whose record call
\* raised is not given out, even if the row was committed.
IssueToken(t, c) ==
    /\ token[t] = Unissued
    /\ token' = [token EXCEPT ![t] = [call |-> c, left |-> Lifetime, used |-> FALSE]]
    /\ held' \in {held, held \union {t}}
    /\ UNCHANGED <<attempt, performed, events, trail>>

\* The clock: a token is expired when nothing of its lifetime is left.
Tick ==
    /\ \E t \in Token : token[t].left > 0
    /\ token' = [t \in Token |-> [token[t] EXCEPT !.left = IF @ > 0 THEN @ - 1 ELSE 0]]
    /\ UNCHANGED <<held, attempt, performed, events, trail>>

\* The parameters do not fit the tool's schema: dispatch raises at once.
RejectParameters(a) ==
    /\ attempt[a].at = "new"
    /\ Goes(a, "done")
    /\ UNCHANGED <<token, held, performed, events, trail>>

RejectWithoutToken(a, c) ==
    /\ attempt[a].at = "new"
    /\ Refuse(a, c, NoToken, "rejected_no_token")

Expired(t) == token[t].left = 0
BoundTo(t, c) == token[t].call = c

\* verify_token up to _consume: signature, claims, expiry, binding.
RejectToken(a, c, t) ==
    /\ attempt[a].at = "new"
    /\ t \in held
    /\ Expired(t) \/ ~BoundTo(t, c)
    /\ Refuse(a, c, t, "rejected_bad_token")

AcceptToken(a, c, t) ==
    /\ attempt[a].at = "new"
    /\ t \in held
    /\ ~Expired(t) /\ BoundTo(t, c)
    /\ attempt' = [attempt EXCEPT ![a] = [at |-> "consume", call |-> c, token |-> t, ok |-> FALSE]]
    /\ UNCHANGED <<token, held, performed, events, trail>>

\* Mutant: the update asks for no unused row.
ConsumeAgain(a) ==
    /\ attempt[a].at = "consume"
    /\ token' = [token EXCEPT ![attempt[a].token].used = TRUE]
    /\ Goes(a, "run")
    /\ UNCHANGED <<held, performed, events, trail>>

\* _consume: UPDATE ... WHERE used=false RETURNING.
Consume(a) ==
    LET t == attempt[a].token
    IN  /\ attempt[a].at = "consume"
        /\ ~token[t].used
        /\ token' = [token EXCEPT ![t].used = TRUE]
        /\ Goes(a, "run")
        /\ UNCHANGED <<held, performed, events, trail>>

\* The row is taken, or the database fails.
ConsumeRefused(a) ==
    /\ attempt[a].at = "consume"
    /\ Refuse(a, attempt[a].call, attempt[a].token, "rejected_bad_token")

\* The database fails after the update was committed.
ConsumeUnconfirmed(a) ==
    LET t == attempt[a].token
    IN  /\ attempt[a].at = "consume"
        /\ ~token[t].used
        /\ token' = [token EXCEPT ![t].used = TRUE]
        /\ Goes(a, "done")
        /\ trail' \in MayEmit(trail, <<a, "rejected_bad_token">>)
        /\ UNCHANGED <<held, performed, events>>

\* The handler: it may raise before or after the mutation took place.
RunHandler(a, acts, ok) ==
    /\ attempt[a].at = "run"
    /\ ok => acts
    /\ performed' = performed \union {b \in {a} : acts}
    /\ attempt' = [attempt EXCEPT ![a].at = "audit", ![a].ok = ok]
    /\ UNCHANGED <<token, held, events, trail>>

EmitAudit(a) ==
    /\ attempt[a].at = "audit"
    /\ events' \in MayEmit(events, <<a, attempt[a].ok>>)
    /\ Goes(a, "outcome")
    /\ UNCHANGED <<token, held, performed, trail>>

\* Mutant: the outcome is that of the gate.
EmitOutcomeOfGate(a) ==
    /\ attempt[a].at = "outcome"
    /\ trail' \in MayEmit(trail, <<a, "success">>)
    /\ Goes(a, "done")
    /\ UNCHANGED <<token, held, performed, events>>

EmitOutcome(a) ==
    /\ attempt[a].at = "outcome"
    /\ trail' \in MayEmit(trail, <<a, IF attempt[a].ok THEN "success" ELSE "tool_error">>)
    /\ Goes(a, "done")
    /\ UNCHANGED <<token, held, performed, events>>

\* The process ends in the middle of a dispatch.
Crash(a) ==
    /\ attempt[a].at \notin {"new", "done"}
    /\ Goes(a, "done")
    /\ UNCHANGED <<token, held, performed, events, trail>>

GateNext ==
    \/ Tick
    \/ \E t \in Token, c \in Call : IssueToken(t, c)
    \/ \E a \in Attempt :
        \/ RejectParameters(a)
        \/ \E c \in Call : \/ RejectWithoutToken(a, c)
                           \/ \E t \in Token : RejectToken(a, c, t) \/ AcceptToken(a, c, t)
        \/ Consume(a) \/ ConsumeRefused(a) \/ ConsumeUnconfirmed(a)
        \/ \E acts, ok \in BOOLEAN : RunHandler(a, acts, ok)
        \/ EmitAudit(a) \/ EmitOutcome(a) \/ Crash(a)

GateSpec == GateInit /\ [][GateNext]_gateVars

-----------------------------------------------------------------------------
Step == {"new", "consume", "run", "audit", "outcome", "done"}
Outcome == {"rejected_no_token", "rejected_bad_token", "success", "tool_error"}

GateTypeOK ==
    /\ token \in [Token -> [call: Call \union {NoCall}, left: 0..Lifetime, used: BOOLEAN]]
    /\ held \subseteq Token
    /\ attempt \in [Attempt -> [at: Step, call: Call \union {NoCall},
                                token: Token \union {NoToken}, ok: BOOLEAN]]
    /\ performed \subseteq Attempt
    /\ events \subseteq Attempt \X BOOLEAN
    /\ trail \subseteq Attempt \X Outcome

\* One approval, one mutation: whatever is retried, raced or lost, a mutation
\* was approved for exactly its call, and no token stands behind two of them.
OneMutationPerApproval ==
    \A a \in performed :
        /\ attempt[a].token \in held
        /\ BoundTo(attempt[a].token, attempt[a].call)
        /\ token[attempt[a].token].used
        /\ \A b \in performed : attempt[b].token = attempt[a].token => b = a

\* What the two audit sinks say of a dispatch is what happened and they do not
\* contradict each other: success only after the mutation, a rejection only
\* without one, and one outcome per dispatch.
AuditIsTrue ==
    /\ \A r \in trail :
        /\ r[2] = "success" => r[1] \in performed /\ <<r[1], FALSE>> \notin events
        /\ r[2] \in {"rejected_no_token", "rejected_bad_token"} =>
               r[1] \notin performed /\ \A ok \in BOOLEAN : <<r[1], ok>> \notin events
        /\ \A s \in trail : s[1] = r[1] => s = r
    /\ \A e \in events : e[2] => e[1] \in performed
=============================================================================
