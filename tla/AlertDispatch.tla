---------------------------- MODULE AlertDispatch ----------------------------
(***************************************************************************)
(* Alerts to the operator's phone (reasoning/alert_dispatcher, telegram,   *)
(* capabilities/alert): at each poll a source's decision is judged, held   *)
(* back while a heal chain works on it, and sent unless the same key fired *)
(* within the window.  The window is taken before the message is sent.     *)
(***************************************************************************)
EXTENDS Naturals

CONSTANTS Source,    \* the sources that platform_status triages
          Blocking,  \* _PIPELINE_BLOCKING_SOURCES among them
          Cooldown   \* ALERT_COOLDOWN_SECONDS, in ticks

ASSUME AlertAssumption == Blocking \subseteq Source /\ Cooldown \in Nat \ {0}

\* _ESCALATION_ACTIONS, the silenced actions, and any other.
Escalation == {"escalate_to_operator", "escalate_with_diagnosis"}
AlertAction == Escalation \cup {"noop", "restart_daemon"}

Key == Source \X AlertAction

VARIABLES
    window,    \* _last_fired: per key, ticks since it fired; Cooldown when it is over
    told,      \* per key, ticks since a message reached the phone, and how many of one
               \* process lay within a window
    standing,  \* per key, ticks that every poll found it worthy and no send of it failed
    polled     \* the keys that a poll of this tick found worthy

alertVars == <<window, told, standing, polled>>

\* Longest age worth telling apart.
Long == Cooldown + 2

AlertInit ==
    /\ window = [k \in Key |-> Cooldown]
    /\ told = [k \in Key |-> [age |-> Long, close |-> 0]]
    /\ standing = [k \in Key |-> 0]
    /\ polled = {}

\* _is_alert_worthy
Worthy(source, action, sure, dangerous) ==
    /\ action # "noop"
    /\ \/ action \in Escalation /\ sure
       \/ dangerous /\ source \in Blocking

\* Mutants: a suppressed attempt renews the window; the window ends a tick early.
WindowsRenewed(key) == [window EXCEPT ![key] = 0]
MayFireEarly(key) == window[key] + 1 >= Cooldown

\* _should_fire: the test of the window, and the windows it leaves.
MayFire(key) == window[key] >= Cooldown

Windows(key) == IF MayFire(key) THEN [window EXCEPT ![key] = 0] ELSE window

Delivered(t) ==
    [age |-> 0, close |-> IF t.age < Cooldown THEN t.close + 1 ELSE 1]

\* maybe_alert, once for the source: nothing is sent unless the decision is worthy,
\* no chain is active and the window is over; then Telegram takes the message or not.
Poll(source) ==
    \E action \in AlertAction, sure, dangerous, chain, up \in BOOLEAN :
        LET key == <<source, action>>
            heard == Worthy(source, action, sure, dangerous) /\ ~chain
            others == {k \in Key : k[1] = source /\ (k # key \/ ~heard)}
            lost == {k \in {key} : heard /\ MayFire(key) /\ ~up}
        IN  /\ window' = IF heard THEN Windows(key) ELSE window
            /\ told' = IF heard /\ MayFire(key) /\ up
                       THEN [told EXCEPT ![key] = Delivered(@)] ELSE told
            /\ standing' = [k \in Key |-> IF k \in others \cup lost THEN 0 ELSE standing[k]]
            /\ polled' = (polled \ (others \cup lost)) \cup ({k \in {key} : heard} \ lost)

\* A tick passes; a condition that no poll of it saw does not stand.
AlertTick ==
    /\ window' = [k \in Key |-> IF window[k] < Cooldown THEN window[k] + 1 ELSE Cooldown]
    /\ told' = [k \in Key |-> [told[k] EXCEPT !.age = IF @ < Long THEN @ + 1 ELSE Long]]
    /\ standing' = [k \in Key |-> IF k \notin polled THEN 0
                                  ELSE IF standing[k] < Long THEN standing[k] + 1 ELSE Long]
    /\ polled' = {}

\* The process restarts with no windows; what the phone got before is not
\* counted as its doing.
AlertRestart ==
    /\ window' = [k \in Key |-> Cooldown]
    /\ told' = [k \in Key |-> [told[k] EXCEPT !.close = 0]]
    /\ UNCHANGED <<standing, polled>>

AlertNext == (\E s \in Source : Poll(s)) \/ AlertTick \/ AlertRestart

AlertSpec == AlertInit /\ [][AlertNext]_alertVars

\* A condition that stayed worthy at every poll, with no send of it failing, has
\* reached the phone within the last window, whatever was suppressed, lost or
\* restarted before (_should_fire, maybe_alert).
StandingIsTold ==
    \A k \in Key : standing[k] > Cooldown => told[k].age <= Cooldown

\* One process sends the same key at most once in a window, however often it is
\* polled and however the decisions change in between.
NoFlood == \A k \in Key : told[k].close <= 1
=============================================================================
