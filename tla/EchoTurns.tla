------------------------------ MODULE EchoTurns ------------------------------
(***************************************************************************)
(* Echo's chats (aria_v2: reasoner, persistence) in one conversation whose *)
(* turns are kept in Postgres.  A server answers one chat at a time, and   *)
(* the chats here are those of several servers.  A turn is appended by a   *)
(* transaction that reads the next index, inserts the turn and counts it;  *)
(* when it fails, append_turn calls itself again, to the recursion limit.  *)
(***************************************************************************)
EXTENDS Naturals, Sequences, FiniteSets

CONSTANTS Chat,           \* the chats, each on a server of its own
          MaxToolRounds,  \* MAX_TOOL_ROUNDS
          MaxDepth,       \* how deep append_turn may recur
          MaxTurns        \* bound: rows of the conversation

ASSUME ChatAssumption == MaxToolRounds \in Nat /\ MaxDepth \in Nat /\ MaxTurns \in Nat

VARIABLES
    database,  \* whether Postgres answers
    turn,      \* agent_conversation_turns, in the order they were committed
    counted,   \* agent_conversations, as a set: no row, or its turn_count
    chat       \* per chat, where respond is

echoVars == <<database, turn, counted, chat>>

Role == {"user", "assistant", "tool"}

NoChat == [at |-> "idle", role |-> "user", index |-> 0, depth |-> 0, rounds |-> 0]

EchoInit ==
    /\ database = TRUE
    /\ turn = <<>>
    /\ counted = {}
    /\ chat = [c \in Chat |-> NoChat]

\* Of a turn that is stored only the number of rounds is needed further on.
Proceeds(c, at) == chat' = [chat EXCEPT ![c] = [NoChat EXCEPT !.at = at, !.rounds = chat[c].rounds]]

\* append_turn is called with a turn of this role.
Appends(c, role, rounds) ==
    chat' = [chat EXCEPT ![c] =
        [at |-> "select", role |-> role, index |-> 0, depth |-> 0, rounds |-> rounds]]

\* ensure_conversation: a failure is logged, and the chat goes on without its row.
EnsureConversation(c) ==
    /\ chat[c].at = "idle"
    /\ IF database THEN counted' = IF counted = {} THEN {0} ELSE counted
                   ELSE UNCHANGED counted
    /\ Appends(c, "user", 0)
    /\ UNCHANGED <<database, turn>>

NextIndex ==
    IF turn = <<>> THEN 0
    ELSE 1 + CHOOSE i \in {turn[k].index : k \in DOMAIN turn} :
                 \A k \in DOMAIN turn : turn[k].index <= i

SelectIndex(c) ==
    /\ chat[c].at = "select" /\ database
    /\ chat' = [chat EXCEPT ![c].at = "insert", ![c].index = NextIndex]
    /\ UNCHANGED <<database, turn, counted>>

StoresTurn(c) ==
    /\ Len(turn) < MaxTurns
    /\ turn' = Append(turn, [chat |-> c, role |-> chat[c].role, index |-> chat[c].index])
    /\ counted' = {n + 1 : n \in counted}

\* What respond does once the turn is stored: after the user's it assembles the
\* prompt, after a tool's it asks again, after its own it returns.
AfterTurn == [user |-> "prompt", tool |-> "converse", assistant |-> "answered"]

CommitTurn(c) ==
    /\ chat[c].at = "insert" /\ database
    /\ StoresTurn(c)
    /\ Proceeds(c, AfterTurn[chat[c].role])
    /\ UNCHANGED database

\* The call of append_turn within append_turn, under the same conditions.
Recurs(c) ==
    chat' = [chat EXCEPT ![c] =
        IF chat[c].depth < MaxDepth
        THEN [chat[c] EXCEPT !.at = "select", !.depth = chat[c].depth + 1]
        ELSE [NoChat EXCEPT !.at = "raised"]]

\* Mutant: the turn is kept in the process instead, as the comment has it.
AppendedLocally(c) ==
    /\ chat[c].at \in {"select", "insert"} /\ ~database
    /\ Proceeds(c, AfterTurn[chat[c].role])
    /\ UNCHANGED <<database, turn, counted>>

\* The statement or the connection fails and the transaction is rolled back, or
\* only the answer to its commit is lost.
AppendFails(c) ==
    /\ chat[c].at \in {"select", "insert"}
    /\ \/ ~database /\ UNCHANGED <<turn, counted>>
       \/ chat[c].at = "insert" /\ database /\ StoresTurn(c)
    /\ Recurs(c)
    /\ UNCHANGED database

\* A history that cannot be read, and every other source that fails, is left out.
AssemblePrompt(c) ==
    /\ chat[c].at = "prompt"
    /\ Proceeds(c, "converse")
    /\ UNCHANGED <<database, turn, counted>>

\* One round: beyond the cap its message, else the model fails or answers in
\* text, either as the assistant's turn, or uses tools (one that fails has a result too).
Converse(c) ==
    /\ chat[c].at = "converse"
    /\ \/ Appends(c, "assistant", chat[c].rounds)
       \/ chat[c].rounds < MaxToolRounds /\ Appends(c, "tool", chat[c].rounds + 1)
    /\ UNCHANGED <<database, turn, counted>>

DatabaseMoves ==
    /\ database' = ~database
    /\ UNCHANGED <<turn, counted, chat>>

\* A server that goes away takes its chat with it.
ServerStops(c) ==
    /\ chat[c].at \notin {"idle", "answered", "raised", "gone"}
    /\ chat' = [chat EXCEPT ![c] = [NoChat EXCEPT !.at = "gone"]]
    /\ UNCHANGED <<database, turn, counted>>

EchoNext ==
    \/ DatabaseMoves
    \/ \E c \in Chat :
         \/ EnsureConversation(c) \/ SelectIndex(c) \/ CommitTurn(c) \/ AppendFails(c)
         \/ AssemblePrompt(c) \/ Converse(c) \/ ServerStops(c)

EchoSpec == EchoInit /\ [][EchoNext]_echoVars

-----------------------------------------------------------------------------
\* What an operator was answered is on record, in order: the question, what every
\* round of tools returned, the answer.  (Once or more: a commit whose answer is
\* lost is repeated.)
Turns(c, role) == {k \in DOMAIN turn : turn[k].chat = c /\ turn[k].role = role}

AnsweredIsOnRecord ==
    \A c \in Chat : chat[c].at = "answered" =>
        \E u \in Turns(c, "user"), a \in Turns(c, "assistant") :
            /\ turn[u].index < turn[a].index
            /\ Cardinality({k \in Turns(c, "tool") :
                               turn[u].index < turn[k].index /\ turn[k].index < turn[a].index})
                 >= chat[c].rounds

\* "so the reasoner still progresses" (persistence.py:144): no failure of the
\* database makes a chat raise.
ReasonerProgresses == \A c \in Chat : chat[c].at # "raised"
=============================================================================
