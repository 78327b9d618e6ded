----------------------------- MODULE SendGuardrails -----------------------------
(***************************************************************************)
(* send_message (tools/send_message.py) and the turn budget it enforces    *)
(* (sharedModules/guardrails.py), in one conversation.  Slack numbers the  *)
(* conversation's messages by their place in `slack`; the guardrail reads  *)
(* only what ingest has stored of them, and the message it lets through is *)
(* stored by a later event.                                                *)
(***************************************************************************)
EXTENDS Naturals, Sequences, FiniteSets, FiniteSetsExt

CONSTANTS
    Agent, Sender,  \* running send_message calls
    AgentOf,        \* AgentOf[s]: the identity of call s
    NoAgent,        \* a person, or a bot that is not an agent
    IsDm,           \* the conversation is a direct message
    PersonFirst,    \* the person may write before the agent does
    Budget,         \* AGENT_TURN_BUDGET
    Window,         \* SCAN_WINDOW
    MaxLag,         \* messages Slack holds that ingest has not stored
    MaxMessages,    \* bound on the conversation's length
    StaleMap,       \* an ingest container's agent map may lack an agent
    MaxFaults       \* bound on the calls that die and the posts repeated

ASSUME SenderAssumption ==
    IsFiniteSet(Sender) /\ AgentOf \in [Sender -> Agent] /\ NoAgent \notin Agent
ASSUME BoundAssumption ==
    /\ {Budget, Window} \subseteq Nat \ {0}
    /\ {MaxLag, MaxMessages, MaxFaults} \subseteq Nat
    /\ {IsDm, PersonFirst, StaleMap} \subseteq BOOLEAN

VARIABLES
    slack,    \* the conversation: who wrote, in which thread, with the note?
    stored,   \* the messages whose rows are in the inbox
    unnamed,  \* the agents' messages whose rows name no agent
    known,    \* the conversation has a CHANNELS row
    pc,       \* what each call is doing
    thread,   \* its thread_ts; 0 for the top level
    note,     \* first_dm_contact, as it decided it
    faults

calls == <<pc, thread, note>>
inbox == <<stored, unnamed, known>>
vars == <<slack, inbox, calls, faults>>

Ts == 1..MaxMessages
MessageType == [by : Agent \cup {NoAgent}, thread : 0..MaxMessages, note : BOOLEAN]

TypeOK ==
    /\ slack \in Seq(MessageType) /\ Len(slack) <= MaxMessages
    /\ stored \subseteq DOMAIN slack /\ unnamed \subseteq stored
    /\ known \in BOOLEAN
    /\ pc \in [Sender -> {"idle", "lookup", "post", "repost", "register"}]
    /\ thread \in [Sender -> 0..MaxMessages]
    /\ note \in [Sender -> BOOLEAN]
    /\ faults \in 0..MaxFaults

Init ==
    /\ slack = <<>>
    /\ stored = {} /\ unnamed = {}
    /\ known = FALSE
    /\ pc = [s \in Sender |-> "idle"]
    /\ thread = [s \in Sender |-> 0]
    /\ note = [s \in Sender |-> FALSE]
    /\ faults = 0
--------------------------------------------------------------------------------
IsRoot(t) == t \in DOMAIN slack /\ slack[t].thread = 0
FromAgent(i) == slack[i].by # NoAgent
FromAgents == {i \in DOMAIN slack : FromAgent(i)}
Attributed == FromAgents \ unnamed

(* A conversation scope: a thread with its root, or the top level.         *)
InConversationScope(i, t) ==
    IF t = 0 THEN slack[i].thread = 0 ELSE slack[i].thread = t \/ i = t

(* recent_messages: the newest `Window` stored rows of the conversation.   *)
Recent == {i \in stored : Cardinality({j \in stored : j > i}) < Window}

(* The length of the run of messages of `agents` that ends the set `rows`. *)
AgentRun(rows, agents) ==
    Cardinality({i \in rows : \A j \in rows : j >= i => j \in agents})

(* Seeded defect: a budget off by one.                                     *)
Vetoed_OffByOne(t) ==
    AgentRun({i \in Recent : InConversationScope(i, t)}, Attributed) > Budget

(* agent_send_veto's turn budget.  Its cooldown can only refuse more sends *)
(* at some moments and is left out with the clock it reads.                *)
Vetoed(t) ==
    AgentRun({i \in Recent : InConversationScope(i, t)}, Attributed) >= Budget

(* The row of message i.  An agent's file share carries no metadata: where *)
(* the container's agent map lacks the agent the row is a bot's.           *)
Row(i, by) ==
    /\ stored' = stored \cup {i}
    /\ \/ UNCHANGED unnamed
       \/ StaleMap /\ by # NoAgent /\ unnamed' = unnamed \cup {i}

(* Slack takes a message; ingest stores it at once or some time later.     *)
Posted(by, t, noted) ==
    /\ Len(slack) < MaxMessages
    /\ slack' = Append(slack, [by |-> by, thread |-> t, note |-> noted])
    /\ Row(Len(slack) + 1, by) \/ UNCHANGED <<stored, unnamed>>
    /\ Cardinality(DOMAIN slack' \ stored') <= MaxLag

(* An ingested message registers its conversation.                         *)
Registered == known' = (known \/ stored' # stored)

(* A person posts at the top level or in a thread.                         *)
PersonPosts ==
    /\ PersonFirst \/ \E i \in DOMAIN slack : FromAgent(i)
    /\ \E t \in {0} \cup {i \in DOMAIN slack : IsRoot(i)} : Posted(NoAgent, t, FALSE)
    /\ Registered
    /\ UNCHANGED <<calls, faults>>

(* Seeded defect: a row under the ts of the message that follows.          *)
Ingest_WrongKey ==
    /\ \E i \in DOMAIN slack \ stored : stored' = stored \cup {i + 1}
    /\ Registered
    /\ UNCHANGED <<slack, unnamed, calls, faults>>

(* A message that has waited for its event is stored.                      *)
Ingest ==
    /\ \E i \in DOMAIN slack \ stored : Row(i, slack[i].by)
    /\ Registered
    /\ UNCHANGED <<slack, calls, faults>>

(* agent_send_veto passes; a veto is returned to the caller and changes    *)
(* nothing.                                                                *)
Check(s) ==
    /\ pc[s] = "idle"
    /\ \E t \in {0} \cup {i \in DOMAIN slack : IsRoot(i)} :
        /\ ~Vetoed(t)
        /\ thread' = [thread EXCEPT ![s] = t]
    /\ pc' = [pc EXCEPT ![s] = "lookup"]
    /\ UNCHANGED <<slack, inbox, note, faults>>

(* Seeded defect: the conversation is registered before the post.          *)
Lookup_Registers(s) ==
    /\ pc[s] = "lookup"
    /\ note' = [note EXCEPT ![s] = IsDm /\ thread[s] = 0 /\ ~known]
    /\ known' = TRUE
    /\ pc' = [pc EXCEPT ![s] = "post"]
    /\ UNCHANGED <<slack, stored, unnamed, thread, faults>>

(* channel_known decides whether the introductory note is appended.        *)
Lookup(s) ==
    /\ pc[s] = "lookup"
    /\ note' = [note EXCEPT ![s] = IsDm /\ thread[s] = 0 /\ ~known]
    /\ pc' = [pc EXCEPT ![s] = "post"]
    /\ UNCHANGED <<slack, inbox, thread, faults>>

End(s) == /\ pc' = [pc EXCEPT ![s] = "idle"]
          /\ thread' = [thread EXCEPT ![s] = 0]
          /\ note' = [note EXCEPT ![s] = FALSE]

(* chat.postMessage, or a file share with the text as its comment.         *)
Post(s) ==
    /\ pc[s] \in {"post", "repost"}
    /\ Posted(AgentOf[s], thread[s], note[s])
    /\ Registered
    /\ IF note[s] THEN pc' = [pc EXCEPT ![s] = "register"] /\ UNCHANGED <<thread, note>>
       ELSE End(s)
    /\ UNCHANGED faults

(* The message is out when the connection is lost: slack_sdk's default     *)
(* handler sends the request once more.                                    *)
PostLost(s) ==
    /\ pc[s] = "post"
    /\ faults < MaxFaults
    /\ faults' = faults + 1
    /\ Posted(AgentOf[s], thread[s], note[s])
    /\ Registered
    /\ pc' = [pc EXCEPT ![s] = "repost"]
    /\ UNCHANGED <<thread, note>>

(* SlackApiError: the error is returned and nothing is registered.         *)
PostRefused(s) ==
    /\ pc[s] \in {"post", "repost"}
    /\ End(s)
    /\ UNCHANGED <<slack, inbox, faults>>

(* Seeded defect: the first contact is not registered.                     *)
Register_Forgotten(s) ==
    /\ pc[s] = "register"
    /\ End(s)
    /\ UNCHANGED <<slack, inbox, faults>>

(* register_channel(posted_channel, "im"), after the first contact.        *)
Register(s) ==
    /\ pc[s] = "register"
    /\ known' = TRUE
    /\ End(s)
    /\ UNCHANGED <<slack, stored, unnamed, faults>>

(* The call dies between two of its steps.                                 *)
Die(s) ==
    /\ pc[s] # "idle"
    /\ faults < MaxFaults
    /\ faults' = faults + 1
    /\ End(s)
    /\ UNCHANGED <<slack, inbox>>

Next ==
    \/ PersonPosts
    \/ Ingest
    \/ \E s \in Sender :
        \/ Check(s) \/ Lookup(s) \/ Post(s) \/ PostLost(s) \/ PostRefused(s)
        \/ Register(s) \/ Die(s)

Spec == Init /\ [][Next]_vars
--------------------------------------------------------------------------------
(* The messages of `agents` that end a scope, in Slack itself.             *)
Turns(t, agents) ==
    AgentRun({i \in DOMAIN slack : InConversationScope(i, t)}, agents)

Scopes == {0} \cup {i \in DOMAIN slack : IsRoot(i)}

(* "At most AGENT_TURN_BUDGET consecutive agent messages in a conversation *)
(* scope" (guardrails.py).                                                 *)
TurnBudget == \A t \in Scopes : Turns(t, FromAgents) <= Budget

(* What the guardrail does achieve while its window covers the             *)
(* conversation: it is overrun by no more than the sends that were let     *)
(* through together, the messages ingest had not stored when they were,    *)
(* and the posts the SDK repeated.  A file share that ingest has taken for *)
(* a bot's ends a run, as a person's message does.                         *)
InFlight(t) ==
    Cardinality({s \in Sender : pc[s] \in {"lookup", "post", "repost"} /\ thread[s] = t})

TurnBudgetWithSlack ==
    \A t \in Scopes :
        Turns(t, Attributed) + InFlight(t) <=
            Budget - 1 + MaxLag + Cardinality(Sender) + faults

(* The note is "appended automatically to the first message an agent ever  *)
(* sends into a DM conversation" (send_message.py); a send that was        *)
(* refused, or died, does not use it up.                                   *)
NoteOnFirstMessage ==
    IsDm => \A i \in DOMAIN slack :
        FromAgent(i) /\ (\A j \in 1..(i - 1) : ~FromAgent(j)) => slack[i].note

(* "The intro note would repeat forever" (send_message.py, on what the     *)
(* registration after the first contact prevents): however far ingest is   *)
(* behind, the note is repeated only by sends that overlap the first one   *)
(* or follow one that died before it registered, and by the SDK's repeats. *)
NotesBounded ==
    Cardinality({i \in DOMAIN slack : slack[i].note}) <= Cardinality(Sender) + faults
================================================================================
