------------------------------ MODULE SlackIngest ------------------------------
(***************************************************************************)
(* The Slack Events receiver (slackIngest/app.py).  Slack delivers each    *)
(* event over HTTP and delivers it again when it has not seen a 200 within *)
(* three seconds; each delivery runs the handler in some Lambda container. *)
(* Every call the handler makes to DynamoDB or to AppSync Events is a step *)
(* of its own, so deliveries interleave and die between any two of them.   *)
(***************************************************************************)
EXTENDS Naturals, FiniteSets

CONSTANTS
    Message,      \* (channel, ts) pairs: the keys of the inbox table
    Channel, File, Agent,
    App,          \* the Slack apps whose event URL is the receiver
    Container,    \* Lambda containers; one runs one invocation at a time
    ChannelOf,    \* ChannelOf[m]: the conversation of m
    FilesOf,      \* FilesOf[m]: the files shared in m
    AuthorOf,     \* AuthorOf[m]: the agent whose bot posted m, or NoAgent
    Tagged,       \* messages that carry agent_message metadata
    Mentioning,   \* messages whose text mentions somebody
    Ignored,      \* events whose subtype is in IGNORED_SUBTYPES
    NoAgent,      \* the empty agent_id
    NoRow,        \* a key without a row
    NoDelivery,   \* the job of an idle container
    MaxRetries,   \* deliveries Slack makes after the first
    MaxFaults     \* bound on the faults explored

Delivery == Message \X App

ASSUME MessageAssumption ==
    /\ ChannelOf \in [Message -> Channel]
    /\ FilesOf \in [Message -> SUBSET File]
    /\ AuthorOf \in [Message -> Agent \cup {NoAgent}]
    /\ Tagged \subseteq {m \in Message : AuthorOf[m] \in Agent}
    /\ Mentioning \subseteq Message
    /\ Ignored \subseteq Message
ASSUME MarkerAssumption ==
    /\ NoAgent \notin Agent
    /\ NoRow \notin Agent \cup Message \cup {NoAgent}
ASSUME BoundAssumption == MaxRetries \in Nat /\ MaxFaults \in Nat

VARIABLES
    row,          \* CH#/TS# items: the agent_id stored for m, or NoRow
    fileRow,      \* FILE# items: the message the file was recorded from
    registry,     \* CHANNELS items
    agents,       \* AGENTS items: the agents registered so far
    published,    \* published[m]: events AppSync accepted for m
    pc, job,      \* what each container is doing, and for which delivery
    draft,        \* the agent_id of the item the container is building
    todo,         \* files the container has still to record
    agentMap,     \* _AGENT_BY_BOT_USER of each container
    attempts,     \* attempts[d]: how often Slack has made delivery d
    acked,        \* deliveries Slack saw answered 200 in time
    faults        \* faults so far

table == <<row, fileRow, registry>>
slack == <<attempts, acked>>
vars == <<table, agents, published, pc, job, draft, todo, agentMap, slack, faults>>

Unloaded == {NoAgent}   \* _AGENT_BY_BOT_USER before its first query

Phase == {"idle", "begin", "put", "files", "publish", "respond"}

TypeOK ==
    /\ row \in [Message -> Agent \cup {NoAgent, NoRow}]
    /\ fileRow \in [File -> Message \cup {NoRow}]
    /\ registry \subseteq Channel
    /\ agents \subseteq Agent
    /\ published \in [Message -> Nat]
    /\ pc \in [Container -> Phase]
    /\ job \in [Container -> Delivery \cup {NoDelivery}]
    /\ \A c \in Container : pc[c] # "idle" => job[c] \in Delivery
    /\ draft \in [Container -> Agent \cup {NoAgent}]
    /\ todo \in [Container -> SUBSET File]
    /\ agentMap \in [Container -> (SUBSET Agent) \cup {Unloaded}]
    /\ attempts \in [Delivery -> 0..MaxRetries + 1]
    /\ acked \subseteq Delivery
    /\ faults \in 0..MaxFaults

Init ==
    /\ row = [m \in Message |-> NoRow]
    /\ fileRow = [f \in File |-> NoRow]
    /\ registry = {}
    /\ agents \in SUBSET Agent
    /\ published = [m \in Message |-> 0]
    /\ pc = [c \in Container |-> "idle"]
    /\ job = [c \in Container |-> NoDelivery]
    /\ draft = [c \in Container |-> NoAgent]
    /\ todo = [c \in Container |-> {}]
    /\ agentMap = [c \in Container |-> Unloaded]
    /\ attempts = [d \in Delivery |-> 0]
    /\ acked = {}
    /\ faults = 0
--------------------------------------------------------------------------------
MessageOf(c) == job[c][1]

Goto(c, phase) == pc' = [pc EXCEPT ![c] = phase]

(* The locals of an invocation go with it.                                 *)
End(c) == /\ Goto(c, "idle")
          /\ job' = [job EXCEPT ![c] = NoDelivery]
          /\ draft' = [draft EXCEPT ![c] = NoAgent]
          /\ todo' = [todo EXCEPT ![c] = {}]

(* Slack makes delivery d, for the first time or again, and a container    *)
(* picks it up.  An earlier delivery of d may still be running elsewhere.  *)
Receive(c, d) ==
    /\ pc[c] = "idle"
    /\ d \notin acked
    /\ attempts[d] <= MaxRetries
    /\ attempts' = [attempts EXCEPT ![d] = @ + 1]
    /\ job' = [job EXCEPT ![c] = d]
    /\ Goto(c, "begin")
    /\ UNCHANGED <<table, agents, published, draft, todo, agentMap, acked, faults>>

(* _valid_signature fails: the request is stamped more than five minutes   *)
(* ago, or signed with a secret this container does not know.  The 401     *)
(* comes before anything is read or written, and Slack tries again.        *)
Reject(c) ==
    /\ pc[c] = "begin"
    /\ faults < MaxFaults
    /\ faults' = faults + 1
    /\ End(c)
    /\ UNCHANGED <<table, agents, published, agentMap, slack>>

(* The early return for an edit, a deletion or channel noise.              *)
Ignore(c) ==
    /\ pc[c] = "begin"
    /\ MessageOf(c) \in Ignored
    /\ Goto(c, "respond")
    /\ UNCHANGED <<table, agents, published, job, draft, todo, agentMap, slack, faults>>

(* _agent_mention_map: the AGENTS rows as this container first read them.  *)
LoadedMap(c) == IF agentMap[c] = Unloaded THEN agents ELSE agentMap[c]

(* Seeded defect: the map is asked without a default.                      *)
AttributedAgent_NoDefault(m, map) ==
    IF m \in Tagged \/ AuthorOf[m] \in map THEN AuthorOf[m] ELSE NoRow

(* agent_id: the metadata's, else the one the posting bot's user id maps   *)
(* to.  The map is consulted, and so loaded, only when one of the two      *)
(* look-ups needs it.                                                      *)
AttributedAgent(m, map) ==
    IF m \in Tagged \/ AuthorOf[m] \in map THEN AuthorOf[m] ELSE NoAgent

Attribute(c) ==
    LET m == MessageOf(c) IN
    /\ pc[c] = "begin"
    /\ m \notin Ignored
    /\ draft' = [draft EXCEPT ![c] = AttributedAgent(m, LoadedMap(c))]
    /\ agentMap' = IF m \in Tagged \ Mentioning THEN agentMap
                   ELSE [agentMap EXCEPT ![c] = LoadedMap(c)]
    /\ Goto(c, "put")
    /\ UNCHANGED <<table, agents, published, job, todo, slack, faults>>

(* Seeded defects: the put without its condition; the put followed at once *)
(* by the publish.                                                         *)
PutNew_Unconditional(c) ==
    LET m == MessageOf(c) IN
    /\ pc[c] = "put"
    /\ row' = [row EXCEPT ![m] = draft[c]]
    /\ todo' = [todo EXCEPT ![c] = FilesOf[m]]
    /\ Goto(c, "files")
    /\ UNCHANGED <<fileRow, registry, agents, published, job, draft, agentMap, slack, faults>>

PutNew_Unrecorded(c) ==
    LET m == MessageOf(c) IN
    /\ pc[c] = "put"
    /\ row[m] = NoRow
    /\ row' = [row EXCEPT ![m] = draft[c]]
    /\ Goto(c, "publish")
    /\ UNCHANGED <<fileRow, registry, agents, published, job, draft, todo, agentMap, slack, faults>>

(* put_item with attribute_not_exists(PK) succeeds.                        *)
PutNew(c) ==
    LET m == MessageOf(c) IN
    /\ pc[c] = "put"
    /\ row[m] = NoRow
    /\ row' = [row EXCEPT ![m] = draft[c]]
    /\ todo' = [todo EXCEPT ![c] = FilesOf[m]]
    /\ Goto(c, "files")
    /\ UNCHANGED <<fileRow, registry, agents, published, job, draft, agentMap, slack, faults>>

(* Seeded defect: any failure of the put is taken for a duplicate.         *)
PutDuplicate_AnyError(c) ==
    /\ pc[c] = "put"
    /\ Goto(c, "respond")
    /\ UNCHANGED <<table, agents, published, job, draft, todo, agentMap, slack, faults>>

(* ConditionalCheckFailedException: the handler returns 200 at once.       *)
PutDuplicate(c) ==
    /\ pc[c] = "put"
    /\ row[MessageOf(c)] # NoRow
    /\ Goto(c, "respond")
    /\ UNCHANGED <<table, agents, published, job, draft, todo, agentMap, slack, faults>>

(* The put is applied but its reply is lost; boto3 sends it again and the  *)
(* handler sees the condition fail on its own row.                         *)
PutReplyLost(c) ==
    LET m == MessageOf(c) IN
    /\ pc[c] = "put"
    /\ row[m] = NoRow
    /\ faults < MaxFaults
    /\ faults' = faults + 1
    /\ row' = [row EXCEPT ![m] = draft[c]]
    /\ Goto(c, "respond")
    /\ UNCHANGED <<fileRow, registry, agents, published, job, draft, todo, agentMap, slack>>

(* One FILE# record; the last message to share a file owns its record.     *)
PutFile(c) ==
    /\ pc[c] = "files"
    /\ \E f \in todo[c] :
        /\ fileRow' = [fileRow EXCEPT ![f] = MessageOf(c)]
        /\ todo' = [todo EXCEPT ![c] = @ \ {f}]
    /\ UNCHANGED <<row, registry, agents, published, pc, job, draft, agentMap, slack, faults>>

(* The CHANNELS row is put without a condition; what it overwrites (type   *)
(* and last_ts) is not read by the sweep and is left out.                  *)
Register(c) ==
    /\ pc[c] = "files"
    /\ todo[c] = {}
    /\ registry' = registry \cup {ChannelOf[MessageOf(c)]}
    /\ Goto(c, "publish")
    /\ UNCHANGED <<row, fileRow, agents, published, job, draft, todo, agentMap, slack, faults>>

(* _publish, whose exceptions the handler swallows.                        *)
Publish(c) ==
    /\ pc[c] = "publish"
    /\ \/ published' = [published EXCEPT ![MessageOf(c)] = @ + 1]
       \/ UNCHANGED published
    /\ Goto(c, "respond")
    /\ UNCHANGED <<table, agents, job, draft, todo, agentMap, slack, faults>>

(* The 200 reaches Slack within three seconds, or too late to count.       *)
Respond(c) ==
    /\ pc[c] = "respond"
    /\ acked' \in {acked, acked \cup {job[c]}}
    /\ End(c)
    /\ UNCHANGED <<table, agents, published, agentMap, attempts, faults>>

(* The invocation ends without an answer: an exception escapes the handler *)
(* (the container stays warm) or all of it dies, at the latest when the  *)
(* function's ten seconds are over.                                        *)
Die(c) ==
    /\ pc[c] # "idle"
    /\ faults < MaxFaults
    /\ faults' = faults + 1
    /\ \/ UNCHANGED agentMap
       \/ agentMap' = [agentMap EXCEPT ![c] = Unloaded]
    /\ End(c)
    /\ UNCHANGED <<table, agents, published, slack>>

(* Lambda retires an idle container.*)
Recycle(c) ==
    /\ pc[c] = "idle"
    /\ agentMap' = [agentMap EXCEPT ![c] = Unloaded]
    /\ UNCHANGED <<table, agents, published, pc, job, draft, todo, slack, faults>>

(* scripts/admin.py register-agents writes an AGENTS row.                  *)
RegisterAgent(a) ==
    /\ agents' = agents \cup {a}
    /\ UNCHANGED <<table, published, pc, job, draft, todo, agentMap, slack, faults>>

HandlerStep(c) ==
    \/ Ignore(c) \/ Attribute(c)
    \/ PutNew(c) \/ PutDuplicate(c)
    \/ PutFile(c) \/ Register(c) \/ Publish(c)
    \/ Respond(c)

Next ==
    \/ \E c \in Container :
        \/ \E d \in Delivery : Receive(c, d)
        \/ HandlerStep(c)
        \/ Reject(c) \/ PutReplyLost(c) \/ Die(c) \/ Recycle(c)
    \/ \E a \in Agent : RegisterAgent(a)

Spec == Init /\ [][Next]_vars

(* A running invocation goes on, and Slack makes a delivery again as long  *)
(* as it is unanswered and a container is free to take it.                 *)
Fairness == /\ \A c \in Container : WF_vars(HandlerStep(c))
            /\ \A d \in Delivery : WF_vars(\E c \in Container : Receive(c, d))

FairSpec == Spec /\ Fairness
--------------------------------------------------------------------------------
(* Between its successful put and its publish a container is the recorder  *)
(* of its message.                                                         *)
Recording(c) == pc[c] \in {"files", "publish"}

(* Everything a message brings with it is in the table: its files and its  *)
(* conversation's registry row.                                            *)
Recorded(m) ==
    /\ \A f \in FilesOf[m] : fileRow[f] # NoRow
    /\ ChannelOf[m] \in registry

(* The conditional put elects one recorder: of all the deliveries of a     *)
(* message that run at once, no two are past the put, and the one that is  *)
(* has a stored, not yet published message.                                *)
OneRecorder ==
    \A c \in Container : Recording(c) =>
        /\ row[MessageOf(c)] # NoRow
        /\ published[MessageOf(c)] = 0
        /\ \A d \in Container :
               Recording(d) /\ MessageOf(d) = MessageOf(c) => d = c

(* A session woken by the push can already act on it: whatever deliveries  *)
(* were lost, repeated or overtaken, a message is published at most once,  *)
(* and only once its row, its files' records (which read_file and          *)
(* download_file look up) and its conversation are all stored.             *)
PublishedOnceAndLast ==
    \A m \in Message :
        published[m] > 0 => published[m] = 1 /\ row[m] # NoRow /\ Recorded(m)

(* "The durable DynamoDB write is the delivery guarantee": once Slack has  *)
(* seen a 200 for a message, and so will not send it again, it is stored.  *)
AckedIsStored ==
    \A d \in acked : d[1] \notin Ignored => row[d[1]] # NoRow

(* How far each invocation has come, as seen in the table.                 *)
InvocationProgress ==
    \A c \in Container :
        LET m == MessageOf(c) IN
        /\ pc[c] = "files" => \A f \in FilesOf[m] \ todo[c] : fileRow[f] # NoRow
        /\ pc[c] = "publish" => Recorded(m)
        /\ pc[c] = "respond" => m \in Ignored \/ row[m] # NoRow

(* The inductive invariant the proofs rest on.                             *)
IngestInv == /\ TypeOK
             /\ OneRecorder
             /\ InvocationProgress
             /\ PublishedOnceAndLast
             /\ AckedIsStored

(* Without a fault a stored message has its records, or the invocation     *)
(* that stored it is still writing them.                                   *)
RecordsUnderway ==
    faults = 0 => \A m \in Message : row[m] # NoRow =>
        Recorded(m) \/ \E c \in Container : Recording(c) /\ MessageOf(c) = m

(* "Lets check_messages sweep every conversation the system has seen"      *)
(* (app.py, above the registry put): whenever no invocation is running, a  *)
(* stored message is in a registered conversation and its files are known. *)
StoredIsRecorded ==
    (\A c \in Container : pc[c] = "idle") =>
        \A m \in Message : row[m] # NoRow => Recorded(m)

(* What holds of it while nothing has failed, however the deliveries of    *)
(* the apps overlap and repeat.                                            *)
StoredIsRecordedUnlessFaulty == faults = 0 => StoredIsRecorded

(* Slack's retries outlast the faults: every message is stored in the end, *)
(* although any one delivery may die before the write.                     *)
EventuallyStored ==
    \A m \in Message \ Ignored : <>(row[m] # NoRow)

(* The receiver implements the inbox: written once, notified at most once  *)
(* and after the write.                                                    *)
Inbox == INSTANCE InboxLog WITH Content <- Agent \cup {NoAgent},
                                notices <- published

ImplementsInbox == Inbox!Spec
================================================================================
