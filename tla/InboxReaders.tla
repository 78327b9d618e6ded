------------------------------ MODULE InboxReaders ------------------------------
(***************************************************************************)
(* One agent identity reading its inbox: check_messages sweeps the stored  *)
(* messages behind a cursor, wait_for_messages subscribes to the push,     *)
(* drains the backlog with the same sweep and then takes events.  Several  *)
(* calls of the identity may run at once (a client that timed out leaves   *)
(* its Lambda running), while ingest stores, registers and publishes       *)
(* messages in several containers.  Every DynamoDB call and every publish  *)
(* is a step of its own.                                                   *)
(***************************************************************************)
EXTENDS Naturals, Sequences, FiniteSets, FiniteSetsExt

CONSTANTS
    Channel, User,
    Message,        \* <<channel, ts>> pairs that get posted
    Own,            \* those stored with the reader's own agent_id
    Mention,        \* those whose mentions_agents hold the reader
    DmOf,           \* DmOf[u]: the reader's DM conversation with user u
    Session,        \* the identity's clients, whose calls may run at once
    Calls,          \* Calls[s]: the calls that client s makes
    NoChannel,      \* where a sweep is before its first conversation
    Limit,          \* messages_after's page limit
    MaxLosses       \* bound: calls that end without an answer

Filter == {"all", "mentions"}
CallType == [kind : {"check", "wait"}, args : SUBSET (Channel \cup User), filter : Filter]

ASSUME MessageAssumption ==
    /\ Message \subseteq Channel \X (Nat \ {0})
    /\ Own \subseteq Message
    /\ Mention \subseteq Message
    /\ DmOf \in [User -> Channel]
    /\ Channel \cap User = {}
    /\ Calls \in [Session -> SUBSET CallType]
ASSUME LimitAssumption == Limit \in Nat \ {0} /\ MaxLosses \in Nat

ChannelOf(m) == m[1]
TsOf(m) == m[2]
Older(m, n) == ChannelOf(m) = ChannelOf(n) /\ TsOf(m) < TsOf(n)
View == Channel \X Filter
Position == {0} \cup {TsOf(m) : m \in Message}

VARIABLES
    stored,       \* the CH#/TS# rows
    registering,  \* messages whose ingest is about to write the CHANNELS row
    known,        \* the CHANNELS rows
    publishing,   \* messages whose ingest is about to publish them
    published,    \* messages that went out as events
    cursor,       \* CURSOR# rows, one per (channel, filter) view; 0 if absent
    session,      \* what each running call is doing
    handed,       \* <<message, filter>>: in the answer of such a call that ended
    late,         \* messages overtaken by a newer one of their conversation
    beyond,       \* <<message, filter>>: rows a wait left unread for its events
    losses        \* calls that ended without an answer

ingest == <<stored, registering, known, publishing, published, late>>
vars == <<ingest, cursor, session, handed, beyond, losses>>

Idle == [pc |-> "idle"]
Running == [pc : {"connect", "list", "scan", "query", "advance", "await", "respond"},
            call : CallType,
            live : BOOLEAN,                \* subscribed to the push
            noise : BOOLEAN,               \* a frame to pass over has come in
            todo : SUBSET Channel,         \* conversations still to be read
            at : Channel \cup {NoChannel}, \* the one being read
            seen : Position,               \* its cursor as read
            page : SUBSET Message,         \* its items as read
            left : SUBSET Message,         \* unread rows beyond a wait's pages
            out : SUBSET Message,          \* new_messages so far
            queue : Seq(Message)]          \* pushed frames not taken yet

TypeOK ==
    /\ stored \subseteq Message
    /\ registering \subseteq stored /\ publishing \subseteq stored
    /\ published \subseteq stored /\ late \subseteq stored
    /\ known \subseteq Channel
    /\ cursor \in [View -> Position]
    /\ session \in [Session -> Running \cup {Idle}]
    /\ handed \subseteq Message \X Filter
    /\ beyond \subseteq Message \X Filter
    /\ losses \in 0..MaxLosses

Init ==
    /\ stored = {} /\ registering = {} /\ known = {}
    /\ publishing = {} /\ published = {} /\ late = {}
    /\ cursor = [v \in View |-> 0]
    /\ session = [s \in Session |-> Idle]
    /\ handed = {} /\ beyond = {} /\ losses = 0
--------------------------------------------------------------------------------
(* resolve_conversation: a user id stands for the DM with that user.       *)
Resolve(id) == IF id \in User THEN DmOf[id] ELSE id

(* The conversations a call reads: those named, else every known one.      *)
Targets(call) ==
    IF call.args = {} THEN known ELSE {Resolve(id) : id \in call.args}

(* The conversations a call speaks of, in the caller's terms ...           *)
InScope(call, ch) == call.args = {} \/ ch \in {Resolve(id) : id \in call.args}

(* ... and those of which a wait takes events: the ids as they were given. *)
Watched(call, ch) == call.args = {} \/ ch \in call.args

(* The filters applied to an item before it is returned.                   *)
Passes(m, filter) ==
    /\ m \notin Own
    /\ filter = "mentions" => m \in Mention

(* Seeded defect: all filters of a conversation share one cursor.          *)
CursorScope_Shared(ch, filter) == <<ch, "all">>

(* cursor_scope: each (channel, filter) view has a cursor of its own.      *)
CursorScope(ch, filter) == <<ch, filter>>

(* Seeded defect: a page of the newest rows.                               *)
MessagesAfter_Newest(ch, after) ==
    LET above == {m \in stored : ChannelOf(m) = ch /\ TsOf(m) > after}
    IN  {m \in above : Cardinality({n \in above : TsOf(n) >= TsOf(m)}) <= Limit}

Above(ch, after) == {m \in stored : ChannelOf(m) = ch /\ TsOf(m) > after}

(* messages_after: the first Limit rows of ch above `after`, oldest first. *)
MessagesAfter(ch, after) ==
    {m \in Above(ch, after) :
        Cardinality({n \in Above(ch, after) : TsOf(n) <= TsOf(m)}) <= Limit}

(* Seeded defect: the first ts not read yet, for a cursor that is the last *)
(* one read.                                                               *)
NewestTs_Beyond(page) == Max({TsOf(m) : m \in page}) + 1

NewestTs(page) == Max({TsOf(m) : m \in page})
--------------------------------------------------------------------------------
(* Seeded defect: the backlog is drained before the subscription is made.  *)
Subscribed_AfterBacklog(s, m) ==
    /\ session[s].pc = "await"
    /\ Cardinality(session[s].call.args) = 1 => ChannelOf(m) \in session[s].call.args

(* The push.  A wait that names one id subscribes to slack/messages/<id>,  *)
(* the id as the caller gave it; any other wait to every conversation.     *)
Subscribed(s, m) ==
    /\ session[s] # Idle
    /\ session[s].live
    /\ Cardinality(session[s].call.args) = 1 => ChannelOf(m) \in session[s].call.args

Push(m) ==
    session' = [s \in Session |->
        IF Subscribed(s, m) THEN [session[s] EXCEPT !.queue = Append(@, m)]
        ELSE session[s]]

(* Ingest puts a message's row; events may reach its containers, and their *)
(* puts the table, out of order.                                           *)
Store(m) ==
    /\ m \in Message \ stored
    /\ stored' = stored \cup {m}
    /\ registering' = registering \cup {m}
    /\ late' = late \cup {x \in {m} : \E n \in stored : Older(m, n)}
    /\ UNCHANGED <<known, publishing, published, cursor, session, handed, beyond, losses>>

(* Then it puts the row of the conversation.                               *)
Register(m) ==
    /\ m \in registering
    /\ registering' = registering \ {m}
    /\ known' = known \cup {ChannelOf(m)}
    /\ publishing' = publishing \cup {m}
    /\ UNCHANGED <<stored, published, late, cursor, session, handed, beyond, losses>>

(* Then it publishes, in whatever order the containers get to it.          *)
Publish(m) ==
    /\ m \in publishing
    /\ publishing' = publishing \ {m}
    /\ published' = published \cup {m}
    /\ late' = late \cup {n \in stored \ published : Older(n, m)}
    /\ Push(m)
    /\ UNCHANGED <<stored, registering, known, cursor, handed, beyond, losses>>

(* The publish fails, or the container dies first: a redelivery finds the  *)
(* row and does nothing more.                                              *)
IngestDies(m) ==
    /\ m \in registering \cup publishing
    /\ registering' = registering \ {m}
    /\ publishing' = publishing \ {m}
    /\ UNCHANGED <<stored, known, published, late, cursor, session, handed, beyond,
                   losses>>

(* send_message, list_dms and find_channel register conversations as well. *)
RegisterElsewhere(ch) ==
    /\ known' = known \cup {ch}
    /\ UNCHANGED <<stored, registering, publishing, published, late, cursor, session,
                   handed, beyond, losses>>
--------------------------------------------------------------------------------
At(s, phase) == session[s].pc = phase

Start(s, call) ==
    /\ At(s, "idle")
    /\ session' = [session EXCEPT ![s] =
          [pc |-> IF call.kind = "wait" THEN "connect" ELSE "list",
           call |-> call, live |-> FALSE, noise |-> FALSE, todo |-> {},
           at |-> NoChannel, seen |-> 0, page |-> {}, left |-> {}, out |-> {},
           queue |-> <<>>]]
    /\ UNCHANGED <<ingest, cursor, handed, beyond, losses>>

(* wait_for_messages subscribes first, then drains the backlog.            *)
Connect(s) ==
    /\ At(s, "connect")
    /\ session' = [session EXCEPT ![s].pc = "list", ![s].live = TRUE]
    /\ UNCHANGED <<ingest, cursor, handed, beyond, losses>>

(* An error frame, a refused connection or no acknowledgement within the   *)
(* time-out: the wait answers with an error and has read nothing.          *)
ConnectFails(s) ==
    /\ At(s, "connect")
    /\ session' = [session EXCEPT ![s] = Idle]
    /\ UNCHANGED <<ingest, cursor, handed, beyond, losses>>

(* resolve_conversation of each argument, or list_known_channels.          *)
ListTargets(s) ==
    /\ At(s, "list")
    /\ session' = [session EXCEPT ![s].pc = "scan", ![s].todo = Targets(session[s].call)]
    /\ UNCHANGED <<ingest, cursor, handed, beyond, losses>>

(* get_cursor of the next conversation of the sweep.                       *)
ReadCursor(s) ==
    /\ At(s, "scan")
    /\ \E ch \in session[s].todo :
        session' = [session EXCEPT ![s].pc = "query",
                                   ![s].at = ch,
                                   ![s].todo = @ \ {ch},
                                   ![s].seen = cursor[CursorScope(ch, session[s].call.filter)]]
    /\ UNCHANGED <<ingest, cursor, handed, beyond, losses>>

(* messages_after of the cursor read; an empty page ends the conversation. *)
(* What a full page leaves for later a check will read, a wait may not.    *)
Query(s) ==
    LET r == session[s]
        page == MessagesAfter(r.at, r.seen)
        rest == {m \in Above(r.at, r.seen) \ page : Passes(m, r.call.filter)} IN
    /\ At(s, "query")
    /\ session' = [session EXCEPT ![s].pc = IF page = {} THEN "scan" ELSE "advance",
                                  ![s].page = page,
                                  ![s].left = IF r.call.kind = "wait" THEN @ \cup rest ELSE @]
    /\ UNCHANGED <<ingest, cursor, handed, beyond, losses>>

(* Seeded defect: a page with nothing to return moves no cursor.           *)
Advance_OnlyReturned(s) ==
    LET filter == session[s].call.filter
        page == session[s].page
        passing == {m \in page : Passes(m, filter)} IN
    /\ session[s].pc = "advance"
    /\ cursor' = IF passing = {} THEN cursor
                 ELSE [cursor EXCEPT ![CursorScope(session[s].at, filter)] = NewestTs(page)]
    /\ session' = [session EXCEPT ![s].pc = "scan",
                                  ![s].page = {},
                                  ![s].out = @ \cup passing]
    /\ UNCHANGED <<ingest, handed, beyond, losses>>

(* set_cursor past the whole page, then filter it into the answer.         *)
Advance(s) ==
    LET filter == session[s].call.filter
        page == session[s].page IN
    /\ At(s, "advance")
    /\ cursor' = [cursor EXCEPT ![CursorScope(session[s].at, filter)] = NewestTs(page)]
    /\ session' = [session EXCEPT ![s].pc = "scan",
                                  ![s].page = {},
                                  ![s].out = @ \cup {m \in page : Passes(m, filter)}]
    /\ UNCHANGED <<ingest, handed, beyond, losses>>

(* The sweep is done: a check answers, and so does a wait that found       *)
(* something ...                                                           *)
ScanAnswers(s) ==
    /\ At(s, "scan")
    /\ session[s].todo = {}
    /\ session[s].call.kind = "check" \/ session[s].out # {}
    /\ session' = [session EXCEPT ![s].pc = "respond", ![s].left = {}]
    /\ UNCHANGED <<ingest, cursor, handed, beyond, losses>>

(* ... any other wait turns to its events.                                 *)
ScanEmpty(s) ==
    /\ At(s, "scan")
    /\ session[s].todo = {}
    /\ session[s].call.kind = "wait" /\ session[s].out = {}
    /\ session' = [session EXCEPT ![s].pc = "await", ![s].left = {}]
    /\ beyond' = beyond \cup (session[s].left \X {session[s].call.filter})
    /\ UNCHANGED <<ingest, cursor, handed, losses>>

(* next_event: an event of an unwatched conversation is dropped; any other *)
(* sets the cursor to its ts and is returned if it passes the filters.     *)
TakeEvent(s) ==
    LET m == Head(session[s].queue)
        call == session[s].call
        watched == Watched(call, ChannelOf(m)) IN
    /\ At(s, "await")
    /\ session[s].queue # <<>>
    /\ IF watched
       THEN cursor' = [cursor EXCEPT ![CursorScope(ChannelOf(m), call.filter)] = TsOf(m)]
       ELSE UNCHANGED cursor
    /\ session' = [session EXCEPT
          ![s].queue = Tail(@),
          ![s].pc = IF watched /\ Passes(m, call.filter) THEN "respond" ELSE "await",
          ![s].out = IF watched /\ Passes(m, call.filter) THEN {m} ELSE {}]
    /\ UNCHANGED <<ingest, handed, beyond, losses>>

(* A keep-alive comes in, or an event of some other conversation that the  *)
(* wait does not watch: there is no end of them ...                        *)
NoiseComes(s) ==
    /\ At(s, "await")
    /\ session' = [session EXCEPT ![s].noise = TRUE]
    /\ UNCHANGED <<ingest, cursor, handed, beyond, losses>>

(* ... and next_event keeps waiting.                                       *)
PassOver(s) ==
    /\ At(s, "await")
    /\ session[s].noise
    /\ session' = [session EXCEPT ![s].noise = FALSE]
    /\ UNCHANGED <<ingest, cursor, handed, beyond, losses>>

(* Seeded defect: each frame starts the time-out again.                    *)
Timeout_OnSilence(s) ==
    /\ session[s].pc = "await"
    /\ session[s].queue = <<>> /\ ~session[s].noise
    /\ session' = [session EXCEPT ![s].pc = "respond"]
    /\ UNCHANGED <<ingest, cursor, handed, beyond, losses>>

(* The deadline, which next_event looks at before every frame, passes,     *)
(* whatever is still in the socket.                                        *)
Timeout(s) ==
    /\ At(s, "await")
    /\ session' = [session EXCEPT ![s].pc = "respond", ![s].noise = FALSE]
    /\ UNCHANGED <<ingest, cursor, handed, beyond, losses>>

(* The answer goes out; a wait closes its subscription.                    *)
Respond(s) ==
    /\ At(s, "respond")
    /\ handed' = handed \cup (session[s].out \X {session[s].call.filter})
    /\ session' = [session EXCEPT ![s] = Idle]
    /\ UNCHANGED <<ingest, cursor, beyond, losses>>

(* The call ends without an answer: an exception in the middle of the      *)
(* sweep or of the wait, the Lambda's timeout, or a client that is gone.   *)
LoseReply(s) ==
    /\ ~At(s, "idle")
    /\ losses < MaxLosses
    /\ losses' = losses + 1
    /\ handed' = handed \cup (session[s].out \X {session[s].call.filter})
    /\ session' = [session EXCEPT ![s] = Idle]
    /\ UNCHANGED <<ingest, cursor, beyond>>

CallStep(s) ==
    \/ Connect(s) \/ ConnectFails(s) \/ ListTargets(s)
    \/ ReadCursor(s) \/ Query(s) \/ Advance(s) \/ ScanAnswers(s) \/ ScanEmpty(s)
    \/ TakeEvent(s) \/ PassOver(s)
    \/ Respond(s)

Next ==
    \/ \E m \in Message : Store(m) \/ Register(m) \/ Publish(m) \/ IngestDies(m)
    \/ \E ch \in Channel : RegisterElsewhere(ch)
    \/ \E s \in Session :
        \/ \E call \in Calls[s] : Start(s, call)
        \/ CallStep(s) \/ Timeout(s)
        \/ NoiseComes(s) \/ LoseReply(s)

Spec == Init /\ [][Next]_vars

(* check_messages' "right default for a monitoring loop".                  *)
Sweep == [kind |-> "check", args |-> {}, filter |-> "all"]

(* A running call goes on, its deadline comes whatever else does, and a    *)
(* client in a monitoring loop sweeps again and again.                     *)
Fairness == \A s \in Session :
    /\ WF_vars(CallStep(s))
    /\ WF_vars(Timeout(s))
    /\ Sweep \in Calls[s] => SF_vars(Start(s, Sweep))

FairSpec == Spec /\ Fairness
--------------------------------------------------------------------------------
(* m is on its way to the client in a call under the given filter.         *)
InHand(m, filter) ==
    \E s \in Session : /\ session[s] # Idle
                       /\ session[s].call.filter = filter
                       /\ m \in session[s].out

Handed(m, filter) == <<m, filter>> \in handed \/ InHand(m, filter)

Behind(m, filter) == TsOf(m) <= cursor[<<ChannelOf(m), filter>>]

(* "Nothing is ever lost" (DESIGN.md, agent offline): a message behind the *)
(* cursor of a view, which no later read of the view will look at, has     *)
(* been in an answer of that view or is in the answer of a running call -  *)
(* unless ingest stored or published a newer message of the conversation   *)
(* first.                                                                  *)
NothingSkipped ==
    \A m \in stored \ late, filter \in Filter :
        Passes(m, filter) /\ Behind(m, filter) => Handed(m, filter)

(* What the code does keep of it, with any number of calls that overlap or *)
(* die, ingest in any order, own posts and other filters: all that makes a *)
(* view skip a message is a newer one of the conversation that ingest      *)
(* stored or published first, or a wait whose full page had nothing for it.*)
SkippedForCause ==
    \A m \in stored \ late, filter \in Filter :
        Passes(m, filter) /\ Behind(m, filter) =>
            Handed(m, filter) \/ <<m, filter>> \in beyond

(* "The cursor dedupes the overlap" (wait_for_messages.py): a message that *)
(* reaches a client by the sweep and by the push is handed over once.      *)
NoRepeats ==
    \A s \in Session : At(s, "respond") =>
        (session[s].out \X {session[s].call.filter}) \cap handed = {}

(* A filtered read "only advances that filter's cursor", and an unwatched  *)
(* conversation's messages "remain new for whoever does watch them": a     *)
(* cursor is moved only by a running call of its filter that covers its    *)
(* conversation.                                                           *)
CursorMovesForItsView ==
    [][\A ch \in Channel, filter \in Filter :
          cursor'[<<ch, filter>>] # cursor[<<ch, filter>>] =>
              \E s \in Session : /\ session[s] # Idle
                                 /\ session[s].call.filter = filter
                                 /\ InScope(session[s].call, ch)]_vars

(* "A message landing between the two is caught by at least one path"      *)
(* (wait_for_messages.py): when a wait times out, each message of what it  *)
(* watches that was published has been handed on, is in the socket still,  *)
(* or was passed over for one of the two causes above.                     *)
TimeoutMeansQuiet ==
    [][\A s \in Session : Timeout(s) =>
          LET call == session[s].call IN
          \A m \in published \ late :
              Watched(call, ChannelOf(m)) /\ Passes(m, call.filter) =>
                  \/ Handed(m, call.filter)
                  \/ <<m, call.filter>> \in beyond
                  \/ \E i \in DOMAIN session[s].queue : session[s].queue[i] = m]_vars

(* Every call ends: no endless stream of frames that it passes over keeps  *)
(* a wait from its deadline.                                               *)
EveryCallEnds == \A s \in Session : session[s] # Idle ~> session[s] = Idle

(* An agent that keeps checking gets every message of a conversation that  *)
(* is registered, page by page, with the causes above for exceptions.      *)
EventuallyReturned ==
    \A m \in Message :
        m \in stored /\ ChannelOf(m) \in known /\ Passes(m, "all")
            ~> <<m, "all">> \in handed \cup beyond \/ m \in late
================================================================================
