------------------------------ MODULE GroupDmPull ------------------------------
(***************************************************************************)
(* The on-demand pull of one group DM (sharedModules/mpim.py).  Slack      *)
(* pushes nothing for a group DM, so every check_messages that names it    *)
(* fetches what is newer than the newest stored row and writes it to the   *)
(* inbox.  The checks of several agents run at once and each can die       *)
(* between any two of its calls.                                           *)
(*                                                                         *)
(* Slack numbers the conversation's messages 1, 2, ... in posting order.   *)
(***************************************************************************)
EXTENDS Naturals

CONSTANTS
    Agent,
    Puller,      \* checks that may run at once
    MaxTs,       \* bound on the messages posted
    AuthorOf,    \* AuthorOf[t]: the agent whose bot posted t, or NoAgent
    Ignored,     \* rows whose subtype is in IGNORED_SUBTYPES
    NoAgent, NoRow,
    PageLimit,   \* HISTORY_LIMIT
    OldestPage,  \* a history page too small for the gap holds its oldest end
    MaxFaults    \* bound on the faults explored

Ts == 1..MaxTs
Unnamed == {NoAgent}   \* the agent map of a puller that has not read it yet

ASSUME HistoryAssumption ==
    /\ MaxTs \in Nat
    /\ AuthorOf \in [Ts -> Agent \cup {NoAgent}]
    /\ Ignored \subseteq Ts
ASSUME MarkerAssumption ==
    /\ NoAgent \notin Agent
    /\ NoRow \notin Agent \cup {NoAgent}
ASSUME BoundAssumption ==
    /\ PageLimit \in Nat \ {0}
    /\ OldestPage \in BOOLEAN
    /\ MaxFaults \in Nat

VARIABLES
    posted,     \* Slack holds messages 1..posted
    row,        \* row[t]: the agent_id stored under TS#t, or NoRow
    isMpim,     \* the CHANNELS row says channel_type "mpim"
    agents,     \* AGENTS items
    pc,         \* what each puller is doing
    oldest,     \* the `oldest` it asks history for
    page,       \* the history rows it has still to write
    map,        \* its bot-user-to-agent map
    faults

pullers == <<pc, oldest, page, map>>
vars == <<posted, row, isMpim, agents, pullers, faults>>

Phase == {"idle", "fetch", "map", "write"}

TypeOK ==
    /\ posted \in 0..MaxTs
    /\ row \in [Ts -> Agent \cup {NoAgent, NoRow}]
    /\ isMpim \in BOOLEAN
    /\ agents \subseteq Agent
    /\ pc \in [Puller -> Phase]
    /\ oldest \in [Puller -> 0..MaxTs]
    /\ page \in [Puller -> SUBSET Ts]
    /\ map \in [Puller -> (SUBSET Agent) \cup {Unnamed}]
    /\ faults \in 0..MaxFaults

Init ==
    /\ posted = 0
    /\ row = [t \in Ts |-> NoRow]
    /\ isMpim = FALSE
    /\ agents \in SUBSET Agent
    /\ pc = [p \in Puller |-> "idle"]
    /\ oldest = [p \in Puller |-> 0]
    /\ page = [p \in Puller |-> {}]
    /\ map = [p \in Puller |-> Unnamed]
    /\ faults = 0
--------------------------------------------------------------------------------
Stored(t) == row[t] # NoRow

(* Somebody posts in the group DM.                                         *)
Post ==
    /\ posted < MaxTs
    /\ posted' = posted + 1
    /\ UNCHANGED <<row, isMpim, agents, pullers, faults>>

(* list_dms (or find_channel) meets the group DM and registers it.         *)
Discover ==
    /\ isMpim' = TRUE
    /\ UNCHANGED <<posted, row, agents, pullers, faults>>

RegisterAgent(a) ==
    /\ agents' = agents \cup {a}
    /\ UNCHANGED <<posted, row, isMpim, pullers, faults>>

(* Seeded defect: every pull starts from the beginning.                    *)
IsLatestStored_Zero(t) == t = 0

(* _latest_stored_ts.                                                      *)
IsLatestStored(t) ==
    /\ t = 0 \/ (t \in Ts /\ Stored(t))
    /\ \A u \in Ts : Stored(u) => u <= t

(* _pull_if_group_dm: only a conversation known as a group DM is pulled.   *)
Begin(p) ==
    /\ pc[p] = "idle"
    /\ isMpim
    /\ \E t \in 0..MaxTs : IsLatestStored(t) /\ oldest' = [oldest EXCEPT ![p] = t]
    /\ pc' = [pc EXCEPT ![p] = "fetch"]
    /\ UNCHANGED <<posted, row, isMpim, agents, page, map, faults>>

(* conversations.history with oldest, exclusive, and a limit: everything   *)
(* above `from`, or one end of it when that is more than a page.           *)
History(from) ==
    IF posted <= from + PageLimit THEN (from + 1)..posted
    ELSE IF OldestPage THEN (from + 1)..(from + PageLimit)
    ELSE (posted + 1 - PageLimit)..posted

(* pull_mpim_history's call, with the newest stored ts as `oldest`.        *)
Fetch(p) ==
    /\ pc[p] = "fetch"
    /\ page' = [page EXCEPT ![p] = History(oldest[p])]
    /\ pc' = [pc EXCEPT ![p] = "map"]
    /\ UNCHANGED <<posted, row, isMpim, agents, oldest, map, faults>>

(* A puller's locals go with it.                                           *)
End(p) == /\ pc' = [pc EXCEPT ![p] = "idle"]
          /\ oldest' = [oldest EXCEPT ![p] = 0]
          /\ page' = [page EXCEPT ![p] = {}]
          /\ map' = [map EXCEPT ![p] = Unnamed]

(* SlackApiError: nothing is pulled and nothing registered.                *)
FetchRefused(p) ==
    /\ pc[p] = "fetch"
    /\ faults < MaxFaults
    /\ faults' = faults + 1
    /\ End(p)
    /\ UNCHANGED <<posted, row, isMpim, agents>>

(* _agent_by_bot_user, read anew by every pull.                            *)
ReadAgents(p) ==
    /\ pc[p] = "map"
    /\ map' = [map EXCEPT ![p] = agents]
    /\ pc' = [pc EXCEPT ![p] = "write"]
    /\ UNCHANGED <<posted, row, isMpim, agents, oldest, page, faults>>

(* Seeded defect: the page is written in the order it came.                *)
NextToWrite_NewestFirst(p, t) == t \in page[p] /\ \A u \in page[p] : u <= t

(* The next row, oldest first: the page is reversed before it is written.  *)
NextToWrite(p, t) == t \in page[p] /\ \A u \in page[p] : t <= u

AttributedAgent(t, known) == IF AuthorOf[t] \in known THEN AuthorOf[t] ELSE NoAgent

(* Seeded defect: the put without its condition.                           *)
Write_Unconditional(p) ==
    /\ pc[p] = "write"
    /\ \E t \in page[p] :
        /\ NextToWrite(p, t)
        /\ row' = IF t \in Ignored THEN row
                  ELSE [row EXCEPT ![t] = AttributedAgent(t, map[p])]
        /\ page' = [page EXCEPT ![p] = @ \ {t}]
    /\ UNCHANGED <<posted, isMpim, agents, pc, oldest, map, faults>>

(* A conditional put, so a row another pull wrote first stays as it is;    *)
(* edits, deletions and joins are passed over.                             *)
Write(p) ==
    /\ pc[p] = "write"
    /\ \E t \in page[p] :
        /\ NextToWrite(p, t)
        /\ row' = IF t \in Ignored \/ Stored(t) THEN row
                  ELSE [row EXCEPT ![t] = AttributedAgent(t, map[p])]
        /\ page' = [page EXCEPT ![p] = @ \ {t}]
    /\ UNCHANGED <<posted, isMpim, agents, pc, oldest, map, faults>>

(* register_channel(channel, "mpim"), the pull's last call.                *)
Register(p) ==
    /\ pc[p] = "write"
    /\ page[p] = {}
    /\ isMpim' = TRUE
    /\ End(p)
    /\ UNCHANGED <<posted, row, agents, faults>>

(* The check dies, by an exception or with its Lambda.                     *)
Die(p) ==
    /\ pc[p] # "idle"
    /\ faults < MaxFaults
    /\ faults' = faults + 1
    /\ End(p)
    /\ UNCHANGED <<posted, row, isMpim, agents>>

PullStep(p) == Fetch(p) \/ ReadAgents(p) \/ Write(p) \/ Register(p)

Next ==
    \/ Post
    \/ Discover
    \/ \E a \in Agent : RegisterAgent(a)
    \/ \E p \in Puller : Begin(p) \/ PullStep(p) \/ FetchRefused(p) \/ Die(p)

Spec == Init /\ [][Next]_vars

(* An agent that has listed its DMs keeps checking the group DM.           *)
Fairness == /\ WF_vars(Discover)
            /\ \A p \in Puller : WF_vars(Begin(p)) /\ WF_vars(PullStep(p))

FairSpec == Spec /\ Fairness
--------------------------------------------------------------------------------
(* "Write oldest-first so the stored maximum ts advances cleanly and the   *)
(* next pull's `oldest` is correct" (mpim.py): no message is missing below *)
(* the newest stored one, whichever pulls overlap and wherever they die.   *)
(* The next pull asks only above the newest stored row, so a message       *)
(* missing below it would never be fetched; and a reader whose cursor is   *)
(* past a missing row never sees it (`late` of InboxReaders).              *)
NoGap ==
    \A t, u \in Ts : t < u /\ Stored(u) /\ t \notin Ignored => Stored(t)

(* What a puller has still to write has no gap either: whatever lies below *)
(* one of its rows is stored, or is its own to write.                      *)
PageContiguous ==
    \A p \in Puller : \A u \in page[p] : \A t \in Ts :
        t < u /\ t \notin Ignored => t \in page[p] \/ Stored(t)

OldestIsStored ==
    \A p \in Puller : oldest[p] \in Ts => Stored(oldest[p])

(* The inductive invariant the proofs rest on.                             *)
PullInv == TypeOK /\ NoGap /\ PageContiguous /\ OldestIsStored

(* Pulls overlap and repeat one another, and still write a row once.       *)
Inbox == INSTANCE InboxLog WITH Message <- Ts,
                                Content <- Agent \cup {NoAgent},
                                notices <- [t \in Ts |-> 0]

ImplementsInbox == Inbox!Spec

(* A group DM that somebody keeps checking is pulled up to its last post.  *)
EventuallyPulled ==
    \A t \in Ts \ Ignored : t <= posted ~> Stored(t)
================================================================================
