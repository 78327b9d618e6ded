------------------------------- MODULE Directory -------------------------------
(***************************************************************************)
(* The tools that find a conversation (list_channels, find_channel,        *)
(* find_user, list_dms) and the resolution of a user id to a DM that the   *)
(* reading tools share (sharedModules/conversations.py).  Channels and     *)
(* people are listed with the relay's token, direct and group messages     *)
(* with the agent's.  A search is a request per page, and a group DM it    *)
(* meets is registered, one write each.                                    *)
(***************************************************************************)
EXTENDS BearerAuth, Naturals, Sequences

CONSTANTS
    Person, Channel, Group,
    MemberOf,      \* MemberOf[g]: the agents in group DM g
    ChannelPages,  \* conversations.list of channels, page by page
    UserPages,     \* users.list, page by page
    Query,         \* names searched for
    Matching,      \* Matching[q]: the people and conversations q occurs in
    Exact,         \* Exact[q]: those of them named q
    Order,         \* the alphabetical order of names
    MaxMatches,    \* MAX_MATCHES
    Nobody

Dm(a, p) == <<a, p>>
Dms == Agent \X Person
Conversation == Channel \cup Group \cup Dms

ASSUME DirectoryAssumption ==
    /\ MemberOf \in [Group -> SUBSET Agent]
    /\ ChannelPages \in Seq(SUBSET Channel) /\ UserPages \in Seq(SUBSET Person)
    /\ Len(ChannelPages) > 0 /\ Len(UserPages) > 0
    /\ Matching \in [Query -> SUBSET (Person \cup Channel \cup Group)]
    /\ Exact \in [Query -> SUBSET (Person \cup Channel \cup Group)]
    /\ \A q \in Query : Exact[q] \subseteq Matching[q]
    /\ Order \in [Person \cup Channel \cup Group -> Nat]
    /\ MaxMatches \in Nat \ {0}
    /\ Nobody \notin Person \cup Query
    /\ Group \cap (Channel \cup Dms) = {}

(* The pages leave no channel out; of equal names the sort keeps the order *)
(* they were listed in.                                                    *)
ASSUME ListingAssumption ==
    /\ IsFiniteSet(Channel \cup Group)
    /\ Channel = UNION {ChannelPages[i] : i \in 1..Len(ChannelPages)}
    /\ \A g, h \in Channel \cup Group : Order[g] = Order[h] => g = h

VARIABLES
    dms,         \* the direct messages Slack has opened
    registered,  \* group DMs whose CHANNELS row says "mpim"
    untyped,     \* group DMs whose CHANNELS row has lost the type
    opened,      \* dm_channel_for_user's cache, in each container
    task         \* what each call is doing

directory == <<dms, registered, untyped, opened, task>>

Tool == {"list_channels", "find_channel", "find_user", "list_dms", "read_history"}

Task == [pc : {"idle", "index", "page", "groups", "register", "list", "open", "done"},
         tool : Tool, about : Query \cup Person \cup {Nobody}, page : Nat \ {0},
         index : SUBSET Dms, hits : SUBSET (Channel \cup Group \cup Person),
         todo : SUBSET Group, found : SUBSET Conversation, ok : BOOLEAN]
NoTask == [pc |-> "idle", tool |-> "list_channels", about |-> Nobody, page |-> 1,
           index |-> {}, hits |-> {}, todo |-> {}, found |-> {}, ok |-> FALSE]

DirectoryTypeOK ==
    /\ dms \in SUBSET Dms
    /\ registered \in SUBSET Group /\ untyped \in SUBSET Group
    /\ opened \in [Container -> SUBSET (Agent \X Person \X Dms)]
    /\ task \in [Call -> Task]

DirectoryInit ==
    /\ dms = {}
    /\ registered = {} /\ untyped = {}
    /\ opened = [c \in Container |-> {}]
    /\ task = [k \in Call |-> NoTask]
--------------------------------------------------------------------------------
FirstStep(tool) ==
    CASE tool \in {"list_channels", "list_dms"} -> "list"
      [] tool = "find_channel" -> "page"
      [] tool = "find_user" -> "index"
      [] tool = "read_history" -> "open"

(* A tool call: a name to search for, a person's id, or nothing.           *)
BeginTask(k, tool, about) ==
    /\ task[k].pc = "idle"
    /\ about \in CASE tool \in {"find_channel", "find_user"} -> Query
                   [] tool = "read_history" -> Person
                   [] OTHER -> {Nobody}
    /\ task' = [task EXCEPT ![k] = [NoTask EXCEPT !.pc = FirstStep(tool), !.tool = tool,
                                                  !.about = about]]
    /\ UNCHANGED <<dms, registered, untyped, opened>>

EndTask(k) ==
    /\ task' = [task EXCEPT ![k] = NoTask]
    /\ UNCHANGED <<dms, registered, untyped, opened>>

At(k, phase) == task[k].pc = phase

(* The answer is all that is left of a task, with how it was come by.      *)
Answered(k, found) ==
    [task EXCEPT ![k] = [NoTask EXCEPT !.pc = "done", !.tool = task[k].tool,
                                       !.about = task[k].about, !.page = task[k].page,
                                       !.found = found, !.ok = TRUE]]

(* SlackApiError: the tool's answer is the error.                          *)
Refused(k) == [task EXCEPT ![k] = [NoTask EXCEPT !.pc = "done"]]

(* _list_dm_and_group: the agent's own conversations, without the group    *)
(* DMs where the scope for them is missing; or an error.                   *)
DmsOf(a) == {d \in dms : d[1] = a}
GroupsOf(a) == {g \in Group : a \in MemberOf[g]}
Listings(a) == {DmsOf(a) \cup GroupsOf(a), DmsOf(a)}

(* Seeded defect: every match, in the order of the listing, then cut.      *)
BestMatches_Unsorted(q, hits) ==
    {h \in hits : Cardinality({g \in hits : Order[g] < Order[h]}) < MaxMatches}

(* The first MAX_MATCHES of the matches sorted, exact names first.         *)
BestMatches(q, hits) ==
    LET Before(g, h) == \/ g \in Exact[q] /\ h \notin Exact[q]
                        \/ (g \in Exact[q] <=> h \in Exact[q]) /\ Order[g] < Order[h] IN
    {h \in hits : Cardinality({g \in hits : Before(g, h)}) < MaxMatches}

(* list_channels answers with its one page.                                *)
ListChannels(k) ==
    /\ At(k, "list") /\ task[k].tool = "list_channels"
    /\ task' \in {Answered(k, ChannelPages[1]), Refused(k)}
    /\ UNCHANGED <<dms, registered, untyped, opened>>

(* find_user begins with the DMs that exist; it goes on without them.      *)
IndexDms(k, a) ==
    /\ At(k, "index")
    /\ \E index \in {DmsOf(a), {}} :
        task' = [task EXCEPT ![k].pc = "page", ![k].index = index]
    /\ UNCHANGED <<dms, registered, untyped, opened>>

PagesOf(tool) == IF tool = "find_user" THEN UserPages ELSE ChannelPages

(* One page of a search; it ends with the pages or with enough matches.    *)
ReadPage(k) ==
    LET t == task[k]
        hits == t.hits \cup (PagesOf(t.tool)[t.page] \cap Matching[t.about]) IN
    /\ At(k, "page")
    /\ task' \in
        {Refused(k),
         IF t.page < Len(PagesOf(t.tool)) /\ Cardinality(hits) < MaxMatches
         THEN [task EXCEPT ![k].page = t.page + 1, ![k].hits = hits]
         ELSE IF t.tool = "find_channel"
         THEN [task EXCEPT ![k].pc = "groups", ![k].hits = hits]
         ELSE Answered(k, {d \in t.index : d[2] \in hits})}
    /\ UNCHANGED <<dms, registered, untyped, opened>>

(* _matching_group_dms of the agent's own; a failure is none.              *)
MatchGroups(k, a) ==
    /\ At(k, "groups")
    /\ \E listed \in Listings(a) \cup {{}} :
        task' = [task EXCEPT ![k].pc = "register",
                             ![k].todo = listed \cap Group \cap Matching[task[k].about]]
    /\ UNCHANGED <<dms, registered, untyped, opened>>

(* list_dms: the listing, whose DMs are part of the answer as they are.    *)
ListDms(k, a) ==
    /\ At(k, "list") /\ task[k].tool = "list_dms"
    /\ \/ task' = Refused(k)
       \/ \E listed \in Listings(a) :
            task' = [task EXCEPT ![k].pc = "register", ![k].todo = listed \cap Group,
                                 ![k].found = listed \ Group]
    /\ UNCHANGED <<dms, registered, untyped, opened>>

(* Seeded defect: list_dms leaves the registration to the first message.   *)
RegisterGroup_OnlySearched(k) ==
    \E g \in task[k].todo :
        /\ task[k].pc = "register"
        /\ registered' = IF task[k].tool = "find_channel" THEN registered \cup {g} ELSE registered
        /\ task' = [task EXCEPT ![k].todo = @ \ {g}, ![k].hits = @ \cup {g}]
        /\ UNCHANGED <<dms, untyped, opened>>

(* register_channel(conv["id"], "mpim"), group by group: the whole row.    *)
RegisterGroup(k) ==
    \E g \in task[k].todo :
        /\ At(k, "register")
        /\ registered' = registered \cup {g} /\ untyped' = untyped \ {g}
        /\ task' = [task EXCEPT ![k].todo = @ \ {g}, ![k].hits = @ \cup {g}]
        /\ UNCHANGED <<dms, opened>>

AnswerFound(k) ==
    LET t == task[k] IN
    /\ At(k, "register") /\ t.todo = {}
    /\ task' = Answered(k, IF t.tool = "find_channel" THEN BestMatches(t.about, t.hits)
                           ELSE t.found \cup t.hits)
    /\ UNCHANGED <<dms, registered, untyped, opened>>

(* Seeded defect: the cache is keyed by the person alone.                  *)
Cached_ByPerson(c, a, p) == {e \in opened[c] : e[2] = p}

(* dm_channel_for_user's entry for its arguments.                          *)
Cached(c, a, p) == {e \in opened[c] : e[1] = a /\ e[2] = p}

(* resolve_conversation of a user id: the cached DM, or conversations.open,*)
(* which opens one if there is none.                                       *)
ResolveUser(k, c, a) ==
    LET p == task[k].about IN
    /\ At(k, "open")
    /\ \/ \E e \in Cached(c, a, p) :
            task' = Answered(k, {e[3]}) /\ UNCHANGED <<dms, registered, untyped, opened>>
       \/ /\ Cached(c, a, p) = {}
          /\ opened' = [opened EXCEPT ![c] = @ \cup {<<a, p, Dm(a, p)>>}]
          /\ dms' = dms \cup {Dm(a, p)}
          /\ task' = Answered(k, {Dm(a, p)})
          /\ UNCHANGED <<registered, untyped>>
       \/ /\ Cached(c, a, p) = {}
          /\ task' = Refused(k)
          /\ UNCHANGED <<dms, registered, untyped, opened>>

ToolStep(k, c, a) ==
    \/ ListChannels(k) \/ IndexDms(k, a) \/ ReadPage(k) \/ MatchGroups(k, a)
    \/ ListDms(k, a) \/ RegisterGroup(k) \/ AnswerFound(k) \/ ResolveUser(k, c, a)

(* A person writes to an agent first.                                      *)
PersonOpens(a, p) ==
    /\ dms' = dms \cup {Dm(a, p)}
    /\ UNCHANGED <<registered, untyped, opened, task>>

(* Now and then Slack does push a group DM's message: the ingest puts the  *)
(* row anew, with the event's channel_type, which may be missing.          *)
IngestRow(g) ==
    /\ \/ registered' = registered \cup {g} /\ untyped' = untyped \ {g}
       \/ registered' = registered \ {g} /\ untyped' = untyped \cup {g}
    /\ UNCHANGED <<dms, opened, task>>

(* A new container starts with empty caches.                               *)
ForgetOpened(c) ==
    /\ opened' = [opened EXCEPT ![c] = {}]
    /\ UNCHANGED <<dms, registered, untyped, task>>
--------------------------------------------------------------------------------
MayName(a, conv) ==
    \/ conv \in Channel
    \/ conv \in Group /\ a \in MemberOf[conv]
    \/ conv \in Dms /\ conv[1] = a

KnownGroups == registered \cup untyped

(* A group DM that a tool has named can be read: a later check_messages    *)
(* "knows to pull it" (find_channel), because the registration came first, *)
(* whichever other calls wrote in between; only an event without a         *)
(* channel_type takes the type, and never the row, away again.             *)
FoundGroupsAreKnown ==
    \A k \in Call : At(k, "done") => task[k].found \cap Group \subseteq KnownGroups

PagesRead(k) == UNION {ChannelPages[i] : i \in 1..task[k].page}

(* "Exact name first, then the rest, so a precise query surfaces its       *)
(* conversation" (find_channel): the one thing that can keep a channel of  *)
(* exactly that name out of the answer is a page that was not asked for    *)
(* because enough others had matched before it.                            *)
ExactNameSurfaces ==
    \A k \in Call :
        LET t == task[k] IN
        At(k, "done") /\ t.tool = "find_channel" /\ t.ok =>
            \A conv \in Exact[t.about] \cap Channel :
                \/ conv \in t.found
                \/ Cardinality(Exact[t.about] \cap t.found) = MaxMatches
                \/ /\ conv \notin PagesRead(k)
                   /\ Cardinality(PagesRead(k) \cap Matching[t.about]) >= MaxMatches

(* The parts of the inductive invariant the proofs rest on: a task is      *)
(* where its tool may be, reads pages there are, gathers what agent a may  *)
(* name, and the group DMs it has got to are among those registered ...    *)
TaskOf(a, t, groups) ==
    /\ t.pc \in {"groups", "register"} => t.tool # "find_user"
    /\ t.pc = "open" => t.about \in Person
    /\ t.page <= Len(PagesOf(t.tool))
    /\ \A d \in t.index : d[1] = a
    /\ t.todo \subseteq GroupsOf(a)
    /\ t.tool # "find_user" =>
          /\ \A h \in t.hits : h \in Channel \cup GroupsOf(a)
          /\ t.hits \cap Group \subseteq groups
    /\ \A conv \in t.found : MayName(a, conv)
    /\ t.found \cap Group \subseteq groups

(* ... and the cache holds for each of its keys that key's DM.             *)
OpenedIsRight ==
    \A c \in Container : \A e \in opened[c] : e[3] = Dm(e[1], e[2])
================================================================================
