------------------------------ MODULE FileAccess ------------------------------
(***************************************************************************)
(* Attachments (sharedModules/files.py and its tools).  Slack serves a     *)
(* file only to an app in a conversation the file is shared in; the server *)
(* has to choose the token of the relay or of the calling agent, from the  *)
(* FILE# record that ingest wrote last or, without one, from what Slack    *)
(* says of the file.  Records are overwritten and expire between two       *)
(* steps of a call.                                                        *)
(***************************************************************************)
EXTENDS Naturals

CONSTANTS
    Channel, Dm,   \* conversations; the id of a Dm starts with "D"
    Agent, Relay,  \* the Slack apps
    Member,        \* Member[app]: the conversations the app is in
    Granted,       \* the apps that have the scope files:read
    File,
    Viewable,      \* files read_file can return: images and text
    DeclaredLarge, \* files whose metadata exceed max_bytes
    Large,         \* files whose bytes do
    NoRecord, NoOwner, NoFile

Conversation == Channel \cup Dm
App == Agent \cup {Relay}

ASSUME MemberAssumption ==
    /\ Member \in [App -> SUBSET Conversation]
    /\ Member[Relay] \subseteq Channel
    /\ Granted \subseteq App
ASSUME FileAssumption ==
    /\ {Viewable, DeclaredLarge, Large} \subseteq SUBSET File
    /\ NoFile \notin File
ASSUME MarkerAssumption ==
    /\ Relay \notin Agent
    /\ NoOwner \notin Agent
    /\ NoRecord \notin Conversation
    /\ Channel \cap Dm = {}

VARIABLES
    shared,    \* shared[f]: the conversations f is shared in
    owner,     \* owner[f]: the agent that has started an upload of f
    pending,   \* shares whose message ingest has not stored
    record,    \* FILE# rows: the conversation of the last stored share
    registry,  \* CHANNELS rows
    request    \* each agent's tool call

slack == <<shared, owner, pending>>
table == <<record, registry>>
vars == <<slack, table, request>>

Tool == {"read_file", "download_file", "serve_file"}
Refusal == {"unknown", "denied", "too_large", "unsupported", "failed"}

TypeOK ==
    /\ shared \in [File -> SUBSET Conversation]
    /\ owner \in [File -> Agent \cup {NoOwner}]
    /\ pending \subseteq File \X Conversation
    /\ \A share \in pending : share[2] \in shared[share[1]]
    /\ record \in [File -> Conversation \cup {NoRecord}]
    /\ registry \subseteq Conversation
    /\ request \in [Agent -> [pc : {"idle", "lookup", "ask_relay", "ask_agent", "fetch", "done"},
                              tool : Tool,
                              file : File \cup {NoFile},
                              channel : Conversation \cup {NoRecord},
                              found : BOOLEAN,   \* it was shared when the call began
                              erred : BOOLEAN,   \* Slack refused the relay, which sees it
                              answer : Refusal \cup {"", "link", "content"}]]
    /\ \A a \in Agent : request[a].pc = "fetch" => request[a].channel \in Conversation

NoRequest == [pc |-> "idle", tool |-> "read_file", file |-> NoFile,
              channel |-> NoRecord, found |-> FALSE, erred |-> FALSE, answer |-> ""]

Init ==
    /\ shared = [f \in File |-> {}]
    /\ owner = [f \in File |-> NoOwner]
    /\ pending = {}
    /\ record = [f \in File |-> NoRecord]
    /\ registry = {}
    /\ request = [a \in Agent |-> NoRequest]
--------------------------------------------------------------------------------
(* Slack: a file appears in a conversation.                                *)
Shared(f, ch) ==
    /\ shared' = [shared EXCEPT ![f] = @ \cup {ch}]
    /\ pending' = pending \cup {<<f, ch>>}

(* A person uploads f, or shares it once more.                             *)
Share(f, ch) ==
    /\ ch \notin shared[f]
    /\ owner[f] = NoOwner
    /\ Shared(f, ch)
    /\ UNCHANGED <<owner, table, request>>

(* start_file_upload: Slack hands out an id for the file to come.          *)
StartUpload(a, f) ==
    /\ shared[f] = {}
    /\ owner[f] = NoOwner
    /\ owner' = [owner EXCEPT ![f] = a]
    /\ UNCHANGED <<shared, pending, table, request>>

(* _prepare_upload: bytes that come with the message may not exceed the    *)
(* cap.                                                                    *)
Inline(f) == owner[f] = NoOwner /\ f \notin Large

(* send_message with the id of a started upload, or with the bytes.        *)
SendFile(a, f, ch) ==
    /\ shared[f] = {}
    /\ owner[f] = a \/ Inline(f)
    /\ ch \in Member[a]
    /\ owner' = [owner EXCEPT ![f] = NoOwner]
    /\ Shared(f, ch)
    /\ UNCHANGED <<table, request>>

(* Ingest stores the message of a share that one of the apps receives.     *)
Ingest(f, ch) ==
    /\ <<f, ch>> \in pending
    /\ \E app \in App : ch \in Member[app]
    /\ pending' = pending \ {<<f, ch>>}
    /\ record' = [record EXCEPT ![f] = ch]
    /\ registry' = registry \cup {ch}
    /\ UNCHANGED <<shared, owner, request>>

(* A message without files makes the conversation known.                   *)
IngestText(ch) ==
    /\ \E app \in App : ch \in Member[app]
    /\ registry' = registry \cup {ch}
    /\ UNCHANGED <<slack, record, request>>

(* The record's ttl passes; the registry's rows have none.                 *)
Expire(f) ==
    /\ record' = [record EXCEPT ![f] = NoRecord]
    /\ UNCHANGED <<slack, registry, request>>
--------------------------------------------------------------------------------
Sees(app, f) == app \in Granted /\ shared[f] \cap Member[app] # {}

At(a, phase) == request[a].pc = phase

Call(a, tool, f) ==
    /\ request[a].pc \in {"idle", "done"}
    /\ request' = [request EXCEPT ![a] = [NoRequest EXCEPT !.pc = "lookup",
                                                           !.tool = tool,
                                                           !.file = f,
                                                           !.found = shared[f] # {}]]
    /\ UNCHANGED <<slack, table>>

Answer(a, answer) ==
    /\ request' = [request EXCEPT ![a] = [NoRequest EXCEPT !.pc = "done",
                                                           !.file = request[a].file,
                                                           !.answer = answer]]
    /\ UNCHANGED <<slack, table>>

FetchFrom(a, ch) ==
    /\ request' = [request EXCEPT ![a].pc = "fetch", ![a].channel = ch]
    /\ UNCHANGED <<slack, table>>

(* What each tool does with the record it got: download_file answers with  *)
(* a link to serve_file, which fetches any file; read_file refuses what it *)
(* cannot show.                                                            *)
download_file(a) == Answer(a, "link")
serve_file(a, ch) == FetchFrom(a, ch)
read_file(a, ch) ==
    IF request[a].file \in Viewable THEN FetchFrom(a, ch) ELSE Answer(a, "unsupported")

Found(a, ch) ==
    \/ request[a].tool = "download_file" /\ download_file(a)
    \/ request[a].tool = "serve_file" /\ serve_file(a, ch)
    \/ request[a].tool = "read_file" /\ read_file(a, ch)

(* Seeded defect: a record is taken to be there.                           *)
Lookup_Unchecked(a) ==
    /\ request[a].pc = "lookup"
    /\ Found(a, record[request[a].file])

(* get_file_record: the stored record if there is one.                     *)
Lookup(a) ==
    LET f == request[a].file IN
    /\ At(a, "lookup")
    /\ IF record[f] # NoRecord
       THEN Found(a, record[f])
       ELSE /\ request' = [request EXCEPT ![a].pc = "ask_relay"]
            /\ UNCHANGED <<slack, table>>

(* Seeded defect: the fall-back does not ask whether Slack's conversations *)
(* are known.                                                              *)
Serve_AnyConversation(a, app) ==
    LET f == request[a].file IN
    /\ Sees(app, f)
    /\ \E ch \in shared[f] : Found(a, ch)

(* An ok answer of files.info to an app that sees the file.  Slack names   *)
(* the conversations that app is in, and perhaps others; one of those that *)
(* are known, whichever comes first, becomes the record's.                 *)
Serve(a, app) ==
    LET f == request[a].file IN
    /\ Sees(app, f)
    /\ \E named \in SUBSET shared[f] :
        /\ shared[f] \cap Member[app] \subseteq named
        /\ IF named \cap registry = {}
           THEN Answer(a, "unknown")
           ELSE \E ch \in named \cap registry : Found(a, ch)

(* Without a record, files.info is asked for as the relay first.  An       *)
(* answer that is not ok, because the relay does not see the file or for   *)
(* any other reason, leads on to the caller's app ...                      *)
AskRelay(a) ==
    /\ At(a, "ask_relay")
    /\ \/ Serve(a, Relay)
       \/ /\ request' = [request EXCEPT ![a].pc = "ask_agent",
                                        ![a].erred = Sees(Relay, request[a].file)]
          /\ UNCHANGED <<slack, table>>

(* ... and there to the end of the call.                                   *)
AskAgent(a) ==
    /\ At(a, "ask_agent")
    /\ \/ Serve(a, a)
       \/ Answer(a, "unknown")

(* A call to DynamoDB or to Slack raises: read_file answers that it could  *)
(* not read the file, the others do not catch it.                          *)
Fail(a) ==
    /\ request[a].pc \in {"lookup", "ask_relay", "ask_agent", "fetch"}
    /\ Answer(a, "failed")

(* Seeded defect: one token for every conversation.                        *)
TokenFor_Relay(ch, a) == Relay

(* _token_for: by the first letter of the conversation's id.               *)
TokenFor(ch, a) == IF ch \in Dm THEN a ELSE Relay

(* Seeded defect: Slack's log-in page is taken for the file.               *)
Fetch_AnyPage(a) ==
    LET f == request[a].file IN
    /\ request[a].pc = "fetch"
    /\ Answer(a, IF f \in DeclaredLarge \cup Large THEN "too_large" ELSE "content")

(* fetch_bytes: the size is checked before and after the read, and the     *)
(* log-in page Slack serves to an app that cannot see the file is refused. *)
Fetch(a) ==
    LET f == request[a].file
        seen == Sees(TokenFor(request[a].channel, a), f) IN
    /\ At(a, "fetch")
    /\ Answer(a, IF f \in DeclaredLarge \/ (seen /\ f \in Large) THEN "too_large"
                 ELSE IF seen THEN "content" ELSE "denied")

Next ==
    \/ \E f \in File, ch \in Conversation : Share(f, ch) \/ Ingest(f, ch)
    \/ \E a \in Agent, f \in File :
        \/ StartUpload(a, f)
        \/ \E ch \in Conversation : SendFile(a, f, ch)
        \/ \E tool \in Tool : Call(a, tool, f)
    \/ \E ch \in Conversation : IngestText(ch)
    \/ \E f \in File : Expire(f)
    \/ \E a \in Agent : Lookup(a) \/ AskRelay(a) \/ AskAgent(a) \/ Fetch(a) \/ Fail(a)

Spec == Init /\ [][Next]_vars
--------------------------------------------------------------------------------
Got(a, answer) == At(a, "done") /\ request[a].answer = answer

(* "The file must be shared into a conversation this system has actually  *)
(* seen messages from" (get_file_record): bytes and links are handed out   *)
(* only for files shared in a known conversation, whether or not there was *)
(* a record to go by.                                                      *)
OnlyKnownFiles ==
    \A a \in Agent :
        Got(a, "content") \/ Got(a, "link") => shared[request[a].file] \cap registry # {}

(* "Only files the ingest recorded (FILE# items) can be fetched" (files.py *)
(* on the known-file rule).  The fall-back fetches others.                 *)
RecordedFilesOnly ==
    \A a \in Agent :
        LET f == request[a].file IN
        Got(a, "content") => \E ch \in shared[f] : <<f, ch>> \notin pending

(* What is handed out as content is the file, not Slack's log-in page, and *)
(* so stays with those who see it: a file of one agent's DM never reaches  *)
(* another agent, however records are overwritten and fall-backs chosen.   *)
ContentIsTheFile ==
    \A a \in Agent :
        Got(a, "content") =>
            /\ request[a].file \notin Large
            /\ Sees(Relay, request[a].file) \/ Sees(a, request[a].file)

(* "Files in channels are fetched with the relay's token, files in an      *)
(* agent's DM with that agent's" (README).                                 *)
Entitled(a, ch) ==
    LET app == IF ch \in Dm THEN a ELSE Relay IN app \in Granted /\ ch \in Member[app]

(* What justifies telling the caller that a file does not exist or may not *)
(* be seen: it was shared nowhere when the call began; it is shared where  *)
(* nothing is known or the caller is not entitled to it; or Slack refused  *)
(* an app that sees it, first the relay, then the caller's.                *)
Excuse(a) ==
    LET f == request[a].file IN
    \/ ~request[a].found
    \/ \E ch \in shared[f] : ch \notin registry \/ ~Entitled(a, ch)
    \/ request[a].erred
    \/ At(a, "ask_agent") /\ Sees(a, f)

(* No call ends with these two refusals without such a reason, whatever    *)
(* becomes of the record, and whatever else is shared, during the call.    *)
RefusedForAReason ==
    [][\A a \in Agent :
          ~At(a, "done") /\ request'[a].answer \in {"unknown", "denied"} => Excuse(a)]_vars
================================================================================
