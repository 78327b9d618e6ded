---------------------------- MODULE FileAccessProofs ----------------------------
(***************************************************************************)
(* Theorems about file access, for any number of agents, files and         *)
(* conversations.  Shares and registrations are never taken back, so what  *)
(* a record, or a call that is about to fetch, says of a file stays true.  *)
(***************************************************************************)
EXTENDS FileAccess, TLAPS

Request == [pc : {"idle", "lookup", "ask_relay", "ask_agent", "fetch", "done"}, tool : Tool,
            file : File \cup {NoFile}, channel : Conversation \cup {NoRecord},
            found : BOOLEAN, erred : BOOLEAN,
            answer : Refusal \cup {"", "link", "content"}]

(* A record is of a share in a conversation that is known ...              *)
RecordsAreKnown ==
    \A f \in File : record[f] # NoRecord => record[f] \in shared[f] \cap registry

(* ... and a call is about a file, which it fetches from such a            *)
(* conversation and answers with as it should; only finished calls answer. *)
(* Where the relay was refused a file that it does not see, the file has a *)
(* share that the relay does not see.                                      *)
Proper(r, a) ==
    /\ r.pc # "idle" => r.file \in File
    /\ r.pc # "done" => r.answer = ""
    /\ r.found => r.pc # "idle" /\ shared[r.file] # {}
    /\ r.pc = "ask_agent" /\ r.found /\ ~r.erred =>
          \E ch \in shared[r.file] : Relay \notin Granted \/ ch \notin Member[Relay]
    /\ r.pc = "fetch" => r.channel \in shared[r.file] \cap registry
    /\ r.pc = "done" /\ r.answer \in {"content", "link"} => shared[r.file] \cap registry # {}
    /\ r.pc = "done" /\ r.answer = "content" =>
          /\ r.file \notin Large
          /\ Sees(Relay, r.file) \/ Sees(a, r.file)

RequestsAreProper == \A a \in Agent : Proper(request[a], a)

AccessInv == TypeOK /\ RecordsAreKnown /\ RequestsAreProper
--------------------------------------------------------------------------------
LEMMA RequestTypes ==
    ASSUME TypeOK
    PROVE  request \in [Agent -> Request]
BY DEF TypeOK, Request

LEMMA StartsRight == Init => AccessInv
<1> SUFFICES ASSUME Init PROVE AccessInv
    OBVIOUS
<1>1. NoRequest \in Request
    BY DEF NoRequest, Request, Tool, Refusal
<1>2. TypeOK
    BY <1>1 DEF Init, TypeOK, Request, NoRequest
<1> QED
    BY <1>2 DEF Init, AccessInv, RecordsAreKnown, RequestsAreProper, Proper, NoRequest

(* Steps of Slack and of ingest leave the calls alone and take nothing     *)
(* away.                                                                   *)
LEMMA WorldMoves ==
    ASSUME AccessInv, request' = request, TypeOK', RecordsAreKnown',
           registry \subseteq registry', \A f \in File : shared[f] \subseteq shared'[f]
    PROVE  AccessInv'
<1>1. \A a \in Agent : request[a] \in Request
    BY RequestTypes DEF AccessInv
<1>2. ASSUME NEW a \in Agent PROVE Proper(request[a], a)'
    BY <1>1, <1>2 DEF AccessInv, RequestsAreProper, Proper, Sees, Request
<1> QED
    BY <1>2 DEF AccessInv, RequestsAreProper

(* A step of one call that leaves it proper keeps the invariant.           *)
LEMMA CallMoves ==
    ASSUME AccessInv, UNCHANGED <<slack, table>>, NEW a \in Agent, NEW next \in Request,
           request' = [request EXCEPT ![a] = next], Proper(next, a),
           next.pc = "fetch" => next.channel \in Conversation
    PROVE  AccessInv'
<1>1. /\ shared' = shared /\ owner' = owner /\ pending' = pending
      /\ record' = record /\ registry' = registry
    BY DEF slack, table
<1>2. request' \in [Agent -> Request]
    BY RequestTypes DEF AccessInv
<1>3. \A b \in Agent : request'[b] = IF b = a THEN next ELSE request[b]
    BY RequestTypes DEF AccessInv
<1>4. TypeOK'
    BY <1>1, <1>2, <1>3 DEF AccessInv, TypeOK, Request
<1>5. RecordsAreKnown'
    BY <1>1 DEF AccessInv, RecordsAreKnown
<1>6. ASSUME NEW b \in Agent PROVE Proper(request[b], b)'
    <2>1. Proper(request'[b], b)
        BY <1>3 DEF AccessInv, RequestsAreProper
    <2> QED
        BY <1>1, <2>1 DEF Proper, Sees
<1> QED
    BY <1>4, <1>5, <1>6 DEF AccessInv, RequestsAreProper
--------------------------------------------------------------------------------
LEMMA SharedStep ==
    ASSUME AccessInv, NEW f \in File, NEW ch \in Conversation, Shared(f, ch),
           owner' \in [File -> Agent \cup {NoOwner}], UNCHANGED <<table, request>>
    PROVE  AccessInv'
<1>1. \A g \in File : shared'[g] = IF g = f THEN shared[g] \cup {ch} ELSE shared[g]
    BY DEF Shared, AccessInv, TypeOK
<1>2. shared' \in [File -> SUBSET Conversation]
    BY DEF Shared, AccessInv, TypeOK
<1>3. TypeOK'
    <2>1. pending' \subseteq File \X Conversation
        <3>1. pending \subseteq File \X Conversation
            BY DEF AccessInv, TypeOK
        <3>2. <<f, ch>> \in File \X Conversation
            OBVIOUS
        <3> QED
            BY <3>1, <3>2 DEF Shared
    <2>2. ASSUME NEW share \in pending' PROVE share[2] \in shared'[share[1]]
        <3>1. CASE share = <<f, ch>>
            BY <1>1, <3>1
        <3>2. CASE share \in pending
            <4>1. share[1] \in File /\ share[2] \in shared[share[1]]
                BY <3>2 DEF AccessInv, TypeOK
            <4> QED
                BY <1>1, <4>1
        <3> QED
            BY <2>2, <3>1, <3>2 DEF Shared
    <2>3. UNCHANGED <<record, registry, request>>
        BY DEF table
    <2> QED
        BY <1>2, <2>1, <2>2, <2>3 DEF AccessInv, TypeOK
<1>4. RecordsAreKnown'
    BY <1>1 DEF AccessInv, RecordsAreKnown, table
<1> QED
    BY <1>1, <1>3, <1>4, WorldMoves DEF table

LEMMA IngestStep ==
    ASSUME AccessInv, NEW f \in File, NEW ch \in Conversation, Ingest(f, ch)
    PROVE  AccessInv'
<1>1. ch \in shared[f] /\ shared' = shared /\ registry' = registry \cup {ch}
    BY DEF Ingest, AccessInv, TypeOK
<1>2. record' \in [File -> Conversation \cup {NoRecord}]
      /\ \A g \in File : record'[g] = IF g = f THEN ch ELSE record[g]
    BY DEF Ingest, AccessInv, TypeOK
<1>3. TypeOK'
    BY <1>1, <1>2 DEF Ingest, AccessInv, TypeOK
<1>4. RecordsAreKnown'
    BY <1>1, <1>2 DEF AccessInv, RecordsAreKnown
<1> QED
    BY <1>1, <1>3, <1>4, WorldMoves DEF Ingest

LEMMA OtherStep ==
    ASSUME AccessInv,
           \/ \E a \in Agent, f \in File : StartUpload(a, f)
           \/ \E ch \in Conversation : IngestText(ch)
           \/ \E f \in File : Expire(f)
    PROVE  AccessInv'
<1>1. CASE \E a \in Agent, f \in File : StartUpload(a, f)
    <2>1. TypeOK' /\ RecordsAreKnown'
        BY <1>1 DEF StartUpload, AccessInv, TypeOK, RecordsAreKnown, table
    <2> QED
        BY <1>1, <2>1, WorldMoves DEF StartUpload, table
<1>2. CASE \E ch \in Conversation : IngestText(ch)
    <2>1. TypeOK' /\ RecordsAreKnown'
        BY <1>2 DEF IngestText, AccessInv, TypeOK, RecordsAreKnown, slack
    <2> QED
        BY <1>2, <2>1, WorldMoves DEF IngestText, slack
<1>3. CASE \E f \in File : Expire(f)
    <2>1. TypeOK' /\ RecordsAreKnown'
        BY <1>3 DEF Expire, AccessInv, TypeOK, RecordsAreKnown, slack
    <2> QED
        BY <1>3, <2>1, WorldMoves DEF Expire, slack
<1> QED
    BY <1>1, <1>2, <1>3
--------------------------------------------------------------------------------
LEMMA CallStep ==
    ASSUME AccessInv, NEW a \in Agent, NEW tool \in Tool, NEW f \in File, Call(a, tool, f)
    PROVE  AccessInv'
<1> DEFINE next == [NoRequest EXCEPT !.pc = "lookup", !.tool = tool, !.file = f,
                                     !.found = shared[f] # {}]
<1>1. /\ next \in Request /\ next.pc = "lookup" /\ next.file = f /\ next.answer = ""
      /\ next.found <=> shared[f] # {}
    BY DEF NoRequest, Request, Tool, Refusal
<1>2. Proper(next, a)
    BY <1>1 DEF Proper
<1> QED
    BY <1>1, <1>2, CallMoves DEF Call

(* A refusal is always proper; what a call has otherwise found is proper   *)
(* if it answers with a link, or fetches, from a known share.              *)
LEMMA AnswerStep ==
    ASSUME AccessInv, NEW a \in Agent, NEW answer \in Refusal \cup {"link", "content"},
           Answer(a, answer), request[a].pc # "idle",
           answer \in {"link", "content"} => shared[request[a].file] \cap registry # {},
           answer = "content" => /\ request[a].file \notin Large
                                 /\ Sees(Relay, request[a].file) \/ Sees(a, request[a].file)
    PROVE  AccessInv'
<1> DEFINE next == [NoRequest EXCEPT !.pc = "done", !.file = request[a].file, !.answer = answer]
<1>1. request[a] \in Request
    BY RequestTypes DEF AccessInv
<1>2. /\ next \in Request /\ next.pc = "done" /\ next.file = request[a].file
      /\ next.answer = answer /\ ~next.found
    BY <1>1 DEF Request, NoRequest, Tool, Refusal
<1>3. Proper(next, a)
    BY <1>2 DEF AccessInv, RequestsAreProper, Proper
<1>4. request' = [request EXCEPT ![a] = next]
    BY RequestTypes DEF Answer, AccessInv
<1> QED
    BY <1>2, <1>3, <1>4, CallMoves DEF Answer

LEMMA FoundStep ==
    ASSUME AccessInv, NEW a \in Agent, NEW ch \in Conversation, Found(a, ch),
           request[a].pc \notin {"idle", "done"}, ch \in shared[request[a].file] \cap registry
    PROVE  AccessInv'
<1>1. CASE Answer(a, "link") \/ Answer(a, "unsupported")
    BY <1>1, AnswerStep DEF Refusal
<1>2. CASE FetchFrom(a, ch)
    <2> DEFINE next == [request[a] EXCEPT !.pc = "fetch", !.channel = ch]
    <2>1. request[a] \in Request
        BY RequestTypes DEF AccessInv
    <2>2. /\ next \in Request /\ next.pc = "fetch" /\ next.file = request[a].file
          /\ next.channel = ch /\ next.answer = request[a].answer
          /\ next.found = request[a].found
        BY <2>1 DEF Request
    <2>3. Proper(next, a)
        BY <2>2 DEF AccessInv, RequestsAreProper, Proper
    <2>4. request' = [request EXCEPT ![a] = next]
        BY <1>2, RequestTypes DEF FetchFrom, AccessInv
    <2> QED
        BY <1>2, <2>2, <2>3, <2>4, CallMoves DEF FetchFrom
<1> QED
    BY <1>1, <1>2 DEF Found, download_file, serve_file, read_file

LEMMA LookupStep ==
    ASSUME AccessInv, NEW a \in Agent, Lookup(a)
    PROVE  AccessInv'
<1>1. /\ request[a] \in Request /\ request[a].pc = "lookup" /\ request[a].file \in File
      /\ request[a].answer = "" /\ (request[a].found => shared[request[a].file] # {})
    BY RequestTypes DEF Lookup, At, AccessInv, RequestsAreProper, Proper
<1>2. CASE record[request[a].file] # NoRecord
    <2>1. record[request[a].file] \in shared[request[a].file] \cap registry \cap Conversation
        BY <1>1, <1>2 DEF AccessInv, RecordsAreKnown, TypeOK
    <2> QED
        BY <1>1, <1>2, <2>1, FoundStep DEF Lookup
<1>3. CASE record[request[a].file] = NoRecord
    <2> DEFINE next == [request[a] EXCEPT !.pc = "ask_relay"]
    <2>1. /\ next \in Request /\ next.pc = "ask_relay" /\ next.file = request[a].file
          /\ next.answer = "" /\ next.found = request[a].found
        BY <1>1 DEF Request
    <2>2. Proper(next, a)
        BY <1>1, <2>1 DEF Proper
    <2>3. request' = [request EXCEPT ![a] = next]
        BY <1>3, RequestTypes DEF Lookup, AccessInv
    <2> QED
        BY <1>3, <2>1, <2>2, <2>3, CallMoves DEF Lookup
<1> QED
    BY <1>2, <1>3

LEMMA ServeStep ==
    ASSUME AccessInv, NEW a \in Agent, NEW app \in App, Serve(a, app),
           request[a].pc \in {"ask_relay", "ask_agent"}
    PROVE  AccessInv'
<1>1. request[a].file \in File
    BY DEF AccessInv, RequestsAreProper, Proper
<1>2. CASE Answer(a, "unknown")
    BY <1>2, AnswerStep DEF Refusal
<1>3. ASSUME NEW named \in SUBSET shared[request[a].file], NEW ch \in named \cap registry,
             Found(a, ch)
      PROVE  AccessInv'
    <2>1. ch \in Conversation /\ ch \in shared[request[a].file] \cap registry
        BY <1>1, <1>3 DEF AccessInv, TypeOK
    <2> QED
        BY <1>3, <2>1, FoundStep
<1> QED
    BY <1>2, <1>3 DEF Serve

LEMMA AskRelayStep ==
    ASSUME AccessInv, NEW a \in Agent, AskRelay(a)
    PROVE  AccessInv'
<1>1. /\ request[a] \in Request /\ request[a].pc = "ask_relay" /\ request[a].file \in File
      /\ request[a].answer = "" /\ (request[a].found => shared[request[a].file] # {})
    BY RequestTypes DEF AskRelay, At, AccessInv, RequestsAreProper, Proper
<1>2. CASE Serve(a, Relay)
    BY <1>1, <1>2, ServeStep DEF App
<1>3. CASE ~Serve(a, Relay)
    <2> DEFINE next == [request[a] EXCEPT !.pc = "ask_agent",
                                          !.erred = Sees(Relay, request[a].file)]
    <2>1. /\ next \in Request /\ next.pc = "ask_agent" /\ next.file = request[a].file
          /\ next.answer = "" /\ next.found = request[a].found
          /\ next.erred <=> Sees(Relay, request[a].file)
        BY <1>1 DEF Request, Sees
    <2>2. Proper(next, a)
        BY <1>1, <2>1 DEF Proper, Sees
    <2>3. request' = [request EXCEPT ![a] = next]
        BY <1>3, RequestTypes DEF AskRelay, AccessInv
    <2> QED
        BY <1>3, <2>1, <2>2, <2>3, CallMoves DEF AskRelay
<1> QED
    BY <1>2, <1>3

LEMMA AskAgentStep ==
    ASSUME AccessInv, NEW a \in Agent, AskAgent(a)
    PROVE  AccessInv'
<1>1. request[a].pc = "ask_agent"
    BY DEF AskAgent, At
<1>2. CASE Serve(a, a)
    BY <1>1, <1>2, ServeStep DEF App
<1>3. CASE Answer(a, "unknown")
    BY <1>1, <1>3, AnswerStep DEF Refusal
<1> QED
    BY <1>2, <1>3 DEF AskAgent

LEMMA FailStep ==
    ASSUME AccessInv, NEW a \in Agent, Fail(a)
    PROVE  AccessInv'
BY AnswerStep DEF Fail, Refusal

LEMMA FetchStep ==
    ASSUME AccessInv, NEW a \in Agent, Fetch(a)
    PROVE  AccessInv'
<1> DEFINE f == request[a].file
           seen == Sees(TokenFor(request[a].channel, a), f)
           answer == IF f \in DeclaredLarge \/ (seen /\ f \in Large) THEN "too_large"
                     ELSE IF seen THEN "content" ELSE "denied"
<1>1. request[a].pc = "fetch" /\ request[a].channel \in shared[f] \cap registry
    BY DEF Fetch, At, AccessInv, RequestsAreProper, Proper
<1>2. answer \in {"too_large", "content", "denied"}
    OBVIOUS
<1>3. answer = "content" => f \notin Large /\ (Sees(Relay, f) \/ Sees(a, f))
    BY DEF TokenFor
<1>4. Answer(a, answer)
    BY DEF Fetch
<1> HIDE DEF answer
<1> QED
    BY <1>1, <1>2, <1>3, <1>4, AnswerStep DEF Refusal

LEMMA StepKeeps == AccessInv /\ [Next]_vars => AccessInv'
<1> SUFFICES ASSUME AccessInv, [Next]_vars PROVE AccessInv'
    OBVIOUS
<1>1. CASE UNCHANGED vars
    BY <1>1 DEF vars, slack, table, AccessInv, TypeOK, RecordsAreKnown, RequestsAreProper,
                Proper, Sees
<1>2. ASSUME NEW f \in File, NEW ch \in Conversation, Share(f, ch) PROVE AccessInv'
    BY <1>2, SharedStep DEF Share, AccessInv, TypeOK
<1>3. ASSUME NEW f \in File, NEW ch \in Conversation, NEW a \in Agent, SendFile(a, f, ch)
      PROVE  AccessInv'
    <2>1. owner' \in [File -> Agent \cup {NoOwner}]
        BY <1>3 DEF SendFile, AccessInv, TypeOK
    <2> QED
        BY <1>3, <2>1, SharedStep DEF SendFile
<1> QED
    BY <1>1, <1>2, <1>3, IngestStep, OtherStep, CallStep, LookupStep, AskRelayStep,
       AskAgentStep, FetchStep, FailStep DEF Next

LEMMA Invariance == Spec => []AccessInv
BY StartsRight, StepKeeps, PTL DEF Spec

(* Every variable of the file tools keeps to its type.                     *)
THEOREM TypeCorrect == Spec => []TypeOK
BY Invariance, PTL DEF AccessInv

(* Links and contents are handed out only for files shared in a known      *)
(* conversation, whichever way get_file_record came by it: the boundary of *)
(* its docstring, not the narrower rule of the module's.                   *)
THEOREM KnownFilesOnly == Spec => []OnlyKnownFiles
<1>1. AccessInv => OnlyKnownFiles
    BY DEF AccessInv, RequestsAreProper, Proper, OnlyKnownFiles, Got, At
<1> QED
    BY <1>1, Invariance, PTL

(* What fetch_bytes hands out as content is the file, to a caller for whom *)
(* the relay or its own app sees it.                                       *)
THEOREM ContentIsTheFileAlways == Spec => []ContentIsTheFile
<1>1. AccessInv => ContentIsTheFile
    BY DEF AccessInv, RequestsAreProper, Proper, ContentIsTheFile, Got, At
<1> QED
    BY <1>1, Invariance, PTL
--------------------------------------------------------------------------------
(* The step does not end a's call with one of these two refusals.          *)
NoBadNews(a) == ~At(a, "done") => request'[a].answer \notin {"unknown", "denied"}

(* A step that is not the call's own tells it nothing.                     *)
LEMMA OthersAreSilent ==
    ASSUME AccessInv, NEW a \in Agent, request'[a] = request[a]
    PROVE  NoBadNews(a)
BY RequestTypes DEF AccessInv, RequestsAreProper, Proper, NoBadNews, At

LEMMA AnswerSays ==
    ASSUME AccessInv, NEW a \in Agent, NEW answer, Answer(a, answer)
    PROVE  /\ request'[a].answer = answer
           /\ \A b \in Agent \ {a} : request'[b] = request[b]
<1>1. request[a] \in Request /\ request \in [Agent -> Request]
    BY RequestTypes DEF AccessInv
<1> QED
    BY <1>1 DEF Answer, NoRequest

LEMMA FoundIsNoRefusal ==
    ASSUME AccessInv, NEW a \in Agent, NEW ch, Found(a, ch)
    PROVE  \A b \in Agent : NoBadNews(b)
<1>1. CASE Answer(a, "link") \/ Answer(a, "unsupported")
    BY <1>1, AnswerSays, OthersAreSilent DEF NoBadNews
<1>2. CASE FetchFrom(a, ch)
    <2>1. request'[a].answer = request[a].answer /\ \A b \in Agent \ {a} : request'[b] = request[b]
        BY <1>2, RequestTypes DEF FetchFrom, AccessInv, Request
    <2>2. NoBadNews(a)
        BY <2>1 DEF AccessInv, RequestsAreProper, Proper, NoBadNews, At
    <2> QED
        BY <2>1, <2>2, OthersAreSilent
<1> QED
    BY <1>1, <1>2 DEF Found, download_file, serve_file, read_file

LEMMA CallTellsNothing ==
    ASSUME AccessInv, NEW a \in Agent, NEW tool \in Tool, NEW f \in File, Call(a, tool, f)
    PROVE  \A b \in Agent : NoBadNews(b)
<1>1. request'[a].answer = "" /\ \A b \in Agent \ {a} : request'[b] = request[b]
    BY RequestTypes DEF Call, AccessInv, NoRequest
<1> QED
    BY <1>1, OthersAreSilent DEF NoBadNews

LEMMA LookupTellsNothing ==
    ASSUME AccessInv, NEW a \in Agent, Lookup(a)
    PROVE  \A b \in Agent : NoBadNews(b)
<1>1. CASE record[request[a].file] # NoRecord
    BY <1>1, FoundIsNoRefusal DEF Lookup
<1>2. CASE record[request[a].file] = NoRecord
    <2>1. request'[a].answer = request[a].answer /\ \A b \in Agent \ {a} : request'[b] = request[b]
        BY <1>2, RequestTypes DEF Lookup, AccessInv, Request
    <2>2. NoBadNews(a)
        BY <2>1 DEF AccessInv, RequestsAreProper, Proper, NoBadNews, At
    <2> QED
        BY <2>1, <2>2, OthersAreSilent
<1> QED
    BY <1>1, <1>2

(* An app that is asked, and answers, names the conversations it is in; if *)
(* they are all known, the call goes on.                                   *)
LEMMA ServeRefusesForAReason ==
    ASSUME AccessInv, NEW a \in Agent, NEW app \in App, Serve(a, app)
    PROVE  \A b \in Agent : NoBadNews(b) \/ Excuse(b)
<1> DEFINE f == request[a].file
<1>1. CASE \E ch \in registry : Found(a, ch)
    BY <1>1, FoundIsNoRefusal
<1>2. ASSUME NEW named \in SUBSET shared[f], shared[f] \cap Member[app] \subseteq named,
             named \cap registry = {}, Answer(a, "unknown")
      PROVE  \A b \in Agent : NoBadNews(b) \/ Excuse(b)
    <2>1. \A b \in Agent \ {a} : NoBadNews(b)
        BY <1>2, AnswerSays, OthersAreSilent
    <2>2. PICK ch \in shared[f] \cap Member[app] : TRUE
        BY DEF Serve, Sees
    <2>3. Excuse(a)
        BY <1>2, <2>2 DEF Excuse
    <2> QED
        BY <2>1, <2>3
<1>3. \/ \E ch \in registry : Found(a, ch)
      \/ \E named \in SUBSET shared[f] :
            /\ shared[f] \cap Member[app] \subseteq named
            /\ named \cap registry = {}
            /\ Answer(a, "unknown")
    BY DEF Serve
<1> QED
    BY <1>1, <1>2, <1>3

LEMMA AskRelayRefusesForAReason ==
    ASSUME AccessInv, NEW a \in Agent, AskRelay(a)
    PROVE  \A b \in Agent : NoBadNews(b) \/ Excuse(b)
<1>1. CASE Serve(a, Relay)
    BY <1>1, ServeRefusesForAReason DEF App
<1>2. CASE ~Serve(a, Relay)
    <2>1. /\ request'[a].answer = request[a].answer
          /\ \A b \in Agent \ {a} : request'[b] = request[b]
        BY <1>2, RequestTypes DEF AskRelay, AccessInv, Request
    <2>2. NoBadNews(a)
        BY <2>1 DEF AccessInv, RequestsAreProper, Proper, NoBadNews, At
    <2> QED
        BY <2>1, <2>2, OthersAreSilent
<1> QED
    BY <1>1, <1>2

(* A caller entitled to every share sees the one that the relay does not.  *)
LEMMA AskAgentRefusesForAReason ==
    ASSUME AccessInv, NEW a \in Agent, AskAgent(a)
    PROVE  \A b \in Agent : NoBadNews(b) \/ Excuse(b)
<1> DEFINE f == request[a].file
<1>1. CASE Serve(a, a)
    BY <1>1, ServeRefusesForAReason DEF App
<1>2. CASE Answer(a, "unknown")
    <2>1. \A b \in Agent \ {a} : NoBadNews(b)
        BY <1>2, AnswerSays, OthersAreSilent
    <2>2. SUFFICES ASSUME ~Excuse(a) PROVE FALSE
        BY <2>1
    <2>3. request[a].pc = "ask_agent" /\ request[a].found /\ ~request[a].erred
        BY <2>2 DEF AskAgent, At, Excuse
    <2>4. PICK ch \in shared[f] : Relay \notin Granted \/ ch \notin Member[Relay]
        BY <2>3 DEF AccessInv, RequestsAreProper, Proper
    <2>5. Entitled(a, ch)
        BY <2>2 DEF Excuse
    <2>6. Sees(a, f)
        BY <2>4, <2>5 DEF Entitled, Sees
    <2> QED
        BY <2>2, <2>3, <2>6 DEF Excuse, At
<1> QED
    BY <1>1, <1>2 DEF AskAgent

LEMMA FailRefusesNothing ==
    ASSUME AccessInv, NEW a \in Agent, Fail(a)
    PROVE  \A b \in Agent : NoBadNews(b)
BY AnswerSays, OthersAreSilent DEF Fail, NoBadNews

(* A fetch is denied from a conversation whose app is not in it.           *)
LEMMA FetchRefusesForAReason ==
    ASSUME AccessInv, NEW a \in Agent, Fetch(a)
    PROVE  \A b \in Agent : NoBadNews(b) \/ Excuse(b)
<1> DEFINE f == request[a].file
           ch == request[a].channel
           seen == Sees(TokenFor(ch, a), f)
           answer == IF f \in DeclaredLarge \/ (seen /\ f \in Large) THEN "too_large"
                     ELSE IF seen THEN "content" ELSE "denied"
<1>1. Answer(a, answer)
    BY DEF Fetch
<1>2. \A b \in Agent \ {a} : NoBadNews(b)
    BY <1>1, AnswerSays, OthersAreSilent
<1>3. CASE seen
    <2>1. answer \in {"too_large", "content"}
        BY <1>3
    <2> HIDE DEF answer
    <2> QED
        BY <1>1, <1>2, <2>1, AnswerSays DEF NoBadNews
<1>4. CASE ~seen
    <2>1. ch \in shared[f]
        BY DEF Fetch, At, AccessInv, RequestsAreProper, Proper
    <2>2. ~Entitled(a, ch)
        BY <1>4, <2>1 DEF Entitled, Sees, TokenFor
    <2> QED
        BY <1>2, <2>1, <2>2 DEF Excuse
<1> QED
    BY <1>3, <1>4

LEMMA StepRefusesForAReason ==
    ASSUME AccessInv, Next
    PROVE  \A a \in Agent : NoBadNews(a) \/ Excuse(a)
<1>1. CASE request' = request
    BY <1>1, OthersAreSilent
<1>2. CASE \/ \E f \in File, ch \in Conversation : Share(f, ch) \/ Ingest(f, ch)
           \/ \E a \in Agent, f \in File :
                 StartUpload(a, f) \/ \E ch \in Conversation : SendFile(a, f, ch)
           \/ \E ch \in Conversation : IngestText(ch)
           \/ \E f \in File : Expire(f)
    BY <1>1, <1>2 DEF Share, Ingest, StartUpload, SendFile, IngestText, Expire
<1> QED
    BY <1>2, CallTellsNothing, LookupTellsNothing, AskRelayRefusesForAReason,
       AskAgentRefusesForAReason, FetchRefusesForAReason, FailRefusesNothing DEF Next

(* A caller entitled to a file wherever it is shared, in conversations     *)
(* that are all known, is not told that it does not exist or that it may   *)
(* not be seen, unless it was shared nowhere when the call began or Slack  *)
(* refused an app that sees it; whatever became of the record on the way.  *)
THEOREM RefusedForAReasonAlways == Spec => RefusedForAReason
<1>1. AccessInv /\ [Next]_vars =>
        [\A a \in Agent :
            ~At(a, "done") /\ request'[a].answer \in {"unknown", "denied"} => Excuse(a)]_vars
    BY StepRefusesForAReason DEF NoBadNews
<1> QED
    BY <1>1, Invariance, PTL DEF Spec, RefusedForAReason
================================================================================
