------------------------------ MODULE CanvasEdits ------------------------------
(***************************************************************************)
(* The canvas tools (canvas_create, canvas_edit, canvas_set_title,         *)
(* read_canvas and sharedModules/canvas.py) of agents that keep one canvas *)
(* while people edit it.  A call looks the canvas up, may read it to find  *)
(* the section it is about, and then sends its change: three requests to   *)
(* Slack, with room for everybody else in between.                         *)
(*                                                                         *)
(* The calls of canvases.edit name a section by its id, and Slack refuses  *)
(* one that is gone; it refuses a second canvas in a conversation.  A      *)
(* section Slack replaces may keep its id.  The client of slack_sdk sends  *)
(* a request a second time when it has lost the connection, whether or not *)
(* Slack had made the change by then.                                      *)
(***************************************************************************)
EXTENDS Naturals, Sequences, SequencesExt

CONSTANTS
    Agent,
    Text,        \* contents of a section
    Needle,      \* values of find_text
    NoNeedle,    \* no find_text given
    Having,      \* Having[n]: the contents in which needle n occurs
    InDm,        \* whether the conversation is an agent's DM
    MaxSection   \* bound: sections ever written

NoSection == 0

ASSUME NeedleAssumption ==
    /\ Having \in [Needle -> SUBSET Text]
    /\ NoNeedle \notin Needle
ASSUME BoundAssumption == MaxSection \in Nat /\ InDm \in BOOLEAN

VARIABLES
    exists,   \* whether the conversation has a canvas
    doc,      \* its sections
    written,  \* section ids handed out
    request   \* each agent's tool call

canvas == <<exists, doc, written>>
vars == <<canvas, request>>

Section == [id : 1..MaxSection, text : Text]

Whole == {"append", "prepend"}
Positional == {"replace", "insert_after", "insert_before", "delete"}
Tool == Whole \cup Positional \cup {"create", "set_title", "read"}
Refusal == {"no_canvas", "exists", "no_target", "failed"}

Request == [pc : {"idle", "lookup", "info", "page", "apply", "resend", "done"},
            tool : Tool,
            needle : Needle \cup {NoNeedle},   \* find_text
            target : 0..MaxSection,            \* section_id, given or found
            seen : Seq(Section),               \* what was read to find it
            made : BOOLEAN,                    \* the first request did its work
            answer : Refusal \cup {"", "ok", "content"}]

NoRequest == [pc |-> "idle", tool |-> "read", needle |-> NoNeedle,
              target |-> NoSection, seen |-> <<>>, made |-> FALSE,
              answer |-> ""]

TypeOK ==
    /\ exists \in BOOLEAN
    /\ doc \in Seq(Section) /\ (~exists => doc = <<>>)
    /\ \A i, j \in DOMAIN doc : doc[i].id = doc[j].id => i = j
    /\ written \in 0..MaxSection
    /\ \A i \in DOMAIN doc : doc[i].id <= written
    /\ request \in [Agent -> Request]
    /\ \A a \in Agent : request[a].target <= written

Init ==
    /\ exists = FALSE
    /\ doc = <<>>
    /\ written = 0
    /\ request = [a \in Agent |-> NoRequest]
--------------------------------------------------------------------------------
At(a, phase) == request[a].pc = phase

Fresh(text) == [id |-> written + 1, text |-> text]

Positions(id) == {i \in DOMAIN doc : doc[i].id = id}

(* People begin the canvas and edit its sections, also those an agent is   *)
(* about to change.                                                        *)
PersonAdds(text) ==
    /\ written < MaxSection
    /\ exists' = TRUE
    /\ \E i \in 1..Len(doc) + 1 : doc' = InsertAt(doc, i, Fresh(text))
    /\ written' = written + 1
    /\ UNCHANGED request

PersonRewrites(i, text) ==
    /\ doc' = [doc EXCEPT ![i].text = text]
    /\ UNCHANGED <<exists, written, request>>

PersonRemoves(i) ==
    /\ doc' = RemoveAt(doc, i)
    /\ UNCHANGED <<exists, written, request>>
--------------------------------------------------------------------------------
(* A tool call.  canvas_edit names its section by id, one the agent has    *)
(* from an earlier read, or by a text; an id goes before a text.           *)
Call(a, tool, needle, id) ==
    /\ request[a].pc \in {"idle", "done"}
    /\ tool \notin Positional => needle = NoNeedle /\ id = NoSection
    /\ needle = NoNeedle \/ id = NoSection
    /\ request' = [request EXCEPT ![a] = [NoRequest EXCEPT !.pc = "lookup",
                                                           !.tool = tool,
                                                           !.needle = needle,
                                                           !.target = id]]
    /\ UNCHANGED canvas

Finished(a, answer) ==
    [NoRequest EXCEPT !.pc = "done", !.answer = answer]

Answer(a, answer) ==
    /\ request' = [request EXCEPT ![a] = Finished(a, answer)]
    /\ UNCHANGED canvas

Goto(a, phase) ==
    /\ request' = [request EXCEPT ![a].pc = phase]
    /\ UNCHANGED canvas

(* channel_canvas_id asks as the relay, in a DM too, where Slack knows it  *)
(* of no conversation.  Elsewhere Slack may refuse it as well: the relay's *)
(* app is invited and removed at any time.                                 *)
RelayMaySee == ~InDm

(* What each tool does with the id of the canvas.                          *)
canvas_create(a) ==
    IF exists THEN Answer(a, "exists") ELSE Goto(a, "apply")

canvas_edit(a) ==
    IF ~exists THEN Answer(a, "no_canvas")
    ELSE IF request[a].tool \in Whole \/ request[a].target # NoSection THEN Goto(a, "apply")
    ELSE IF request[a].needle = NoNeedle THEN Answer(a, "no_target")
    ELSE Goto(a, "info")

canvas_set_title(a) ==
    IF ~exists THEN Answer(a, "no_canvas") ELSE Goto(a, "apply")

read_canvas(a) ==
    IF ~exists THEN Answer(a, "no_canvas") ELSE Goto(a, "info")

Lookup(a) ==
    LET tool == request[a].tool IN
    /\ At(a, "lookup")
    /\ \/ Answer(a, "failed")
       \/ RelayMaySee /\ tool = "create" /\ canvas_create(a)
       \/ RelayMaySee /\ tool \in Whole \cup Positional /\ canvas_edit(a)
       \/ RelayMaySee /\ tool = "set_title" /\ canvas_set_title(a)
       \/ RelayMaySee /\ tool = "read" /\ read_canvas(a)

(* fetch_canvas, first request: files.info for the title and the address,  *)
(* as _read_client.                                                        *)
FetchInfo(a) ==
    /\ At(a, "info")
    /\ \/ Answer(a, "failed")
       \/ Goto(a, "page")

(* Seeded defect: the last section that contains the text.                 *)
find_section_id_Last(n, sections) ==
    LET hits == {i \in DOMAIN sections : sections[i].text \in Having[n]} IN
    IF hits = {} THEN NoSection ELSE CHOOSE i \in hits : \A j \in hits : i >= j

(* The place of the first section whose text contains the needle.          *)
find_section_id(n, sections) ==
    LET hits == {i \in DOMAIN sections : sections[i].text \in Having[n]} IN
    IF hits = {} THEN NoSection ELSE CHOOSE i \in hits : \A j \in hits : i <= j

(* fetch_canvas, second request: the page, or Slack's log-in page, which   *)
(* is an error.  What is read counts from here on, whoever edits next.     *)
FetchPage(a) ==
    /\ At(a, "page")
    /\ \/ Answer(a, "failed")
       \/ request[a].tool = "read" /\ Answer(a, "content")
       \/ /\ request[a].tool \in Positional
          /\ LET place == find_section_id(request[a].needle, doc) IN
             IF place = NoSection THEN Answer(a, "no_target")
             ELSE /\ request' = [request EXCEPT ![a].pc = "apply",
                                                ![a].target = doc[place].id,
                                                ![a].seen = SubSeq(doc, 1, place)]
                  /\ UNCHANGED canvas
--------------------------------------------------------------------------------
(* Slack's side of one change: canvases.edit on the section it names.      *)
Edited(op, id, text) ==
    LET i == CHOOSE j \in Positions(id) : TRUE IN
    CASE op = "append" -> Append(doc, Fresh(text))
      [] op = "prepend" -> <<Fresh(text)>> \o doc
      [] op = "insert_after" -> InsertAt(doc, i + 1, Fresh(text))
      [] op = "insert_before" -> InsertAt(doc, i, Fresh(text))
      [] op = "delete" -> RemoveAt(doc, i)
      [] op = "replace" -> [doc EXCEPT ![i] = Fresh(text)]

CanApply(op, id) ==
    /\ exists
    /\ op \in Positional => Positions(id) # {}
    /\ op # "delete" => written < MaxSection

EditCanvas(op, id, text) ==
    /\ CanApply(op, id)
    /\ \/ /\ doc' = Edited(op, id, text)
          /\ written' = IF op = "delete" THEN written ELSE written + 1
       \/ /\ op = "replace"
          /\ \E i \in Positions(id) : doc' = [doc EXCEPT ![i].text = text]
          /\ UNCHANGED written
    /\ UNCHANGED exists

CreateCanvas(text) ==
    /\ ~exists
    /\ written < MaxSection
    /\ exists' = TRUE
    /\ doc' = <<Fresh(text)>>
    /\ written' = written + 1

(* The title stands beside the sections; it is not modelled.               *)
Retitle == exists /\ UNCHANGED canvas

(* Seeded defect: the change goes to the place in the document where the   *)
(* section was found.                                                      *)
Change_ByPosition(a) ==
    LET r == request[a]
        place == Len(r.seen)
        target == IF place \in DOMAIN doc THEN doc[place].id ELSE r.target IN
    \/ r.tool = "create" /\ \E text \in Text : CreateCanvas(text)
    \/ r.tool = "set_title" /\ Retitle
    \/ \E text \in Text : r.tool \in Whole \cup Positional /\ EditCanvas(r.tool, target, text)

(* The change an agent's call asks for.                                    *)
Change(a) ==
    LET r == request[a] IN
    \/ r.tool = "create" /\ \E text \in Text : CreateCanvas(text)
    \/ r.tool = "set_title" /\ Retitle
    \/ \E text \in Text : r.tool \in Whole \cup Positional /\ EditCanvas(r.tool, r.target, text)

Sending(a) == At(a, "apply") \/ At(a, "resend")

(* The connection is lost: the client sends the request once more, and     *)
(* raises when that is lost too.                                           *)
AfterLoss(a, made) ==
    IF At(a, "apply") THEN [request[a] EXCEPT !.pc = "resend", !.made = made]
    ELSE Finished(a, "failed")

(* Slack makes the change, and its reply reaches the call or not.          *)
Apply(a) ==
    /\ Sending(a)
    /\ Change(a)
    /\ \E next \in {Finished(a, "ok"), AfterLoss(a, TRUE)} :
           request' = [request EXCEPT ![a] = next]

(* The request does not reach Slack.                                       *)
RequestLost(a) ==
    /\ Sending(a)
    /\ request' = [request EXCEPT ![a] = AfterLoss(a, FALSE)]
    /\ UNCHANGED canvas

(* Seeded defect: the exception leaves the tool.                           *)
ApplyRefused_Uncaught(a) ==
    /\ request[a].pc \in {"apply", "resend"}
    /\ Answer(a, "raised")

(* Slack refuses the change, because the section is gone, there is another *)
(* canvas or for a reason of its own; the exception becomes the answer.    *)
ApplyRefused(a) ==
    /\ Sending(a)
    /\ Answer(a, "failed")

Next ==
    \/ \E text \in Text :
        \/ PersonAdds(text)
        \/ \E i \in DOMAIN doc : PersonRewrites(i, text)
    \/ \E i \in DOMAIN doc : PersonRemoves(i)
    \/ \E a \in Agent :
        \/ \E tool \in Tool, needle \in Needle \cup {NoNeedle}, id \in 0..written :
              Call(a, tool, needle, id)
        \/ Lookup(a) \/ FetchInfo(a) \/ FetchPage(a)
        \/ Apply(a) \/ RequestLost(a) \/ ApplyRefused(a)

Spec == Init /\ [][Next]_vars
--------------------------------------------------------------------------------
(* The sections a step takes away or gives another text.                   *)
Kept(i) == \E j \in DOMAIN doc' : doc'[j] = doc[i]
Touched == {i \in DOMAIN doc : ~Kept(i)}

ByAgent(a) == Sending(a) /\ request'[a] # request[a]

(* "Editing one section leaves the rest, including anything a human wrote, *)
(* untouched" (canvas_edit): the one section a call takes away or rewrites *)
(* is the one named by the call's id or, by text, the first that contained *)
(* the text in the document the call read, wherever people have moved it   *)
(* since; every other section stays, in its order.                         *)
OnlyTheNamedSection ==
    [][\A a \in Agent : ByAgent(a) =>
          /\ \A i \in Touched :
              LET r == request[a]
                  n == Len(r.seen) IN
              /\ r.tool \in {"replace", "delete"}
              /\ IF r.needle = NoNeedle THEN doc[i].id = r.target
                 ELSE /\ r.seen[n].id = doc[i].id
                      /\ r.seen[n].text \in Having[r.needle]
                      /\ \A p \in 1..n - 1 : r.seen[p].text \notin Having[r.needle]
          /\ \A i, j \in DOMAIN doc : i < j /\ Kept(i) /\ Kept(j) =>
               \E k, l \in DOMAIN doc' : k < l /\ doc'[k] = doc[i] /\ doc'[l] = doc[j]]_vars

(* A change may be made twice when its first reply is lost.  The second    *)
(* time takes nothing that the first time left: a deletion finds no other  *)
(* section, and a replacement only the one it has written itself,          *)
(* whatever people and other agents have done to the canvas in between.    *)
RepeatsTakeNothingMore ==
    [][\A a \in Agent : ByAgent(a) /\ request[a].made =>
          \A i \in Touched : request[a].tool = "replace" /\ doc[i].id = request[a].target]_vars
================================================================================
