------------------------------ MODULE CanvasParser ------------------------------
(***************************************************************************)
(* Reading a canvas (sharedModules/canvas.py).  _CanvasParser sees one tag *)
(* at a time and keeps a mode, a depth and counters in step with the       *)
(* nesting of a document it never sees whole; parse_canvas then joins its  *)
(* blocks into lines and parts of markdown.                                *)
(*                                                                         *)
(* A document is what the fixtures of tests/unit/test_canvas.py hold:      *)
(* headings and paragraphs, and list sections whose <ul> hold <li> and     *)
(* further <ul>.  `open` is the stack of its open elements, which the      *)
(* parser does not have; the properties compare what it wrote with it.     *)
(***************************************************************************)
EXTENDS Naturals, Sequences, SequencesExt

CONSTANTS
    Style,     \* list styles: ordered, checklist, bullet
    Bullet,    \* the parser's mode outside any list
    NoBlock, NoGroup,
    MaxDepth, MaxBlocks, MaxLists   \* bounds on the documents explored

ASSUME ModeAssumption == Bullet \in Style /\ NoGroup \notin Nat
ASSUME DocumentAssumption == {MaxDepth, MaxBlocks, MaxLists} \subseteq Nat

VARIABLES
    open,      \* the document: its open elements, outermost first
    lists,     \* and the list sections begun so far
    mode, depth, counters, group, cur,   \* _CanvasParser's fields
    blocks,    \* parser.blocks
    part,      \* the number of the part each block's line went to, 0 if none
    prevGroup, \* parse_canvas's prev_group
    place      \* place[i]: where in the document block i stood

parser == <<mode, depth, counters, group>>
parserVars == <<open, lists, parser, cur, blocks, part, prevGroup, place>>

Element == [kind : {"list", "ul", "block"}, style : Style, items : 0..MaxBlocks]
Item == [depth : 1..MaxDepth, mode : Style, number : 1..MaxBlocks, group : 1..MaxLists]
Paragraph == [depth : {0}, mode : {Bullet}, number : {0}, group : {NoGroup}]

ASSUME MarkerAssumption == NoBlock \notin Item \cup Paragraph

ParserTypeOK ==
    /\ open \in Seq(Element)
    /\ lists \in 0..MaxLists
    /\ mode \in Style
    /\ depth \in 0..MaxDepth
    /\ counters \in [1..MaxDepth -> 0..MaxBlocks]
    /\ group \in 0..MaxLists
    /\ cur \in Item \cup Paragraph \cup {NoBlock}
    /\ cur # NoBlock <=> open # <<>> /\ Last(open).kind = "block"
    /\ blocks \in Seq(Item \cup Paragraph)
    /\ part \in [DOMAIN blocks -> 0..MaxBlocks]
    /\ prevGroup \in 1..MaxLists \cup {NoGroup}
    /\ place \in Seq(Item \cup Paragraph)

NoCounters == [d \in 1..MaxDepth |-> 0]

ParserInit ==
    /\ open = <<>>
    /\ lists = 0
    /\ mode = Bullet
    /\ depth = 0
    /\ counters = NoCounters
    /\ group = 0
    /\ cur = NoBlock
    /\ blocks = <<>>
    /\ part = <<>>
    /\ prevGroup = NoGroup
    /\ place = <<>>
--------------------------------------------------------------------------------
Inside(kinds) == open # <<>> /\ Last(open).kind \in kinds

Opened(kind, style) == Append(open, [kind |-> kind, style |-> style, items |-> 0])

(* Seeded defect: a list section does not start a group of its own.        *)
OpenList_SameGroup(style) ==
    /\ open = <<>>
    /\ lists < MaxLists
    /\ open' = Opened("list", style)
    /\ lists' = lists + 1
    /\ mode' = style
    /\ depth' = 0
    /\ counters' = NoCounters
    /\ group' = 1
    /\ UNCHANGED <<cur, blocks, part, prevGroup, place>>

(* <div data-section-style>                                                *)
OpenList(style) ==
    /\ open = <<>>
    /\ lists < MaxLists
    /\ open' = Opened("list", style)
    /\ lists' = lists + 1
    /\ mode' = style
    /\ depth' = 0
    /\ counters' = NoCounters
    /\ group' = group + 1
    /\ UNCHANGED <<cur, blocks, part, prevGroup, place>>

(* <ul>                                                                    *)
OpenUl ==
    /\ Inside({"list", "ul"})
    /\ depth < MaxDepth
    /\ open' = Opened("ul", Last(open).style)
    /\ depth' = depth + 1
    /\ counters' = [counters EXCEPT ![depth + 1] = 0]
    /\ UNCHANGED <<lists, mode, group, cur, blocks, part, prevGroup, place>>

Largest(a, b) == IF a > b THEN a ELSE b

(* <li>: numbered by the counter of its depth.                             *)
OpenItem ==
    LET d == Largest(1, depth)
        number == counters[d] + 1 IN
    /\ Inside({"ul"})
    /\ Len(blocks) < MaxBlocks
    /\ counters' = [counters EXCEPT ![d] = number]
    /\ cur' = [depth |-> d, mode |-> mode, number |-> number, group |-> group]
    /\ open' = Append([open EXCEPT ![Len(open)].items = @ + 1],
                      [kind |-> "block", style |-> Last(open).style, items |-> 0])
    /\ UNCHANGED <<lists, mode, depth, group, blocks, part, prevGroup, place>>

(* A heading, paragraph or quotation.                                      *)
OpenParagraph ==
    /\ open = <<>>
    /\ Len(blocks) < MaxBlocks
    /\ cur' = [depth |-> 0, mode |-> Bullet, number |-> 0, group |-> NoGroup]
    /\ open' = Opened("block", Bullet)
    /\ UNCHANGED <<lists, parser, blocks, part, prevGroup, place>>

(* len(parts): they are numbered as they are begun.                        *)
Parts == Max({0} \cup Range(part))

(* parse_canvas on the next block: a list item joins the part of the item  *)
(* before it if their group is the same; a block without text and id       *)
(* leaves no line.                                                         *)
Join(block, visible) ==
    IF visible
    THEN /\ part' = Append(part, IF block.group # NoGroup /\ block.group = prevGroup
                                 THEN Parts ELSE Parts + 1)
         /\ prevGroup' = block.group
    ELSE /\ part' = Append(part, 0)
         /\ UNCHANGED prevGroup

(* Where the block that is open stands: under how many <ul>, the how many- *)
(* th item of the innermost, in which list section and of what style.      *)
Place ==
    LET uls == {i \in DOMAIN open : open[i].kind = "ul"}
        inner == open[Len(open) - 1] IN
    IF uls = {} THEN [depth |-> 0, mode |-> Bullet, number |-> 0, group |-> NoGroup]
    ELSE [depth |-> Len(open) - 2, mode |-> open[1].style,
          number |-> inner.items, group |-> lists]

(* Seeded defect: the block stays current.                                 *)
CloseBlock_KeepsCurrent ==
    /\ Inside({"block"})
    /\ cur # NoBlock
    /\ blocks' = Append(blocks, cur)
    /\ place' = Append(place, Place)
    /\ \E visible \in BOOLEAN : Join(cur, visible)
    /\ open' = Front(open)
    /\ UNCHANGED <<lists, parser, cur>>

(* </li>, </p>, ...: the block is complete, with or without text and id.   *)
CloseBlock ==
    /\ Inside({"block"})
    /\ cur # NoBlock
    /\ blocks' = Append(blocks, cur)
    /\ place' = Append(place, Place)
    /\ \E visible \in BOOLEAN : Join(cur, visible)
    /\ cur' = NoBlock
    /\ open' = Front(open)
    /\ UNCHANGED <<lists, parser>>

(* Seeded defect: the depth is left as it was.                             *)
CloseUl_KeepsDepth ==
    /\ Inside({"ul"})
    /\ open' = Front(open)
    /\ counters' = [counters EXCEPT ![depth] = 0]
    /\ UNCHANGED <<lists, mode, depth, group, cur, blocks, part, prevGroup, place>>

(* </ul>                                                                   *)
CloseUl ==
    /\ Inside({"ul"})
    /\ open' = Front(open)
    /\ counters' = [counters EXCEPT ![depth] = 0]
    /\ depth' = IF depth = 0 THEN 0 ELSE depth - 1
    /\ UNCHANGED <<lists, mode, group, cur, blocks, part, prevGroup, place>>

(* </div>                                                                  *)
CloseList ==
    /\ Inside({"list"})
    /\ open' = Front(open)
    /\ mode' = Bullet
    /\ depth' = 0
    /\ counters' = NoCounters
    /\ UNCHANGED <<lists, group, cur, blocks, part, prevGroup, place>>

ParserNext ==
    \/ \E style \in Style : OpenList(style)
    \/ OpenUl \/ OpenItem \/ OpenParagraph
    \/ CloseBlock \/ CloseUl \/ CloseList

ParserSpec == ParserInit /\ [][ParserNext]_parserVars
--------------------------------------------------------------------------------
(* "List context so ordered vs bulleted and nesting depth survive": every  *)
(* block is read with the depth, the number, the style and the list it has *)
(* in the document, also when an inner list comes between two items and    *)
(* the outer numbering has to go on.                                       *)
BlocksStandInPlace == blocks = place

(* "Consecutive list items join with a single newline so they render as    *)
(* one list; everything else is separated by a blank line": the lines of   *)
(* two blocks share a part of the markdown exactly when both are items of  *)
(* one list, and parts keep the order of the document.                     *)
PartsAreLists ==
    \A i, j \in DOMAIN part :
        i < j /\ part[i] # 0 /\ part[j] # 0 =>
            /\ part[i] <= part[j]
            /\ part[i] = part[j]
                 <=> place[i].group # NoGroup /\ place[i].group = place[j].group
================================================================================
