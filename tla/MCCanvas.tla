------------------------------- MODULE MCCanvas -------------------------------
(* The two halves of the canvas tools, which share no state: documents of a  *)
(* few blocks, with lists nested to the depth of three, for the parser; two  *)
(* agents, people and a few sections for the edits.  One half is explored    *)
(* while the other rests at its start.                                       *)
EXTENDS CanvasParser, CanvasEdits, TLC

MCHaving == [n \in Needle |-> {"todo"}]

Agents == Permutations(Agent)

MCInit == ParserInit /\ Init

MCNext ==
    \/ Init /\ ParserNext /\ UNCHANGED vars
    \/ ParserInit /\ Next /\ UNCHANGED parserVars

MCSpec == MCInit /\ [][MCNext]_<<parserVars, vars>>
================================================================================
