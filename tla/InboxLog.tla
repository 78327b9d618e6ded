------------------------------- MODULE InboxLog -------------------------------
(***************************************************************************)
(* What the relay promises of its inbox table, whoever fills it: a row for *)
(* a (channel, ts) key is written once and never rewritten, and a waiting  *)
(* session is notified of a message at most once and never before the row  *)
(* exists.  The event receiver (SlackIngest) and the group-DM puller       *)
(* (GroupDmPull) both implement this module.                               *)
(***************************************************************************)
EXTENDS Naturals

CONSTANTS Message,   \* (channel, ts) keys
          Content,   \* what a row can hold
          NoRow      \* a key that has no row; not in Content

VARIABLES row,       \* row[m]: the row under key m, or NoRow
          notices    \* notices[m]: how often m was published

inboxVars == <<row, notices>>

TypeOK == /\ row \in [Message -> Content \cup {NoRow}]
          /\ notices \in [Message -> {0, 1}]

Init == /\ row = [m \in Message |-> NoRow]
        /\ notices = [m \in Message |-> 0]

Append(m, content) ==
    /\ row[m] = NoRow
    /\ row' = [row EXCEPT ![m] = content]
    /\ UNCHANGED notices

Notify(m) ==
    /\ row[m] # NoRow
    /\ notices[m] = 0
    /\ notices' = [notices EXCEPT ![m] = 1]
    /\ UNCHANGED row

Next == \E m \in Message :
            \/ \E content \in Content : Append(m, content)
            \/ Notify(m)

Spec == Init /\ [][Next]_inboxVars
================================================================================
