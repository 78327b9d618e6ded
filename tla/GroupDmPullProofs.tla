--------------------------- MODULE GroupDmPullProofs ---------------------------
(* What overlapping, dying pulls of a group DM guarantee for every number   *)
(* of pullers, messages and faults, as long as no history page hides        *)
(* messages below the ones it shows.                                        *)
EXTENDS GroupDmPull, TLAPS

PagesFromTheOldest == OldestPage \/ PageLimit >= MaxTs

USE DEF Ts, Phase, Unnamed, pullers

(* The variables keep to their kinds of values.                             *)
LEMMA TypeStep == TypeOK /\ [Next]_vars => TypeOK'
<1> SUFFICES ASSUME TypeOK, [Next]_vars PROVE TypeOK'
    OBVIOUS
<1> USE HistoryAssumption, MarkerAssumption, BoundAssumption DEF TypeOK
<1>1. CASE Post
    BY <1>1 DEF Post
<1>2. CASE Discover
    BY <1>2 DEF Discover
<1>3. ASSUME NEW a \in Agent, RegisterAgent(a) PROVE TypeOK'
    BY <1>3 DEF RegisterAgent
<1>4. ASSUME NEW p \in Puller, Begin(p) PROVE TypeOK'
    BY <1>4 DEF Begin
<1>5. ASSUME NEW p \in Puller, Fetch(p) PROVE TypeOK'
    <2>1. oldest[p] \in 0..MaxTs /\ posted \in 0..MaxTs
        OBVIOUS
    <2>2. History(oldest[p]) \subseteq 1..MaxTs
        <3>1. CASE posted <= oldest[p] + PageLimit
            BY <2>1, <3>1 DEF History
        <3>2. CASE ~(posted <= oldest[p] + PageLimit) /\ OldestPage
            BY <2>1, <3>2 DEF History
        <3>3. CASE ~(posted <= oldest[p] + PageLimit) /\ ~OldestPage
            BY <2>1, <3>3 DEF History
        <3> QED BY <3>1, <3>2, <3>3
    <2> DEFINE H == History(oldest[p])
    <2>3. page' = [page EXCEPT ![p] = H] /\ H \in SUBSET Ts
        BY <1>5, <2>2 DEF Fetch
    <2> HIDE DEF H
    <2>4. page' \in [Puller -> SUBSET Ts]
        BY <2>3
    <2> QED BY <1>5, <2>4 DEF Fetch
<1>6. ASSUME NEW p \in Puller, FetchRefused(p) \/ Die(p) PROVE TypeOK'
    <2>1. faults' \in 0..MaxFaults
        BY <1>6 DEF FetchRefused, Die
    <2>2. End(p) /\ UNCHANGED <<posted, row, isMpim, agents>>
        BY <1>6 DEF FetchRefused, Die
    <2>3. pc' \in [Puller -> Phase] /\ oldest' \in [Puller -> 0..MaxTs]
        BY <2>2 DEF End
    <2>4. page' \in [Puller -> SUBSET Ts]
        BY <2>2 DEF End
    <2>5. map' \in [Puller -> (SUBSET Agent) \cup {Unnamed}]
        BY <2>2 DEF End
    <2> QED BY <2>1, <2>2, <2>3, <2>4, <2>5
<1>7. ASSUME NEW p \in Puller, ReadAgents(p) PROVE TypeOK'
    BY <1>7 DEF ReadAgents
<1>8. ASSUME NEW p \in Puller, Write(p) PROVE TypeOK'
    <2>1. PICK t \in page[p] :
              /\ row' = IF t \in Ignored \/ Stored(t) THEN row
                        ELSE [row EXCEPT ![t] = AttributedAgent(t, map[p])]
              /\ page' = [page EXCEPT ![p] = @ \ {t}]
        BY <1>8 DEF Write
    <2>2. AttributedAgent(t, map[p]) \in Agent \cup {NoAgent}
        BY DEF AttributedAgent
    <2> QED BY <1>8, <2>1, <2>2 DEF Write
<1>9. ASSUME NEW p \in Puller, Register(p) PROVE TypeOK'
    BY <1>9 DEF Register, End
<1>10. CASE UNCHANGED vars
    BY <1>10 DEF vars
<1> QED
    BY <1>1, <1>2, <1>3, <1>4, <1>5, <1>6, <1>7, <1>8, <1>9, <1>10
       DEF Next, PullStep

LEMMA TypeInit == Init => TypeOK
<1> SUFFICES ASSUME Init PROVE TypeOK
    OBVIOUS
<1>1. /\ posted \in 0..MaxTs
      /\ faults \in 0..MaxFaults
      /\ oldest \in [Puller -> 0..MaxTs]
    BY HistoryAssumption, BoundAssumption DEF Init
<1>2. /\ row \in [Ts -> Agent \cup {NoAgent, NoRow}]
      /\ isMpim \in BOOLEAN
      /\ agents \subseteq Agent
      /\ pc \in [Puller -> Phase]
    BY DEF Init
<1>3. page \in [Puller -> SUBSET Ts] /\ map \in [Puller -> (SUBSET Agent) \cup {Unnamed}]
    BY Zenon DEF Init
<1> QED BY <1>1, <1>2, <1>3 DEF TypeOK

(* The pull never leaves its state space.                                   *)
THEOREM TypeCorrect == Spec => []TypeOK
BY TypeInit, TypeStep, PTL DEF Spec
--------------------------------------------------------------------------------
Parts == NoGap /\ PageContiguous /\ OldestIsStored

(* A page of history is contiguous above the row it was asked from.         *)
LEMMA HistoryContiguous ==
    ASSUME TypeOK, PagesFromTheOldest, NEW from \in 0..MaxTs,
           NEW u \in History(from), NEW t \in Ts, t < u
    PROVE  t \in History(from) \/ t <= from
BY HistoryAssumption, BoundAssumption DEF History, PagesFromTheOldest, TypeOK

(* Rows only ever appear, and a puller that neither fetches nor writes      *)
(* leaves the rest of the invariant as it was.                              *)
LEMMA QuietStep ==
    ASSUME PullInv, NEW p \in Puller, UNCHANGED row,
           \A q \in Puller \ {p} : page'[q] = page[q] /\ oldest'[q] = oldest[q],
           page'[p] \in {page[p], {}},
           oldest'[p] \in Ts => oldest'[p] = oldest[p] \/ Stored(oldest'[p])
    PROVE  Parts'
<1> USE DEF PullInv, Stored
<1>1. NoGap'
    BY DEF NoGap
<1>2. PageContiguous'
    BY DEF PageContiguous
<1>3. OldestIsStored'
    BY DEF OldestIsStored
<1> QED BY <1>1, <1>2, <1>3 DEF Parts

(* Writing the oldest remaining row of a contiguous page leaves no gap.     *)
LEMMA WriteStep ==
    ASSUME PullInv, NEW p \in Puller, Write(p)
    PROVE  Parts'
<1> USE DEF Stored
<1>1. PICK t \in page[p] :
          /\ NextToWrite(p, t)
          /\ row' = IF t \in Ignored \/ Stored(t) THEN row
                    ELSE [row EXCEPT ![t] = AttributedAgent(t, map[p])]
          /\ page' = [page EXCEPT ![p] = @ \ {t}]
    BY DEF Write
<1>2. /\ t \in Ts /\ page[p] \subseteq Ts
      /\ AttributedAgent(t, map[p]) # NoRow
      /\ page'[p] = page[p] \ {t}
      /\ \A q \in Puller \ {p} : page'[q] = page[q]
      /\ UNCHANGED oldest
    BY <1>1, HistoryAssumption, MarkerAssumption
       DEF PullInv, TypeOK, AttributedAgent, Write
<1>3. /\ \A u \in Ts : u # t => row'[u] = row[u]
      /\ Stored(t) => Stored(t)'
      /\ t \notin Ignored => Stored(t)'
    BY <1>1, <1>2 DEF PullInv, TypeOK
<1>4. \A u \in Ts : u < t /\ u \notin Ignored => Stored(u)
    BY <1>1, <1>2, HistoryAssumption DEF PullInv, PageContiguous, NextToWrite
<1>5. NoGap'
    BY <1>2, <1>3, <1>4 DEF PullInv, NoGap
<1>6. PageContiguous'
    BY <1>2, <1>3 DEF PullInv, PageContiguous
<1>7. OldestIsStored'
    BY <1>2, <1>3 DEF PullInv, OldestIsStored
<1> QED BY <1>5, <1>6, <1>7 DEF Parts

LEMMA FetchStep ==
    ASSUME PullInv, PagesFromTheOldest, NEW p \in Puller, Fetch(p)
    PROVE  Parts'
<1>t. TypeOK
    BY DEF PullInv
<1>1. /\ page'[p] = History(oldest[p])
      /\ \A q \in Puller \ {p} : page'[q] = page[q]
      /\ UNCHANGED <<row, oldest>>
    BY <1>t DEF Fetch, TypeOK
<1>2. ASSUME NEW u \in History(oldest[p]), NEW t \in Ts, t < u, t \notin Ignored
      PROVE  t \in History(oldest[p]) \/ Stored(t)
    <2>1. oldest[p] \in 0..MaxTs
        BY <1>t DEF TypeOK
    <2>2. CASE t \in History(oldest[p])
        BY <2>2
    <2>3. CASE t <= oldest[p]
        <3>1. Stored(oldest[p])
            BY <2>1, <2>3, HistoryAssumption DEF PullInv, OldestIsStored
        <3> QED BY <1>2, <2>1, <2>3, <3>1, HistoryAssumption DEF PullInv, NoGap
    <2> QED BY <1>2, <1>t, <2>1, <2>2, <2>3, HistoryContiguous
<1>3. PageContiguous'
    BY <1>1, <1>2 DEF PullInv, PageContiguous, Stored
<1> QED BY <1>1, <1>3 DEF PullInv, Parts, NoGap, OldestIsStored, Stored

LEMMA InvStep == PagesFromTheOldest /\ PullInv /\ [Next]_vars => PullInv'
<1> SUFFICES ASSUME PagesFromTheOldest, PullInv, [Next]_vars PROVE Parts'
    BY TypeStep DEF PullInv, Parts
<1>t. TypeOK
    BY DEF PullInv
<1>1. CASE Post \/ Discover \/ UNCHANGED vars
    BY <1>1 DEF Post, Discover, vars, PullInv, Parts, NoGap, PageContiguous,
       OldestIsStored, Stored
<1>2. ASSUME NEW a \in Agent, RegisterAgent(a) PROVE Parts'
    BY <1>2 DEF RegisterAgent, PullInv, Parts, NoGap, PageContiguous,
       OldestIsStored, Stored
<1>3. ASSUME NEW p \in Puller, Begin(p) PROVE Parts'
    BY <1>3, <1>t, QuietStep DEF Begin, IsLatestStored, TypeOK
<1>4. ASSUME NEW p \in Puller, Fetch(p) PROVE Parts'
    BY <1>4, FetchStep
<1>5. ASSUME NEW p \in Puller, FetchRefused(p) \/ Die(p) \/ Register(p) PROVE Parts'
    <2>1. /\ UNCHANGED row /\ page'[p] = {} /\ oldest'[p] = 0
          /\ \A q \in Puller \ {p} : page'[q] = page[q] /\ oldest'[q] = oldest[q]
        BY <1>5, <1>t DEF FetchRefused, Die, Register, End, TypeOK
    <2> QED BY <2>1, QuietStep, HistoryAssumption
<1>6. ASSUME NEW p \in Puller, ReadAgents(p) PROVE Parts'
    BY <1>6, QuietStep DEF ReadAgents
<1>7. ASSUME NEW p \in Puller, Write(p) PROVE Parts'
    BY <1>7, WriteStep
<1> QED
    BY <1>1, <1>2, <1>3, <1>4, <1>5, <1>6, <1>7 DEF Next, PullStep

LEMMA Invariant == ASSUME PagesFromTheOldest PROVE Spec => []PullInv
<1>1. Init => PullInv
    BY TypeInit, HistoryAssumption
       DEF Init, PullInv, NoGap, PageContiguous, OldestIsStored, Stored
<1>2. PullInv /\ [Next]_vars => PullInv'
    BY InvStep
<1> QED BY <1>1, <1>2, PTL DEF Spec

(* No message is ever missing below the newest stored one, so asking Slack  *)
(* only for what is newer than that row never leaves a message behind.      *)
THEOREM NoGapAlways == ASSUME PagesFromTheOldest PROVE Spec => []NoGap
BY Invariant, PTL DEF PullInv
--------------------------------------------------------------------------------
(* Every step of the pulls is an append to the inbox or a stutter.          *)
LEMMA InboxStep == TypeOK /\ [Next]_vars => [Inbox!Next]_(Inbox!inboxVars)
<1> SUFFICES ASSUME TypeOK, [Next]_vars
             PROVE  [Inbox!Next]_(Inbox!inboxVars)
    OBVIOUS
<1> USE DEF Inbox!inboxVars
<1>1. ASSUME NEW p \in Puller, Write(p) PROVE [Inbox!Next]_(Inbox!inboxVars)
    <2>1. PICK t \in page[p] :
              row' = IF t \in Ignored \/ Stored(t) THEN row
                     ELSE [row EXCEPT ![t] = AttributedAgent(t, map[p])]
        BY <1>1 DEF Write
    <2>2. t \in Ts /\ AttributedAgent(t, map[p]) \in Agent \cup {NoAgent}
        BY HistoryAssumption DEF TypeOK, AttributedAgent
    <2>3. CASE row' = row
        BY <2>3
    <2>4. CASE Inbox!Append(t, AttributedAgent(t, map[p]))
        BY <2>2, <2>4 DEF Inbox!Next
    <2> QED BY <2>1, <2>3, <2>4 DEF Stored, Inbox!Append
<1>2. CASE UNCHANGED row
    BY <1>2
<1> QED
    BY <1>1, <1>2 DEF Next, PullStep, Post, Discover, RegisterAgent, Begin,
       Fetch, ReadAgents, Register, FetchRefused, Die, vars

(* Pulls that overlap, repeat one another or die half-way still write every *)
(* row once: the puller implements the same inbox as the event receiver.    *)
THEOREM PullImplementsInbox == Spec => ImplementsInbox
<1>1. Init => Inbox!Init
    BY DEF Init, Inbox!Init
<1> QED
    BY <1>1, TypeCorrect, InboxStep, PTL DEF Spec, ImplementsInbox, Inbox!Spec
================================================================================
