-------------------------- MODULE SendGuardrailsProofs --------------------------
(***************************************************************************)
(* Theorems about send_message and its guardrails, for any number of calls *)
(* and agents, any budget, lag and length of the conversation.             *)
(***************************************************************************)
EXTENDS SendGuardrails, FiniteSetTheorems, TLAPS

(* A call posts to the top level or under a root that is there, and so has *)
(* everybody before it; ingest is behind by no more than its bound.        *)
SendInv ==
    /\ TypeOK
    /\ Cardinality(DOMAIN slack \ stored) <= MaxLag
    /\ \A s \in Sender : pc[s] \in {"lookup", "post", "repost"} => thread[s] \in Scopes
    /\ \A i \in DOMAIN slack : slack[i].thread <= Len(slack)
--------------------------------------------------------------------------------
LEMMA ConversationIsFinite ==
    ASSUME TypeOK
    PROVE  /\ DOMAIN slack = 1..Len(slack) /\ Len(slack) \in Nat
           /\ IsFiniteSet(DOMAIN slack) /\ IsFiniteSet(stored)
           /\ IsFiniteSet(DOMAIN slack \ stored)
<1>1. DOMAIN slack = 1..Len(slack) /\ Len(slack) \in Nat
    BY DEF TypeOK
<1>2. IsFiniteSet(DOMAIN slack)
    BY <1>1, FS_Interval
<1> QED
    BY <1>1, <1>2, FS_Subset DEF TypeOK

LEMMA ScopesAreShort ==
    ASSUME TypeOK
    PROVE  Scopes = {0} \cup {i \in DOMAIN slack : slack[i].thread = 0}
           /\ Scopes \subseteq 0..Len(slack) /\ Scopes \subseteq 0..MaxMessages
<1>1. /\ DOMAIN slack = 1..Len(slack) /\ Len(slack) \in Nat
      /\ Len(slack) <= MaxMessages /\ MaxMessages \in Nat
    BY BoundAssumption DEF TypeOK
<1> QED
    BY <1>1 DEF Scopes, IsRoot

(* What a message that Slack takes adds to the conversation.               *)
LEMMA PostedIsLast ==
    ASSUME TypeOK, NEW by \in Agent \cup {NoAgent}, NEW t \in 0..MaxMessages,
           NEW noted \in BOOLEAN, Posted(by, t, noted)
    PROVE  LET n == Len(slack) + 1 IN
           /\ slack' \in Seq(MessageType) /\ Len(slack') = n /\ n \in Nat /\ n <= MaxMessages
           /\ DOMAIN slack = 1..Len(slack) /\ DOMAIN slack' = DOMAIN slack \cup {n}
           /\ n \notin DOMAIN slack /\ \A i \in DOMAIN slack : i \in Nat /\ i < n
           /\ slack'[n] = [by |-> by, thread |-> t, note |-> noted]
           /\ \A i \in DOMAIN slack : slack'[i] = slack[i]
           /\ stored \subseteq stored' /\ stored' \subseteq DOMAIN slack'
           /\ unnamed \subseteq unnamed' /\ unnamed' \subseteq stored'
           /\ unnamed' \subseteq unnamed \cup {n} /\ unnamed \subseteq DOMAIN slack
           /\ by = NoAgent => n \notin unnamed'
           /\ Cardinality(DOMAIN slack' \ stored') <= MaxLag
<1> DEFINE m == [by |-> by, thread |-> t, note |-> noted]
           n == Len(slack) + 1
<1>1. m \in MessageType
    BY DEF MessageType
<1>2. slack \in Seq(MessageType) /\ slack' = Append(slack, m) /\ Len(slack) < MaxMessages
    BY DEF TypeOK, Posted
<1>3. /\ \/ /\ stored' = stored \cup {n}
            /\ \/ unnamed' = unnamed
               \/ unnamed' = unnamed \cup {n} /\ by # NoAgent
         \/ stored' = stored /\ unnamed' = unnamed
      /\ Cardinality(DOMAIN slack' \ stored') <= MaxLag
    BY DEF Posted, Row
<1>4. stored \subseteq DOMAIN slack /\ unnamed \subseteq stored
    BY DEF TypeOK
<1> HIDE DEF m
<1>5. slack' \in Seq(MessageType) /\ Len(slack') = n /\ n \in Nat
    BY <1>1, <1>2
<1>6. n <= MaxMessages
    BY <1>2, <1>5, BoundAssumption
<1>7. /\ DOMAIN slack = 1..Len(slack) /\ DOMAIN slack' = DOMAIN slack \cup {n}
      /\ n \notin DOMAIN slack /\ \A i \in DOMAIN slack : i \in Nat /\ i < n
    BY <1>2, <1>5
<1>8. slack'[n] = m /\ \A i \in DOMAIN slack : slack'[i] = slack[i]
    BY <1>1, <1>2
<1>9. /\ stored \subseteq stored' /\ stored' \subseteq DOMAIN slack'
      /\ unnamed \subseteq unnamed' /\ unnamed' \subseteq stored'
      /\ unnamed' \subseteq unnamed \cup {n} /\ unnamed \subseteq DOMAIN slack
      /\ by = NoAgent => n \notin unnamed'
    BY <1>3, <1>4, <1>7
<1> QED
    BY <1>3, <1>5, <1>6, <1>7, <1>8, <1>9 DEF m
--------------------------------------------------------------------------------
(* The conversation grows only by roots and replies to roots.              *)
LEMMA PostedKeepsScopes ==
    ASSUME SendInv, NEW by \in Agent \cup {NoAgent}, NEW t \in Scopes,
           NEW noted \in BOOLEAN, Posted(by, t, noted)
    PROVE  /\ Scopes' = Scopes \cup (IF t = 0 THEN {Len(slack) + 1} ELSE {})
           /\ \A i \in DOMAIN slack' : slack'[i].thread <= Len(slack')
<1> DEFINE n == Len(slack) + 1
<1>1. TypeOK /\ t \in 0..MaxMessages /\ t \in 0..Len(slack)
    BY ScopesAreShort DEF SendInv
<1>2. /\ Len(slack') = n /\ n \in Nat /\ Len(slack) \in Nat
      /\ DOMAIN slack' = DOMAIN slack \cup {n}
      /\ n \notin DOMAIN slack /\ slack'[n].thread = t
      /\ \A i \in DOMAIN slack : slack'[i] = slack[i]
    <2>1. /\ Len(slack') = n /\ n \in Nat
          /\ DOMAIN slack' = DOMAIN slack \cup {n}
          /\ n \notin DOMAIN slack /\ slack'[n] = [by |-> by, thread |-> t, note |-> noted]
          /\ \A i \in DOMAIN slack : slack'[i] = slack[i]
        BY <1>1, PostedIsLast
    <2> QED
        BY <1>1, <2>1, ConversationIsFinite
<1>3. \A i \in DOMAIN slack : slack[i].thread \in Nat /\ slack[i].thread <= Len(slack)
    <2>1. \A i \in DOMAIN slack : slack[i] \in MessageType
        BY <1>1 DEF TypeOK
    <2> QED
        BY <2>1 DEF SendInv, MessageType
<1> HIDE DEF n
<1>4. \A i \in DOMAIN slack' : slack'[i].thread <= Len(slack')
    BY <1>1, <1>2, <1>3 DEF n
<1>5. Scopes' = Scopes \cup (IF t = 0 THEN {n} ELSE {})
    BY <1>2 DEF Scopes, IsRoot
<1> QED
    BY <1>4, <1>5 DEF n

LEMMA IngestStepKeepsSend ==
    ASSUME SendInv, Ingest
    PROVE  SendInv'
<1>1. stored' \subseteq DOMAIN slack /\ stored \subseteq stored' /\ unnamed' \subseteq stored'
    BY DEF Ingest, Row, SendInv, TypeOK
<1>2. UNCHANGED <<slack, pc, thread, note, faults>> /\ known' \in BOOLEAN
    BY DEF Ingest, Registered, calls, SendInv, TypeOK
<1>3. Cardinality(DOMAIN slack \ stored') <= MaxLag
    <2>1. DOMAIN slack \ stored' \subseteq DOMAIN slack \ stored
        BY <1>1
    <2>2. IsFiniteSet(DOMAIN slack \ stored)
        BY ConversationIsFinite DEF SendInv
    <2>3. /\ Cardinality(DOMAIN slack \ stored') <= Cardinality(DOMAIN slack \ stored)
          /\ Cardinality(DOMAIN slack \ stored') \in Nat
          /\ Cardinality(DOMAIN slack \ stored) \in Nat
        BY <2>1, <2>2, FS_Subset, FS_CardinalityType
    <2> QED
        BY <2>3, BoundAssumption DEF SendInv
<1> QED
    BY <1>1, <1>2, <1>3 DEF SendInv, TypeOK, Scopes, IsRoot

LEMMA PersonKeepsSend ==
    ASSUME SendInv, PersonPosts
    PROVE  SendInv'
<1>1. PICK t \in Scopes : Posted(NoAgent, t, FALSE)
    BY DEF PersonPosts, Scopes
<1>2. t \in 0..MaxMessages
    BY ScopesAreShort DEF SendInv
<1>3. /\ slack' \in Seq(MessageType) /\ Len(slack') <= MaxMessages
      /\ stored' \subseteq DOMAIN slack' /\ unnamed' \subseteq stored'
      /\ Cardinality(DOMAIN slack' \ stored') <= MaxLag
    BY <1>1, <1>2, PostedIsLast DEF SendInv
<1>4. Scopes \subseteq Scopes' /\ \A i \in DOMAIN slack' : slack'[i].thread <= Len(slack')
    BY <1>1, PostedKeepsScopes
<1>5. UNCHANGED <<pc, thread, note, faults>> /\ known' \in BOOLEAN
    BY DEF PersonPosts, Registered, calls, SendInv, TypeOK
<1> QED
    BY <1>3, <1>4, <1>5 DEF SendInv, TypeOK

LEMMA PostKeepsSend ==
    ASSUME SendInv, NEW s \in Sender, Post(s) \/ PostLost(s)
    PROVE  SendInv'
<1>1. thread[s] \in Scopes /\ AgentOf[s] \in Agent \cup {NoAgent} /\ note[s] \in BOOLEAN
    BY SenderAssumption DEF Post, PostLost, SendInv, TypeOK
<1>2. thread[s] \in 0..MaxMessages
    BY <1>1, ScopesAreShort DEF SendInv
<1>3. /\ slack' \in Seq(MessageType) /\ Len(slack') <= MaxMessages
      /\ stored' \subseteq DOMAIN slack' /\ unnamed' \subseteq stored'
      /\ Cardinality(DOMAIN slack' \ stored') <= MaxLag
    BY <1>1, <1>2, PostedIsLast DEF Post, PostLost, SendInv
<1>4. Scopes \subseteq Scopes' /\ \A i \in DOMAIN slack' : slack'[i].thread <= Len(slack')
    BY <1>1, PostedKeepsScopes DEF Post, PostLost
<1>5. /\ pc' \in [Sender -> {"idle", "lookup", "post", "repost", "register"}]
      /\ thread' \in [Sender -> 0..MaxMessages] /\ note' \in [Sender -> BOOLEAN]
      /\ faults' \in 0..MaxFaults /\ known' \in BOOLEAN
      /\ \A r \in Sender : pc'[r] \in {"lookup", "post", "repost"} =>
            pc[r] \in {"lookup", "post", "repost"} /\ thread'[r] = thread[r]
    <2>1. /\ \/ /\ pc' = [pc EXCEPT ![s] = "register"] /\ UNCHANGED <<thread, note>>
             \/ /\ pc[s] = "post" /\ pc' = [pc EXCEPT ![s] = "repost"]
                /\ UNCHANGED <<thread, note>>
             \/ End(s)
          /\ faults' = faults \/ (faults < MaxFaults /\ faults' = faults + 1)
          /\ known' = (known \/ stored' # stored)
        BY DEF Post, PostLost, Registered
    <2>2. 0 \in 0..MaxMessages /\ MaxFaults \in Nat
        BY BoundAssumption
    <2>3. faults' \in 0..MaxFaults /\ known' \in BOOLEAN
        BY <2>1, <2>2 DEF SendInv, TypeOK
    <2>4. CASE pc' = [pc EXCEPT ![s] = "register"] /\ UNCHANGED <<thread, note>>
        BY <2>3, <2>4 DEF SendInv, TypeOK
    <2>5. CASE /\ pc[s] = "post" /\ pc' = [pc EXCEPT ![s] = "repost"]
               /\ UNCHANGED <<thread, note>>
        BY <2>3, <2>5 DEF SendInv, TypeOK
    <2>6. CASE End(s)
        BY <2>2, <2>3, <2>6 DEF End, SendInv, TypeOK
    <2> QED
        BY <2>1, <2>4, <2>5, <2>6
<1> QED
    BY <1>3, <1>4, <1>5 DEF SendInv, TypeOK

(* The other steps of a call leave the conversation alone.                 *)
LEMMA CallKeepsSend ==
    ASSUME SendInv, NEW s \in Sender,
           Check(s) \/ Lookup(s) \/ PostRefused(s) \/ Register(s) \/ Die(s)
    PROVE  SendInv'
<1>1. UNCHANGED <<slack, stored, unnamed>> /\ known' \in BOOLEAN
    BY DEF inbox, Check, Lookup, PostRefused, Register, Die, SendInv, TypeOK
<1>2. faults' \in 0..MaxFaults
    BY BoundAssumption DEF Check, Lookup, PostRefused, Register, Die, SendInv, TypeOK
<1>3. /\ thread' \in [Sender -> 0..MaxMessages]
      /\ \A r \in Sender : pc'[r] \in {"lookup", "post", "repost"} => thread'[r] \in Scopes
    <2>1. CASE Check(s)
        BY <2>1, ScopesAreShort DEF Check, SendInv, TypeOK, Scopes
    <2>2. CASE Lookup(s)
        BY <2>2 DEF Lookup, SendInv, TypeOK
    <2>3. CASE End(s)
        BY <2>3, BoundAssumption DEF End, SendInv, TypeOK
    <2> QED
        BY <2>1, <2>2, <2>3 DEF PostRefused, Register, Die
<1>4. pc' \in [Sender -> {"idle", "lookup", "post", "repost", "register"}] /\ note' \in [Sender -> BOOLEAN]
    BY DEF Check, Lookup, PostRefused, Register, Die, End, SendInv, TypeOK
<1> QED
    BY <1>1, <1>2, <1>3, <1>4 DEF SendInv, TypeOK, Scopes, IsRoot

LEMMA SendStep == SendInv /\ [Next]_vars => SendInv'
<1> SUFFICES ASSUME SendInv, [Next]_vars PROVE SendInv'
    OBVIOUS
<1>1. CASE UNCHANGED vars
    BY <1>1 DEF vars, inbox, calls, SendInv, TypeOK, Scopes, IsRoot
<1> QED
    BY <1>1, PersonKeepsSend, IngestStepKeepsSend, PostKeepsSend, CallKeepsSend DEF Next

LEMMA SendInit == Init => SendInv
<1> SUFFICES ASSUME Init PROVE SendInv
    OBVIOUS
<1>1. slack \in Seq(MessageType) /\ Len(slack) = 0 /\ DOMAIN slack = {}
    BY DEF Init
<1>2. Cardinality(DOMAIN slack \ stored) = 0
    BY <1>1, FS_EmptySet
<1>3. 0 \in 0..MaxMessages /\ 0 \in 0..MaxFaults /\ 0 <= MaxMessages /\ 0 <= MaxLag
    BY BoundAssumption
<1>4. TypeOK
    BY <1>1, <1>3 DEF Init, TypeOK
<1> QED
    BY <1>1, <1>2, <1>3, <1>4 DEF Init, SendInv

LEMMA SendInvariance == Spec => []SendInv
BY SendInit, SendStep, PTL DEF Spec

(* send_message and the conversation it writes to keep to their state      *)
(* space, whoever dies in the middle.                                      *)
THEOREM TypeCorrect == Spec => []TypeOK
<1>1. SendInv => TypeOK
    BY DEF SendInv
<1> QED
    BY <1>1, SendInvariance, PTL
--------------------------------------------------------------------------------
Rows(t) == {i \in DOMAIN slack : InConversationScope(i, t)}
Run(t) == {i \in Rows(t) : \A j \in Rows(t) : j >= i => j \in Attributed}
Sending(t) == {s \in Sender : pc[s] \in {"lookup", "post", "repost"} /\ thread[s] = t}
Slack == Budget - 1 + MaxLag + Cardinality(Sender) + faults

LEMMA TurnsAreRun ==
    ASSUME NEW t
    PROVE  Turns(t, Attributed) = Cardinality(Run(t)) /\ InFlight(t) = Cardinality(Sending(t))
BY DEF Turns, InFlight, AgentRun, Run, Rows, Sending

LEMMA RunIsFinite ==
    ASSUME TypeOK, NEW t
    PROVE  /\ IsFiniteSet(Run(t)) /\ Cardinality(Run(t)) \in Nat
           /\ IsFiniteSet(Sending(t)) /\ Cardinality(Sending(t)) \in Nat
           /\ Cardinality(Sending(t)) <= Cardinality(Sender) /\ Cardinality(Sender) \in Nat
<1>1. IsFiniteSet(Run(t))
    BY ConversationIsFinite, FS_Subset DEF Run, Rows
<1>2. /\ IsFiniteSet(Sending(t)) /\ IsFiniteSet(Sender)
      /\ Cardinality(Sending(t)) <= Cardinality(Sender)
    BY FS_Subset, SenderAssumption DEF Sending
<1> QED
    BY <1>1, <1>2, FS_CardinalityType

(* A message ends the run of its own scope if it is a person's, lengthens  *)
(* it by one at most if it is an agent's, and opens a scope of its own if  *)
(* it is at the top level.  Other scopes do not see it.                    *)
LEMMA PostedRuns ==
    ASSUME SendInv, NEW by \in Agent \cup {NoAgent}, NEW t0 \in Scopes,
           NEW noted \in BOOLEAN, Posted(by, t0, noted), NEW t \in Scopes',
           NEW n, n = Len(slack) + 1
    PROVE  /\ t = t0 => Run(t)' \subseteq IF by = NoAgent THEN {} ELSE Run(t) \cup {n}
           /\ t = n => Run(t)' \subseteq {n} /\ (by = NoAgent => Run(t)' = {})
           /\ t # n => t \in Scopes
           /\ t # t0 /\ t # n => Run(t)' = Run(t)
           /\ n # t0 /\ n \notin Run(t) /\ Sending(n) = {}
<1>1. TypeOK /\ t0 \in 0..MaxMessages /\ t0 \in 0..Len(slack) /\ Scopes \subseteq 0..Len(slack)
    BY ScopesAreShort DEF SendInv
<1>2. /\ n \in Nat /\ Len(slack) \in Nat
      /\ DOMAIN slack' = DOMAIN slack \cup {n}
      /\ n \notin DOMAIN slack /\ \A i \in DOMAIN slack : i \in Nat /\ i < n
      /\ slack'[n] = [by |-> by, thread |-> t0, note |-> noted]
      /\ \A i \in DOMAIN slack : slack'[i] = slack[i]
      /\ unnamed \subseteq unnamed' /\ unnamed' \subseteq unnamed \cup {n}
    BY <1>1, PostedIsLast, ConversationIsFinite
<1>3. Scopes' = Scopes \cup (IF t0 = 0 THEN {n} ELSE {})
    BY PostedKeepsScopes
<1>4. n # t0 /\ n \notin Scopes /\ n # 0
    BY <1>1, <1>2
<1>5. n \notin Run(t) /\ Sending(n) = {}
    BY <1>2, <1>4 DEF Run, Rows, Sending, SendInv
<1>6. \A i \in DOMAIN slack : slack[i].thread < n
    <2>1. \A i \in DOMAIN slack : slack[i] \in MessageType
        BY <1>1 DEF TypeOK
    <2> QED
        BY <1>1, <1>2, <2>1 DEF SendInv, MessageType
<1>7. slack'[n].by = by /\ slack'[n].thread = t0
    BY <1>2
<1>12. /\ \A i \in DOMAIN slack : i \in Attributed' <=> i \in Attributed
       /\ n \in Attributed' => by # NoAgent
    BY <1>2, <1>7 DEF Attributed, FromAgents, FromAgent
<1>8. CASE t = t0
    <2>1. Rows(t)' = Rows(t) \cup {n}
        BY <1>2, <1>4, <1>7, <1>8 DEF Rows, InConversationScope
    <2>2. \A i \in Rows(t) : i \in Nat /\ i < n /\ (i \in Attributed' <=> i \in Attributed)
        BY <1>2, <1>12 DEF Rows
    <2>3. n \in Attributed' => by # NoAgent
        BY <1>12
    <2>4. Run(t)' = {i \in Rows(t)' : \A j \in Rows(t)' : j >= i => j \in Attributed'}
        BY DEF Run
    <2>5. CASE by = NoAgent
        <3>1. \A i \in Rows(t)' : n >= i /\ n \in Rows(t)'
            BY <1>2, <2>1, <2>2
        <3> QED
            BY <1>4, <1>5, <1>8, <2>3, <2>4, <2>5, <3>1
    <2>6. CASE by # NoAgent
        <3>1. \A i \in Rows(t) : (\A j \in Rows(t)' : j >= i => j \in Attributed')
                              => (\A j \in Rows(t) : j >= i => j \in Attributed)
            BY <2>1, <2>2
        <3>3. Run(t)' \subseteq Run(t) \cup {n}
            BY <2>1, <2>4, <3>1 DEF Run
        <3> QED
            BY <1>4, <1>5, <1>8, <2>6, <3>3
    <2> QED
        BY <2>5, <2>6
<1>9. CASE t = n
    <2>1. Rows(t)' = {n}
        BY <1>2, <1>4, <1>6, <1>9 DEF Rows, InConversationScope
    <2>2. by = NoAgent => n \notin Attributed'
        BY <1>12
    <2>3. Run(t)' \subseteq {n} /\ (by = NoAgent => Run(t)' = {})
        BY <1>2, <2>1, <2>2 DEF Run
    <2> QED
        BY <1>4, <1>5, <1>9, <2>3
<1>10. CASE t # t0 /\ t # n
    <2>1. Rows(t)' = Rows(t)
        BY <1>2, <1>7, <1>10 DEF Rows, InConversationScope
    <2>2. Run(t)' = Run(t)
        BY <1>12, <2>1 DEF Run, Rows
    <2> QED
        BY <1>3, <1>4, <1>5, <1>10, <2>2
<1> QED
    BY <1>8, <1>9, <1>10
--------------------------------------------------------------------------------
(* The guardrail looks at all there is to see: SCAN_WINDOW rows or fewer.  *)
WindowCovers == Cardinality(stored) <= Window

LEMMA RecentIsStored ==
    ASSUME TypeOK, WindowCovers
    PROVE  Recent = stored
<1> SUFFICES ASSUME NEW i \in stored PROVE Cardinality({j \in stored : j > i}) < Window
    BY DEF Recent
<1> DEFINE later == {j \in stored : j > i}
<1>1. IsFiniteSet(stored) /\ \A j \in stored : j \in Nat
    BY ConversationIsFinite DEF TypeOK
<1>2. later \subseteq stored /\ i \notin later
    BY <1>1
<1> HIDE DEF later
<1>3. /\ IsFiniteSet(later) /\ Cardinality(later) <= Cardinality(stored)
      /\ Cardinality(stored) # Cardinality(later)
    BY <1>1, <1>2, FS_Subset
<1>4. Cardinality(later) \in Nat /\ Cardinality(stored) \in Nat /\ Window \in Nat
    BY <1>1, <1>3, FS_CardinalityType, BoundAssumption
<1> QED
    BY <1>3, <1>4 DEF WindowCovers, later

(* A send that passes may be late by what ingest has not stored.           *)
LEMMA RunOfCheckedScope ==
    ASSUME SendInv, WindowCovers, NEW t, ~Vetoed(t)
    PROVE  Cardinality(Run(t)) <= Budget - 1 + MaxLag
<1> DEFINE scope == {i \in stored : InConversationScope(i, t)}
           seen == {i \in scope : \A j \in scope : j >= i => j \in Attributed}
           behind == DOMAIN slack \ stored
<1>1. IsFiniteSet(stored) /\ IsFiniteSet(behind) /\ stored \subseteq DOMAIN slack
    BY ConversationIsFinite DEF SendInv, TypeOK
<1>2. Recent = stored
    BY RecentIsStored DEF SendInv
<1>3. ~(Cardinality(seen) >= Budget)
    BY <1>2 DEF Vetoed, AgentRun
<1>4. IsFiniteSet(seen)
    BY <1>1, FS_Subset
<1>5. Run(t) \subseteq seen \cup behind
    BY <1>1 DEF Run, Rows
<1>6. Cardinality(behind) <= MaxLag
    BY DEF SendInv
<1> HIDE DEF seen, behind
<1>7. /\ Cardinality(Run(t)) <= Cardinality(seen \cup behind)
      /\ Cardinality(seen \cup behind) = Cardinality(seen) + Cardinality(behind)
                                          - Cardinality(seen \cap behind)
      /\ Cardinality(seen \cup behind) \in Nat /\ Cardinality(seen \cap behind) \in Nat
      /\ Cardinality(seen) \in Nat /\ Cardinality(behind) \in Nat
      /\ IsFiniteSet(Run(t)) /\ Cardinality(Run(t)) \in Nat
    <2>1. IsFiniteSet(seen \cup behind) /\ IsFiniteSet(seen \cap behind)
        BY <1>1, <1>4, FS_Union, FS_Intersection
    <2> QED
        BY <1>1, <1>4, <1>5, <2>1, FS_Union, FS_Subset, FS_CardinalityType
<1>8. Budget \in Nat /\ MaxLag \in Nat
    BY BoundAssumption
<1> QED
    BY <1>3, <1>6, <1>7, <1>8

WithinSlack(t) == Cardinality(Run(t)) + Cardinality(Sending(t)) <= Slack

LEMMA SlackIsWithinSlack == TurnBudgetWithSlack <=> \A t \in Scopes : WithinSlack(t)
BY TurnsAreRun DEF TurnBudgetWithSlack, WithinSlack, Slack

LEMMA SlackHasRoom ==
    ASSUME TypeOK
    PROVE  /\ Slack \in Int /\ Slack >= Cardinality(Sender) /\ Cardinality(Sender) \in Nat
           /\ faults \in Nat
           /\ \A s \in Sender : Slack >= 1
<1>1. Budget \in Nat \ {0} /\ MaxLag \in Nat /\ faults \in Nat
    BY BoundAssumption DEF TypeOK
<1>2. Cardinality(Sender) \in Nat /\ \A s \in Sender : Cardinality(Sender) # 0
    BY FS_CardinalityType, FS_EmptySet, SenderAssumption
<1> QED
    BY <1>1, <1>2 DEF Slack

LEMMA PersonKeepsBudget ==
    ASSUME SendInv, SendInv', TurnBudgetWithSlack, PersonPosts, NEW t \in Scopes'
    PROVE  WithinSlack(t)'
<1>1. PICK t0 \in Scopes, noted \in BOOLEAN : Posted(NoAgent, t0, noted)
    BY DEF PersonPosts, Scopes
<1>2. PICK n : n = Len(slack) + 1
    OBVIOUS
<1>3. Sending(t)' = Sending(t) /\ Slack' = Slack
    BY DEF PersonPosts, calls, Sending, Slack
<1>4. Run(t)' = {} \/ (t \in Scopes /\ Run(t)' = Run(t))
    <2>1. NoAgent \in Agent \cup {NoAgent}
        OBVIOUS
    <2>2. /\ t = t0 => Run(t)' = {}
          /\ t = n => Run(t)' = {}
          /\ t # n => t \in Scopes
          /\ t # t0 /\ t # n => Run(t)' = Run(t)
        BY <1>1, <1>2, <2>1, PostedRuns
    <2> QED
        BY <2>2
<1>5. CASE Run(t)' = {}
    <2>1. Cardinality(Run(t)') = 0 /\ Cardinality(Sending(t)) <= Cardinality(Sender)
          /\ Cardinality(Sending(t)) \in Nat
        BY <1>5, FS_EmptySet, RunIsFinite DEF SendInv
    <2> QED
        BY <1>3, <2>1, SlackHasRoom DEF WithinSlack, SendInv
<1>6. CASE t \in Scopes /\ Run(t)' = Run(t)
    BY <1>3, <1>6, SlackIsWithinSlack DEF WithinSlack
<1> QED
    BY <1>4, <1>5, <1>6

(* A send that goes out stops being in flight as its scope grows, or is    *)
(* one that the SDK repeats.                                               *)
LEMMA PostKeepsBudget ==
    ASSUME SendInv, SendInv', TurnBudgetWithSlack, NEW s \in Sender, Post(s) \/ PostLost(s),
           NEW t \in Scopes'
    PROVE  WithinSlack(t)'
<1>1. /\ thread[s] \in Scopes /\ AgentOf[s] \in Agent \cup {NoAgent} /\ note[s] \in BOOLEAN
      /\ Posted(AgentOf[s], thread[s], note[s]) /\ AgentOf[s] # NoAgent
    BY SenderAssumption DEF Post, PostLost, SendInv, TypeOK
<1>2. PICK n : n = Len(slack) + 1
    OBVIOUS
<1>3. PICK t0 : t0 = thread[s]
    OBVIOUS
<1>4. /\ t = t0 => Run(t)' \subseteq Run(t) \cup {n}
      /\ t = n => Run(t)' \subseteq {n}
      /\ t # n => t \in Scopes
      /\ t # t0 /\ t # n => Run(t)' = Run(t)
      /\ n # t0 /\ n \notin Run(t) /\ Sending(n) = {}
    BY <1>1, <1>2, <1>3, PostedRuns
<1>5. \/ /\ Sending(t)' = Sending(t) \ {s} /\ (t = t0 => s \in Sending(t))
         /\ Slack' = Slack
      \/ Sending(t)' = Sending(t) /\ Slack' = Slack + 1
    <2>1. CASE Post(s)
        BY <1>3, <2>1 DEF Post, End, Sending, SendInv, TypeOK, Slack
    <2>2. CASE PostLost(s)
        <3>1. pc' = [pc EXCEPT ![s] = "repost"] /\ pc[s] = "post" /\ UNCHANGED thread
              /\ faults' = faults + 1
            BY <2>2 DEF PostLost
        <3>2. Sending(t)' = Sending(t)
            BY <3>1 DEF Sending, SendInv, TypeOK
        <3>3. Budget \in Nat /\ MaxLag \in Nat /\ Cardinality(Sender) \in Nat /\ faults \in Nat
            BY BoundAssumption, SlackHasRoom DEF SendInv
        <3>4. Slack' = Budget - 1 + MaxLag + Cardinality(Sender) + (faults + 1)
            BY <3>1 DEF Slack
        <3> QED
            BY <3>2, <3>3, <3>4 DEF Slack
    <2> QED
        BY <2>1, <2>2
<1>6. /\ IsFiniteSet(Run(t)) /\ Cardinality(Run(t)) \in Nat
      /\ IsFiniteSet(Sending(t)) /\ Cardinality(Sending(t)) \in Nat
    BY RunIsFinite DEF SendInv
<1>7. Cardinality(Sending(t)') <= Cardinality(Sending(t)) /\ Cardinality(Sending(t)') \in Nat
    BY <1>5, <1>6, FS_Subset, FS_CardinalityType
<1>8. Slack \in Int /\ Slack >= 1 /\ Slack' \in Int /\ Slack' >= Slack
    BY <1>5, SlackHasRoom DEF SendInv
<1>9. CASE t = t0
    <2>1. Cardinality(Run(t)) + Cardinality(Sending(t)) <= Slack
        BY <1>4, <1>9, SlackIsWithinSlack DEF WithinSlack
    <2>2. Cardinality(Run(t)') <= Cardinality(Run(t)) + 1 /\ Cardinality(Run(t)') \in Nat
        <3>1. /\ IsFiniteSet(Run(t) \cup {n})
              /\ Cardinality(Run(t) \cup {n}) = Cardinality(Run(t)) + 1
            BY <1>4, <1>6, FS_AddElement
        <3>2. IsFiniteSet(Run(t)') /\ Cardinality(Run(t)') <= Cardinality(Run(t) \cup {n})
            BY <1>4, <1>9, <3>1, FS_Subset
        <3> QED
            BY <3>1, <3>2, FS_CardinalityType
    <2>3. CASE Sending(t)' = Sending(t) \ {s} /\ s \in Sending(t) /\ Slack' = Slack
        <3>1. Cardinality(Sending(t)') = Cardinality(Sending(t)) - 1
            BY <1>6, <2>3, FS_RemoveElement
        <3> QED
            BY <1>6, <1>8, <2>1, <2>2, <2>3, <3>1 DEF WithinSlack
    <2>4. CASE Sending(t)' = Sending(t) /\ Slack' = Slack + 1
        BY <1>6, <1>8, <2>1, <2>2, <2>4 DEF WithinSlack
    <2> QED
        BY <1>5, <1>9, <2>3, <2>4
<1>10. CASE t = n
    <2>1. Cardinality(Sending(t)') = 0
        <3>1. Sending(t)' = {}
            BY <1>4, <1>5, <1>10
        <3> QED
            BY <3>1, FS_EmptySet
    <2>2. Cardinality(Run(t)') <= 1 /\ Cardinality(Run(t)') \in Nat
        <3>1. Run(t)' \in SUBSET {n} /\ IsFiniteSet({n}) /\ Cardinality({n}) = 1
            BY <1>4, <1>10, FS_Singleton
        <3>2. IsFiniteSet(Run(t)') /\ Cardinality(Run(t)') <= 1
            BY <3>1, FS_Subset
        <3> QED
            BY <3>2, FS_CardinalityType
    <2> QED
        BY <1>8, <2>1, <2>2 DEF WithinSlack
<1>11. CASE t # t0 /\ t # n
    <2>1. Cardinality(Run(t)) + Cardinality(Sending(t)) <= Slack
        BY <1>4, <1>11, SlackIsWithinSlack DEF WithinSlack
    <2> QED
        BY <1>4, <1>6, <1>7, <1>8, <1>11, <2>1 DEF WithinSlack
<1> QED
    BY <1>9, <1>10, <1>11

(* A send that starts has found its scope short of the budget.             *)
LEMMA CallKeepsBudget ==
    ASSUME SendInv, SendInv', TurnBudgetWithSlack, WindowCovers, NEW s \in Sender,
           Check(s) \/ Lookup(s) \/ PostRefused(s) \/ Register(s) \/ Die(s), NEW t \in Scopes
    PROVE  WithinSlack(t)'
<1>1. UNCHANGED <<slack, unnamed>>
    BY DEF inbox, Check, Lookup, PostRefused, Register, Die
<1>2. Run(t)' = Run(t)
    BY <1>1 DEF Run, Rows, InConversationScope, Attributed, FromAgents, FromAgent
<1>6. /\ Slack' \in Int /\ Slack' >= Slack /\ Slack \in Int
      /\ Slack' >= Budget - 1 + MaxLag + Cardinality(Sender)
    <2>1. faults' \in Nat /\ faults \in Nat /\ faults' >= faults
        BY BoundAssumption DEF Check, Lookup, PostRefused, Register, Die, SendInv, TypeOK
    <2>2. Budget \in Nat /\ MaxLag \in Nat /\ Cardinality(Sender) \in Nat
        BY BoundAssumption, SlackHasRoom DEF SendInv
    <2>3. Slack' = Budget - 1 + MaxLag + Cardinality(Sender) + faults'
        BY DEF Slack
    <2> QED
        BY <2>1, <2>2, <2>3 DEF Slack
<1>3. /\ Cardinality(Run(t)) \in Nat
      /\ IsFiniteSet(Sending(t)) /\ Cardinality(Sending(t)) \in Nat
      /\ Cardinality(Sending(t)') <= Cardinality(Sender) /\ Cardinality(Sending(t)') \in Nat
      /\ Cardinality(Sender) \in Nat
    <2>1. IsFiniteSet(Sending(t)')
        BY FS_Subset, SenderAssumption DEF Sending
    <2>2. Sending(t)' \subseteq Sender
        BY DEF Sending
    <2> QED
        BY <2>1, <2>2, FS_Subset, FS_CardinalityType, SenderAssumption, RunIsFinite DEF SendInv
<1>4. CASE Sending(t)' \subseteq Sending(t)
    <2>1. Cardinality(Sending(t)') <= Cardinality(Sending(t))
        BY <1>3, <1>4, FS_Subset
    <2>2. Cardinality(Run(t)) + Cardinality(Sending(t)) <= Slack
        BY SlackIsWithinSlack DEF WithinSlack
    <2> QED
        BY <1>2, <1>3, <1>6, <2>1, <2>2 DEF WithinSlack
<1>5. CASE ~(Sending(t)' \subseteq Sending(t))
    <2>1. Check(s) /\ thread'[s] = t
        BY <1>5 DEF Sending, Check, Lookup, PostRefused, Register, Die, End, SendInv, TypeOK
    <2>2. ~Vetoed(t)
        BY <2>1 DEF Check, SendInv, TypeOK
    <2>3. Cardinality(Run(t)) <= Budget - 1 + MaxLag
        BY <2>2, RunOfCheckedScope
    <2>4. Budget \in Nat /\ MaxLag \in Nat
        BY BoundAssumption
    <2> QED
        BY <1>2, <1>3, <1>6, <2>3, <2>4 DEF WithinSlack
<1> QED
    BY <1>4, <1>5

(* A row that names no agent can only end a run.                           *)
LEMMA IngestKeepsBudget ==
    ASSUME SendInv, TurnBudgetWithSlack, Ingest, NEW t \in Scopes
    PROVE  WithinSlack(t)'
<1>1. /\ UNCHANGED <<slack, pc, thread, faults>> /\ unnamed \subseteq unnamed'
    BY DEF Ingest, Row, calls
<1>2. Sending(t)' = Sending(t) /\ Slack' = Slack
    BY <1>1 DEF Sending, Slack
<1>3. Run(t)' \subseteq Run(t)
    BY <1>1 DEF Run, Rows, InConversationScope, Attributed, FromAgents, FromAgent
<1>4. /\ IsFiniteSet(Run(t)) /\ Cardinality(Run(t)) \in Nat /\ Cardinality(Sending(t)) \in Nat
      /\ Slack \in Int
    BY RunIsFinite, SlackHasRoom DEF SendInv
<1>5. Cardinality(Run(t)') <= Cardinality(Run(t)) /\ Cardinality(Run(t)') \in Nat
    BY <1>3, <1>4, FS_Subset, FS_CardinalityType
<1>6. Cardinality(Run(t)) + Cardinality(Sending(t)) <= Slack
    BY SlackIsWithinSlack DEF WithinSlack
<1> QED
    BY <1>2, <1>4, <1>5, <1>6 DEF WithinSlack

(* While the guardrail's window covers what is stored, agents overrun the  *)
(* budget of a conversation scope (agent_send_veto) by no more than the    *)
(* sends that were let through together, the messages ingest had not       *)
(* stored when they were and the posts the SDK repeated: sends in flight   *)
(* included, at every moment.  A file share stored as a bot's ends a run.  *)
THEOREM BudgetWithSlackAlways == Spec /\ []WindowCovers => []TurnBudgetWithSlack
<1>1. Init => TurnBudgetWithSlack
    <2> SUFFICES ASSUME Init, NEW t \in Scopes PROVE WithinSlack(t)
        BY SlackIsWithinSlack
    <2>1. Run(t) = {} /\ Sending(t) = {}
        BY DEF Init, Run, Rows, Sending
    <2> QED
        BY <2>1, FS_EmptySet, SlackHasRoom, SendInit DEF WithinSlack, SendInv
<1>2. SendInv /\ TurnBudgetWithSlack /\ WindowCovers /\ [Next]_vars => TurnBudgetWithSlack'
    <2> SUFFICES ASSUME SendInv, TurnBudgetWithSlack, WindowCovers, [Next]_vars
                 PROVE  TurnBudgetWithSlack'
        OBVIOUS
    <2>1. SendInv'
        BY SendStep
    <2>2. CASE UNCHANGED vars
        BY <2>2 DEF vars, inbox, calls, TurnBudgetWithSlack, Turns, InFlight, Scopes, IsRoot,
                    AgentRun, InConversationScope, Attributed, FromAgents, FromAgent
    <2>3. ASSUME \A t \in Scopes' : WithinSlack(t)' PROVE TurnBudgetWithSlack'
        BY <2>3 DEF WithinSlack, Slack, TurnBudgetWithSlack, Turns, InFlight,
                    AgentRun, Run, Rows, Sending
    <2>4. CASE PersonPosts
        BY <2>1, <2>3, <2>4, PersonKeepsBudget
    <2>5. CASE Ingest
        <3>1. Scopes' = Scopes
            BY <2>5 DEF Ingest, Scopes, IsRoot
        <3> QED
            BY <2>3, <2>5, <3>1, IngestKeepsBudget
    <2>6. ASSUME NEW s \in Sender, Post(s) \/ PostLost(s) PROVE TurnBudgetWithSlack'
        BY <2>1, <2>3, <2>6, PostKeepsBudget
    <2>7. ASSUME NEW s \in Sender,
                 Check(s) \/ Lookup(s) \/ PostRefused(s) \/ Register(s) \/ Die(s)
          PROVE  TurnBudgetWithSlack'
        <3>1. Scopes' = Scopes
            BY <2>7 DEF Check, Lookup, PostRefused, Register, Die, Scopes, IsRoot
        <3> QED
            BY <2>1, <2>3, <2>7, <3>1, CallKeepsBudget
    <2> QED
        BY <2>2, <2>4, <2>5, <2>6, <2>7 DEF Next
<1> QED
    BY <1>1, <1>2, SendInvariance, PTL DEF Spec
--------------------------------------------------------------------------------
(* An agent opens the conversation: nothing is stored or registered before *)
(* its first message, and every call that is about to post the first one   *)
(* has decided to append the note.                                         *)
FirstContact ==
    /\ slack # <<>> => FromAgent(1) /\ (IsDm => slack[1].note)
    /\ slack = <<>> =>
          /\ ~known
          /\ \A s \in Sender : pc[s] # "register" /\ thread[s] = 0
                               /\ (IsDm /\ pc[s] \in {"post", "repost"} => note[s])

LEMMA EmptyConversation ==
    ASSUME TypeOK
    PROVE  /\ slack = <<>> <=> DOMAIN slack = {}
           /\ slack # <<>> => 1 \in DOMAIN slack
           /\ slack = <<>> => Len(slack) = 0 /\ stored = {}
<1>1. slack \in Seq(MessageType) /\ stored \subseteq DOMAIN slack
    BY DEF TypeOK
<1>2. slack = <<>> => DOMAIN slack = {} /\ Len(slack) = 0
    OBVIOUS
<1>3. slack # <<>> => 1 \in DOMAIN slack
    BY <1>1
<1> QED
    BY <1>1, <1>2, <1>3

LEMMA PostedKeepsFirst ==
    ASSUME TypeOK, NEW by \in Agent \cup {NoAgent}, NEW t \in 0..MaxMessages,
           NEW noted \in BOOLEAN, Posted(by, t, noted)
    PROVE  /\ slack' # <<>>
           /\ slack # <<>> => slack'[1] = slack[1]
           /\ slack = <<>> => slack'[1] = [by |-> by, thread |-> t, note |-> noted]
<1>1. PICK n : n = Len(slack) + 1
    OBVIOUS
<1>2. /\ n \in Nat /\ Len(slack') = n
      /\ slack'[n] = [by |-> by, thread |-> t, note |-> noted]
      /\ \A i \in DOMAIN slack : slack'[i] = slack[i]
    BY <1>1, PostedIsLast
<1>3. Len(slack) \in Nat
    BY ConversationIsFinite
<1> QED
    BY <1>1, <1>2, <1>3, EmptyConversation

LEMMA FirstContactStep ==
    ASSUME SendInv, FirstContact, ~PersonFirst, [Next]_vars
    PROVE  FirstContact'
<1>1. TypeOK /\ (slack # <<>> => 1 \in DOMAIN slack) /\ (slack = <<>> => DOMAIN slack = {})
    BY EmptyConversation DEF SendInv
<1>2. CASE UNCHANGED vars
    BY <1>2 DEF vars, inbox, calls, FirstContact, FromAgent
<1>3. CASE PersonPosts
    <2>1. slack # <<>>
        BY <1>1, <1>3 DEF PersonPosts
    <2>2. PICK t \in Scopes, noted \in BOOLEAN : Posted(NoAgent, t, noted)
        BY <1>3 DEF PersonPosts, Scopes
    <2>3. t \in 0..MaxMessages /\ NoAgent \in Agent \cup {NoAgent}
        BY <1>1, ScopesAreShort
    <2>4. slack' # <<>> /\ slack'[1] = slack[1]
        BY <1>1, <2>1, <2>2, <2>3, PostedKeepsFirst
    <2> QED
        BY <2>1, <2>4 DEF FirstContact, FromAgent
<1>4. CASE Ingest
    BY <1>1, <1>4 DEF Ingest, calls, FirstContact, FromAgent
<1>5. ASSUME NEW s \in Sender, Post(s) \/ PostLost(s) PROVE FirstContact'
    <2>1. /\ thread[s] \in 0..MaxMessages /\ AgentOf[s] \in Agent /\ note[s] \in BOOLEAN
          /\ Posted(AgentOf[s], thread[s], note[s]) /\ AgentOf[s] # NoAgent
          /\ pc[s] \in {"post", "repost"}
        BY <1>1, <1>5, SenderAssumption DEF Post, PostLost, TypeOK
    <2>2. /\ slack' # <<>>
          /\ slack # <<>> => slack'[1] = slack[1]
          /\ slack = <<>> =>
                slack'[1] = [by |-> AgentOf[s], thread |-> thread[s], note |-> note[s]]
        BY <1>1, <2>1, PostedKeepsFirst
    <2>3. CASE slack # <<>>
        BY <2>2, <2>3 DEF FirstContact, FromAgent
    <2>4. CASE slack = <<>>
        <3>1. IsDm => note[s]
            BY <2>1, <2>4 DEF FirstContact
        <3>2. slack'[1].by = AgentOf[s] /\ slack'[1].note = note[s]
            BY <2>2, <2>4
        <3> QED
            BY <2>1, <2>2, <3>1, <3>2 DEF FirstContact, FromAgent
    <2> QED
        BY <2>3, <2>4
<1>6. ASSUME NEW s \in Sender,
             Check(s) \/ Lookup(s) \/ PostRefused(s) \/ Register(s) \/ Die(s)
      PROVE  FirstContact'
    <2>1. slack' = slack
        BY <1>6 DEF inbox, Check, Lookup, PostRefused, Register, Die
    <2>2. CASE slack # <<>>
        BY <2>1, <2>2 DEF FirstContact, FromAgent
    <2>3. CASE slack = <<>>
        <3>1. ~Register(s) /\ ~known /\ thread[s] = 0
            BY <2>3 DEF FirstContact, Register
        <3>2. ~known'
            BY <1>6, <3>1 DEF inbox, Check, Lookup, PostRefused, Die
        <3>3. ASSUME NEW r \in Sender
              PROVE  /\ pc'[r] # "register" /\ thread'[r] = 0
                     /\ IsDm /\ pc'[r] \in {"post", "repost"} => note'[r]
            <4>1. CASE Check(s)
                BY <1>1, <2>3, <4>1 DEF Check, FirstContact, TypeOK
            <4>2. CASE Lookup(s)
                BY <1>1, <2>3, <3>1, <4>2 DEF Lookup, FirstContact, TypeOK
            <4>3. CASE PostRefused(s) \/ Die(s)
                BY <1>1, <2>3, <4>3 DEF PostRefused, Die, End, FirstContact, TypeOK
            <4> QED
                BY <1>6, <3>1, <4>1, <4>2, <4>3
        <3> QED
            BY <2>1, <2>3, <3>2, <3>3 DEF FirstContact
    <2> QED
        BY <2>2, <2>3
<1> QED
    BY <1>2, <1>3, <1>4, <1>5, <1>6 DEF Next

(* The note is "appended automatically to the first message an agent ever  *)
(* sends into a DM conversation" (send_message.py): whichever of the calls *)
(* that overlap, are refused or die gets there first, if no person has     *)
(* written before.                                                         *)
THEOREM FirstMessageIsNoted ==
    ASSUME ~PersonFirst
    PROVE  Spec => []NoteOnFirstMessage
<1>1. Init => FirstContact
    BY DEF Init, FirstContact
<1>2. SendInv /\ FirstContact /\ [Next]_vars => FirstContact'
    BY FirstContactStep
<1>3. SendInv /\ FirstContact => NoteOnFirstMessage
    <2> SUFFICES ASSUME SendInv, FirstContact, IsDm, NEW i \in DOMAIN slack, FromAgent(i),
                        \A j \in 1..(i - 1) : ~FromAgent(j)
                 PROVE  slack[i].note
        BY DEF NoteOnFirstMessage
    <2>1. DOMAIN slack = 1..Len(slack) /\ Len(slack) \in Nat /\ slack # <<>>
        BY ConversationIsFinite, EmptyConversation DEF SendInv
    <2>2. i = 1
        <3>1. FromAgent(1)
            BY <2>1 DEF FirstContact
        <3>2. i # 1 => 1 \in 1..(i - 1)
            BY <2>1
        <3> QED
            BY <3>1, <3>2
    <2> QED
        BY <2>1, <2>2 DEF FirstContact
<1> QED
    BY <1>1, <1>2, <1>3, SendInvariance, PTL DEF Spec
--------------------------------------------------------------------------------
Noted == {i \in DOMAIN slack : slack[i].note}
Registering == {s \in Sender : pc[s] = "register"}
AboutToNote == {s \in Sender : pc[s] \in {"post", "repost"} /\ note[s]}

(* While nothing registers the conversation, every note is that of a call  *)
(* about to register it, of one that died or of a request made twice; and  *)
(* every call has a note to add, besides those.                            *)
NotesInv ==
    /\ ~known => Cardinality(Noted) <= Cardinality(Registering) + faults
    /\ Cardinality(Noted) + Cardinality(AboutToNote) <= Cardinality(Sender) + faults

LEMMA NotesAreFinite ==
    ASSUME TypeOK
    PROVE  /\ IsFiniteSet(Noted) /\ IsFiniteSet(Registering) /\ IsFiniteSet(AboutToNote)
           /\ Cardinality(Noted) \in Nat /\ Cardinality(Registering) \in Nat
           /\ Cardinality(AboutToNote) \in Nat /\ Cardinality(Sender) \in Nat /\ faults \in Nat
<1>1. IsFiniteSet(Noted)
    BY ConversationIsFinite, FS_Subset DEF Noted
<1>2. IsFiniteSet(Registering) /\ IsFiniteSet(AboutToNote) /\ IsFiniteSet(Sender)
    BY FS_Subset, SenderAssumption DEF Registering, AboutToNote
<1>3. faults \in Nat
    BY BoundAssumption DEF TypeOK
<1> QED
    BY <1>1, <1>2, <1>3, FS_CardinalityType

(* Calls that register and calls about to post are different calls.        *)
LEMMA CallsAreDisjoint ==
    ASSUME TypeOK, NEW s \in Sender, pc[s] = "lookup"
    PROVE  Cardinality(Registering) + Cardinality(AboutToNote) + 1 <= Cardinality(Sender)
<1>1. /\ IsFiniteSet(Registering) /\ IsFiniteSet(AboutToNote)
      /\ Cardinality(Registering) \in Nat /\ Cardinality(AboutToNote) \in Nat
      /\ Cardinality(Sender) \in Nat
    BY NotesAreFinite
<1> DEFINE both == Registering \cup AboutToNote
<1>2. /\ Registering \cap AboutToNote = {} /\ s \notin both
      /\ both \cup {s} \subseteq Sender
    BY DEF Registering, AboutToNote
<1>3. IsFiniteSet(both) /\ Cardinality(both) = Cardinality(Registering) + Cardinality(AboutToNote)
    BY <1>1, <1>2, FS_Union, FS_EmptySet
<1> HIDE DEF both
<1>4. Cardinality(both \cup {s}) = Cardinality(both) + 1
    BY <1>2, <1>3, FS_AddElement
<1>5. Cardinality(both \cup {s}) <= Cardinality(Sender)
    BY <1>2, SenderAssumption, FS_Subset
<1> QED
    BY <1>1, <1>3, <1>4, <1>5

(* Steps that add no note and take no registration away.                   *)
LEMMA QuietNotes ==
    ASSUME TypeOK, NotesInv, Noted' = Noted, Registering' = Registering,
           AboutToNote' \subseteq AboutToNote, known => known', faults' = faults
    PROVE  NotesInv'
<1>1. /\ Cardinality(AboutToNote') <= Cardinality(AboutToNote)
      /\ Cardinality(AboutToNote') \in Nat
    BY NotesAreFinite, FS_Subset, FS_CardinalityType
<1> QED
    BY <1>1, NotesAreFinite DEF NotesInv

LEMMA PersonIsNotNoted ==
    ASSUME SendInv, PersonPosts
    PROVE  Noted' = Noted
<1>1. PICK t \in Scopes, noted \in BOOLEAN : Posted(NoAgent, t, noted) /\ ~noted
    BY DEF PersonPosts, Scopes
<1>2. PICK n : n = Len(slack) + 1
    OBVIOUS
<1>3. t \in 0..MaxMessages /\ NoAgent \in Agent \cup {NoAgent}
    BY ScopesAreShort DEF SendInv
<1>4. /\ DOMAIN slack' = DOMAIN slack \cup {n} /\ n \notin DOMAIN slack
      /\ slack'[n] = [by |-> NoAgent, thread |-> t, note |-> noted]
      /\ \A i \in DOMAIN slack : slack'[i] = slack[i]
    BY <1>1, <1>2, <1>3, PostedIsLast DEF SendInv
<1>5. ~slack'[n].note
    BY <1>1, <1>4
<1> QED
    BY <1>4, <1>5 DEF Noted

LEMMA PostKeepsNotes ==
    ASSUME SendInv, NotesInv, NEW s \in Sender, Post(s)
    PROVE  NotesInv'
<1>1. /\ TypeOK /\ thread[s] \in 0..MaxMessages /\ AgentOf[s] \in Agent \cup {NoAgent}
      /\ note[s] \in BOOLEAN /\ pc[s] \in {"post", "repost"} /\ faults' = faults
      /\ Posted(AgentOf[s], thread[s], note[s]) /\ (known => known')
    BY SenderAssumption DEF Post, Registered, SendInv, TypeOK
<1>2. PICK n : n = Len(slack) + 1
    OBVIOUS
<1>3. /\ DOMAIN slack' = DOMAIN slack \cup {n} /\ n \notin DOMAIN slack
      /\ slack'[n] = [by |-> AgentOf[s], thread |-> thread[s], note |-> note[s]]
      /\ \A i \in DOMAIN slack : slack'[i] = slack[i]
    BY <1>1, <1>2, PostedIsLast
<1>4. slack'[n].note = note[s]
    BY <1>3
<1>5. CASE note[s]
    <2>1. Noted' = Noted \cup {n} /\ n \notin Noted
        BY <1>3, <1>4, <1>5 DEF Noted
    <2>2. pc' = [pc EXCEPT ![s] = "register"] /\ UNCHANGED note
        BY <1>5 DEF Post
    <2>3. Registering' = Registering \cup {s} /\ s \notin Registering
        BY <1>1, <2>2 DEF Registering, TypeOK
    <2>4. AboutToNote' = AboutToNote \ {s} /\ s \in AboutToNote
        BY <1>1, <1>5, <2>2 DEF AboutToNote, TypeOK
    <2>5. /\ Cardinality(Noted') = Cardinality(Noted) + 1
          /\ Cardinality(Registering') = Cardinality(Registering) + 1
          /\ Cardinality(AboutToNote') = Cardinality(AboutToNote) - 1
        BY <1>1, <2>1, <2>3, <2>4, NotesAreFinite, FS_AddElement, FS_RemoveElement
    <2> QED
        BY <1>1, <2>5, NotesAreFinite DEF NotesInv
<1>6. CASE ~note[s]
    <2>1. Noted' = Noted
        BY <1>3, <1>4, <1>6 DEF Noted
    <2>2. End(s)
        BY <1>6 DEF Post
    <2>3. Registering' = Registering /\ AboutToNote' \subseteq AboutToNote
        BY <1>1, <2>2 DEF End, Registering, AboutToNote, TypeOK
    <2> QED
        BY <1>1, <2>1, <2>3, QuietNotes
<1> QED
    BY <1>5, <1>6

(* The first of two requests leaves the call about to post, and is a fault. *)
LEMMA LostPostKeepsNotes ==
    ASSUME SendInv, NotesInv, NEW s \in Sender, PostLost(s)
    PROVE  NotesInv'
<1>1. /\ TypeOK /\ thread[s] \in 0..MaxMessages /\ AgentOf[s] \in Agent \cup {NoAgent}
      /\ note[s] \in BOOLEAN /\ pc[s] = "post" /\ faults' = faults + 1
      /\ pc' = [pc EXCEPT ![s] = "repost"] /\ UNCHANGED note
      /\ Posted(AgentOf[s], thread[s], note[s]) /\ (known => known')
    BY SenderAssumption DEF PostLost, Registered, SendInv, TypeOK
<1>2. PICK n : n = Len(slack) + 1
    OBVIOUS
<1>3. /\ DOMAIN slack' = DOMAIN slack \cup {n} /\ n \notin DOMAIN slack
      /\ \A i \in DOMAIN slack : slack'[i] = slack[i]
    BY <1>1, <1>2, PostedIsLast
<1>4. Registering' = Registering /\ AboutToNote' = AboutToNote
    BY <1>1 DEF Registering, AboutToNote, TypeOK
<1>5. Noted' = Noted \/ Noted' = Noted \cup {n}
    BY <1>3 DEF Noted
<1>6. Cardinality(Noted') <= Cardinality(Noted) + 1 /\ Cardinality(Noted') \in Nat
    <2>1. IsFiniteSet(Noted) /\ Cardinality(Noted) \in Nat
        BY <1>1, NotesAreFinite
    <2>2. \/ Cardinality(Noted \cup {n}) = Cardinality(Noted)
          \/ Cardinality(Noted \cup {n}) = Cardinality(Noted) + 1
        BY <2>1, FS_AddElement
    <2>3. CASE Noted' = Noted
        BY <2>1, <2>3
    <2>4. CASE Noted' = Noted \cup {n}
        BY <2>1, <2>2, <2>4
    <2> QED
        BY <1>5, <2>3, <2>4
<1> QED
    BY <1>1, <1>4, <1>6, NotesAreFinite DEF NotesInv

LEMMA CallKeepsNotes ==
    ASSUME SendInv, NotesInv, NEW s \in Sender,
           Check(s) \/ Lookup(s) \/ PostRefused(s) \/ Register(s) \/ Die(s)
    PROVE  NotesInv'
<1>1. TypeOK
    BY DEF SendInv
<1>2. Noted' = Noted
    BY DEF inbox, Check, Lookup, PostRefused, Register, Die, Noted
<1>3. CASE Check(s) \/ PostRefused(s)
    <2>1. Registering' = Registering /\ AboutToNote' \subseteq AboutToNote
        BY <1>1, <1>3 DEF Check, PostRefused, End, Registering, AboutToNote, TypeOK
    <2> QED
        BY <1>1, <1>2, <1>3, <2>1, QuietNotes DEF inbox, Check, PostRefused
<1>4. CASE Lookup(s)
    <2>1. Registering' = Registering /\ UNCHANGED <<known, faults>>
        BY <1>1, <1>4 DEF inbox, Lookup, Registering, TypeOK
    <2>2. CASE known
        <3>1. AboutToNote' \subseteq AboutToNote
            BY <1>1, <1>4, <2>2 DEF Lookup, AboutToNote, TypeOK
        <3> QED
            BY <1>1, <1>2, <2>1, <3>1, QuietNotes
    <2>3. CASE ~known
        <3>1. AboutToNote' \subseteq AboutToNote \cup {s}
            BY <1>1, <1>4 DEF Lookup, AboutToNote, TypeOK
        <3>2. IsFiniteSet(AboutToNote \cup {s})
              /\ Cardinality(AboutToNote \cup {s}) <= Cardinality(AboutToNote) + 1
            <4>1. IsFiniteSet(AboutToNote) /\ Cardinality(AboutToNote) \in Nat
                BY <1>1, NotesAreFinite
            <4>2. /\ IsFiniteSet(AboutToNote \cup {s})
                  /\ \/ Cardinality(AboutToNote \cup {s}) = Cardinality(AboutToNote)
                     \/ Cardinality(AboutToNote \cup {s}) = Cardinality(AboutToNote) + 1
                BY <4>1, FS_AddElement
            <4> QED
                BY <4>1, <4>2
        <3>3. /\ Cardinality(AboutToNote') <= Cardinality(AboutToNote) + 1
              /\ Cardinality(AboutToNote') \in Nat
            BY <1>1, <3>1, <3>2, FS_Subset, FS_CardinalityType, NotesAreFinite
        <3>4. Cardinality(Registering) + Cardinality(AboutToNote) + 1 <= Cardinality(Sender)
            BY <1>1, <1>4, CallsAreDisjoint DEF Lookup
        <3> QED
            BY <1>1, <1>2, <2>1, <2>3, <3>3, <3>4, NotesAreFinite DEF NotesInv
    <2> QED
        BY <2>2, <2>3
<1>5. CASE Register(s)
    <2>1. AboutToNote' \subseteq AboutToNote /\ known' /\ faults' = faults
        BY <1>1, <1>5 DEF Register, End, AboutToNote, TypeOK
    <2>2. /\ Cardinality(AboutToNote') <= Cardinality(AboutToNote)
          /\ Cardinality(AboutToNote') \in Nat
        BY <1>1, <2>1, NotesAreFinite, FS_Subset, FS_CardinalityType
    <2> QED
        BY <1>1, <1>2, <2>1, <2>2, NotesAreFinite DEF NotesInv
<1>6. CASE Die(s)
    <2>1. AboutToNote' \subseteq AboutToNote /\ known' = known /\ faults' = faults + 1
        BY <1>1, <1>6 DEF inbox, Die, End, AboutToNote, TypeOK
    <2>2. Registering' = Registering \ {s}
        BY <1>1, <1>6 DEF Die, End, Registering, TypeOK
    <2>3. /\ Cardinality(AboutToNote') <= Cardinality(AboutToNote)
          /\ Cardinality(AboutToNote') \in Nat
        BY <1>1, <2>1, NotesAreFinite, FS_Subset, FS_CardinalityType
    <2>4. /\ Cardinality(Registering) <= Cardinality(Registering') + 1
          /\ Cardinality(Registering') \in Nat
        <3>1. IsFiniteSet(Registering) /\ Cardinality(Registering) \in Nat
            BY <1>1, NotesAreFinite
        <3>2. \/ Cardinality(Registering') = Cardinality(Registering)
              \/ Cardinality(Registering') = Cardinality(Registering) - 1
            BY <2>2, <3>1, FS_RemoveElement
        <3>3. Cardinality(Registering') \in Nat
            BY <2>2, <3>1, FS_RemoveElement, FS_CardinalityType
        <3> QED
            BY <3>1, <3>2, <3>3
    <2> QED
        BY <1>1, <1>2, <2>1, <2>3, <2>4, NotesAreFinite DEF NotesInv
<1> QED
    BY <1>3, <1>4, <1>5, <1>6

(* "The intro note would repeat forever" (send_message.py, on what the     *)
(* registration after the first contact prevents): with any number of      *)
(* calls, however far ingest is behind, the note is repeated only by calls *)
(* that overlap the first one or follow one that died before registering,  *)
(* and by requests the SDK makes twice.                                    *)
THEOREM NotesBoundedAlways == Spec => []NotesBounded
<1>1. Init => NotesInv
    <2> SUFFICES ASSUME Init PROVE NotesInv
        OBVIOUS
    <2>1. Noted = {} /\ AboutToNote = {} /\ Registering = {} /\ faults = 0
        BY DEF Init, Noted, AboutToNote, Registering
    <2>2. Cardinality(Sender) \in Nat
        BY SenderAssumption, FS_CardinalityType
    <2> QED
        BY <2>1, <2>2, FS_EmptySet DEF NotesInv
<1>2. SendInv /\ NotesInv /\ [Next]_vars => NotesInv'
    <2> SUFFICES ASSUME SendInv, NotesInv, [Next]_vars PROVE NotesInv'
        OBVIOUS
    <2>1. CASE UNCHANGED vars
        BY <2>1 DEF vars, inbox, calls, NotesInv, Noted, Registering, AboutToNote
    <2>2. CASE PersonPosts \/ Ingest
        <3>1. UNCHANGED <<pc, note, faults>> /\ (known => known')
            BY <2>2 DEF PersonPosts, Ingest, Registered, calls
        <3>2. Registering' = Registering /\ AboutToNote' = AboutToNote
            BY <3>1 DEF Registering, AboutToNote
        <3>3. Noted' = Noted
            BY <2>2, PersonIsNotNoted DEF Ingest, Noted
        <3> QED
            BY <3>1, <3>2, <3>3, QuietNotes DEF SendInv
    <2> QED
        BY <2>1, <2>2, PostKeepsNotes, LostPostKeepsNotes, CallKeepsNotes DEF Next
<1>3. SendInv /\ NotesInv => NotesBounded
    <2> SUFFICES ASSUME SendInv, NotesInv PROVE NotesBounded
        OBVIOUS
    <2> QED
        BY NotesAreFinite DEF SendInv, NotesInv, NotesBounded, Noted
<1> QED
    BY <1>1, <1>2, <1>3, SendInvariance, PTL DEF Spec
================================================================================
