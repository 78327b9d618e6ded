--------------------------- MODULE SlackIngestProofs ---------------------------
(* What the receiver guarantees for every set of messages, apps and         *)
(* containers and every number of retries and faults.                       *)
EXTENDS SlackIngest, TLAPS

USE DEF Phase, Delivery, Unloaded, table, slack

(* A running invocation has a message, with its conversation and files.     *)
LEMMA JobType ==
    ASSUME TypeOK, NEW c \in Container, pc[c] # "idle"
    PROVE  /\ MessageOf(c) \in Message
           /\ ChannelOf[MessageOf(c)] \in Channel
           /\ FilesOf[MessageOf(c)] \in SUBSET File
<1>1. MessageOf(c) \in Message
    BY DEF TypeOK, MessageOf
<1> QED BY <1>1, MessageAssumption

(* Every variable of the receiver keeps to the kind of value the table, the *)
(* containers and Slack can hold.                                           *)
LEMMA TypeStep == TypeOK /\ [Next]_vars => TypeOK'
<1> SUFFICES ASSUME TypeOK, [Next]_vars PROVE TypeOK'
    OBVIOUS
<1> USE MessageAssumption, MarkerAssumption, BoundAssumption DEF TypeOK
<1>1. ASSUME NEW c \in Container, NEW d \in Delivery, Receive(c, d) PROVE TypeOK'
    BY <1>1 DEF Receive, Goto
<1>2. ASSUME NEW c \in Container, Ignore(c) PROVE TypeOK'
    BY <1>2 DEF Ignore, Goto
<1>3. ASSUME NEW c \in Container, Attribute(c) PROVE TypeOK'
    <2>1. MessageOf(c) \in Message
        BY <1>3 DEF Attribute, MessageOf
    <2>2. /\ LoadedMap(c) \in SUBSET Agent
          /\ AttributedAgent(MessageOf(c), LoadedMap(c)) \in Agent \cup {NoAgent}
        BY <2>1 DEF LoadedMap, AttributedAgent
    <2> QED BY <1>3, <2>1, <2>2 DEF Attribute, Goto
<1>4. ASSUME NEW c \in Container, PutNew(c) PROVE TypeOK'
    <2>1. pc[c] # "idle"
        BY <1>4 DEF PutNew
    <2>2. /\ MessageOf(c) \in Message
          /\ ChannelOf[MessageOf(c)] \in Channel
          /\ FilesOf[MessageOf(c)] \in SUBSET File
        BY <2>1, JobType
    <2> QED BY <1>4, <2>1, <2>2 DEF PutNew, Goto
<1>5. ASSUME NEW c \in Container, PutDuplicate(c) PROVE TypeOK'
    BY <1>5 DEF PutDuplicate, Goto
<1>6. ASSUME NEW c \in Container, PutReplyLost(c) PROVE TypeOK'
    <2>1. pc[c] # "idle"
        BY <1>6 DEF PutReplyLost
    <2>2. /\ MessageOf(c) \in Message
          /\ ChannelOf[MessageOf(c)] \in Channel
          /\ FilesOf[MessageOf(c)] \in SUBSET File
        BY <2>1, JobType
    <2> QED BY <1>6, <2>1, <2>2 DEF PutReplyLost, Goto
<1>7. ASSUME NEW c \in Container, PutFile(c) PROVE TypeOK'
    <2>1. pc[c] # "idle"
        BY <1>7 DEF PutFile
    <2>2. /\ MessageOf(c) \in Message
          /\ ChannelOf[MessageOf(c)] \in Channel
          /\ FilesOf[MessageOf(c)] \in SUBSET File
        BY <2>1, JobType
    <2> QED BY <1>7, <2>1, <2>2 DEF PutFile
<1>8. ASSUME NEW c \in Container, Register(c) PROVE TypeOK'
    <2>1. pc[c] # "idle"
        BY <1>8 DEF Register
    <2>2. /\ MessageOf(c) \in Message
          /\ ChannelOf[MessageOf(c)] \in Channel
          /\ FilesOf[MessageOf(c)] \in SUBSET File
        BY <2>1, JobType
    <2> QED BY <1>8, <2>1, <2>2 DEF Register, Goto
<1>9. ASSUME NEW c \in Container, Publish(c) PROVE TypeOK'
    <2>1. pc[c] # "idle"
        BY <1>9 DEF Publish
    <2>2. /\ MessageOf(c) \in Message
          /\ ChannelOf[MessageOf(c)] \in Channel
          /\ FilesOf[MessageOf(c)] \in SUBSET File
        BY <2>1, JobType
    <2> QED BY <1>9, <2>1, <2>2 DEF Publish, Goto
<1>10. ASSUME NEW c \in Container, Respond(c) PROVE TypeOK'
    BY <1>10 DEF Respond, End, Goto
<1>11. ASSUME NEW c \in Container, Die(c) PROVE TypeOK'
    BY <1>11 DEF Die, End, Goto
<1>12. ASSUME NEW c \in Container, Recycle(c) PROVE TypeOK'
    BY <1>12 DEF Recycle
<1>13. ASSUME NEW a \in Agent, RegisterAgent(a) PROVE TypeOK'
    BY <1>13 DEF RegisterAgent
<1>14. ASSUME NEW c \in Container, Reject(c) PROVE TypeOK'
    BY <1>14 DEF Reject, End, Goto
<1>15. CASE UNCHANGED vars
    BY <1>15 DEF vars
<1> QED
    BY <1>1, <1>2, <1>3, <1>4, <1>5, <1>6, <1>7, <1>8, <1>9, <1>10, <1>11,
       <1>12, <1>13, <1>14, <1>15 DEF Next, HandlerStep

LEMMA TypeInit == Init => TypeOK
BY MessageAssumption, MarkerAssumption, BoundAssumption DEF Init, TypeOK

(* The receiver never leaves its state space: TypeOK is inductive.          *)
THEOREM TypeCorrect == Spec => []TypeOK
BY TypeInit, TypeStep, PTL DEF Spec
--------------------------------------------------------------------------------
Parts == OneRecorder /\ InvocationProgress /\ PublishedOnceAndLast /\ AckedIsStored

(* A step that leaves the table, the published counts and the answers alone *)
(* and puts no container into a phase the invariant speaks of keeps it.     *)
LEMMA QuietStep ==
    ASSUME IngestInv, NEW c \in Container,
           UNCHANGED <<table, published>>,
           acked' = acked,
           \A k \in Container \ {c} :
               pc'[k] = pc[k] /\ job'[k] = job[k] /\ todo'[k] = todo[k],
           pc'[c] \in {"idle", "begin", "put"}
    PROVE  Parts'
<1> USE DEF IngestInv, Recording, MessageOf, Recorded
<1>1. OneRecorder'
    BY DEF OneRecorder
<1>2. InvocationProgress'
    BY DEF InvocationProgress
<1>3. PublishedOnceAndLast' /\ AckedIsStored'
    BY DEF PublishedOnceAndLast, AckedIsStored
<1> QED BY <1>1, <1>2, <1>3 DEF Parts

LEMMA InvStep == IngestInv /\ [Next]_vars => IngestInv'
<1> SUFFICES ASSUME IngestInv, [Next]_vars PROVE Parts'
    BY TypeStep DEF IngestInv, Parts
<1>t. TypeOK /\ TypeOK'
    BY TypeStep DEF IngestInv
<1>0. ASSUME NEW c \in Container, pc[c] # "idle"
      PROVE  /\ MessageOf(c) \in Message
             /\ ChannelOf[MessageOf(c)] \in Channel
             /\ FilesOf[MessageOf(c)] \in SUBSET File
    BY <1>0, <1>t, JobType
<1>1. ASSUME NEW c \in Container, NEW d \in Delivery, Receive(c, d) PROVE Parts'
    BY <1>1, <1>t, QuietStep DEF Receive, Goto, TypeOK
<1>2. ASSUME NEW c \in Container, Ignore(c) PROVE Parts'
    BY <1>2, <1>t DEF Ignore, Goto, TypeOK, IngestInv, Parts, OneRecorder,
       InvocationProgress, PublishedOnceAndLast, AckedIsStored, Recording,
       MessageOf, Recorded
<1>3. ASSUME NEW c \in Container, Attribute(c) PROVE Parts'
    BY <1>3, <1>t, QuietStep DEF Attribute, Goto, TypeOK
<1>4. ASSUME NEW c \in Container, PutNew(c) PROVE Parts'
    <2> DEFINE m == MessageOf(c)
    <2>1. /\ m \in Message /\ row[m] = NoRow /\ row'[m] # NoRow
          /\ \A n \in Message : n # m => row'[n] = row[n]
        BY <1>4, <1>0, <1>t, MarkerAssumption DEF PutNew, TypeOK
    <2>2. pc'[c] = "files" /\ todo'[c] = FilesOf[m] /\ MessageOf(c)' = m
        BY <1>4, <1>t DEF PutNew, Goto, TypeOK, MessageOf
    <2>3. \A k \in Container \ {c} :
             pc'[k] = pc[k] /\ todo'[k] = todo[k] /\ MessageOf(k)' = MessageOf(k)
        BY <1>4, <1>t DEF PutNew, Goto, TypeOK, MessageOf
    <2>4. \A k \in Container : Recording(k) => MessageOf(k) \in Message /\ MessageOf(k) # m
        BY <2>1, <1>0 DEF IngestInv, OneRecorder, Recording
    <2>5. published[m] = 0
        BY <2>1, <1>t DEF IngestInv, PublishedOnceAndLast, TypeOK
    <2>6. UNCHANGED <<fileRow, registry, published, acked>>
        BY <1>4 DEF PutNew
    <2>7. OneRecorder'
        BY <2>1, <2>2, <2>3, <2>4, <2>5, <2>6 DEF IngestInv, OneRecorder, Recording
    <2>8. InvocationProgress'
        BY <2>1, <2>2, <2>3, <2>6, <1>0 DEF IngestInv, InvocationProgress, Recorded
    <2>9. PublishedOnceAndLast' /\ AckedIsStored'
        BY <2>1, <2>6, <1>t
           DEF IngestInv, PublishedOnceAndLast, AckedIsStored, Recorded, TypeOK
    <2> QED BY <2>7, <2>8, <2>9 DEF Parts
<1>5. ASSUME NEW c \in Container, PutDuplicate(c) PROVE Parts'
    BY <1>5, <1>t DEF PutDuplicate, Goto, TypeOK, IngestInv, Parts, OneRecorder,
       InvocationProgress, PublishedOnceAndLast, AckedIsStored, Recording,
       MessageOf, Recorded
<1>6. ASSUME NEW c \in Container, PutReplyLost(c) PROVE Parts'
    <2> DEFINE m == MessageOf(c)
    <2>1. /\ m \in Message /\ row[m] = NoRow /\ row'[m] # NoRow
          /\ \A n \in Message : n # m => row'[n] = row[n]
        BY <1>6, <1>0, <1>t, MarkerAssumption DEF PutReplyLost, TypeOK
    <2>2. /\ pc'[c] = "respond"
          /\ \A k \in Container \ {c} : pc'[k] = pc[k]
          /\ \A k \in Container : todo'[k] = todo[k] /\ MessageOf(k)' = MessageOf(k)
        BY <1>6, <1>t DEF PutReplyLost, Goto, TypeOK, MessageOf
    <2>3. UNCHANGED <<fileRow, registry, published, acked>>
        BY <1>6 DEF PutReplyLost
    <2>4. OneRecorder'
        BY <2>1, <2>2, <2>3, <1>0 DEF IngestInv, OneRecorder, Recording
    <2>5. InvocationProgress'
        BY <2>1, <2>2, <2>3, <1>0 DEF IngestInv, InvocationProgress, Recorded
    <2>6. PublishedOnceAndLast' /\ AckedIsStored'
        BY <2>1, <2>3, <1>t
           DEF IngestInv, PublishedOnceAndLast, AckedIsStored, Recorded, TypeOK
    <2> QED BY <2>4, <2>5, <2>6 DEF Parts
<1>7. ASSUME NEW c \in Container, PutFile(c) PROVE Parts'
    <2>1. MessageOf(c) \in Message /\ MessageOf(c) # NoRow
        BY <1>7, <1>0, MarkerAssumption DEF PutFile
    <2>2. PICK f \in todo[c] :
              /\ fileRow' = [fileRow EXCEPT ![f] = MessageOf(c)]
              /\ todo' = [todo EXCEPT ![c] = @ \ {f}]
        BY <1>7 DEF PutFile
    <2>3. /\ fileRow'[f] # NoRow
          /\ \A g \in File : fileRow[g] # NoRow => fileRow'[g] # NoRow
        BY <2>1, <2>2, <1>t DEF TypeOK
    <2>4. UNCHANGED <<row, registry, published, acked, pc, job>>
        BY <1>7 DEF PutFile
    <2>5. OneRecorder' /\ AckedIsStored'
        BY <2>4 DEF IngestInv, OneRecorder, AckedIsStored, Recording, MessageOf
    <2>6. PublishedOnceAndLast'
        BY <2>3, <2>4, MessageAssumption DEF IngestInv, PublishedOnceAndLast, Recorded
    <2>7. InvocationProgress'
        BY <2>2, <2>3, <2>4, <1>0, <1>t
           DEF IngestInv, InvocationProgress, Recorded, MessageOf, TypeOK
    <2> QED BY <2>5, <2>6, <2>7 DEF Parts
<1>8. ASSUME NEW c \in Container, Register(c) PROVE Parts'
    <2>1. /\ pc[c] = "files" /\ todo[c] = {} /\ pc'[c] = "publish"
          /\ \A k \in Container \ {c} : pc'[k] = pc[k]
          /\ ChannelOf[MessageOf(c)] \in registry' /\ registry \subseteq registry'
        BY <1>8, <1>t DEF Register, Goto, TypeOK
    <2>2. UNCHANGED <<row, fileRow, published, acked, job, todo>>
        BY <1>8 DEF Register
    <2>3. OneRecorder' /\ AckedIsStored'
        BY <2>1, <2>2 DEF IngestInv, OneRecorder, AckedIsStored, Recording, MessageOf
    <2>4. PublishedOnceAndLast' /\ InvocationProgress'
        BY <2>1, <2>2
           DEF IngestInv, PublishedOnceAndLast, InvocationProgress, Recorded, MessageOf
    <2> QED BY <2>3, <2>4 DEF Parts
<1>9. ASSUME NEW c \in Container, Publish(c) PROVE Parts'
    <2> DEFINE m == MessageOf(c)
    <2>1. /\ m \in Message /\ row[m] # NoRow /\ published[m] = 0 /\ Recorded(m)
          /\ \A k \in Container \ {c} : Recording(k) => MessageOf(k) # m
        BY <1>9, <1>0 DEF Publish, IngestInv, OneRecorder, InvocationProgress, Recording
    <2>2. /\ pc'[c] = "respond"
          /\ \A k \in Container \ {c} : pc'[k] = pc[k]
        BY <1>9, <1>t DEF Publish, Goto, TypeOK
    <2>3. /\ published'[m] \in {0, 1}
          /\ \A n \in Message : n # m => published'[n] = published[n]
        BY <1>9, <2>1, <1>t DEF Publish, TypeOK
    <2>4. UNCHANGED <<row, fileRow, registry, acked, job, todo>>
        BY <1>9 DEF Publish
    <2>5. \A k \in Container : pc[k] # "idle" => MessageOf(k) \in Message
        BY <1>0
    <2>6. OneRecorder'
        BY <2>1, <2>2, <2>3, <2>4, <2>5 DEF IngestInv, OneRecorder, Recording, MessageOf
    <2>7. InvocationProgress'
        BY <2>1, <2>2, <2>4 DEF IngestInv, InvocationProgress, Recorded, MessageOf
    <2>8. PublishedOnceAndLast' /\ AckedIsStored'
        BY <2>1, <2>3, <2>4 DEF IngestInv, PublishedOnceAndLast, AckedIsStored, Recorded
    <2> QED BY <2>6, <2>7, <2>8 DEF Parts
<1>10. ASSUME NEW c \in Container, Respond(c) PROVE Parts'
    <2>1. /\ pc[c] = "respond" /\ pc'[c] = "idle"
          /\ \A k \in Container \ {c} :
                 pc'[k] = pc[k] /\ job'[k] = job[k] /\ todo'[k] = todo[k]
          /\ acked' \subseteq acked \cup {job[c]}
        BY <1>10, <1>t DEF Respond, End, Goto, TypeOK
    <2>2. UNCHANGED <<row, fileRow, registry, published>>
        BY <1>10 DEF Respond
    <2>3. AckedIsStored'
        BY <2>1, <2>2 DEF IngestInv, AckedIsStored, InvocationProgress, MessageOf
    <2>4. OneRecorder' /\ InvocationProgress' /\ PublishedOnceAndLast'
        BY <2>1, <2>2 DEF IngestInv, OneRecorder, InvocationProgress,
           PublishedOnceAndLast, Recording, Recorded, MessageOf
    <2> QED BY <2>3, <2>4 DEF Parts
<1>11. ASSUME NEW c \in Container, Die(c) PROVE Parts'
    BY <1>11, <1>t, QuietStep DEF Die, End, Goto, TypeOK
<1>12. ASSUME NEW c \in Container, Recycle(c) PROVE Parts'
    BY <1>12, <1>t, QuietStep DEF Recycle
<1>13. ASSUME NEW a \in Agent, RegisterAgent(a) PROVE Parts'
    BY <1>13 DEF RegisterAgent, IngestInv, Parts, OneRecorder, InvocationProgress,
       PublishedOnceAndLast, AckedIsStored, Recording, MessageOf, Recorded
<1>14. ASSUME NEW c \in Container, Reject(c) PROVE Parts'
    BY <1>14, <1>t, QuietStep DEF Reject, End, Goto, TypeOK
<1>15. CASE UNCHANGED vars
    BY <1>15 DEF vars, IngestInv, Parts, OneRecorder, InvocationProgress,
       PublishedOnceAndLast, AckedIsStored, Recording, MessageOf, Recorded
<1> QED
    BY <1>1, <1>2, <1>3, <1>4, <1>5, <1>6, <1>7, <1>8, <1>9, <1>10, <1>11,
       <1>12, <1>13, <1>14, <1>15 DEF Next, HandlerStep

LEMMA InvInit == Init => IngestInv
BY TypeInit DEF Init, IngestInv, OneRecorder, InvocationProgress,
   PublishedOnceAndLast, AckedIsStored, Recording

LEMMA Invariant == Spec => []IngestInv
BY InvInit, InvStep, PTL DEF Spec

(* Concurrent and repeated deliveries of a message elect one recorder.      *)
THEOREM OneRecorderAlways == Spec => []OneRecorder
BY Invariant, PTL DEF IngestInv

(* A message is published at most once and after all its records.           *)
THEOREM PublishedOnceAndLastAlways == Spec => []PublishedOnceAndLast
BY Invariant, PTL DEF IngestInv

(* A 200 that Slack saw is backed by a stored row.                          *)
THEOREM AckedIsStoredAlways == Spec => []AckedIsStored
BY Invariant, PTL DEF IngestInv
--------------------------------------------------------------------------------
(* What a step does to the messages stored so far: their rows and records  *)
(* stay, and an invocation that records one goes on with it.               *)
LEMMA UnderwayStep ==
    ASSUME IngestInv, RecordsUnderway, [Next]_vars
    PROVE  RecordsUnderway'
<1> SUFFICES ASSUME faults' = 0, NEW m \in Message, row'[m] # NoRow
             PROVE  \/ Recorded(m)'
                    \/ \E c \in Container : (Recording(c) /\ MessageOf(c) = m)'
    BY DEF RecordsUnderway
<1> USE DEF Recording, MessageOf, Recorded
<1>t. TypeOK
    BY DEF IngestInv
<1>0. ASSUME NEW c \in Container, pc[c] # "idle"
      PROVE  /\ MessageOf(c) \in Message
             /\ ChannelOf[MessageOf(c)] \in Channel
             /\ FilesOf[MessageOf(c)] \in SUBSET File
    BY <1>0, <1>t, JobType
<1>f. \A n \in Message : FilesOf[n] \subseteq File /\ ChannelOf[n] \in Channel
    BY MessageAssumption
<1>1. ASSUME faults = 0, UNCHANGED table,
             \A k \in Container : Recording(k) =>
                 pc'[k] = pc[k] /\ job'[k] = job[k]
      PROVE  \/ Recorded(m)'
             \/ \E c \in Container : (Recording(c) /\ MessageOf(c) = m)'
    <2>1. CASE Recorded(m)
        BY <1>1, <2>1 DEF table
    <2>2. CASE \E c \in Container : Recording(c) /\ MessageOf(c) = m
        BY <1>1, <2>2
    <2> QED BY <1>1, <2>1, <2>2 DEF RecordsUnderway, table
<1>2. ASSUME NEW c \in Container,
             \/ \E d \in Delivery : Receive(c, d)
             \/ Ignore(c) \/ Attribute(c) \/ PutDuplicate(c) \/ Respond(c) \/ Recycle(c)
      PROVE  \/ Recorded(m)'
             \/ \E k \in Container : (Recording(k) /\ MessageOf(k) = m)'
    <2>1. faults = 0 /\ UNCHANGED table
        BY <1>2 DEF Receive, Ignore, Attribute, PutDuplicate, Respond, Recycle, table
    <2>2. \A k \in Container : Recording(k) => pc'[k] = pc[k] /\ job'[k] = job[k]
        BY <1>2, <1>t DEF Receive, Ignore, Attribute, PutDuplicate, Respond, Recycle,
           End, Goto, TypeOK
    <2> QED BY <1>1, <2>1, <2>2
<1>3. ASSUME NEW c \in Container, PutNew(c)
      PROVE  \/ Recorded(m)'
             \/ \E k \in Container : (Recording(k) /\ MessageOf(k) = m)'
    <2>1. /\ pc[c] = "put" /\ pc'[c] = "files" /\ faults = 0
          /\ \A k \in Container \ {c} : pc'[k] = pc[k]
          /\ UNCHANGED <<job, fileRow, registry>>
          /\ \A n \in Message : n # MessageOf(c) => row'[n] = row[n]
        BY <1>3, <1>t, <1>0 DEF PutNew, Goto, TypeOK
    <2>2. CASE m = MessageOf(c)
        BY <2>1, <2>2
    <2>3. CASE m # MessageOf(c)
        <3>1. Recorded(m) \/ \E k \in Container : Recording(k) /\ MessageOf(k) = m
            BY <2>1, <2>3 DEF RecordsUnderway
        <3> QED BY <2>1, <3>1
    <2> QED BY <2>2, <2>3
<1>4. ASSUME NEW c \in Container, PutFile(c) \/ Register(c)
      PROVE  \/ Recorded(m)'
             \/ \E k \in Container : (Recording(k) /\ MessageOf(k) = m)'
    <2>1. /\ faults = 0 /\ UNCHANGED <<job, row>>
          /\ \A f \in File : fileRow[f] # NoRow => fileRow'[f] # NoRow
          /\ registry \subseteq registry'
        BY <1>4, <1>t, <1>0, MarkerAssumption DEF PutFile, Register, TypeOK
    <2>2. \A k \in Container : Recording(k) => pc'[k] \in {"files", "publish"}
        BY <1>4, <1>t DEF PutFile, Register, Goto, TypeOK
    <2>3. Recorded(m) \/ \E k \in Container : Recording(k) /\ MessageOf(k) = m
        BY <2>1 DEF RecordsUnderway
    <2>4. CASE Recorded(m)
        BY <2>1, <2>4, <1>f
    <2> QED BY <2>1, <2>2, <2>3, <2>4
<1>5. ASSUME NEW c \in Container, Publish(c)
      PROVE  \/ Recorded(m)'
             \/ \E k \in Container : (Recording(k) /\ MessageOf(k) = m)'
    <2>1. /\ pc[c] = "publish" /\ faults = 0 /\ UNCHANGED <<job, table>>
          /\ \A k \in Container \ {c} : pc'[k] = pc[k]
        BY <1>5, <1>t DEF Publish, Goto, TypeOK
    <2>2. Recorded(m) \/ \E k \in Container : Recording(k) /\ MessageOf(k) = m
        BY <2>1 DEF RecordsUnderway, table
    <2>3. Recorded(MessageOf(c))
        BY <2>1 DEF IngestInv, InvocationProgress
    <2>4. CASE Recorded(m)
        BY <2>1, <2>4 DEF table
    <2> QED BY <2>1, <2>2, <2>3, <2>4 DEF table
<1>6. ASSUME NEW c \in Container, Reject(c) \/ PutReplyLost(c) \/ Die(c) PROVE FALSE
    BY <1>6, <1>t, BoundAssumption DEF Reject, PutReplyLost, Die, TypeOK
<1>7. ASSUME NEW a \in Agent, RegisterAgent(a)
      PROVE  \/ Recorded(m)'
             \/ \E c \in Container : (Recording(c) /\ MessageOf(c) = m)'
    BY <1>7, <1>1 DEF RegisterAgent, table
<1>8. CASE UNCHANGED vars
    BY <1>8, <1>1 DEF vars, table
<1> QED
    BY <1>2, <1>3, <1>4, <1>5, <1>6, <1>7, <1>8 DEF Next, HandlerStep

(* Without a fault nothing that is stored stays unrecorded: a lost delivery *)
(* or a repeated one never leaves a message outside every sweep.            *)
THEOREM RecordedUnlessFaulty == Spec => []StoredIsRecordedUnlessFaulty
<1>1. Init => RecordsUnderway
    BY DEF Init, RecordsUnderway
<1>2. IngestInv /\ RecordsUnderway => StoredIsRecordedUnlessFaulty
    BY DEF RecordsUnderway, StoredIsRecordedUnlessFaulty, StoredIsRecorded, Recording
<1> QED BY <1>1, <1>2, Invariant, UnderwayStep, PTL DEF Spec
--------------------------------------------------------------------------------
(* Every receiver step is an append, a notification or a stutter of the     *)
(* inbox.                                                                   *)
LEMMA InboxStep == IngestInv /\ [Next]_vars => [Inbox!Next]_(Inbox!inboxVars)
<1> SUFFICES ASSUME IngestInv, [Next]_vars
             PROVE  [Inbox!Next]_(Inbox!inboxVars)
    OBVIOUS
<1> USE DEF Inbox!inboxVars
<1>t. TypeOK
    BY DEF IngestInv
<1>1. ASSUME NEW c \in Container, PutNew(c) \/ PutReplyLost(c)
      PROVE  Inbox!Next
    <2>1. pc[c] # "idle" /\ draft[c] \in Agent \cup {NoAgent}
        BY <1>1, <1>t DEF PutNew, PutReplyLost, TypeOK
    <2>2. MessageOf(c) \in Message
        BY <2>1, <1>t, JobType
    <2>3. Inbox!Append(MessageOf(c), draft[c])
        BY <1>1 DEF PutNew, PutReplyLost, Inbox!Append
    <2> QED BY <2>1, <2>2, <2>3 DEF Inbox!Next
<1>2. ASSUME NEW c \in Container, Publish(c)
      PROVE  [Inbox!Next]_(Inbox!inboxVars)
    <2>1. pc[c] # "idle" /\ Recording(c) /\ UNCHANGED row
        BY <1>2 DEF Publish, Recording
    <2>2. MessageOf(c) \in Message
        BY <2>1, <1>t, JobType
    <2>3. row[MessageOf(c)] # NoRow /\ published[MessageOf(c)] = 0
        BY <2>1 DEF IngestInv, OneRecorder
    <2>4. CASE UNCHANGED published
        BY <2>1, <2>4
    <2>5. CASE published' = [published EXCEPT ![MessageOf(c)] = @ + 1]
        <3>1. Inbox!Notify(MessageOf(c))
            BY <2>1, <2>2, <2>3, <2>5, <1>t DEF Inbox!Notify, TypeOK
        <3> QED BY <3>1, <2>2 DEF Inbox!Next
    <2> QED BY <1>2, <2>4, <2>5 DEF Publish
<1>3. ASSUME NEW c \in Container,
             \/ \E d \in Delivery : Receive(c, d)
             \/ Ignore(c) \/ Attribute(c) \/ PutDuplicate(c) \/ PutFile(c)
             \/ Register(c) \/ Respond(c) \/ Reject(c) \/ Die(c) \/ Recycle(c)
      PROVE  UNCHANGED Inbox!inboxVars
    BY <1>3 DEF Receive, Ignore, Attribute, PutDuplicate, PutFile, Register,
       Respond, Reject, Die, Recycle
<1>4. ASSUME NEW a \in Agent, RegisterAgent(a) PROVE UNCHANGED Inbox!inboxVars
    BY <1>4 DEF RegisterAgent
<1>5. CASE UNCHANGED vars
    BY <1>5 DEF vars
<1> QED BY <1>1, <1>2, <1>3, <1>4, <1>5 DEF Next, HandlerStep

(* The receiver implements the inbox: whatever Slack retries, Lambda runs   *)
(* in parallel or a fault cuts short, a row is written once and a message   *)
(* is announced at most once, after its row.                                *)
THEOREM IngestImplementsInbox == Spec => ImplementsInbox
<1>1. Init => Inbox!Init
    BY DEF Init, Inbox!Init
<1> QED
    BY <1>1, Invariant, InboxStep, PTL DEF Spec, ImplementsInbox, Inbox!Spec
================================================================================
