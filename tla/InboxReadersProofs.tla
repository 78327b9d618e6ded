-------------------------- MODULE InboxReadersProofs --------------------------
(***************************************************************************)
(* Theorems about the readers, for every inbox, any number of clients and  *)
(* calls, and every page limit; with ingest in any order, publishes that   *)
(* fail, and calls that die at any step.                                   *)
(***************************************************************************)
EXTENDS InboxReaders, FiniteSetTheorems, TLAPS

(* The position t is one a read of ch may have left: a stored row's ts.    *)
OnRow(ch, t) == t = 0 \/ \E m \in stored : ChannelOf(m) = ch /\ TsOf(m) = t

(* What a call has read: nothing that is not stored, positions and pages   *)
(* of the conversation it is at, all in its scope; and a wait is live once *)
(* it is connected and has nothing in hand while it waits.                 *)
CallOK(r) ==
    /\ r.out \subseteq stored
    /\ \A i \in DOMAIN r.queue : r.queue[i] \in published
    /\ r.live => r.call.kind = "wait"
    /\ r.call.kind = "wait" /\ r.pc # "connect" => r.live
    /\ r.call.kind = "check" => r.pc \notin {"connect", "await"}
    /\ r.pc \in {"connect", "await"} => r.out = {} /\ r.todo = {} /\ r.left = {}
    /\ \A ch \in r.todo : InScope(r.call, ch)
    /\ r.pc \in {"query", "advance"} =>
          r.at \in Channel /\ InScope(r.call, r.at) /\ OnRow(r.at, r.seen)
    /\ r.pc = "advance" =>
          /\ r.page # {} /\ r.page \subseteq stored
          /\ \A m \in r.page : ChannelOf(m) = r.at /\ TsOf(m) > r.seen

CallsOK == \A s \in Session : session[s] # Idle => CallOK(session[s])

CursorsOnRows == \A v \in View : OnRow(v[1], cursor[v])

(* Where ingest is with a message: the row, then the registry, then the    *)
(* event; what a newer event overtook is late.                             *)
PipelineOK ==
    /\ registering \cap publishing = {}
    /\ registering \cap published = {}
    /\ publishing \cap published = {}
    /\ \A m \in publishing \cup published : ChannelOf(m) \in known
    /\ \A n \in published, m \in stored \ published : Older(m, n) => m \in late

BaseInv ==
    /\ TypeOK
    /\ IsFiniteSet(stored)
    /\ CursorsOnRows
    /\ PipelineOK
    /\ CallsOK
--------------------------------------------------------------------------------
(* A finite set of numbers has a largest element: one of its subsets       *)
(* without one, and with no such subset of its own, would lose an element. *)
LEMMA Largest ==
    ASSUME NEW S \in SUBSET Nat, IsFiniteSet(S), S # {}
    PROVE  Max(S) \in S /\ \A x \in S : Max(S) >= x
<1> DEFINE HasMax(U) == \E x \in U : \A y \in U : x >= y
           Bad == {U \in SUBSET S : U # {} /\ ~HasMax(U)}
           R == StrictSubsetOrdering(S)
<1>1. Bad = {}
    <2>1. SUFFICES ASSUME Bad # {} PROVE FALSE
        OBVIOUS
    <2>2. IsWellFoundedOn(R, FiniteSubsetsOf(S))
        BY FS_StrictSubsetOrderingWellFounded
    <2>3. Bad \subseteq FiniteSubsetsOf(S)
        BY FS_FiniteSubsetsOfFinite
    <2>4. PICK U \in Bad : \A V \in Bad : ~(<<V, U>> \in R)
        <3> HIDE DEF R, Bad
        <3> QED
            BY <2>1, <2>2, <2>3, WFMin
    <2>5. PICK u \in U : TRUE
        BY <2>4
    <2>6. U \ {u} \notin Bad
        <3>1. <<U \ {u}, U>> \in R
            BY <2>4, <2>5 DEF StrictSubsetOrdering
        <3> QED
            BY <2>4, <3>1
    <2>7. CASE U \ {u} = {}
        BY <2>4, <2>5, <2>7
    <2>8. CASE U \ {u} # {}
        <3>1. PICK x \in U \ {u} : \A y \in U \ {u} : x >= y
            BY <2>4, <2>6, <2>8
        <3>2. x >= u \/ u >= x
            BY <2>4, <2>5, <3>1
        <3>3. CASE x >= u
            BY <2>4, <3>1, <3>3
        <3>4. CASE u >= x
            BY <2>4, <2>5, <3>1, <3>4
        <3> QED
            BY <3>2, <3>3, <3>4
    <2> QED
        BY <2>7, <2>8
<1>2. HasMax(S)
    BY <1>1
<1> QED
    BY <1>2 DEF Max

(* The cursor a page leaves is the ts of a row of the page, and of none is *)
(* larger.                                                                 *)
LEMMA NewestOfPage ==
    ASSUME NEW page \in SUBSET Message, IsFiniteSet(page), page # {}
    PROVE  /\ \E m \in page : TsOf(m) = NewestTs(page)
           /\ \A m \in page : TsOf(m) <= NewestTs(page)
<1> DEFINE T == {TsOf(m) : m \in page}
           f == [m \in page |-> TsOf(m)]
<1>1. f \in Surjection(page, T)
    BY DEF Surjection
<1>2. IsFiniteSet(T)
    <2> HIDE DEF f, T
    <2> QED
        BY <1>1, FS_Surjection
<1>3. T \in SUBSET Nat /\ T # {}
    BY MessageAssumption DEF TsOf
<1>4. Max(T) \in T /\ \A x \in T : Max(T) >= x
    <2> HIDE DEF T
    <2> QED
        BY <1>2, <1>3, Largest
<1> QED
    BY <1>3, <1>4 DEF NewestTs
--------------------------------------------------------------------------------
(* A page holds every row up to any of its rows.                           *)
LEMMA PageIsRun ==
    ASSUME stored \subseteq Message, IsFiniteSet(stored), NEW ch, NEW after \in Nat
    PROVE  /\ MessagesAfter(ch, after) \subseteq Above(ch, after)
           /\ \A m \in MessagesAfter(ch, after), n \in Above(ch, after) :
                 TsOf(n) <= TsOf(m) => n \in MessagesAfter(ch, after)
<1> DEFINE A == Above(ch, after)
           UpTo(m) == {n \in A : TsOf(n) <= TsOf(m)}
<1>1. MessagesAfter(ch, after) = {m \in A : Cardinality(UpTo(m)) <= Limit}
    BY DEF MessagesAfter, Above
<1>2. A \subseteq Message /\ IsFiniteSet(A)
    BY FS_Subset DEF Above
<1>3. \A m \in A : TsOf(m) \in Nat
    BY <1>2, MessageAssumption DEF TsOf
<1>4. ASSUME NEW m \in A, NEW n \in A, TsOf(n) <= TsOf(m)
      PROVE  Cardinality(UpTo(n)) <= Cardinality(UpTo(m)) /\ Cardinality(UpTo(n)) \in Nat
                                                        /\ Cardinality(UpTo(m)) \in Nat
    <2>1. UpTo(n) \subseteq UpTo(m)
        BY <1>3, <1>4
    <2>2. IsFiniteSet(UpTo(m)) /\ IsFiniteSet(UpTo(n))
        BY <1>2, FS_Subset
    <2> HIDE DEF UpTo
    <2> QED
        BY <2>1, <2>2, FS_Subset, FS_CardinalityType
<1>5. Limit \in Nat
    BY LimitAssumption
<1> HIDE DEF A, UpTo
<1> QED
    BY <1>1, <1>4, <1>5 DEF A
--------------------------------------------------------------------------------
LEMMA RunningCall ==
    ASSUME BaseInv, NEW s \in Session, session[s].pc # "idle"
    PROVE  session[s] \in Running /\ session[s] # Idle /\ CallOK(session[s])
BY DEF BaseInv, TypeOK, CallsOK, Idle

LEMMA RunningIsNotIdle == \A r \in Running : r.pc # "idle" /\ r # Idle
BY DEF Running, Idle

LEMMA CallIsTyped ==
    ASSUME NEW r \in Running
    PROVE  /\ r.call.kind \in {"check", "wait"}
           /\ r.call.filter \in Filter
           /\ r.call.args \subseteq Channel \cup User
BY DEF Running, CallType

(* A step of one call, which leaves the work of ingest alone.              *)
LEMMA OneCallMoves ==
    ASSUME BaseInv, NEW s \in Session, NEW next \in Running \cup {Idle},
           session' = [session EXCEPT ![s] = next],
           next # Idle => CallOK(next),
           UNCHANGED ingest,
           cursor' \in [View -> Position], \A v \in View : OnRow(v[1], cursor'[v]),
           handed' \subseteq Message \X Filter, beyond' \subseteq Message \X Filter,
           losses' \in 0..MaxLosses
    PROVE  BaseInv'
<1>1. session' \in [Session -> Running \cup {Idle}]
    BY DEF BaseInv, TypeOK
<1>2. \A t \in Session : session'[t] = IF t = s THEN next ELSE session[t]
    BY DEF BaseInv, TypeOK
<1>3. UNCHANGED <<stored, registering, known, publishing, published, late>>
    BY DEF ingest
<1>4. TypeOK'
    BY <1>1, <1>3 DEF BaseInv, TypeOK
<1>5. ASSUME NEW t \in Session, session'[t] # Idle PROVE CallOK(session[t])'
    <2>1. CallOK(session'[t])
        BY <1>2, <1>5 DEF BaseInv, CallsOK
    <2> QED
        BY <1>3, <2>1 DEF CallOK, OnRow
<1>6. CursorsOnRows'
    BY <1>3 DEF CursorsOnRows, OnRow
<1>7. PipelineOK'
    BY <1>3 DEF BaseInv, PipelineOK
<1> QED
    BY <1>3, <1>4, <1>5, <1>6, <1>7 DEF BaseInv, CallsOK

(* Most of them leave the cursors and what was handed over alone as well.  *)
LEMMA QuietCallMoves ==
    ASSUME BaseInv, NEW s \in Session, NEW next \in Running \cup {Idle},
           session' = [session EXCEPT ![s] = next],
           next # Idle => CallOK(next),
           UNCHANGED <<ingest, cursor, handed, beyond, losses>>
    PROVE  BaseInv'
<1>1. /\ cursor' \in [View -> Position] /\ \A v \in View : OnRow(v[1], cursor'[v])
      /\ handed' \subseteq Message \X Filter /\ beyond' \subseteq Message \X Filter
      /\ losses' \in 0..MaxLosses
    BY DEF BaseInv, TypeOK, CursorsOnRows
<1> QED
    BY <1>1, OneCallMoves

(* What a step of ingest leaves of a call: all but the queue.              *)
SameBut(r, t) ==
    /\ r.pc = t.pc /\ r.call = t.call /\ r.live = t.live /\ r.todo = t.todo /\ r.at = t.at
    /\ r.seen = t.seen /\ r.page = t.page /\ r.left = t.left /\ r.out = t.out

LEMMA PushLeavesCalls ==
    ASSUME BaseInv, NEW m \in Message, Push(m), NEW t \in Session
    PROVE  \/ session'[t] = session[t] /\ ~Subscribed(t, m)
           \/ /\ session[t] \in Running /\ session'[t] \in Running
              /\ session'[t] # Idle /\ SameBut(session'[t], session[t])
              /\ session'[t].queue = Append(session[t].queue, m)
              /\ Subscribed(t, m)
<1>2. CASE Push(m) /\ ~Subscribed(t, m)
    BY <1>2 DEF Push
<1>3. CASE Push(m) /\ Subscribed(t, m)
    <2>1. session[t] \in Running
        BY <1>3 DEF Subscribed, BaseInv, TypeOK
    <2>2. session'[t] = [session[t] EXCEPT !.queue = Append(session[t].queue, m)]
        BY <1>3 DEF Push
    <2>3. SameBut(session'[t], session[t]) /\ session'[t].queue = Append(session[t].queue, m)
        BY <2>1, <2>2 DEF SameBut, Running
    <2>4. session'[t] \in Running
        <3>1. Append(session[t].queue, m) \in Seq(Message)
            BY <2>1 DEF Running
        <3> QED
            BY <2>1, <2>2, <3>1 DEF Running
    <2> QED
        BY <1>3, <2>1, <2>3, <2>4, RunningIsNotIdle
<1> QED
    BY <1>2, <1>3
--------------------------------------------------------------------------------
(* Most steps of ingest leave the calls alone.                             *)
LEMMA IngestMoves ==
    ASSUME BaseInv, NEW m \in Message,
           \/ Store(m) \/ Register(m) \/ Publish(m) \/ IngestDies(m)
           \/ \E ch \in Channel : RegisterElsewhere(ch)
    PROVE  /\ UNCHANGED <<cursor, handed, beyond, losses>>
           /\ stored' = stored \/ (Store(m) /\ stored' = stored \cup {m})
           /\ published \subseteq published' /\ late \subseteq late'
           /\ UNCHANGED session \/ (Publish(m) /\ Push(m) /\ m \in published')
BY DEF Store, Register, Publish, IngestDies, RegisterElsewhere

LEMMA IngestKeepsPipeline ==
    ASSUME BaseInv, NEW m \in Message,
           \/ Store(m) \/ Register(m) \/ Publish(m) \/ IngestDies(m)
           \/ \E ch \in Channel : RegisterElsewhere(ch)
    PROVE  /\ PipelineOK'
           /\ stored' \subseteq Message
           /\ registering' \subseteq stored' /\ publishing' \subseteq stored'
           /\ published' \subseteq stored' /\ late' \subseteq stored'
           /\ known' \subseteq Channel
<1>1. ChannelOf(m) \in Channel
    BY MessageAssumption DEF ChannelOf
<1>2. CASE Store(m)
    BY <1>2 DEF Store, BaseInv, TypeOK, PipelineOK
<1>3. CASE Register(m)
    BY <1>1, <1>3 DEF Register, BaseInv, TypeOK, PipelineOK
<1>4. CASE Publish(m)
    BY <1>4 DEF Publish, BaseInv, TypeOK, PipelineOK
<1>5. CASE IngestDies(m)
    BY <1>5 DEF IngestDies, BaseInv, TypeOK, PipelineOK
<1>6. CASE \E ch \in Channel : RegisterElsewhere(ch)
    BY <1>6 DEF RegisterElsewhere, BaseInv, TypeOK, PipelineOK
<1> QED
    BY <1>2, <1>3, <1>4, <1>5, <1>6

LEMMA IngestKeepsBase ==
    ASSUME BaseInv, NEW m \in Message,
           \/ Store(m) \/ Register(m) \/ Publish(m) \/ IngestDies(m)
           \/ \E ch \in Channel : RegisterElsewhere(ch)
    PROVE  BaseInv'
<1>1. /\ UNCHANGED <<cursor, handed, beyond, losses>>
      /\ stored' = stored \/ stored' = stored \cup {m}
      /\ stored \subseteq stored' /\ published \subseteq published'
      /\ UNCHANGED session \/ (Push(m) /\ m \in published')
    BY IngestMoves
<1>2. IsFiniteSet(stored')
    BY <1>1, FS_AddElement DEF BaseInv
<1>3. ASSUME NEW t \in Session PROVE session'[t] \in Running \cup {Idle}
    BY <1>1, PushLeavesCalls DEF BaseInv, TypeOK
<1>4. session' \in [Session -> Running \cup {Idle}]
    <2>1. DOMAIN session' = Session /\ session' = [t \in Session |-> session'[t]]
        BY <1>1 DEF Push, BaseInv, TypeOK
    <2> QED
        BY <1>3, <2>1
<1>5. TypeOK'
    BY <1>1, <1>4, IngestKeepsPipeline DEF BaseInv, TypeOK
<1>6. ASSUME NEW t \in Session, session'[t] # Idle PROVE CallOK(session[t])'
    <2>1. CASE session'[t] = session[t]
        BY <1>1, <1>6, <2>1 DEF BaseInv, CallsOK, CallOK, OnRow
    <2>2. CASE /\ session[t] \in Running /\ SameBut(session'[t], session[t])
               /\ session'[t].queue = Append(session[t].queue, m) /\ m \in published'
        <3>1. CallOK(session[t]) /\ session[t].queue \in Seq(Message)
            BY <2>2, RunningIsNotIdle DEF BaseInv, CallsOK, Running
        <3>2. \A i \in DOMAIN session'[t].queue : session'[t].queue[i] \in published'
            BY <1>1, <2>2, <3>1 DEF CallOK
        <3> QED
            BY <1>1, <2>2, <3>1, <3>2 DEF CallOK, OnRow, SameBut
    <2> QED
        BY <1>1, <2>1, <2>2, PushLeavesCalls
<1>7. CursorsOnRows'
    BY <1>1 DEF BaseInv, CursorsOnRows, OnRow
<1> QED
    BY <1>2, <1>5, <1>6, <1>7, IngestKeepsPipeline DEF BaseInv, CallsOK
--------------------------------------------------------------------------------
LEMMA TargetsInScope ==
    ASSUME BaseInv, NEW r \in Running
    PROVE  Targets(r.call) \subseteq Channel /\ \A ch \in Targets(r.call) : InScope(r.call, ch)
<1>1. known \subseteq Channel
    BY DEF BaseInv, TypeOK
<1>2. CASE r.call.args = {}
    BY <1>1, <1>2 DEF Targets, InScope
<1>3. CASE r.call.args # {}
    <2>1. \A id \in r.call.args : Resolve(id) \in Channel
        BY CallIsTyped, MessageAssumption DEF Resolve
    <2> QED
        BY <1>3, <2>1 DEF Targets, InScope
<1> QED
    BY <1>2, <1>3

(* What a call looks like that has just begun.                             *)
Begun(call) ==
    [pc |-> IF call.kind = "wait" THEN "connect" ELSE "list",
     call |-> call, live |-> FALSE, noise |-> FALSE, todo |-> {},
     at |-> NoChannel, seen |-> 0, page |-> {}, left |-> {}, out |-> {},
     queue |-> <<>>]

LEMMA CallBegins ==
    ASSUME BaseInv, NEW s \in Session, NEW call \in Calls[s], Start(s, call)
    PROVE  /\ Begun(call) \in Running /\ CallOK(Begun(call))
           /\ session' = [session EXCEPT ![s] = Begun(call)]
           /\ UNCHANGED <<ingest, cursor, handed, beyond, losses>>
<1>1. call \in CallType /\ call.kind \in {"check", "wait"}
    BY MessageAssumption DEF CallType
<1>2. Begun(call) \in Running
    BY <1>1 DEF Begun, Running, Position
<1>3. CallOK(Begun(call))
    BY <1>1 DEF Begun, CallOK
<1> QED
    BY <1>2, <1>3 DEF Start, Begun

LEMMA StartKeepsBase ==
    ASSUME BaseInv, NEW s \in Session, NEW call \in Calls[s], Start(s, call)
    PROVE  BaseInv'
<1>1. PICK next : next = Begun(call)
    OBVIOUS
<1> QED
    BY <1>1, CallBegins, QuietCallMoves

(* The steps between the reads: nothing but the phase of a call changes.   *)
LEMMA CallGoesOn ==
    ASSUME BaseInv, NEW s \in Session,
           \/ Connect(s) \/ ScanAnswers(s) \/ NoiseComes(s) \/ PassOver(s) \/ Timeout(s)
    PROVE  LET r == session[s]
               next == session'[s]
           IN  /\ r \in Running /\ CallOK(r) /\ next \in Running
               /\ session' = [session EXCEPT ![s] = next]
               /\ next.call = r.call /\ next.todo = r.todo /\ next.at = r.at
               /\ next.seen = r.seen /\ next.page = r.page /\ next.out = r.out
               /\ next.queue = r.queue
               /\ \/ Connect(s) /\ next.pc = "list" /\ next.live /\ next.left = r.left
                  \/ ScanAnswers(s) /\ next.pc = "respond" /\ next.live = r.live
                  \/ /\ NoiseComes(s) \/ PassOver(s) \/ Timeout(s)
                     /\ r.pc = "await" /\ next.pc \in {"await", "respond"}
                     /\ next.live = r.live /\ next.left = r.left
               /\ UNCHANGED <<ingest, cursor, handed, beyond, losses>>
<1> DEFINE r == session[s]
<1>1. r \in Running /\ CallOK(r)
    BY RunningCall DEF Connect, ScanAnswers, NoiseComes, PassOver, Timeout, At
<1>2. UNCHANGED <<ingest, cursor, handed, beyond, losses>>
    BY DEF Connect, ScanAnswers, NoiseComes, PassOver, Timeout
<1>3. session \in [Session -> Running \cup {Idle}]
    BY DEF BaseInv, TypeOK
<1>4. CASE Connect(s)
    <2>1. /\ session' = [session EXCEPT ![s] = [r EXCEPT !.pc = "list", !.live = TRUE]]
        BY <1>3, <1>4 DEF Connect
    <2> QED
        BY <1>1, <1>2, <1>3, <1>4, <2>1 DEF Running
<1>5. CASE ScanAnswers(s)
    <2>1. /\ session' = [session EXCEPT ![s] = [r EXCEPT !.pc = "respond", !.left = {}]]
        BY <1>3, <1>5 DEF ScanAnswers
    <2> QED
        BY <1>1, <1>2, <1>3, <1>5, <2>1 DEF Running
<1>6. CASE NoiseComes(s)
    <2>1. /\ session' = [session EXCEPT ![s] = [r EXCEPT !.noise = TRUE]] /\ r.pc = "await"
        BY <1>3, <1>6 DEF NoiseComes, At
    <2> QED
        BY <1>1, <1>2, <1>3, <1>6, <2>1 DEF Running
<1>7. CASE PassOver(s)
    <2>1. /\ session' = [session EXCEPT ![s] = [r EXCEPT !.noise = FALSE]] /\ r.pc = "await"
        BY <1>3, <1>7 DEF PassOver, At
    <2> QED
        BY <1>1, <1>2, <1>3, <1>7, <2>1 DEF Running
<1>8. CASE Timeout(s)
    <2>1. /\ session' = [session EXCEPT ![s] = [r EXCEPT !.pc = "respond", !.noise = FALSE]]
          /\ r.pc = "await"
        BY <1>3, <1>8 DEF Timeout, At
    <2> QED
        BY <1>1, <1>2, <1>3, <1>8, <2>1 DEF Running
<1> QED
    BY <1>4, <1>5, <1>6, <1>7, <1>8

LEMMA GoingOnKeepsBase ==
    ASSUME BaseInv, NEW s \in Session,
           \/ Connect(s) \/ ScanAnswers(s) \/ NoiseComes(s) \/ PassOver(s) \/ Timeout(s)
    PROVE  BaseInv'
<1>1. PICK next : next = session'[s]
    OBVIOUS
<1>2. PICK r : r = session[s]
    OBVIOUS
<1>3. /\ r \in Running /\ CallOK(r) /\ next \in Running
      /\ session' = [session EXCEPT ![s] = next]
      /\ UNCHANGED <<ingest, cursor, handed, beyond, losses>>
    BY <1>1, <1>2, CallGoesOn
<1>4. /\ next.call = r.call /\ next.todo = r.todo /\ next.at = r.at
      /\ next.seen = r.seen /\ next.page = r.page /\ next.out = r.out
      /\ next.queue = r.queue
    BY <1>1, <1>2, CallGoesOn
<1>5. \/ r.pc = "connect" /\ next.pc = "list" /\ next.live
      \/ r.pc # "connect" /\ next.pc = "respond" /\ next.live = r.live
      \/ /\ r.pc = "await" /\ next.pc \in {"await", "respond"}
         /\ next.live = r.live /\ next.left = r.left
    BY <1>1, <1>2, CallGoesOn DEF Connect, ScanAnswers, At
<1>6. r.call.kind \in {"check", "wait"}
    BY <1>3, CallIsTyped
<1>7. CallOK(next)
    <2>1. CASE r.pc = "connect" /\ next.pc = "list" /\ next.live
        BY <1>3, <1>4, <1>6, <2>1 DEF CallOK
    <2>2. CASE r.pc # "connect" /\ next.pc = "respond" /\ next.live = r.live
        BY <1>3, <1>4, <1>6, <2>2 DEF CallOK
    <2>3. CASE /\ r.pc = "await" /\ next.pc \in {"await", "respond"}
               /\ next.live = r.live /\ next.left = r.left
        BY <1>3, <1>4, <1>6, <2>3 DEF CallOK
    <2> QED
        BY <1>5, <2>1, <2>2, <2>3
<1> QED
    BY <1>3, <1>7, QuietCallMoves

(* The sweep sets out.                                                     *)
LEMMA SweepSetsOut ==
    ASSUME BaseInv, NEW s \in Session, ListTargets(s)
    PROVE  LET r == session[s]
               next == [r EXCEPT !.pc = "scan", !.todo = Targets(r.call)]
           IN  /\ r \in Running /\ CallOK(r) /\ r.pc = "list"
               /\ next \in Running /\ CallOK(next)
               /\ session' = [session EXCEPT ![s] = next]
<1> DEFINE r == session[s]
           next == [r EXCEPT !.pc = "scan", !.todo = Targets(r.call)]
<1>1. r \in Running /\ CallOK(r) /\ r.pc = "list"
    BY RunningCall DEF ListTargets, At
<1>2. Targets(r.call) \subseteq Channel /\ \A ch \in Targets(r.call) : InScope(r.call, ch)
    BY <1>1, TargetsInScope
<1>3. next \in Running
    BY <1>1, <1>2 DEF Running
<1>4. CallOK(next)
    BY <1>1, <1>2 DEF CallOK, Running
<1>5. session' = [session EXCEPT ![s] = next]
    BY DEF ListTargets, BaseInv, TypeOK
<1> QED
    BY <1>1, <1>3, <1>4, <1>5

LEMMA ListTargetsKeepsBase ==
    ASSUME BaseInv, NEW s \in Session, ListTargets(s)
    PROVE  BaseInv'
<1>1. PICK next : next = [session[s] EXCEPT !.pc = "scan", !.todo = Targets(session[s].call)]
    OBVIOUS
<1> QED
    BY <1>1, SweepSetsOut, QuietCallMoves DEF ListTargets

(* It turns to a conversation.                                             *)
LEMMA CursorIsRead ==
    ASSUME BaseInv, NEW s \in Session, ReadCursor(s)
    PROVE  \E ch \in session[s].todo :
             LET r == session[s]
                 next == [r EXCEPT !.pc = "query", !.at = ch, !.todo = @ \ {ch},
                                   !.seen = cursor[<<ch, r.call.filter>>]]
             IN  /\ r \in Running /\ CallOK(r) /\ r.pc = "scan" /\ ch \in Channel
                 /\ next \in Running /\ CallOK(next)
                 /\ session' = [session EXCEPT ![s] = next]
<1>1. PICK ch \in session[s].todo :
         session' = [session EXCEPT ![s].pc = "query", ![s].at = ch, ![s].todo = @ \ {ch},
                                    ![s].seen = cursor[CursorScope(ch, session[s].call.filter)]]
    BY DEF ReadCursor
<1> DEFINE r == session[s]
           seen == cursor[<<ch, r.call.filter>>]
           next == [r EXCEPT !.pc = "query", !.at = ch, !.todo = @ \ {ch}, !.seen = seen]
<1>2. r \in Running /\ CallOK(r) /\ ch \in Channel /\ r.pc = "scan"
    BY <1>1, RunningCall DEF ReadCursor, At, Running
<1>3. <<ch, r.call.filter>> \in View
    BY <1>2, CallIsTyped DEF View
<1>4. seen \in Position /\ OnRow(ch, seen)
    BY <1>3 DEF BaseInv, TypeOK, CursorsOnRows
<1>5. session' = [session EXCEPT ![s] = next]
    BY <1>1 DEF BaseInv, TypeOK, CursorScope
<1> HIDE DEF seen
<1>6. next \in Running
    BY <1>2, <1>4 DEF Running
<1>7. CallOK(next)
    BY <1>1, <1>2, <1>4 DEF CallOK, Running
<1> QED
    BY <1>1, <1>2, <1>5, <1>6, <1>7 DEF seen

LEMMA ReadCursorKeepsBase ==
    ASSUME BaseInv, NEW s \in Session, ReadCursor(s)
    PROVE  BaseInv'
<1>1. PICK next \in Running : CallOK(next) /\ session' = [session EXCEPT ![s] = next]
    BY CursorIsRead
<1> QED
    BY <1>1, QuietCallMoves DEF ReadCursor

(* Its page is read, and what lies beyond the page of a wait noted.        *)
Rest(r) == {m \in Above(r.at, r.seen) \ MessagesAfter(r.at, r.seen) : Passes(m, r.call.filter)}

AfterQuery(r) ==
    [r EXCEPT !.pc = IF MessagesAfter(r.at, r.seen) = {} THEN "scan" ELSE "advance",
              !.page = MessagesAfter(r.at, r.seen),
              !.left = IF r.call.kind = "wait" THEN @ \cup Rest(r) ELSE @]

LEMMA PageIsRead ==
    ASSUME BaseInv, NEW s \in Session, Query(s)
    PROVE  LET r == session[s]
               page == MessagesAfter(r.at, r.seen)
           IN  /\ r \in Running /\ CallOK(r) /\ r.pc = "query" /\ r.at \in Channel
               /\ page \subseteq Above(r.at, r.seen)
               /\ \A m \in page, n \in Above(r.at, r.seen) : TsOf(n) <= TsOf(m) => n \in page
               /\ AfterQuery(r) \in Running /\ CallOK(AfterQuery(r))
               /\ session' = [session EXCEPT ![s] = AfterQuery(r)]
<1> DEFINE r == session[s]
           page == MessagesAfter(r.at, r.seen)
<1>1. r \in Running /\ CallOK(r) /\ r.pc = "query"
    BY RunningCall DEF Query, At
<1>2. r.seen \in Nat /\ r.at \in Channel
    BY <1>1, MessageAssumption DEF Running, Position, TsOf, CallOK
<1>3. /\ page \subseteq Above(r.at, r.seen)
      /\ \A m \in page, n \in Above(r.at, r.seen) : TsOf(n) <= TsOf(m) => n \in page
    BY <1>2, PageIsRun DEF BaseInv, TypeOK
<1>4. Above(r.at, r.seen) \subseteq stored /\ stored \subseteq Message
    BY DEF Above, BaseInv, TypeOK
<1>5. \A m \in Above(r.at, r.seen) : ChannelOf(m) = r.at /\ TsOf(m) > r.seen
    BY DEF Above
<1>6. Rest(r) \subseteq Message
    BY <1>4 DEF Rest
<1>7. session' = [session EXCEPT ![s] = AfterQuery(r)]
    BY DEF Query, AfterQuery, Rest, BaseInv, TypeOK
<1>8. AfterQuery(r) \in Running
    <2> HIDE DEF page
    <2> QED
        BY <1>1, <1>3, <1>4, <1>6 DEF AfterQuery, Running, page
<1>9. CallOK(AfterQuery(r))
    <2> DEFINE next == AfterQuery(r)
    <2>1. /\ next.pc = (IF page = {} THEN "scan" ELSE "advance")
          /\ next.page = page /\ next.call = r.call /\ next.live = r.live /\ next.todo = r.todo
          /\ next.at = r.at /\ next.seen = r.seen /\ next.out = r.out /\ next.queue = r.queue
        BY <1>1 DEF AfterQuery, Running
    <2> HIDE DEF next, page
    <2>2. CallOK(next)
        BY <1>1, <1>3, <1>4, <1>5, <2>1 DEF CallOK
    <2> QED
        BY <2>2 DEF next
<1> QED
    BY <1>1, <1>2, <1>3, <1>7, <1>8, <1>9

LEMMA QueryKeepsBase ==
    ASSUME BaseInv, NEW s \in Session, Query(s)
    PROVE  BaseInv'
<1>1. PICK next : next = AfterQuery(session[s])
    OBVIOUS
<1>2. next \in Running /\ CallOK(next) /\ session' = [session EXCEPT ![s] = next]
    BY <1>1, PageIsRead
<1>3. UNCHANGED <<ingest, cursor, handed, beyond, losses>>
    BY DEF Query
<1> QED
    BY <1>2, <1>3, QuietCallMoves

(* What a page does to the cursor of its view.                             *)
Found(r) == {m \in r.page : Passes(m, r.call.filter)}

AfterPage(r) == [r EXCEPT !.pc = "scan", !.page = {}, !.out = @ \cup Found(r)]

LEMMA PageIsPassed ==
    ASSUME BaseInv, NEW s \in Session, Advance(s)
    PROVE  LET r == session[s]
               newest == NewestTs(r.page)
           IN  /\ r \in Running /\ CallOK(r) /\ r.pc = "advance"
               /\ <<r.at, r.call.filter>> \in View
               /\ newest \in Position /\ OnRow(r.at, newest)
               /\ \E m \in r.page : TsOf(m) = newest
               /\ cursor' = [cursor EXCEPT ![<<r.at, r.call.filter>>] = newest]
               /\ AfterPage(r) \in Running /\ CallOK(AfterPage(r))
               /\ session' = [session EXCEPT ![s] = AfterPage(r)]
<1> DEFINE r == session[s]
           newest == NewestTs(r.page)
<1>1. r \in Running /\ CallOK(r) /\ r.pc = "advance"
    BY RunningCall DEF Advance, At
<1>2. r.page \in SUBSET Message /\ r.page # {} /\ r.page \subseteq stored
    BY <1>1 DEF CallOK, BaseInv, TypeOK
<1>3. IsFiniteSet(r.page)
    BY <1>2, FS_Subset DEF BaseInv
<1>4. \E m \in r.page : TsOf(m) = newest
    BY <1>2, <1>3, NewestOfPage
<1>5. <<r.at, r.call.filter>> \in View
    BY <1>1, CallIsTyped DEF View, CallOK
<1>6. newest \in Position /\ OnRow(r.at, newest)
    BY <1>1, <1>2, <1>4 DEF Position, OnRow, CallOK
<1>7. cursor' = [cursor EXCEPT ![<<r.at, r.call.filter>>] = newest]
    BY DEF Advance, CursorScope
<1>8. session' = [session EXCEPT ![s] = AfterPage(r)]
    BY DEF Advance, AfterPage, Found, BaseInv, TypeOK
<1>9. Found(r) \subseteq stored /\ Found(r) \subseteq Message
    BY <1>2 DEF Found
<1>10. AfterPage(r) \in Running /\ CallOK(AfterPage(r))
    BY <1>1, <1>9 DEF AfterPage, CallOK, Running
<1> QED
    BY <1>1, <1>4, <1>5, <1>6, <1>7, <1>8, <1>10

LEMMA AdvanceKeepsBase ==
    ASSUME BaseInv, NEW s \in Session, Advance(s)
    PROVE  BaseInv'
<1>1. PICK next : next = AfterPage(session[s])
    OBVIOUS
<1>2. PICK newest : newest = NewestTs(session[s].page)
    OBVIOUS
<1>3. cursor' \in [View -> Position] /\ \A v \in View : OnRow(v[1], cursor'[v])
    <2>1. PICK at, filter : at = session[s].at /\ filter = session[s].call.filter
        OBVIOUS
    <2>2. /\ <<at, filter>> \in View /\ newest \in Position /\ OnRow(at, newest)
          /\ cursor' = [cursor EXCEPT ![<<at, filter>>] = newest]
        BY <1>2, <2>1, PageIsPassed
    <2> QED
        BY <2>2 DEF BaseInv, TypeOK, CursorsOnRows
<1>4. UNCHANGED <<ingest, handed, beyond, losses>>
    BY DEF Advance
<1>5. handed' \subseteq Message \X Filter /\ beyond' \subseteq Message \X Filter
      /\ losses' \in 0..MaxLosses
    BY <1>4 DEF BaseInv, TypeOK
<1> QED
    BY <1>1, <1>3, <1>4, <1>5, PageIsPassed, OneCallMoves

(* The sweep has found nothing.                                            *)
LEMMA WaitTurnsToEvents ==
    ASSUME BaseInv, NEW s \in Session, ScanEmpty(s)
    PROVE  LET r == session[s]
               next == [r EXCEPT !.pc = "await", !.left = {}]
           IN  /\ r \in Running /\ CallOK(r) /\ r.pc = "scan"
               /\ r.todo = {} /\ r.out = {} /\ r.call.kind = "wait"
               /\ next \in Running /\ CallOK(next)
               /\ session' = [session EXCEPT ![s] = next]
               /\ beyond' = beyond \cup (r.left \X {r.call.filter})
<1> DEFINE r == session[s]
           next == [r EXCEPT !.pc = "await", !.left = {}]
<1>1. /\ r \in Running /\ CallOK(r) /\ r.pc = "scan"
      /\ r.todo = {} /\ r.out = {} /\ r.call.kind = "wait"
    BY RunningCall DEF ScanEmpty, At
<1>2. next \in Running
    BY <1>1 DEF Running
<1>3. CallOK(next)
    BY <1>1 DEF CallOK, Running
<1>4. session' = [session EXCEPT ![s] = next]
    BY DEF ScanEmpty, BaseInv, TypeOK
<1> QED
    BY <1>1, <1>2, <1>3, <1>4 DEF ScanEmpty

LEMMA ScanEmptyKeepsBase ==
    ASSUME BaseInv, NEW s \in Session, ScanEmpty(s)
    PROVE  BaseInv'
<1>1. PICK next : next = [session[s] EXCEPT !.pc = "await", !.left = {}]
    OBVIOUS
<1>2. beyond' \subseteq Message \X Filter
    <2>1. PICK r : r = session[s]
        OBVIOUS
    <2>2. r \in Running /\ beyond' = beyond \cup (r.left \X {r.call.filter})
        BY <2>1, WaitTurnsToEvents
    <2>3. r.left \subseteq Message /\ r.call.filter \in Filter
        BY <2>2, CallIsTyped DEF Running
    <2> QED
        BY <2>2, <2>3 DEF BaseInv, TypeOK
<1>3. /\ UNCHANGED <<ingest, cursor, handed, losses>>
    BY DEF ScanEmpty
<1>4. /\ cursor' \in [View -> Position] /\ \A v \in View : OnRow(v[1], cursor'[v])
      /\ handed' \subseteq Message \X Filter /\ losses' \in 0..MaxLosses
    BY <1>3 DEF BaseInv, TypeOK, CursorsOnRows
<1> QED
    BY <1>1, <1>2, <1>3, <1>4, WaitTurnsToEvents, OneCallMoves

(* What a call takes of the events.                                        *)
Wanted(r, m) == Watched(r.call, ChannelOf(m)) /\ Passes(m, r.call.filter)

AfterEvent(r) ==
    [r EXCEPT !.queue = Tail(@),
              !.pc = IF Wanted(r, Head(r.queue)) THEN "respond" ELSE "await",
              !.out = IF Wanted(r, Head(r.queue)) THEN {Head(r.queue)} ELSE {}]

LEMMA EventIsTaken ==
    ASSUME BaseInv, NEW s \in Session, TakeEvent(s)
    PROVE  LET r == session[s]
               m == Head(r.queue)
               view == <<ChannelOf(m), r.call.filter>>
           IN  /\ r \in Running /\ CallOK(r) /\ r.pc = "await"
               /\ r.queue # <<>> /\ m = r.queue[1] /\ m \in published
               /\ view \in View
               /\ cursor' = IF Watched(r.call, ChannelOf(m))
                             THEN [cursor EXCEPT ![view] = TsOf(m)] ELSE cursor
               /\ AfterEvent(r) \in Running /\ CallOK(AfterEvent(r))
               /\ session' = [session EXCEPT ![s] = AfterEvent(r)]
<1> DEFINE r == session[s]
           m == Head(r.queue)
<1>1. r \in Running /\ CallOK(r) /\ r.pc = "await" /\ r.queue # <<>>
    BY RunningCall DEF TakeEvent, At
<1>2. r.queue \in Seq(Message) /\ m = r.queue[1] /\ 1 \in DOMAIN r.queue
    BY <1>1 DEF Running
<1>3. m \in published /\ m \in stored /\ m \in Message /\ r.out = {}
    BY <1>1, <1>2 DEF CallOK, BaseInv, TypeOK
<1>4. <<ChannelOf(m), r.call.filter>> \in View
    BY <1>1, <1>3, CallIsTyped, MessageAssumption DEF View, ChannelOf
<1>5. cursor' = IF Watched(r.call, ChannelOf(m))
                THEN [cursor EXCEPT ![<<ChannelOf(m), r.call.filter>>] = TsOf(m)] ELSE cursor
    BY DEF TakeEvent, CursorScope
<1>6. AfterEvent(r) \in Running
    <2>1. Tail(r.queue) \in Seq(Message)
        BY <1>1, <1>2
    <2> QED
        BY <1>1, <1>3, <2>1 DEF AfterEvent, Running
<1>7. session' = [session EXCEPT ![s] = AfterEvent(r)]
    BY DEF TakeEvent, AfterEvent, Wanted, BaseInv, TypeOK
<1>8. CallOK(AfterEvent(r))
    <2> DEFINE next == AfterEvent(r)
    <2>1. \A i \in DOMAIN Tail(r.queue) : Tail(r.queue)[i] \in published
        BY <1>1, <1>2 DEF CallOK
    <2>2. /\ next.out \subseteq {m} /\ next.queue = Tail(r.queue) /\ next.todo = r.todo
          /\ next.call = r.call /\ next.live = r.live /\ next.left = r.left
          /\ next.pc \in {"respond", "await"} /\ (next.pc = "await" => next.out = {})
        BY <1>1 DEF AfterEvent, Running
    <2> HIDE DEF next, m
    <2>3. CallOK(next)
        BY <1>1, <1>3, <2>1, <2>2 DEF CallOK
    <2> QED
        BY <2>3 DEF next
<1> QED
    BY <1>1, <1>2, <1>3, <1>4, <1>5, <1>6, <1>7, <1>8

LEMMA TakeEventKeepsBase ==
    ASSUME BaseInv, NEW s \in Session, TakeEvent(s)
    PROVE  BaseInv'
<1>1. PICK next : next = AfterEvent(session[s])
    OBVIOUS
<1>2. PICK m, filter : m = Head(session[s].queue) /\ filter = session[s].call.filter
    OBVIOUS
<1>3. /\ m \in published /\ <<ChannelOf(m), filter>> \in View
      /\ cursor' = cursor \/ cursor' = [cursor EXCEPT ![<<ChannelOf(m), filter>>] = TsOf(m)]
    BY <1>2, EventIsTaken
<1>4. TsOf(m) \in Position /\ OnRow(ChannelOf(m), TsOf(m))
    BY <1>3 DEF Position, OnRow, BaseInv, TypeOK
<1>5. cursor' \in [View -> Position] /\ \A v \in View : OnRow(v[1], cursor'[v])
    BY <1>3, <1>4 DEF BaseInv, TypeOK, CursorsOnRows
<1>6. UNCHANGED <<ingest, handed, beyond, losses>>
    BY DEF TakeEvent
<1>7. handed' \subseteq Message \X Filter /\ beyond' \subseteq Message \X Filter
      /\ losses' \in 0..MaxLosses
    BY <1>6 DEF BaseInv, TypeOK
<1>8. next \in Running /\ CallOK(next) /\ session' = [session EXCEPT ![s] = next]
    BY <1>1, EventIsTaken
<1> QED
    BY <1>5, <1>6, <1>7, <1>8, OneCallMoves

(* A call ends: with its answer, without it, or without ever having read.  *)
LEMMA CallEnds ==
    ASSUME BaseInv, NEW s \in Session, ConnectFails(s) \/ Respond(s) \/ LoseReply(s)
    PROVE  LET r == session[s] IN
           /\ r \in Running /\ CallOK(r)
           /\ handed \subseteq handed' /\ handed' \subseteq Message \X Filter
           /\ r.out \X {r.call.filter} \subseteq handed'
           /\ session' = [session EXCEPT ![s] = Idle]
           /\ UNCHANGED <<ingest, cursor, beyond>>
           /\ losses' \in 0..MaxLosses
<1> DEFINE r == session[s]
<1>1. r \in Running /\ CallOK(r)
    BY RunningCall DEF ConnectFails, Respond, LoseReply, At
<1>2. r.out \subseteq Message /\ r.call.filter \in Filter
    BY <1>1, CallIsTyped DEF Running
<1>3. ConnectFails(s) => r.out = {}
    BY <1>1 DEF ConnectFails, At, CallOK
<1>4. losses' \in 0..MaxLosses
    BY LimitAssumption DEF ConnectFails, Respond, LoseReply, BaseInv, TypeOK
<1> QED
    BY <1>1, <1>2, <1>3, <1>4 DEF ConnectFails, Respond, LoseReply, BaseInv, TypeOK

LEMMA EndKeepsBase ==
    ASSUME BaseInv, NEW s \in Session, ConnectFails(s) \/ Respond(s) \/ LoseReply(s)
    PROVE  BaseInv'
<1>1. /\ cursor' \in [View -> Position] /\ \A v \in View : OnRow(v[1], cursor'[v])
      /\ beyond' \subseteq Message \X Filter
    BY CallEnds DEF BaseInv, TypeOK, CursorsOnRows
<1> QED
    BY <1>1, CallEnds, OneCallMoves

LEMMA BaseStep == BaseInv /\ [Next]_vars => BaseInv'
<1> SUFFICES ASSUME BaseInv, [Next]_vars PROVE BaseInv'
    OBVIOUS
<1>1. CASE UNCHANGED vars
    BY <1>1 DEF vars, ingest, BaseInv, TypeOK, CursorsOnRows, OnRow, PipelineOK, CallsOK, CallOK
<1>2. ASSUME NEW s \in Session, CallStep(s) PROVE BaseInv'
    BY <1>2, GoingOnKeepsBase, EndKeepsBase, ListTargetsKeepsBase, ReadCursorKeepsBase,
       QueryKeepsBase, AdvanceKeepsBase, ScanEmptyKeepsBase, TakeEventKeepsBase DEF CallStep
<1>3. ASSUME NEW ch \in Channel, RegisterElsewhere(ch) PROVE BaseInv'
    <2>1. CASE Message # {}
        BY <1>3, <2>1, IngestKeepsBase
    <2>2. CASE Message = {}
        BY <1>3, <2>2 DEF RegisterElsewhere, BaseInv, TypeOK, CursorsOnRows, OnRow, PipelineOK,
                          CallsOK, CallOK
    <2> QED
        BY <2>1, <2>2
<1>4. ASSUME NEW s \in Session, Timeout(s) \/ NoiseComes(s) \/ LoseReply(s) PROVE BaseInv'
    BY <1>4, GoingOnKeepsBase, EndKeepsBase
<1> QED
    BY <1>1, <1>2, <1>3, <1>4, IngestKeepsBase, StartKeepsBase DEF Next

LEMMA BaseInit == Init => BaseInv
<1> SUFFICES ASSUME Init PROVE BaseInv
    OBVIOUS
<1>1. TypeOK
    BY LimitAssumption DEF Init, TypeOK, Position
<1>2. IsFiniteSet(stored)
    BY FS_EmptySet DEF Init
<1> QED
    BY <1>1, <1>2 DEF Init, BaseInv, CursorsOnRows, OnRow, PipelineOK, CallsOK

LEMMA BaseInvariance == Spec => []BaseInv
BY BaseInit, BaseStep, PTL DEF Spec

(* The readers keep to their state space, whatever ingest and the clients  *)
(* do around them.                                                         *)
THEOREM TypeCorrect == Spec => []TypeOK
<1>1. BaseInv => TypeOK
    BY DEF BaseInv
<1> QED
    BY <1>1, BaseInvariance, PTL
--------------------------------------------------------------------------------
ItsViewMoves ==
    \A ch \in Channel, filter \in Filter :
        cursor'[<<ch, filter>>] # cursor[<<ch, filter>>] =>
            \E s \in Session : /\ session[s] # Idle
                               /\ session[s].call.filter = filter
                               /\ InScope(session[s].call, ch)

LEMMA WatchedIsInScope ==
    ASSUME NEW call, NEW ch \in Channel, Watched(call, ch)
    PROVE  InScope(call, ch)
BY MessageAssumption DEF Watched, InScope, Resolve

(* Only a page and an event move a cursor.                                 *)
LEMMA MovesOfCursor ==
    ASSUME BaseInv, Next, cursor' # cursor
    PROVE  \E s \in Session : Advance(s) \/ TakeEvent(s)
<1>1. ASSUME NEW s \in Session, CallStep(s) PROVE Advance(s) \/ TakeEvent(s)
    BY <1>1 DEF CallStep, Connect, ConnectFails, ListTargets, ReadCursor, Query, ScanAnswers,
                ScanEmpty, PassOver, Respond
<1> QED
    BY <1>1 DEF Next, Store, Register, Publish, IngestDies, RegisterElsewhere, Start, Timeout,
                NoiseComes, LoseReply

(* A cursor is moved only by a running call of its filter that covers its  *)
(* conversation (cursor_scope, check_messages and wait_for_messages): with *)
(* any number of calls at once, other views lose nothing to it.            *)
THEOREM CursorMovesForItsViewAlways == Spec => CursorMovesForItsView
<1>1. ASSUME BaseInv, Next, NEW ch \in Channel, NEW filter \in Filter,
             cursor'[<<ch, filter>>] # cursor[<<ch, filter>>]
      PROVE  \E s \in Session : /\ session[s] # Idle
                                /\ session[s].call.filter = filter
                                /\ InScope(session[s].call, ch)
    <2>1. PICK s \in Session : Advance(s) \/ TakeEvent(s)
        BY <1>1, MovesOfCursor
    <2>2. cursor \in [View -> Position] /\ <<ch, filter>> \in View
        BY <1>1 DEF BaseInv, TypeOK, View
    <2>3. CASE Advance(s)
        <3>1. /\ session[s] \in Running /\ CallOK(session[s]) /\ session[s].pc = "advance"
              /\ <<ch, filter>> = <<session[s].at, session[s].call.filter>>
            BY <1>1, <2>2, <2>3, PageIsPassed
        <3> QED
            BY <3>1, RunningIsNotIdle DEF CallOK
    <2>4. CASE TakeEvent(s)
        <3>1. PICK m : m = Head(session[s].queue)
            OBVIOUS
        <3>2. /\ session[s] \in Running
              /\ cursor' = IF Watched(session[s].call, ChannelOf(m))
                            THEN [cursor EXCEPT ![<<ChannelOf(m), session[s].call.filter>>] = TsOf(m)]
                            ELSE cursor
            BY <1>1, <2>4, <3>1, EventIsTaken
        <3>3. /\ Watched(session[s].call, ChannelOf(m))
              /\ <<ch, filter>> = <<ChannelOf(m), session[s].call.filter>>
            BY <1>1, <2>2, <3>2
        <3> QED
            BY <3>2, <3>3, WatchedIsInScope, RunningIsNotIdle
    <2> QED
        BY <2>1, <2>3, <2>4
<1>2. BaseInv /\ [Next]_vars => [ItsViewMoves]_vars
    BY <1>1 DEF ItsViewMoves
<1> QED
    BY <1>2, BaseInvariance, PTL DEF Spec, CursorMovesForItsView, ItsViewMoves
--------------------------------------------------------------------------------
(* A view has no more to do with a message.                                *)
Settled(m, filter) == Handed(m, filter) \/ <<m, filter>> \in beyond

(* A page holds all up to its newest row but what is late.                 *)
PageIsRunOf(r) ==
    r.pc = "advance" =>
        \A m \in r.page, n \in stored \ late :
            /\ ChannelOf(n) = r.at
            /\ r.seen < TsOf(n) /\ TsOf(n) <= TsOf(m)
            => n \in r.page

(* What lies behind the position a call works from, which may be an old    *)
(* one of the cursor, is settled like what lies behind the cursor.         *)
SeenIsSettledOf(r) ==
    r.pc \in {"query", "advance"} =>
        \A m \in stored \ late :
            /\ ChannelOf(m) = r.at /\ TsOf(m) <= r.seen
            /\ Passes(m, r.call.filter)
            => Settled(m, r.call.filter)

(* Events come in the order of their conversation but for the late ones.   *)
QueueInOrder(r) ==
    \A i, j \in DOMAIN r.queue :
        i < j /\ Older(r.queue[j], r.queue[i]) => r.queue[j] \in late

(* What the rest of the sweep will look at or leave to the next.           *)
StillToRead(r, m) ==
    \/ r.pc = "list"
    \/ ChannelOf(m) \in r.todo
    \/ r.pc = "query" /\ ChannelOf(m) = r.at
    \/ r.pc = "advance" /\ m \in r.page
    \/ m \in r.left

InQueue(r, m) == \E i \in DOMAIN r.queue : r.queue[i] = m

(* Every event that a wait wants is settled, ahead of its sweep or in its  *)
(* socket.                                                                 *)
NothingMissed(r) ==
    r.live /\ r.pc # "respond" =>
        \A m \in published \ late :
            Wanted(r, m) => \/ Settled(m, r.call.filter)
                            \/ StillToRead(r, m)
                            \/ InQueue(r, m)

CallServed(r) == PageIsRunOf(r) /\ SeenIsSettledOf(r) /\ QueueInOrder(r) /\ NothingMissed(r)

ReadInv ==
    /\ BaseInv
    /\ SkippedForCause
    /\ \A s \in Session : session[s] # Idle => CallServed(session[s])

SettledStays ==
    \A m \in Message, filter \in Filter : Settled(m, filter) => Settled(m, filter)'
--------------------------------------------------------------------------------
(* A call keeps what it has in hand, or passes it on.                      *)
LEMMA HandOver ==
    ASSUME BaseInv, NEW s \in Session, NEW next \in Running \cup {Idle},
           session' = [session EXCEPT ![s] = next],
           handed \subseteq handed', beyond \subseteq beyond',
           session[s] # Idle =>
              \/ next # Idle /\ next.call = session[s].call /\ session[s].out \subseteq next.out
              \/ session[s].out \X {session[s].call.filter} \subseteq handed'
    PROVE  SettledStays
<1>1. \A t \in Session : session'[t] = IF t = s THEN next ELSE session[t]
    BY DEF BaseInv, TypeOK
<1> QED
    BY <1>1 DEF SettledStays, Settled, Handed, InHand

(* A call that is served stays so while others move.                       *)
LEMMA ServedStays ==
    ASSUME BaseInv, SettledStays, NEW r \in Running, CallServed(r), UNCHANGED ingest
    PROVE  /\ PageIsRunOf(r) /\ QueueInOrder(r)
           /\ r.pc \in {"query", "advance"} =>
                \A m \in stored \ late :
                    /\ ChannelOf(m) = r.at /\ TsOf(m) <= r.seen
                    /\ Passes(m, r.call.filter)
                    => Settled(m, r.call.filter)'
           /\ r.live /\ r.pc # "respond" =>
                \A m \in published \ late :
                    Wanted(r, m) => \/ Settled(m, r.call.filter)'
                                    \/ StillToRead(r, m)
                                    \/ InQueue(r, m)
<1>1. r.call.filter \in Filter
    BY CallIsTyped
<1>2. \A m \in stored : m \in Message
    BY DEF BaseInv, TypeOK
<1>3. \A m \in published : m \in Message
    BY DEF BaseInv, TypeOK
<1>4. \A m \in Message : Settled(m, r.call.filter) => Settled(m, r.call.filter)'
    BY <1>1 DEF SettledStays
<1>5. r.pc \in {"query", "advance"} =>
          \A m \in stored \ late :
              /\ ChannelOf(m) = r.at /\ TsOf(m) <= r.seen
              /\ Passes(m, r.call.filter)
              => Settled(m, r.call.filter)'
    BY <1>2, <1>4 DEF CallServed, SeenIsSettledOf
<1>6. r.live /\ r.pc # "respond" =>
          \A m \in published \ late :
              Wanted(r, m) => \/ Settled(m, r.call.filter)'
                              \/ StillToRead(r, m)
                              \/ InQueue(r, m)
    BY <1>3, <1>4 DEF CallServed, NothingMissed
<1> QED
    BY <1>5, <1>6 DEF CallServed

(* The step of a call keeps the invariant if it moves the cursor only over *)
(* what is settled, reads from such positions, and misses nothing.         *)
LEMMA CallKeepsServed ==
    ASSUME ReadInv, BaseInv', SettledStays, NEW s \in Session, NEW next \in Running \cup {Idle},
           session' = [session EXCEPT ![s] = next], UNCHANGED ingest,
           \A m \in stored \ late, filter \in Filter :
              Passes(m, filter) /\ TsOf(m) <= cursor'[<<ChannelOf(m), filter>>] =>
                  TsOf(m) <= cursor[<<ChannelOf(m), filter>>] \/ Settled(m, filter)',
           next # Idle => PageIsRunOf(next) /\ QueueInOrder(next),
           next # Idle /\ next.pc \in {"query", "advance"} =>
              \A m \in stored \ late :
                  /\ ChannelOf(m) = next.at /\ TsOf(m) <= next.seen
                  /\ Passes(m, next.call.filter)
                  => Settled(m, next.call.filter)',
           next # Idle /\ next.live /\ next.pc # "respond" =>
              \A m \in published \ late :
                  Wanted(next, m) => \/ Settled(m, next.call.filter)'
                                     \/ StillToRead(next, m)
                                     \/ InQueue(next, m)
    PROVE  ReadInv'
<1>1. \A t \in Session : session'[t] = IF t = s THEN next ELSE session[t]
    BY DEF ReadInv, BaseInv, TypeOK
<1>2. UNCHANGED <<stored, published, late>> /\ stored \subseteq Message
    BY DEF ingest, ReadInv, BaseInv, TypeOK
<1>3. SkippedForCause'
    <2>1. ASSUME NEW m \in stored \ late, NEW filter \in Filter, Passes(m, filter),
                 TsOf(m) <= cursor'[<<ChannelOf(m), filter>>]
          PROVE  Settled(m, filter)'
        <3>1. TsOf(m) <= cursor[<<ChannelOf(m), filter>>] => Settled(m, filter)
            BY <2>1 DEF ReadInv, SkippedForCause, Behind, Settled
        <3> QED
            BY <1>2, <2>1, <3>1 DEF SettledStays
    <2> QED
        BY <1>2, <2>1 DEF SkippedForCause, Behind, Settled
<1>4. ASSUME NEW t \in Session, session'[t] # Idle PROVE CallServed(session[t])'
    <2>1. PICK r : r = session'[t]
        OBVIOUS
    <2>2. r \in Running
        BY <1>4, <2>1 DEF BaseInv, TypeOK
    <2>3. /\ PageIsRunOf(r) /\ QueueInOrder(r)
          /\ r.pc \in {"query", "advance"} =>
                \A m \in stored \ late :
                    /\ ChannelOf(m) = r.at /\ TsOf(m) <= r.seen
                    /\ Passes(m, r.call.filter)
                    => Settled(m, r.call.filter)'
          /\ r.live /\ r.pc # "respond" =>
                \A m \in published \ late :
                    Wanted(r, m) => \/ Settled(m, r.call.filter)'
                                    \/ StillToRead(r, m)
                                    \/ InQueue(r, m)
        <3>1. CASE t = s
            BY <1>1, <1>4, <2>1, <3>1
        <3>2. CASE t # s
            <4>1. r = session[t] /\ CallServed(r)
                BY <1>1, <1>4, <2>1, <3>2 DEF ReadInv
            <4> QED
                BY <2>2, <4>1, ServedStays DEF ReadInv
        <3> QED
            BY <3>1, <3>2
    <2>4. PageIsRunOf(r)' /\ QueueInOrder(r)'
        BY <1>2, <2>3 DEF PageIsRunOf, QueueInOrder
    <2>5. SeenIsSettledOf(r)'
        BY <1>2, <2>3 DEF SeenIsSettledOf
    <2>6. NothingMissed(r)'
        BY <1>2, <2>3 DEF NothingMissed
    <2>7. CallServed(r)'
        BY <2>4, <2>5, <2>6 DEF CallServed
    <2> QED
        BY <2>1, <2>7 DEF CallServed, PageIsRunOf, SeenIsSettledOf, QueueInOrder, NothingMissed,
                          Wanted, StillToRead, InQueue, Settled, Handed, InHand
<1> QED
    BY <1>3, <1>4 DEF ReadInv

(* With the cursors as they are.                                           *)
LEMMA QuietCallKeepsServed ==
    ASSUME ReadInv, BaseInv', NEW s \in Session, NEW next \in Running \cup {Idle},
           session' = [session EXCEPT ![s] = next], UNCHANGED <<ingest, cursor>>,
           handed \subseteq handed', beyond \subseteq beyond',
           session[s] # Idle =>
              \/ next # Idle /\ next.call = session[s].call /\ session[s].out \subseteq next.out
              \/ session[s].out \X {session[s].call.filter} \subseteq handed',
           next # Idle => PageIsRunOf(next) /\ QueueInOrder(next) /\ SeenIsSettledOf(next),
           next # Idle /\ next.live /\ next.pc # "respond" =>
              \A m \in published \ late :
                  Wanted(next, m) => \/ Settled(m, next.call.filter)
                                     \/ <<m, next.call.filter>> \in beyond'
                                     \/ StillToRead(next, m)
                                     \/ InQueue(next, m)
    PROVE  ReadInv'
<1>1. SettledStays
    BY HandOver DEF ReadInv
<1>2. CASE next = Idle
    BY <1>1, <1>2, CallKeepsServed
<1>3. CASE next # Idle
    <2>1. next \in Running /\ next.call.filter \in Filter
        BY <1>3, CallIsTyped
    <2>2. \A m \in Message : Settled(m, next.call.filter) => Settled(m, next.call.filter)'
        BY <1>1, <2>1 DEF SettledStays
    <2>3. \A m : <<m, next.call.filter>> \in beyond' => Settled(m, next.call.filter)'
        BY DEF Settled
    <2>4. stored \subseteq Message /\ published \subseteq Message
        BY DEF ReadInv, BaseInv, TypeOK
    <2>5. next.pc \in {"query", "advance"} =>
              \A m \in stored \ late :
                  /\ ChannelOf(m) = next.at /\ TsOf(m) <= next.seen
                  /\ Passes(m, next.call.filter)
                  => Settled(m, next.call.filter)'
        BY <1>3, <2>2, <2>4 DEF SeenIsSettledOf
    <2>6. next.live /\ next.pc # "respond" =>
              \A m \in published \ late :
                  Wanted(next, m) => \/ Settled(m, next.call.filter)'
                                     \/ StillToRead(next, m)
                                     \/ InQueue(next, m)
        BY <1>3, <2>2, <2>3, <2>4
    <2> QED
        BY <1>1, <1>3, <2>5, <2>6, CallKeepsServed
<1> QED
    BY <1>2, <1>3
--------------------------------------------------------------------------------
(* A row that is stored behind a position of its conversation is late.     *)
LEMMA NewRowIsLate ==
    ASSUME BaseInv, NEW m \in Message, Store(m), NEW t, OnRow(ChannelOf(m), t), TsOf(m) <= t
    PROVE  m \in late'
<1>1. m \notin stored /\ stored \subseteq Message /\ TsOf(m) \in Nat \ {0}
    BY MessageAssumption DEF Store, BaseInv, TypeOK, TsOf
<1>2. PICK p \in stored : ChannelOf(p) = ChannelOf(m) /\ TsOf(p) = t
    BY <1>1 DEF OnRow
<1>3. /\ p # m /\ p = <<ChannelOf(p), TsOf(p)>> /\ m = <<ChannelOf(m), TsOf(m)>>
      /\ TsOf(p) \in Nat
    BY <1>1, <1>2, MessageAssumption DEF ChannelOf, TsOf
<1>4. Older(m, p)
    BY <1>1, <1>2, <1>3 DEF Older
<1> QED
    BY <1>2, <1>4 DEF Store

(* What a step of ingest does to a call.                                   *)
LEMMA IngestLeavesCalls ==
    ASSUME BaseInv, NEW m \in Message, Store(m) \/ Register(m) \/ Publish(m) \/ IngestDies(m),
           NEW t \in Session
    PROVE  \/ session'[t] = session[t] /\ (Publish(m) => ~Subscribed(t, m))
           \/ /\ session[t] \in Running /\ session'[t] \in Running
              /\ SameBut(session'[t], session[t])
              /\ session'[t].queue = Append(session[t].queue, m)
              /\ Publish(m)
<1>1. CASE Publish(m)
    BY <1>1, PushLeavesCalls DEF Publish
<1>2. CASE ~Publish(m)
    BY <1>2 DEF Store, Register, IngestDies
<1> QED
    BY <1>1, <1>2

LEMMA IngestKeepsSettled ==
    ASSUME BaseInv, NEW m \in Message, Store(m) \/ Register(m) \/ Publish(m) \/ IngestDies(m)
    PROVE  SettledStays
<1>1. UNCHANGED <<handed, beyond>>
    BY IngestMoves
<1>2. ASSUME NEW n \in Message, NEW filter \in Filter, InHand(n, filter) PROVE InHand(n, filter)'
    <2>1. PICK t \in Session : /\ session[t] # Idle /\ session[t].call.filter = filter
                               /\ n \in session[t].out
        BY <1>2 DEF InHand
    <2>2. session'[t] # Idle /\ session'[t].call.filter = filter /\ n \in session'[t].out
        BY <2>1, IngestLeavesCalls, RunningIsNotIdle DEF SameBut
    <2> QED
        BY <2>2 DEF InHand
<1> QED
    BY <1>1, <1>2 DEF SettledStays, Settled, Handed

(* An event that is published goes to every wait that wants it, behind all *)
(* that it does not follow in its conversation unless it is late.          *)
LEMMA PublishedIsQueued ==
    ASSUME BaseInv, NEW m \in Message, Publish(m), NEW t \in Session,
           session[t] \in Running, session[t].live, Wanted(session[t], m)
    PROVE  InQueue(session'[t], m)
<1>1. Cardinality({}) # 1
    BY FS_EmptySet
<1>2. Subscribed(t, m)
    BY <1>1, RunningIsNotIdle DEF Subscribed, Wanted, Watched
<1>3. session[t].queue \in Seq(Message) /\ session'[t].queue = Append(session[t].queue, m)
    BY <1>2, PushLeavesCalls DEF Publish, Running
<1>4. PICK q, a : q = session[t].queue /\ a = session'[t].queue
    OBVIOUS
<1>5. Len(q) + 1 \in DOMAIN a /\ a[Len(q) + 1] = m
    BY <1>3, <1>4
<1> QED
    BY <1>4, <1>5 DEF InQueue

LEMMA PublishKeepsOrder ==
    ASSUME BaseInv, NEW m \in Message, Publish(m), NEW q \in Seq(Message),
           \A i \in DOMAIN q : q[i] \in published,
           \A i, j \in DOMAIN q : i < j /\ Older(q[j], q[i]) => q[j] \in late
    PROVE  \A i, j \in DOMAIN Append(q, m) :
              i < j /\ Older(Append(q, m)[j], Append(q, m)[i]) => Append(q, m)[j] \in late
<1> SUFFICES ASSUME NEW i \in DOMAIN Append(q, m), NEW j \in DOMAIN Append(q, m), i < j,
                    Older(Append(q, m)[j], Append(q, m)[i])
             PROVE  Append(q, m)[j] \in late
    OBVIOUS
<1>1. m \in stored \ published
    BY DEF Publish, BaseInv, TypeOK, PipelineOK
<1>2. i \in DOMAIN q /\ Append(q, m)[i] = q[i]
    OBVIOUS
<1>3. CASE j \in DOMAIN q
    BY <1>2, <1>3
<1>4. CASE j \notin DOMAIN q
    <2>1. Append(q, m)[j] = m
        BY <1>4
    <2> QED
        BY <1>1, <1>2, <2>1 DEF BaseInv, PipelineOK
<1> QED
    BY <1>3, <1>4

LEMMA IngestKeepsServed ==
    ASSUME ReadInv, BaseInv', NEW m \in Message,
           Store(m) \/ Register(m) \/ Publish(m) \/ IngestDies(m)
    PROVE  ReadInv'
<1>1. /\ UNCHANGED cursor
      /\ stored' = stored \/ (Store(m) /\ stored' = stored \cup {m})
      /\ late \subseteq late'
    BY IngestMoves DEF ReadInv
<1>2. \A n \in published' : n \in published \/ (n = m /\ Publish(m))
    BY DEF Store, Register, Publish, IngestDies
<1>3. stored \subseteq Message /\ published \subseteq stored
    BY DEF ReadInv, BaseInv, TypeOK
<1>4. SettledStays
    BY IngestKeepsSettled DEF ReadInv
<1>5. ASSUME NEW n \in stored' \ late', NEW p, OnRow(ChannelOf(n), p), TsOf(n) <= p
      PROVE  n \in stored \ late
    BY <1>1, <1>5, NewRowIsLate DEF ReadInv
<1>6. SkippedForCause'
    <2>1. ASSUME NEW n \in stored' \ late', NEW filter \in Filter, Passes(n, filter),
                 TsOf(n) <= cursor[<<ChannelOf(n), filter>>]
          PROVE  Settled(n, filter)'
        <3>1. n \in Message /\ <<ChannelOf(n), filter>> \in View
            BY <1>1, <1>3, MessageAssumption DEF View, ChannelOf
        <3>2. OnRow(ChannelOf(n), cursor[<<ChannelOf(n), filter>>])
            BY <3>1 DEF ReadInv, BaseInv, CursorsOnRows
        <3>3. n \in stored \ late
            BY <1>5, <2>1, <3>2
        <3>4. Settled(n, filter)
            BY <2>1, <3>3 DEF ReadInv, SkippedForCause, Behind, Settled
        <3> QED
            BY <1>4, <3>1, <3>4 DEF SettledStays
    <2> QED
        BY <1>1, <2>1 DEF SkippedForCause, Behind, Settled
<1>7. ASSUME NEW t \in Session, session'[t] # Idle PROVE CallServed(session[t])'
    <2>1. PICK r, q : r = session[t] /\ q = session'[t]
        OBVIOUS
    <2>2. /\ r \in Running /\ r # Idle /\ CallOK(r) /\ CallServed(r) /\ SameBut(q, r)
          /\ q.queue = r.queue \/ (Publish(m) /\ q.queue = Append(r.queue, m))
        <3>1. CASE q = r
            BY <1>7, <2>1, <3>1 DEF ReadInv, BaseInv, TypeOK, CallsOK, SameBut
        <3>2. CASE q # r
            BY <2>1, <3>2, IngestLeavesCalls, RunningIsNotIdle DEF ReadInv, BaseInv, CallsOK
        <3> QED
            BY <3>1, <3>2
    <2>3. r.call.filter \in Filter /\ r.queue \in Seq(Message)
        BY <2>2, CallIsTyped DEF Running
    <2>4. \A n \in Message : Settled(n, r.call.filter) => Settled(n, r.call.filter)'
        BY <1>4, <2>3 DEF SettledStays
    <2>5. PageIsRunOf(q)'
        <3>1. ASSUME q.pc = "advance", NEW p \in q.page, NEW n \in stored' \ late',
                     ChannelOf(n) = q.at, q.seen < TsOf(n), TsOf(n) <= TsOf(p)
              PROVE  n \in q.page
            <4>1. p \in r.page /\ p \in stored /\ ChannelOf(p) = r.at /\ r.pc = "advance"
                BY <2>2, <3>1 DEF SameBut, CallOK
            <4>2. OnRow(ChannelOf(n), TsOf(p))
                BY <2>2, <3>1, <4>1 DEF OnRow, SameBut
            <4>3. n \in stored \ late
                BY <1>5, <3>1, <4>2
            <4> QED
                BY <2>2, <3>1, <4>1, <4>3 DEF CallServed, PageIsRunOf, SameBut
        <3> QED
            BY <3>1 DEF PageIsRunOf
    <2>6. SeenIsSettledOf(q)'
        <3>1. ASSUME q.pc \in {"query", "advance"}, NEW n \in stored' \ late',
                     ChannelOf(n) = q.at, TsOf(n) <= q.seen, Passes(n, q.call.filter)
              PROVE  Settled(n, q.call.filter)'
            <4>1. OnRow(ChannelOf(n), r.seen)
                BY <2>2, <3>1 DEF SameBut, CallOK
            <4>2. n \in stored \ late
                BY <1>5, <2>2, <3>1, <4>1 DEF SameBut
            <4>3. Settled(n, r.call.filter)
                BY <2>2, <3>1, <4>2 DEF CallServed, SeenIsSettledOf, SameBut
            <4> QED
                BY <1>3, <2>2, <2>4, <4>2, <4>3 DEF SameBut
        <3> QED
            BY <3>1 DEF SeenIsSettledOf
    <2>7. QueueInOrder(q)'
        <3>1. \A i, j \in DOMAIN r.queue :
                 i < j /\ Older(r.queue[j], r.queue[i]) => r.queue[j] \in late
            BY <2>2 DEF CallServed, QueueInOrder
        <3>2. \A i, j \in DOMAIN q.queue :
                 i < j /\ Older(q.queue[j], q.queue[i]) => q.queue[j] \in late
            <4>1. CASE q.queue = r.queue
                BY <3>1, <4>1
            <4>2. CASE Publish(m) /\ q.queue = Append(r.queue, m)
                <5>1. \A i \in DOMAIN r.queue : r.queue[i] \in published
                    BY <2>2 DEF CallOK
                <5>2. \A i, j \in DOMAIN Append(r.queue, m) :
                        i < j /\ Older(Append(r.queue, m)[j], Append(r.queue, m)[i]) =>
                            Append(r.queue, m)[j] \in late
                    BY <2>3, <3>1, <4>2, <5>1, PublishKeepsOrder DEF ReadInv
                <5> QED
                    BY <4>2, <5>2
            <4> QED
                BY <2>2, <4>1, <4>2
        <3> QED
            BY <1>1, <3>2 DEF QueueInOrder
    <2>8. NothingMissed(q)'
        <3>1. ASSUME q.live, q.pc # "respond", NEW n \in published' \ late', Wanted(q, n)
              PROVE  Settled(n, q.call.filter)' \/ StillToRead(q, n) \/ InQueue(q, n)
            <4>1. CASE n \in published
                <5>1. /\ r.live /\ r.pc # "respond" /\ Wanted(r, n) /\ n \notin late
                      /\ StillToRead(r, n) => StillToRead(q, n)
                    BY <1>1, <2>2, <3>1 DEF SameBut, Wanted, StillToRead
                <5>2. InQueue(r, n) => InQueue(q, n)
                    <6>1. CASE q.queue = r.queue
                        BY <6>1 DEF InQueue
                    <6>2. CASE q.queue = Append(r.queue, m)
                        BY <2>3, <6>2 DEF InQueue
                    <6> QED
                        BY <2>2, <6>1, <6>2
                <5>3. Settled(n, r.call.filter) \/ StillToRead(r, n) \/ InQueue(r, n)
                    BY <2>2, <4>1, <5>1 DEF CallServed, NothingMissed
                <5> QED
                    BY <1>3, <2>2, <2>4, <4>1, <5>1, <5>2, <5>3 DEF SameBut
            <4>2. CASE n = m /\ Publish(m)
                <5>1. r.live /\ Wanted(r, m)
                    BY <2>2, <3>1, <4>2 DEF SameBut, Wanted
                <5>2. InQueue(q, m)
                    BY <2>1, <2>2, <4>2, <5>1, PublishedIsQueued DEF ReadInv
                <5> QED
                    BY <4>2, <5>2
            <4> QED
                BY <1>2, <4>1, <4>2
        <3> QED
            BY <3>1 DEF NothingMissed
    <2>9. CallServed(q)'
        BY <2>5, <2>6, <2>7, <2>8 DEF CallServed
    <2> QED
        BY <2>1, <2>9 DEF CallServed, PageIsRunOf, SeenIsSettledOf, QueueInOrder, NothingMissed,
                          Wanted, StillToRead, InQueue, Settled, Handed, InHand
<1> QED
    BY <1>6, <1>7 DEF ReadInv
--------------------------------------------------------------------------------
(* A call that is not reading a page has no position to answer for.        *)
LEMMA NotReading ==
    ASSUME NEW r, r.pc \notin {"query", "advance"}
    PROVE  PageIsRunOf(r) /\ SeenIsSettledOf(r)
BY DEF PageIsRunOf, SeenIsSettledOf

LEMMA RunningIsServed ==
    ASSUME ReadInv, NEW s \in Session, session[s] \in Running
    PROVE  CallServed(session[s])
BY RunningIsNotIdle DEF ReadInv

LEMMA StartKeepsServed ==
    ASSUME ReadInv, BaseInv', NEW s \in Session, NEW call \in Calls[s], Start(s, call)
    PROVE  ReadInv'
<1>1. PICK next : next = Begun(call)
    OBVIOUS
<1>2. /\ next \in Running /\ next # Idle /\ session' = [session EXCEPT ![s] = next]
      /\ UNCHANGED <<ingest, cursor, handed, beyond>>
    BY <1>1, CallBegins, RunningIsNotIdle DEF ReadInv
<1>3. ~next.live /\ next.queue = <<>> /\ next.pc \notin {"query", "advance"}
    BY <1>1 DEF Begun
<1>4. session[s] = Idle
    BY RunningIsNotIdle DEF Start, At, ReadInv, BaseInv, TypeOK, Running
<1>5. PageIsRunOf(next) /\ SeenIsSettledOf(next) /\ QueueInOrder(next)
    BY <1>3, NotReading DEF QueueInOrder
<1> QED
    BY <1>2, <1>3, <1>4, <1>5, QuietCallKeepsServed

(* A wait that connects has its whole sweep before it; one that waits has  *)
(* nothing of it left.                                                     *)
LEMMA GoingOnKeepsServed ==
    ASSUME ReadInv, BaseInv', NEW s \in Session,
           \/ Connect(s) \/ ScanAnswers(s) \/ NoiseComes(s) \/ PassOver(s) \/ Timeout(s)
    PROVE  ReadInv'
<1>1. PICK r, next : r = session[s] /\ next = session'[s]
    OBVIOUS
<1>2. /\ r \in Running /\ next \in Running
      /\ session' = [session EXCEPT ![s] = next]
      /\ UNCHANGED <<ingest, cursor, handed, beyond>>
    BY <1>1, CallGoesOn DEF ReadInv
<1>3. /\ next.call = r.call /\ next.todo = r.todo /\ next.out = r.out
      /\ next.queue = r.queue
    BY <1>1, CallGoesOn DEF ReadInv
<1>4. \/ next.pc = "list"
      \/ next.pc = "respond"
      \/ r.pc = "await" /\ next.pc = "await" /\ next.live = r.live /\ next.left = r.left
    BY <1>1, CallGoesOn DEF ReadInv
<1>5. CallServed(r) /\ next # Idle
    BY <1>1, <1>2, RunningIsServed, RunningIsNotIdle
<1>6. PageIsRunOf(next) /\ SeenIsSettledOf(next) /\ QueueInOrder(next)
    BY <1>3, <1>4, <1>5, NotReading DEF CallServed, QueueInOrder
<1>7. ASSUME next.live, next.pc # "respond", NEW m \in published \ late, Wanted(next, m)
      PROVE  Settled(m, next.call.filter) \/ StillToRead(next, m) \/ InQueue(next, m)
    <2>1. CASE next.pc = "list"
        BY <2>1 DEF StillToRead
    <2>2. CASE r.pc = "await" /\ next.pc = "await" /\ next.live = r.live /\ next.left = r.left
        BY <1>3, <1>5, <1>7, <2>2 DEF CallServed, NothingMissed, Wanted, StillToRead, InQueue
    <2> QED
        BY <1>4, <1>7, <2>1, <2>2
<1> QED
    BY <1>1, <1>2, <1>3, <1>5, <1>6, <1>7, QuietCallKeepsServed

LEMMA EndKeepsServed ==
    ASSUME ReadInv, BaseInv', NEW s \in Session, ConnectFails(s) \/ Respond(s) \/ LoseReply(s)
    PROVE  ReadInv'
<1>1. /\ handed \subseteq handed' /\ session[s].out \X {session[s].call.filter} \subseteq handed'
      /\ session' = [session EXCEPT ![s] = Idle]
      /\ UNCHANGED <<ingest, cursor, beyond>>
    BY CallEnds DEF ReadInv
<1> QED
    BY <1>1, QuietCallKeepsServed

(* What was published by now is in a conversation the sweep will read.     *)
LEMMA WatchedIsTargeted ==
    ASSUME BaseInv, NEW r \in Running, NEW m \in published, Watched(r.call, ChannelOf(m))
    PROVE  ChannelOf(m) \in Targets(r.call)
<1>1. ChannelOf(m) \in Channel /\ ChannelOf(m) \notin User /\ ChannelOf(m) \in known
    BY MessageAssumption DEF BaseInv, TypeOK, PipelineOK, ChannelOf
<1> QED
    BY <1>1 DEF Watched, Targets, Resolve

LEMMA ListTargetsKeepsServed ==
    ASSUME ReadInv, BaseInv', NEW s \in Session, ListTargets(s)
    PROVE  ReadInv'
<1>1. PICK r : r = session[s]
    OBVIOUS
<1>2. PICK next : next = [r EXCEPT !.pc = "scan", !.todo = Targets(r.call)]
    OBVIOUS
<1>3. r \in Running /\ next \in Running /\ session' = [session EXCEPT ![s] = next]
    BY <1>1, <1>2, SweepSetsOut DEF ReadInv
<1>4. /\ next.pc = "scan" /\ next.todo = Targets(r.call) /\ next.call = r.call
      /\ next.out = r.out /\ next.queue = r.queue
    BY <1>2, <1>3 DEF Running
<1>5. CallServed(r) /\ next # Idle
    BY <1>1, <1>3, RunningIsServed, RunningIsNotIdle
<1>6. PageIsRunOf(next) /\ SeenIsSettledOf(next) /\ QueueInOrder(next)
    BY <1>4, <1>5, NotReading DEF CallServed, QueueInOrder
<1>7. \A m \in published : Wanted(next, m) => StillToRead(next, m)
    BY <1>3, <1>4, WatchedIsTargeted DEF Wanted, StillToRead, ReadInv
<1>8. UNCHANGED <<ingest, cursor, handed, beyond>>
    BY DEF ListTargets
<1> QED
    BY <1>1, <1>3, <1>4, <1>5, <1>6, <1>7, <1>8, QuietCallKeepsServed

LEMMA ReadCursorKeepsServed ==
    ASSUME ReadInv, BaseInv', NEW s \in Session, ReadCursor(s)
    PROVE  ReadInv'
<1>1. PICK r, seen : r = session[s] /\ seen = [ch \in Channel |-> cursor[<<ch, r.call.filter>>]]
    OBVIOUS
<1>2. PICK ch \in r.todo :
         /\ r \in Running /\ r.pc = "scan" /\ ch \in Channel
         /\ [r EXCEPT !.pc = "query", !.at = ch, !.todo = @ \ {ch}, !.seen = seen[ch]] \in Running
         /\ session' = [session EXCEPT ![s] =
               [r EXCEPT !.pc = "query", !.at = ch, !.todo = @ \ {ch}, !.seen = seen[ch]]]
    BY <1>1, CursorIsRead DEF ReadInv
<1>3. PICK next : next = [r EXCEPT !.pc = "query", !.at = ch, !.todo = @ \ {ch}, !.seen = seen[ch]]
    OBVIOUS
<1>4. next \in Running /\ session' = [session EXCEPT ![s] = next]
    BY <1>2, <1>3
<1>5. /\ next.pc = "query" /\ next.at = ch /\ next.todo = r.todo \ {ch} /\ next.call = r.call
      /\ next.seen = cursor[<<ch, r.call.filter>>] /\ next.out = r.out /\ next.queue = r.queue
      /\ next.live = r.live /\ next.left = r.left
    BY <1>1, <1>2, <1>3 DEF Running
<1>6. CallServed(r) /\ next # Idle /\ r.call.filter \in Filter
    BY <1>1, <1>2, <1>4, RunningIsServed, RunningIsNotIdle, CallIsTyped
<1>7. SeenIsSettledOf(next)
    BY <1>5, <1>6 DEF SeenIsSettledOf, ReadInv, SkippedForCause, Behind, Settled
<1>8. PageIsRunOf(next) /\ QueueInOrder(next)
    BY <1>5, <1>6 DEF PageIsRunOf, CallServed, QueueInOrder
<1>9. ASSUME next.live, NEW m \in published \ late, Wanted(next, m)
      PROVE  Settled(m, next.call.filter) \/ StillToRead(next, m) \/ InQueue(next, m)
    <2>1. StillToRead(r, m) => StillToRead(next, m)
        BY <1>2, <1>5 DEF StillToRead
    <2>2. InQueue(r, m) => InQueue(next, m)
        BY <1>5 DEF InQueue
    <2> QED
        BY <1>2, <1>5, <1>6, <1>9, <2>1, <2>2 DEF CallServed, NothingMissed, Wanted
<1>10. UNCHANGED <<ingest, cursor, handed, beyond>>
    BY DEF ReadCursor
<1> QED
    BY <1>1, <1>4, <1>5, <1>6, <1>7, <1>8, <1>9, <1>10, QuietCallKeepsServed

(* A message of the conversation that is read is behind the position, in   *)
(* the page or among the rest.                                             *)
LEMMA QueryKeepsServed ==
    ASSUME ReadInv, BaseInv', NEW s \in Session, Query(s)
    PROVE  ReadInv'
<1>1. PICK r : r = session[s]
    OBVIOUS
<1>2. PICK page, rest, next :
         page = MessagesAfter(r.at, r.seen) /\ rest = Rest(r) /\ next = AfterQuery(r)
    OBVIOUS
<1>3. /\ r \in Running /\ CallOK(r) /\ r.pc = "query" /\ r.at \in Channel
      /\ \A m \in page, n \in Above(r.at, r.seen) : TsOf(n) <= TsOf(m) => n \in page
      /\ next \in Running /\ session' = [session EXCEPT ![s] = next]
    BY <1>1, <1>2, PageIsRead DEF ReadInv
<1>4. /\ next.pc = (IF page = {} THEN "scan" ELSE "advance") /\ next.page = page
      /\ next.left = (IF r.call.kind = "wait" THEN r.left \cup rest ELSE r.left)
      /\ next.at = r.at /\ next.seen = r.seen /\ next.todo = r.todo /\ next.call = r.call
      /\ next.out = r.out /\ next.queue = r.queue /\ next.live = r.live
    BY <1>2, <1>3 DEF AfterQuery, Running
<1>5. CallServed(r) /\ next # Idle
    BY <1>1, <1>3, RunningIsServed, RunningIsNotIdle
<1>6. SeenIsSettledOf(next)
    BY <1>3, <1>4, <1>5 DEF CallServed, SeenIsSettledOf
<1>7. r.seen \in Nat /\ \A n \in stored : TsOf(n) \in Nat
    BY <1>3, MessageAssumption DEF Running, Position, ReadInv, BaseInv, TypeOK, TsOf
<1>8. PageIsRunOf(next)
    BY <1>3, <1>4, <1>7 DEF PageIsRunOf, Above
<1>9. QueueInOrder(next)
    BY <1>4, <1>5 DEF CallServed, QueueInOrder
<1>10. ASSUME next.live, NEW m \in published \ late, Wanted(next, m)
       PROVE  Settled(m, next.call.filter) \/ StillToRead(next, m) \/ InQueue(next, m)
    <2>1. m \in stored /\ Passes(m, r.call.filter) /\ r.call.kind = "wait"
        BY <1>3, <1>4, <1>10 DEF Wanted, CallOK, ReadInv, BaseInv, TypeOK
    <2>2. ChannelOf(m) = r.at /\ TsOf(m) <= r.seen => Settled(m, r.call.filter)
        BY <1>3, <1>5, <1>10, <2>1 DEF CallServed, SeenIsSettledOf
    <2>3. ChannelOf(m) = r.at /\ TsOf(m) > r.seen => m \in page \/ m \in rest
        BY <1>2, <2>1 DEF Above, Rest
    <2>4. m \in page \/ m \in rest => StillToRead(next, m)
        BY <1>4, <2>1 DEF StillToRead
    <2>5. StillToRead(r, m) => ChannelOf(m) = r.at \/ StillToRead(next, m)
        BY <1>3, <1>4 DEF StillToRead
    <2>6. InQueue(r, m) => InQueue(next, m)
        BY <1>4 DEF InQueue
    <2>7. Settled(m, r.call.filter) \/ StillToRead(r, m) \/ InQueue(r, m)
        BY <1>3, <1>4, <1>5, <1>10 DEF CallServed, NothingMissed, Wanted
    <2> QED
        BY <1>4, <1>7, <2>1, <2>2, <2>3, <2>4, <2>5, <2>6, <2>7
<1>11. UNCHANGED <<ingest, cursor, handed, beyond>>
    BY DEF Query
<1> QED
    BY <1>1, <1>3, <1>4, <1>5, <1>6, <1>8, <1>9, <1>10, <1>11, QuietCallKeepsServed

(* A wait without an answer notes what its pages left unread.              *)
LEMMA ScanEmptyKeepsServed ==
    ASSUME ReadInv, BaseInv', NEW s \in Session, ScanEmpty(s)
    PROVE  ReadInv'
<1>1. PICK r : r = session[s]
    OBVIOUS
<1>2. PICK next : next = [r EXCEPT !.pc = "await", !.left = {}]
    OBVIOUS
<1>3. /\ r \in Running /\ r.pc = "scan" /\ r.todo = {} /\ r.out = {}
      /\ next \in Running /\ session' = [session EXCEPT ![s] = next]
      /\ beyond' = beyond \cup (r.left \X {r.call.filter})
    BY <1>1, <1>2, WaitTurnsToEvents DEF ReadInv
<1>4. /\ next.pc = "await" /\ next.call = r.call /\ next.out = r.out /\ next.queue = r.queue
      /\ next.live = r.live
    BY <1>2, <1>3 DEF Running
<1>5. CallServed(r) /\ next # Idle
    BY <1>1, <1>3, RunningIsServed, RunningIsNotIdle
<1>6. PageIsRunOf(next) /\ SeenIsSettledOf(next) /\ QueueInOrder(next)
    BY <1>4, <1>5, NotReading DEF CallServed, QueueInOrder
<1>7. ASSUME next.live, NEW m \in published \ late, Wanted(next, m)
      PROVE  Settled(m, next.call.filter) \/ <<m, next.call.filter>> \in beyond' \/ InQueue(next, m)
    <2>1. StillToRead(r, m) => m \in r.left
        BY <1>3 DEF StillToRead
    <2>2. InQueue(r, m) => InQueue(next, m)
        BY <1>4 DEF InQueue
    <2>3. Settled(m, r.call.filter) \/ StillToRead(r, m) \/ InQueue(r, m)
        BY <1>3, <1>4, <1>5, <1>7 DEF CallServed, NothingMissed, Wanted
    <2> QED
        BY <1>3, <1>4, <2>1, <2>2, <2>3
<1>8. UNCHANGED <<ingest, cursor, handed>> /\ beyond \subseteq beyond'
    BY <1>3 DEF ScanEmpty
<1> QED
    BY <1>1, <1>3, <1>4, <1>5, <1>6, <1>7, <1>8, QuietCallKeepsServed

(* The page held all there was between the old and the new position.       *)
LEMMA AdvanceKeepsServed ==
    ASSUME ReadInv, BaseInv', NEW s \in Session, Advance(s)
    PROVE  ReadInv'
<1>1. PICK r : r = session[s]
    OBVIOUS
<1>2. PICK next, newest : next = AfterPage(r) /\ newest = NewestTs(r.page)
    OBVIOUS
<1>3. /\ r \in Running /\ CallOK(r) /\ r.pc = "advance"
      /\ <<r.at, r.call.filter>> \in View
      /\ \E m \in r.page : TsOf(m) = newest
      /\ cursor' = [cursor EXCEPT ![<<r.at, r.call.filter>>] = newest]
      /\ next \in Running /\ session' = [session EXCEPT ![s] = next]
    BY <1>1, <1>2, PageIsPassed DEF ReadInv
<1>4. /\ next.pc = "scan" /\ next.call = r.call /\ next.queue = r.queue /\ next.live = r.live
      /\ next.todo = r.todo /\ next.left = r.left
      /\ \A m : m \in next.out <=> m \in r.out \/ (m \in r.page /\ Passes(m, r.call.filter))
    BY <1>2, <1>3 DEF AfterPage, Found, Running
<1>5. CallServed(r) /\ next # Idle
    BY <1>1, <1>3, RunningIsServed, RunningIsNotIdle
<1>6. UNCHANGED <<ingest, handed, beyond>>
    BY DEF Advance
<1>7. SettledStays
    BY <1>1, <1>3, <1>4, <1>5, <1>6, HandOver DEF ReadInv
<1>8. \A m \in Message : Settled(m, r.call.filter) => Settled(m, r.call.filter)'
    BY <1>3, <1>7, CallIsTyped DEF SettledStays
<1>9. ASSUME NEW m \in r.page, Passes(m, r.call.filter) PROVE Settled(m, r.call.filter)'
    <2>1. session'[s] = next
        BY <1>3 DEF ReadInv, BaseInv, TypeOK
    <2> QED
        BY <1>4, <1>5, <1>9, <2>1 DEF Settled, Handed, InHand
<1>10. stored \subseteq Message /\ published \subseteq stored
    BY DEF ReadInv, BaseInv, TypeOK
<1>11. ASSUME NEW m \in stored \ late, NEW filter \in Filter, Passes(m, filter),
              TsOf(m) <= cursor'[<<ChannelOf(m), filter>>]
       PROVE  TsOf(m) <= cursor[<<ChannelOf(m), filter>>] \/ Settled(m, filter)'
    <2>1. <<ChannelOf(m), filter>> \in View /\ \A n \in stored : TsOf(n) \in Nat
        BY <1>10, MessageAssumption DEF View, ChannelOf, TsOf
    <2>2. CASE <<ChannelOf(m), filter>> # <<r.at, r.call.filter>>
        BY <1>3, <1>11, <2>1, <2>2 DEF ReadInv, BaseInv, TypeOK
    <2>3. CASE ChannelOf(m) = r.at /\ filter = r.call.filter
        <3>1. TsOf(m) <= newest
            BY <1>3, <1>11, <2>1, <2>3 DEF ReadInv, BaseInv, TypeOK
        <3>2. r.seen \in Nat
            BY <1>3, MessageAssumption DEF Running, Position, TsOf
        <3>3. CASE TsOf(m) <= r.seen
            <4>1. Settled(m, filter)
                BY <1>3, <1>5, <1>11, <2>3, <3>3 DEF CallServed, SeenIsSettledOf
            <4> QED
                BY <1>8, <1>10, <2>3, <4>1
        <3>4. CASE r.seen < TsOf(m)
            <4>1. m \in r.page
                BY <1>3, <1>5, <2>3, <3>1, <3>4 DEF CallServed, PageIsRunOf
            <4> QED
                BY <1>9, <1>11, <2>3, <4>1
        <3> QED
            BY <2>1, <3>2, <3>3, <3>4
    <2> QED
        BY <2>2, <2>3
<1>12. PageIsRunOf(next) /\ QueueInOrder(next)
    BY <1>4, <1>5, NotReading DEF CallServed, QueueInOrder
<1>13. ASSUME next.live, NEW m \in published \ late, Wanted(next, m)
       PROVE  Settled(m, next.call.filter)' \/ StillToRead(next, m) \/ InQueue(next, m)
    <2>1. Settled(m, r.call.filter) \/ StillToRead(r, m) \/ InQueue(r, m)
        BY <1>3, <1>4, <1>5, <1>13 DEF CallServed, NothingMissed, Wanted
    <2>2. StillToRead(r, m) => StillToRead(next, m) \/ Settled(m, r.call.filter)'
        BY <1>3, <1>4, <1>9, <1>13 DEF StillToRead, Wanted
    <2>3. InQueue(r, m) => InQueue(next, m)
        BY <1>4 DEF InQueue
    <2> QED
        BY <1>4, <1>8, <1>10, <2>1, <2>2, <2>3
<1> QED
    BY <1>3, <1>4, <1>5, <1>6, <1>7, <1>11, <1>12, <1>13, CallKeepsServed

(* All that comes before an event its wait has had or is late: the event   *)
(* may move the cursor.                                                    *)
LEMMA HeadIsNext ==
    ASSUME ReadInv, NEW r \in Running, CallOK(r), CallServed(r), r.pc = "await", r.queue # <<>>,
           NEW n \in stored \ late, Older(n, Head(r.queue)), Wanted(r, n)
    PROVE  Settled(n, r.call.filter)
<1>1. r.queue \in Seq(Message) /\ 1 \in DOMAIN r.queue /\ Head(r.queue) = r.queue[1]
    BY DEF Running
<1>2. r.queue[1] \in published
    BY <1>1 DEF CallOK
<1>3. n \in published
    BY <1>1, <1>2 DEF ReadInv, BaseInv, PipelineOK
<1>4. r.live /\ r.todo = {} /\ r.left = {}
    BY CallIsTyped DEF CallOK
<1>5. Settled(n, r.call.filter) \/ InQueue(r, n)
    BY <1>3, <1>4 DEF CallServed, NothingMissed, StillToRead
<1>6. ASSUME NEW i \in DOMAIN r.queue, r.queue[i] = n PROVE FALSE
    <2>1. i # 1
        BY <1>1, <1>3, <1>6, MessageAssumption
           DEF Older, ReadInv, BaseInv, TypeOK, TsOf
    <2>2. 1 < i
        BY <1>1, <2>1
    <2> QED
        BY <1>1, <1>6, <2>2 DEF CallServed, QueueInOrder
<1> QED
    BY <1>5, <1>6 DEF InQueue

LEMMA TakeEventKeepsServed ==
    ASSUME ReadInv, BaseInv', NEW s \in Session, TakeEvent(s)
    PROVE  ReadInv'
<1>1. PICK r : r = session[s]
    OBVIOUS
<1>2. PICK next, m : next = AfterEvent(r) /\ m = Head(r.queue)
    OBVIOUS
<1>3. /\ r \in Running /\ CallOK(r) /\ r.pc = "await"
      /\ r.queue # <<>> /\ m = r.queue[1] /\ m \in published
      /\ <<ChannelOf(m), r.call.filter>> \in View
      /\ cursor' = IF Watched(r.call, ChannelOf(m))
                    THEN [cursor EXCEPT ![<<ChannelOf(m), r.call.filter>>] = TsOf(m)] ELSE cursor
      /\ next \in Running /\ session' = [session EXCEPT ![s] = next]
    BY <1>1, <1>2, EventIsTaken DEF ReadInv
<1>4. /\ next.pc = (IF Wanted(r, m) THEN "respond" ELSE "await")
      /\ next.out = (IF Wanted(r, m) THEN {m} ELSE {})
      /\ next.call = r.call /\ next.queue = Tail(r.queue) /\ next.live = r.live
      /\ next.todo = r.todo /\ next.left = r.left
    BY <1>2, <1>3 DEF AfterEvent, Running
<1>5. CallServed(r) /\ next # Idle /\ r.queue \in Seq(Message)
    BY <1>1, <1>3, RunningIsServed, RunningIsNotIdle DEF Running
<1>6. UNCHANGED <<ingest, handed, beyond>> /\ r.out = {}
    BY <1>3 DEF TakeEvent, CallOK
<1>7. SettledStays
    BY <1>1, <1>3, <1>4, <1>5, <1>6, HandOver DEF ReadInv
<1>8. \A n \in Message : Settled(n, r.call.filter) => Settled(n, r.call.filter)'
    BY <1>3, <1>7, CallIsTyped DEF SettledStays
<1>9. stored \subseteq Message /\ published \subseteq stored
    BY DEF ReadInv, BaseInv, TypeOK
<1>10. ASSUME Wanted(r, m) PROVE Settled(m, r.call.filter)'
    <2>1. session'[s] = next
        BY <1>3 DEF ReadInv, BaseInv, TypeOK
    <2> QED
        BY <1>4, <1>5, <1>10, <2>1 DEF Settled, Handed, InHand
<1>11. ASSUME NEW n \in stored \ late, NEW filter \in Filter, Passes(n, filter),
              TsOf(n) <= cursor'[<<ChannelOf(n), filter>>]
       PROVE  TsOf(n) <= cursor[<<ChannelOf(n), filter>>] \/ Settled(n, filter)'
    <2>1. /\ n \in Message /\ <<ChannelOf(n), filter>> \in View /\ TsOf(n) \in Nat
          /\ TsOf(m) \in Nat /\ n = <<ChannelOf(n), TsOf(n)>> /\ m = <<ChannelOf(m), TsOf(m)>>
        BY <1>3, <1>9, MessageAssumption DEF View, ChannelOf, TsOf
    <2>2. CASE cursor' = cursor \/ <<ChannelOf(n), filter>> # <<ChannelOf(m), r.call.filter>>
        BY <1>3, <1>11, <2>1, <2>2 DEF ReadInv, BaseInv, TypeOK
    <2>3. CASE /\ Watched(r.call, ChannelOf(m))
               /\ ChannelOf(n) = ChannelOf(m) /\ filter = r.call.filter
        <3>1. TsOf(n) <= TsOf(m)
            BY <1>3, <1>11, <2>1, <2>3 DEF ReadInv, BaseInv, TypeOK
        <3>2. CASE TsOf(n) < TsOf(m)
            <4>1. Older(n, m) /\ Wanted(r, n)
                BY <1>11, <2>3, <3>2 DEF Older, Wanted
            <4>2. Settled(n, filter)
                BY <1>2, <1>3, <1>5, <2>3, <4>1, HeadIsNext
            <4> QED
                BY <1>8, <2>1, <2>3, <4>2
        <3>3. CASE n = m
            BY <1>10, <1>11, <2>3, <3>3 DEF Wanted
        <3> QED
            BY <2>1, <2>3, <3>1, <3>2, <3>3
    <2> QED
        BY <1>3, <2>2, <2>3
<1>12. PageIsRunOf(next)
    BY <1>4, NotReading
<1>13. /\ \A i \in DOMAIN next.queue : /\ i \in Nat /\ i + 1 \in DOMAIN r.queue
                                       /\ next.queue[i] = r.queue[i + 1]
       /\ \A i \in DOMAIN r.queue : i # 1 => i - 1 \in DOMAIN next.queue
                                             /\ next.queue[i - 1] = r.queue[i]
    <2>1. PICK q : q = r.queue
        OBVIOUS
    <2>2. q \in Seq(Message) /\ q # <<>>
        BY <1>3, <1>5, <2>1
    <2>3. \A i \in DOMAIN Tail(q) : i \in Nat /\ i + 1 \in DOMAIN q /\ Tail(q)[i] = q[i + 1]
        BY <2>2
    <2>4. \A i \in DOMAIN q : i # 1 => i - 1 \in DOMAIN Tail(q) /\ Tail(q)[i - 1] = q[i]
        BY <2>2
    <2> QED
        BY <1>4, <2>1, <2>3, <2>4
<1>14. QueueInOrder(next)
    <2>1. ASSUME NEW i \in DOMAIN next.queue, NEW j \in DOMAIN next.queue, i < j,
                 Older(next.queue[j], next.queue[i])
          PROVE  next.queue[j] \in late
        <3>1. i + 1 < j + 1
            BY <1>13, <2>1
        <3> QED
            BY <1>5, <1>13, <2>1, <3>1 DEF CallServed, QueueInOrder
    <2> QED
        BY <2>1 DEF QueueInOrder
<1>15. ASSUME next.live, next.pc # "respond", NEW n \in published \ late, Wanted(next, n)
       PROVE  Settled(n, next.call.filter)' \/ StillToRead(next, n) \/ InQueue(next, n)
    <2>1. Settled(n, r.call.filter) \/ StillToRead(r, n) \/ InQueue(r, n)
        BY <1>3, <1>4, <1>5, <1>15 DEF CallServed, NothingMissed, Wanted
    <2>2. StillToRead(r, n) => StillToRead(next, n)
        BY <1>3, <1>4 DEF StillToRead
    <2>3. n # m
        BY <1>4, <1>15 DEF Wanted
    <2>4. InQueue(r, n) => InQueue(next, n)
        BY <1>3, <1>13, <2>3 DEF InQueue
    <2> QED
        BY <1>4, <1>8, <1>9, <2>1, <2>2, <2>4
<1> QED
    BY <1>3, <1>4, <1>5, <1>6, <1>7, <1>11, <1>12, <1>14, <1>15, CallKeepsServed
--------------------------------------------------------------------------------
LEMMA ReadInit == Init => ReadInv
<1> SUFFICES ASSUME Init PROVE ReadInv
    OBVIOUS
<1>1. SkippedForCause
    BY DEF Init, SkippedForCause
<1> QED
    BY <1>1, BaseInit DEF Init, ReadInv

LEMMA ReadStep == ReadInv /\ [Next]_vars => ReadInv'
<1> SUFFICES ASSUME ReadInv, [Next]_vars PROVE ReadInv'
    OBVIOUS
<1>1. BaseInv'
    BY BaseStep DEF ReadInv
<1>2. CASE UNCHANGED vars
    <2>1. UNCHANGED <<stored, registering, known, publishing, published, late, cursor, session,
                      handed, beyond>>
        BY <1>2 DEF vars, ingest
    <2> QED
        BY <1>1, <2>1 DEF ReadInv, SkippedForCause, Behind, Handed, InHand, CallServed, PageIsRunOf,
                          SeenIsSettledOf, QueueInOrder, NothingMissed, Wanted, StillToRead, InQueue,
                          Settled
<1>3. ASSUME NEW s \in Session, CallStep(s) PROVE ReadInv'
    BY <1>1, <1>3, GoingOnKeepsServed, EndKeepsServed, ListTargetsKeepsServed,
       ReadCursorKeepsServed, QueryKeepsServed, AdvanceKeepsServed, ScanEmptyKeepsServed,
       TakeEventKeepsServed DEF CallStep
<1>4. ASSUME NEW s \in Session, Timeout(s) \/ NoiseComes(s) \/ LoseReply(s) PROVE ReadInv'
    BY <1>1, <1>4, GoingOnKeepsServed, EndKeepsServed
<1>5. ASSUME NEW ch \in Channel, RegisterElsewhere(ch) PROVE ReadInv'
    <2>1. UNCHANGED <<stored, registering, publishing, published, late, cursor, session,
                      handed, beyond>>
        BY <1>5 DEF RegisterElsewhere
    <2> QED
        BY <1>1, <2>1 DEF ReadInv, SkippedForCause, Behind, Handed, InHand, CallServed, PageIsRunOf,
                          SeenIsSettledOf, QueueInOrder, NothingMissed, Wanted, StillToRead, InQueue,
                          Settled
<1> QED
    BY <1>1, <1>2, <1>3, <1>4, <1>5, IngestKeepsServed, StartKeepsServed DEF Next

LEMMA ReadInvariance == Spec => []ReadInv
BY ReadInit, ReadStep, PTL DEF Spec

(* "Nothing is ever lost" (DESIGN.md, agent offline), as far as the code   *)
(* keeps it: any number of checks and waits may overlap, stop in the       *)
(* middle and set cursors back, with pages of any length and ingest in any *)
(* order, and a cursor passes a message of its view that was never handed  *)
(* on for two causes only - a newer message of the conversation was stored *)
(* or published first, or a wait's full page had nothing for its caller    *)
(* and an event took the cursor on.                                        *)
THEOREM SkippedForCauseAlways == Spec => []SkippedForCause
<1>1. ReadInv => SkippedForCause
    BY DEF ReadInv
<1> QED
    BY <1>1, ReadInvariance, PTL

QuietTimeout(s) ==
    LET call == session[s].call IN
    \A m \in published \ late :
        Watched(call, ChannelOf(m)) /\ Passes(m, call.filter) =>
            \/ Handed(m, call.filter)
            \/ <<m, call.filter>> \in beyond
            \/ \E i \in DOMAIN session[s].queue : session[s].queue[i] = m

(* "A message landing between the two is caught by at least one path"      *)
(* (wait_for_messages.py): a wait that gives up has missed nothing of what *)
(* it watches but for the two causes above and what is in its socket at    *)
(* that moment - whatever other calls of the identity do meanwhile.        *)
THEOREM TimeoutMissesNothing == Spec => TimeoutMeansQuiet
<1>1. ASSUME ReadInv, NEW s \in Session, Timeout(s) PROVE QuietTimeout(s)
    <2>1. PICK r : r = session[s]
        OBVIOUS
    <2>2. r \in Running /\ CallOK(r) /\ r.pc = "await" /\ CallServed(r)
        BY <1>1, <2>1, RunningCall, RunningIsServed DEF Timeout, At, ReadInv
    <2>3. r.live /\ r.todo = {} /\ r.left = {}
        BY <2>2, CallIsTyped DEF CallOK
    <2>4. \A m \in published \ late :
             Wanted(r, m) => Settled(m, r.call.filter) \/ InQueue(r, m)
        BY <2>2, <2>3 DEF CallServed, NothingMissed, StillToRead
    <2> QED
        BY <2>1, <2>4 DEF QuietTimeout, Wanted, Settled, InQueue
<1>2. ReadInv /\ [Next]_vars => [\A s \in Session : Timeout(s) => QuietTimeout(s)]_vars
    BY <1>1
<1> QED
    BY <1>2, ReadInvariance, PTL DEF Spec, TimeoutMeansQuiet, QuietTimeout
================================================================================
