---------------------------- MODULE NameCacheProofs ----------------------------
(* What the tools say of people, for every number of people, ingest          *)
(* containers and calls, whatever order the rows are written in.             *)
EXTENDS NameCache, TLAPS

USE DEF Name, Flag, Manner

LEMMA IdleIsALookup == NoLookup \in Lookup
BY DEF NoLookup, Lookup

LEMMA InvInit == Init => NamesInv
<1> SUFFICES ASSUME Init PROVE NamesInv
    OBVIOUS
<1>1. TypeOK
    BY IdleIsALookup DEF Init, TypeOK
<1>2. FlagsAreTrue
    BY DEF Init, FlagsAreTrue
<1>3. NamelessForCause /\ PutIsNamed /\ LookupsAreProper
    BY DEF Init, NamelessForCause, PutIsNamed, LookupsAreProper, NoLookup
<1> QED
    BY <1>1, <1>2, <1>3 DEF NamesInv

(* What a look-up may come to be without disturbing anything: only its own  *)
(* state matters, and only what it is about to say or to write.             *)
Proper(x, next) ==
    /\ next \in Lookup
    /\ x \in Reader /\ next.pc = "done" /\ next.name = "" =>
          next.failed \/ next.person \in Blank
    /\ x \in Reader /\ next.pc = "put" => next.name # "" \/ next.person \in Blank
    /\ next.pc # "idle" => /\ next.person \in Person
                           /\ next.manner = "_resolve_user_name" <=> x \in Ingest

(* So a look-up that goes on as it should keeps the invariant, if the rows  *)
(* and the memories stay what they have to be.                              *)
LEMMA LookupMoves ==
    ASSUME NamesInv, NEW x \in Ingest \cup Reader, NEW next, Proper(x, next),
           lookup' = [lookup EXCEPT ![x] = next],
           row' \in [Person -> Row \cup {NoRow}], FlagsAreTrue',
           memory' \in [Ingest -> [Person -> Name \cup {NoRow}]]
    PROVE  NamesInv'
<1>1. lookup' \in [Ingest \cup Reader -> Lookup]
    BY DEF NamesInv, TypeOK, Proper
<1>2. \A y \in Ingest \cup Reader : lookup'[y] = IF y = x THEN next ELSE lookup[y]
    BY DEF NamesInv, TypeOK
<1>3. TypeOK'
    BY <1>1 DEF TypeOK
<1>4. NamelessForCause'
    BY <1>2 DEF NamelessForCause, NamesInv, Proper
<1>5. PutIsNamed'
    BY <1>2 DEF PutIsNamed, NamesInv, Proper
<1>6. LookupsAreProper'
    BY <1>2 DEF LookupsAreProper, NamesInv, Proper
<1> QED
    BY <1>3, <1>4, <1>5, <1>6 DEF NamesInv

LEMMA IdleIsProper == ASSUME NEW x PROVE Proper(x, NoLookup)
BY IdleIsALookup DEF Proper, NoLookup

(* Dropping a look-up is always allowed.                                    *)
LEMMA LookupEnds ==
    ASSUME NamesInv, NEW x \in Ingest \cup Reader,
           lookup' = [lookup EXCEPT ![x] = NoLookup], row' = row,
           memory' \in [Ingest -> [Person -> Name \cup {NoRow}]]
    PROVE  NamesInv'
BY LookupMoves, IdleIsProper DEF NamesInv, TypeOK, FlagsAreTrue

LEMMA StartStep ==
    ASSUME NamesInv, NEW x \in Ingest \cup Reader, NEW p \in Person, NEW manner \in Manner,
           manner = "_resolve_user_name" <=> x \in Ingest, StartLookup(x, p, manner)
    PROVE  NamesInv'
<1> DEFINE next == [NoLookup EXCEPT !.pc = "get", !.person = p, !.manner = manner]
<1>1. Proper(x, next)
    BY IdleIsALookup DEF Proper, Lookup, NoLookup
<1>2. lookup' = [lookup EXCEPT ![x] = next] /\ row' = row /\ memory' = memory
    BY DEF StartLookup
<1> HIDE DEF next
<1> QED
    BY <1>1, <1>2, LookupMoves DEF NamesInv, TypeOK, FlagsAreTrue

(* A row that will do has a name for everyone but ingest: list_members      *)
(* takes only a row with a flag, and those have one.                        *)
LEMMA GetStep ==
    ASSUME NamesInv, NEW x \in Ingest \cup Reader, GetCached(x)
    PROVE  NamesInv'
<1> DEFINE p == lookup[x].person
           manner == lookup[x].manner
<1>1. /\ p \in Person /\ manner \in Manner /\ lookup[x] \in Lookup
      /\ manner = "_resolve_user_name" <=> x \in Ingest
    BY DEF GetCached, NamesInv, TypeOK, LookupsAreProper, Lookup
<1>2. row[p] \in Row \cup {NoRow} /\ (row[p] # NoRow => row[p].name \in Name)
    BY <1>1 DEF NamesInv, TypeOK, Row
<1>3. CASE ~WillDo(p, manner)
    <2> DEFINE next == [lookup[x] EXCEPT !.pc = "ask", !.name = CachedName(p)]
    <2>1. CachedName(p) \in Name
        BY <1>2 DEF CachedName
    <2>2. Proper(x, next)
        BY <1>1, <2>1 DEF Proper, Lookup
    <2>3. lookup' = [lookup EXCEPT ![x] = next] /\ row' = row /\ memory' = memory
        BY <1>3, <1>1 DEF GetCached, NamesInv, TypeOK
    <2> HIDE DEF next
    <2> QED
        BY <2>2, <2>3, LookupMoves DEF NamesInv, TypeOK, FlagsAreTrue
<1>4. CASE WillDo(p, manner) /\ x \in Ingest
    <2>1. /\ memory' = [memory EXCEPT ![x][p] = row[p].name]
          /\ lookup' = [lookup EXCEPT ![x] = NoLookup] /\ row' = row
        BY <1>4 DEF GetCached
    <2>2. memory' \in [Ingest -> [Person -> Name \cup {NoRow}]]
        BY <1>1, <1>2, <1>4, <2>1 DEF WillDo, NamesInv, TypeOK
    <2> QED
        BY <2>1, <2>2, LookupEnds
<1>5. CASE WillDo(p, manner) /\ x \notin Ingest
    <2> DEFINE next == [lookup[x] EXCEPT !.pc = "done", !.name = row[p].name]
    <2>1. row[p] # NoRow /\ (row[p].name # "" \/ p \in Blank)
        BY <1>1, <1>5 DEF WillDo, NamesInv, FlagsAreTrue
    <2>2. Proper(x, next)
        BY <1>1, <1>2, <2>1 DEF Proper, Lookup
    <2>3. lookup' = [lookup EXCEPT ![x] = next] /\ row' = row /\ memory' = memory
        BY <1>1, <1>5 DEF GetCached, NamesInv, TypeOK
    <2> HIDE DEF next
    <2> QED
        BY <2>2, <2>3, LookupMoves DEF NamesInv, TypeOK, FlagsAreTrue
<1> QED
    BY <1>3, <1>4, <1>5

LEMMA AskStep ==
    ASSUME NamesInv, NEW x \in Ingest \cup Reader, AskSlack(x)
    PROVE  NamesInv'
<1> DEFINE p == lookup[x].person
           manner == lookup[x].manner
<1>1. /\ lookup[x] \in Lookup /\ p \in Person
      /\ manner = "_resolve_user_name" <=> x \in Ingest
    BY DEF AskSlack, NamesInv, TypeOK, LookupsAreProper
<1>2. PICK name : name = ProfileName(p, manner)
    OBVIOUS
<1>3. name \in Name /\ (name = "" => p \in Blank)
    BY <1>2 DEF ProfileName
<1>4. PICK pc \in {"put", "done"} :
          /\ lookup' = [lookup EXCEPT ![x].pc = pc, ![x].name = name]
          /\ pc = "done" => ~Keeps(manner, name)
    BY <1>2 DEF AskSlack
<1> DEFINE next == [lookup[x] EXCEPT !.pc = pc, !.name = name]
<1>5. Proper(x, next)
    BY <1>1, <1>3 DEF Proper, Lookup
<1>6. lookup' = [lookup EXCEPT ![x] = next] /\ row' = row /\ memory' = memory
    BY <1>1, <1>4 DEF AskSlack, NamesInv, TypeOK
<1> HIDE DEF next
<1> QED
    BY <1>5, <1>6, LookupMoves DEF NamesInv, TypeOK, FlagsAreTrue

LEMMA AskFailsStep ==
    ASSUME NamesInv, NEW x \in Ingest \cup Reader, AskSlackFails(x)
    PROVE  NamesInv'
<1>1. /\ lookup[x] \in Lookup /\ lookup[x].person \in Person
      /\ lookup[x].manner = "_resolve_user_name" <=> x \in Ingest
    BY DEF AskSlackFails, NamesInv, TypeOK, LookupsAreProper
<1>2. row' = row /\ memory' = memory /\ memory' \in [Ingest -> [Person -> Name \cup {NoRow}]]
    BY DEF AskSlackFails, NamesInv, TypeOK
<1>3. CASE x \in Ingest /\ lookup' = [lookup EXCEPT ![x].pc = "put", ![x].name = ""]
    <2> DEFINE next == [lookup[x] EXCEPT !.pc = "put", !.name = ""]
    <2>1. Proper(x, next)
        BY <1>1, <1>3, NameAssumption DEF Proper, Lookup
    <2>2. lookup' = [lookup EXCEPT ![x] = next]
        BY <1>3 DEF NamesInv, TypeOK
    <2> HIDE DEF next
    <2> QED
        BY <1>2, <2>1, <2>2, LookupMoves DEF NamesInv, TypeOK, FlagsAreTrue
<1>4. CASE lookup' = [lookup EXCEPT ![x] = NoLookup]
    BY <1>2, <1>4, LookupEnds
<1>5. CASE x \in Reader /\ lookup' = [lookup EXCEPT ![x].pc = "done", ![x].failed = TRUE]
    <2> DEFINE next == [lookup[x] EXCEPT !.pc = "done", !.failed = TRUE]
    <2>1. Proper(x, next)
        BY <1>1 DEF Proper, Lookup
    <2>2. lookup' = [lookup EXCEPT ![x] = next]
        BY <1>5 DEF NamesInv, TypeOK
    <2> HIDE DEF next
    <2> QED
        BY <1>2, <2>1, <2>2, LookupMoves DEF NamesInv, TypeOK, FlagsAreTrue
<1> QED
    BY <1>3, <1>4, <1>5 DEF AskSlackFails

(* Whoever writes, the flag is the person's or none: ingest writes none, a  *)
(* tool the one that came with the name.                                    *)
LEMMA PutStep ==
    ASSUME NamesInv, NEW x \in Ingest \cup Reader, PutCached(x)
    PROVE  NamesInv'
<1> DEFINE p == lookup[x].person
<1>1. /\ lookup[x] \in Lookup /\ p \in Person /\ lookup[x].name \in Name
      /\ lookup[x].manner = "_resolve_user_name" <=> x \in Ingest
    BY DEF PutCached, NamesInv, TypeOK, LookupsAreProper, Lookup
<1>2. CacheUser(x, p) \in Row
    BY <1>1 DEF CacheUser, Row, TrueFlag
<1>3. row' = [row EXCEPT ![p] = CacheUser(x, p)]
    BY DEF PutCached
<1>4. row' \in [Person -> Row \cup {NoRow}]
    BY <1>1, <1>2, <1>3 DEF NamesInv, TypeOK
<1>5. CacheUser(x, p).flag # "none" =>
          CacheUser(x, p).flag = TrueFlag(p) /\ (CacheUser(x, p).name # "" \/ p \in Blank)
    BY <1>1 DEF CacheUser, PutCached, NamesInv, PutIsNamed
<1>6. FlagsAreTrue'
    BY <1>1, <1>3, <1>5 DEF NamesInv, TypeOK, FlagsAreTrue, TrueFlag
<1>7. CASE x \in Ingest
    <2>1. /\ memory' = [memory EXCEPT ![x][p] = lookup[x].name]
          /\ lookup' = [lookup EXCEPT ![x] = NoLookup]
        BY <1>7 DEF PutCached
    <2>2. memory' \in [Ingest -> [Person -> Name \cup {NoRow}]]
        BY <1>1, <1>7, <2>1 DEF NamesInv, TypeOK
    <2> QED
        BY <1>4, <1>6, <2>1, <2>2, LookupMoves, IdleIsProper
<1>8. CASE x \notin Ingest
    <2> DEFINE next == [lookup[x] EXCEPT !.pc = "done"]
    <2>1. Proper(x, next)
        BY <1>1, <1>8 DEF Proper, Lookup, PutCached, NamesInv, PutIsNamed
    <2>2. lookup' = [lookup EXCEPT ![x] = next] /\ memory' = memory
        BY <1>8 DEF PutCached, NamesInv, TypeOK
    <2>3. memory' \in [Ingest -> [Person -> Name \cup {NoRow}]]
        BY <2>2 DEF NamesInv, TypeOK
    <2> HIDE DEF next
    <2> QED
        BY <1>4, <1>6, <2>1, <2>2, <2>3, LookupMoves
<1> QED
    BY <1>7, <1>8

(* Rows run out and containers are replaced, with the look-ups as they are. *)
LEMMA ForgetStep ==
    ASSUME NamesInv, lookup' = lookup, row' \in [Person -> Row \cup {NoRow}],
           \A p \in Person : row'[p] \in {row[p], NoRow},
           memory' \in [Ingest -> [Person -> Name \cup {NoRow}]]
    PROVE  NamesInv'
<1>1. TypeOK' /\ FlagsAreTrue'
    BY DEF NamesInv, TypeOK, FlagsAreTrue, TrueFlag
<1>2. NamelessForCause' /\ PutIsNamed' /\ LookupsAreProper'
    BY DEF NamesInv, NamelessForCause, PutIsNamed, LookupsAreProper
<1> QED
    BY <1>1, <1>2 DEF NamesInv

LEMMA InvStep == NamesInv /\ [Next]_vars => NamesInv'
<1> SUFFICES ASSUME NamesInv, [Next]_vars PROVE NamesInv'
    OBVIOUS
<1>1. ASSUME NEW x \in Reader, NEW p \in Person,
             NEW manner \in Manner \ {"_resolve_user_name"}, StartLookup(x, p, manner)
      PROVE  NamesInv'
    BY <1>1, NameAssumption, StartStep
<1>2. ASSUME NEW x \in Ingest \cup Reader, LookupStep(x) PROVE NamesInv'
    BY <1>2, GetStep, AskStep, AskFailsStep, PutStep DEF LookupStep
<1>3. ASSUME NEW x \in Ingest \cup Reader, Abandon(x) PROVE NamesInv'
    BY <1>3, LookupEnds DEF Abandon, NamesInv, TypeOK
<1>4. ASSUME NEW x \in Reader, TakeName(x) PROVE NamesInv'
    BY <1>4, LookupEnds DEF TakeName, NamesInv, TypeOK
<1>5. ASSUME NEW i \in Ingest, ReplaceIngest(i) PROVE NamesInv'
    <2>1. memory' \in [Ingest -> [Person -> Name \cup {NoRow}]]
        BY <1>5 DEF ReplaceIngest, NamesInv, TypeOK
    <2> QED
        BY <1>5, <2>1, ForgetStep DEF ReplaceIngest, NamesInv, TypeOK
<1>6. ASSUME NEW i \in Ingest, NEW p \in Person, ResolveUserName(i, p) PROVE NamesInv'
    BY <1>6, StartStep DEF ResolveUserName
<1>7. ASSUME NEW p \in Person, ExpireName(p) PROVE NamesInv'
    <2>1. row' \in [Person -> Row \cup {NoRow}] /\ \A q \in Person : row'[q] \in {row[q], NoRow}
        BY <1>7 DEF ExpireName, NamesInv, TypeOK
    <2> QED
        BY <1>7, <2>1, ForgetStep DEF ExpireName, NamesInv, TypeOK
<1>8. CASE UNCHANGED vars
    BY <1>8, ForgetStep DEF vars, NamesInv, TypeOK
<1> QED
    BY <1>1, <1>2, <1>3, <1>4, <1>5, <1>6, <1>7, <1>8 DEF Next

LEMMA InvAlways == Spec => []NamesInv
BY InvInit, InvStep, PTL DEF Spec

(* The variables keep to their kinds of values.                             *)
THEOREM TypeCorrect == Spec => []TypeOK
<1>1. NamesInv => TypeOK
    BY DEF NamesInv
<1> QED
    BY <1>1, InvAlways, PTL

(* A tool (list_members, list_dms, the pull) answers with an empty name     *)
(* only when users.info failed it, or has no name to give, whatever ingest  *)
(* has cached.                                                              *)
THEOREM NamelessOnlyForCause == Spec => []NamelessForCause
<1>1. NamesInv => NamelessForCause
    BY DEF NamesInv
<1> QED
    BY <1>1, InvAlways, PTL

(* An is_bot flag in the cache is always the person's.                      *)
THEOREM FlagsStayTrue == Spec => []FlagsAreTrue
<1>1. NamesInv => FlagsAreTrue
    BY DEF NamesInv
<1> QED
    BY <1>1, InvAlways, PTL
================================================================================
