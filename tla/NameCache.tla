------------------------------- MODULE NameCache -------------------------------
(***************************************************************************)
(* The names of people: the USER# rows, which ingest and three of the      *)
(* server's look-ups (list_members, list_dms, the group-DM pull) fill from *)
(* users.info, each with its own idea of when a row will do, and the       *)
(* memory of each ingest container.  A look-up is get_item, users.info and *)
(* put_item, with the others in between, and may die on the way.           *)
(***************************************************************************)
CONSTANTS
    Person, Bot,  \* those of them that are bots
    Titled,       \* those that have set a display name
    Blank,        \* those of whom Slack has no name at all
    Ingest,       \* ingest containers
    Reader,       \* tool calls, each with one look-up at a time
    NoRow, NoPerson

Name == {"", "real", "display"}
Flag == {"none", "bot", "person"}
Row == [name : Name, flag : Flag]

ASSUME NameAssumption ==
    /\ {Bot, Titled, Blank} \subseteq SUBSET Person
    /\ Ingest \cap Reader = {}
    /\ NoPerson \notin Person
    /\ NoRow \notin Row \cup Name

VARIABLES
    row,      \* USER# rows: a name and the is_bot flag, "none" if absent
    memory,   \* _USER_NAMES of each ingest container
    lookup    \* what each look-up has got to

vars == <<row, memory, lookup>>

Manner == {"_resolve_user_name", "_describe", "_user_name", "_resolve_name"}

Lookup == [pc : {"idle", "get", "ask", "put", "done"}, person : Person \cup {NoPerson},
           manner : Manner, name : Name, failed : BOOLEAN]
NoLookup == [pc |-> "idle", person |-> NoPerson, manner |-> "_describe",
             name |-> "", failed |-> FALSE]

TypeOK ==
    /\ row \in [Person -> Row \cup {NoRow}]
    /\ memory \in [Ingest -> [Person -> Name \cup {NoRow}]]
    /\ lookup \in [Ingest \cup Reader -> Lookup]

Init ==
    /\ row = [p \in Person |-> NoRow]
    /\ memory = [i \in Ingest |-> [p \in Person |-> NoRow]]
    /\ lookup = [x \in Ingest \cup Reader |-> NoLookup]
--------------------------------------------------------------------------------
(* The name a look-up takes from users.info: ingest and list_members       *)
(* prefer the display name, list_dms and the group-DM pull the real one.   *)
ProfileName(p, manner) ==
    IF p \in Blank THEN ""
    ELSE IF manner \in {"_resolve_user_name", "_describe"} /\ p \in Titled THEN "display"
    ELSE "real"

TrueFlag(p) == IF p \in Bot THEN "bot" ELSE "person"

(* Seeded defect: any row will do.                                         *)
WillDo_AnyRow(p, manner) == row[p] # NoRow

(* The row will do: for ingest, if there is one; for list_members, if it   *)
(* says whether the person is a bot; for the others, if it has a name.     *)
WillDo(p, manner) ==
    /\ row[p] # NoRow
    /\ manner = "_describe" => row[p].flag # "none"
    /\ manner \in {"_user_name", "_resolve_name"} => row[p].name # ""

StartLookup(x, p, manner) ==
    /\ lookup[x].pc = "idle"
    /\ lookup' = [lookup EXCEPT ![x] = [NoLookup EXCEPT !.pc = "get", !.person = p,
                                                       !.manner = manner]]
    /\ UNCHANGED <<row, memory>>

(* Ingest stamps a message: a name in memory needs no look-up.             *)
ResolveUserName(i, p) ==
    /\ memory[i][p] = NoRow
    /\ StartLookup(i, p, "_resolve_user_name")

CachedName(p) == IF row[p] = NoRow THEN "" ELSE row[p].name

(* get_cached_user, or ingest's own get_item.                              *)
GetCached(x) ==
    LET p == lookup[x].person
        manner == lookup[x].manner IN
    /\ lookup[x].pc = "get"
    /\ IF ~WillDo(p, manner)
       THEN /\ lookup' = [lookup EXCEPT ![x].pc = "ask", ![x].name = CachedName(p)]
            /\ UNCHANGED memory
       ELSE IF x \in Ingest
       THEN /\ memory' = [memory EXCEPT ![x][p] = row[p].name]
            /\ lookup' = [lookup EXCEPT ![x] = NoLookup]
       ELSE /\ lookup' = [lookup EXCEPT ![x].pc = "done", ![x].name = row[p].name]
            /\ UNCHANGED memory
    /\ UNCHANGED row

(* Ingest and list_members cache a name even if it is empty.               *)
Keeps(manner, name) == name # "" \/ manner \in {"_resolve_user_name", "_describe"}

(* users.info answers.                                                     *)
AskSlack(x) ==
    LET name == ProfileName(lookup[x].person, lookup[x].manner) IN
    /\ lookup[x].pc = "ask"
    /\ lookup' = [lookup EXCEPT ![x].pc = IF Keeps(lookup[x].manner, name) THEN "put" ELSE "done",
                                ![x].name = name]
    /\ UNCHANGED <<row, memory>>

(* users.info fails.  Ingest takes an answer that is not ok for the empty  *)
(* name, and keeps it, but no exception; the tools do with the name of the *)
(* row they have, and keep nothing.                                        *)
AskSlackFails(x) ==
    /\ lookup[x].pc = "ask"
    /\ \/ x \in Ingest /\ lookup' = [lookup EXCEPT ![x].pc = "put", ![x].name = ""]
       \/ x \in Ingest /\ lookup' = [lookup EXCEPT ![x] = NoLookup]
       \/ x \in Reader /\ lookup' = [lookup EXCEPT ![x].pc = "done", ![x].failed = TRUE]
    /\ UNCHANGED <<row, memory>>

(* Seeded defect: ingest writes the flag too, as the default it has.       *)
CacheUser_DefaultFlag(x, p) == [name |-> lookup[x].name,
                                flag |-> IF x \in Ingest THEN "person" ELSE TrueFlag(p)]

(* cache_user writes name and flag, ingest the name alone.                 *)
CacheUser(x, p) == [name |-> lookup[x].name,
                    flag |-> IF x \in Ingest THEN "none" ELSE TrueFlag(p)]

PutCached(x) ==
    LET p == lookup[x].person IN
    /\ lookup[x].pc = "put"
    /\ row' = [row EXCEPT ![p] = CacheUser(x, p)]
    /\ IF x \in Ingest
       THEN /\ memory' = [memory EXCEPT ![x][p] = lookup[x].name]
            /\ lookup' = [lookup EXCEPT ![x] = NoLookup]
       ELSE /\ lookup' = [lookup EXCEPT ![x].pc = "done"]
            /\ UNCHANGED memory

LookupStep(x) == GetCached(x) \/ AskSlack(x) \/ AskSlackFails(x) \/ PutCached(x)

(* The name is part of the tool's answer.                                  *)
TakeName(x) ==
    /\ lookup[x].pc = "done"
    /\ lookup' = [lookup EXCEPT ![x] = NoLookup]
    /\ UNCHANGED <<row, memory>>

(* The row's day is over.                                                  *)
ExpireName(p) ==
    /\ row[p] # NoRow
    /\ row' = [row EXCEPT ![p] = NoRow]
    /\ UNCHANGED <<memory, lookup>>

(* A container dies, or a call fails as a whole, wherever its look-up is.  *)
Abandon(x) ==
    /\ lookup[x].pc # "idle"
    /\ lookup' = [lookup EXCEPT ![x] = NoLookup]
    /\ UNCHANGED <<row, memory>>

ReplaceIngest(i) ==
    /\ lookup[i].pc = "idle"
    /\ memory' = [memory EXCEPT ![i] = [p \in Person |-> NoRow]]
    /\ UNCHANGED <<row, lookup>>

Next ==
    \/ \E x \in Reader, p \in Person, manner \in Manner \ {"_resolve_user_name"} :
          StartLookup(x, p, manner)
    \/ \E x \in Ingest \cup Reader : LookupStep(x) \/ Abandon(x)
    \/ \E x \in Reader : TakeName(x)
    \/ \E i \in Ingest : ReplaceIngest(i) \/ \E p \in Person : ResolveUserName(i, p)
    \/ \E p \in Person : ExpireName(p)

Spec == Init /\ [][Next]_vars
--------------------------------------------------------------------------------
(* A tool names a person whenever Slack does: an empty name that ingest    *)
(* has cached because users.info failed it, for a day and in whatever      *)
(* order the writes came, is never taken for an answer.                    *)
NamelessForCause ==
    \A x \in Reader : lookup[x].pc = "done" /\ lookup[x].name = "" =>
        lookup[x].failed \/ lookup[x].person \in Blank

(* "Items written by ingest carry no is_bot, so readers that need it       *)
(* refetch once and enrich the row" (cache_user): a flag in a row is the   *)
(* person's, whoever wrote the row last, and list_members never takes a    *)
(* bot for a person because of it.                                         *)
FlagsAreTrue ==
    \A p \in Person : row[p] # NoRow /\ row[p].flag # "none" =>
        row[p].flag = TrueFlag(p) /\ (row[p].name # "" \/ p \in Blank)

(* What a tool's look-up is about to write has a name, if there is one ... *)
PutIsNamed ==
    \A x \in Reader : lookup[x].pc = "put" =>
        lookup[x].name # "" \/ lookup[x].person \in Blank

(* ... and each look-up is of somebody, in its own manner.                 *)
LookupsAreProper ==
    \A x \in Ingest \cup Reader : lookup[x].pc # "idle" =>
        /\ lookup[x].person \in Person
        /\ lookup[x].manner = "_resolve_user_name" <=> x \in Ingest

(* The inductive invariant the proofs rest on.                             *)
NamesInv == TypeOK /\ NamelessForCause /\ FlagsAreTrue /\ PutIsNamed /\ LookupsAreProper
================================================================================
