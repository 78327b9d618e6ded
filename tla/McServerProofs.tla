----------------------------- MODULE McServerProofs -----------------------------
(* Whom the server takes a request for, and what its tools find, for every    *)
(* number of agents, containers and requests, whatever secrets cannot be read *)
(* and whenever they are rotated, and that a search surfaces exact names.     *)
EXTENDS McServer, FiniteSetTheorems, TLAPS

--------------------------------------------------------------------------------
(* The middleware's state on its own.                                       *)

LEMMA AgentOfType == \A o \in Owner : AgentOf(o) \in Agent
BY AuthAssumption DEF Owner, AgentOf

LEMMA AuthStart == AuthInit => AuthInv
<1> SUFFICES ASSUME AuthInit PROVE AuthInv
    OBVIOUS
<1>1. \A o \in Owner : issued[secret[o]] = o
    BY DEF AuthInit
<1>2. issued \in [Token -> Owner \cup {NoOne}]
    BY DEF AuthInit
<1>3. /\ secret \in [Owner -> Token]
      /\ known = [c \in Container |-> NoMap]
      /\ unread = [c \in Container |-> {}] /\ stale = [c \in Container |-> {}]
      /\ context = [k \in Call |-> NoContext]
    BY DEF AuthInit
<1>8. AuthTypeOK
    BY <1>2, <1>3 DEF AuthTypeOK
<1>4. \A c \in Container : known[c] = NoMap
    BY DEF AuthInit
<1>5. \A k \in Call : context[k] = NoContext
    BY DEF AuthInit
<1>6. SecretsAreOwn /\ MapsAreHonest /\ AdmissionLags
    BY <1>1, <1>4 DEF SecretsAreOwn, MapsAreHonest, AdmissionLags
<1>7. ServedAsOwner
    BY <1>5 DEF ServedAsOwner
<1> QED
    BY <1>6, <1>7, <1>8 DEF AuthInv

(* A map read from the secrets admits the tokens in force, except those of  *)
(* agents whose secret could not be read, and no other.                     *)
LEMMA MappingIsHonest ==
    ASSUME AuthInv, NEW failed \in SUBSET Agent
    PROVE  /\ Mapping(failed) \subseteq Token \X Agent
           /\ \A e \in Mapping(failed) : /\ issued[e[1]] # NoOne
                                         /\ e[2] = AgentOf(issued[e[1]])
                                         /\ InForce(e[1])
           /\ \A t \in Token : InForce(t) /\ (\A a \in Agent : <<t, a>> \notin Mapping(failed))
                                  => issued[t] \in failed
<1>1. /\ Legacy \in Owner /\ Agent \subseteq Owner
      /\ \A o \in Owner : secret[o] \in Token /\ issued[secret[o]] = o /\ o # NoOne
    BY AuthAssumption DEF AuthInv, AuthTypeOK, SecretsAreOwn, Owner
<1>2. \A o \in Owner : InForce(secret[o])
    BY DEF InForce
<1>3. \A e \in Mapping(failed) : \E o \in Owner : e = <<secret[o], AgentOf(o)>>
    BY <1>1, AuthAssumption DEF Mapping, AgentOf
<1>4. ASSUME NEW t \in Token, InForce(t), \A a \in Agent : <<t, a>> \notin Mapping(failed)
      PROVE  issued[t] \in failed
    <2>1. PICK o \in Owner : secret[o] = t
        BY <1>4 DEF InForce
    <2>2. <<secret[Legacy], DefaultAgent>> \in Mapping(failed)
        BY DEF Mapping
    <2>3. o # Legacy
        BY <1>4, <2>1, <2>2, AuthAssumption
    <2>4. o \in Agent /\ o \in failed
        BY <1>4, <2>1, <2>3 DEF Owner, Mapping
    <2> QED
        BY <1>1, <2>1, <2>4
<1> QED
    BY <1>1, <1>2, <1>3, <1>4, AgentOfType

LEMMA LoadStep ==
    ASSUME AuthInv, NEW c \in Container, NEW failed \in SUBSET Agent, Load(c, failed)
    PROVE  AuthInv'
<1> DEFINE M == Mapping(failed)
<1>1. /\ M \subseteq Token \X Agent
      /\ \A e \in M : /\ issued[e[1]] # NoOne
                      /\ e[2] = AgentOf(issued[e[1]])
                      /\ InForce(e[1])
      /\ \A t \in Token : InForce(t) /\ (\A a \in Agent : <<t, a>> \notin M)
                             => issued[t] \in failed
    BY MappingIsHonest
<1>2. /\ known' = [known EXCEPT ![c] = M]
      /\ unread' = [unread EXCEPT ![c] = failed]
      /\ secret' = secret /\ issued' = issued /\ stale' = stale /\ context' = context
    BY DEF Load
<1> HIDE DEF M
<1>3. AuthTypeOK'
    BY <1>1, <1>2 DEF AuthInv, AuthTypeOK
<1>4. \A d \in Container : known'[d] = (IF d = c THEN M ELSE known[d])
                           /\ unread'[d] = (IF d = c THEN failed ELSE unread[d])
    BY <1>2 DEF AuthInv, AuthTypeOK
<1>5. SecretsAreOwn' /\ ServedAsOwner'
    BY <1>2 DEF AuthInv, SecretsAreOwn, ServedAsOwner, AgentOf
<1>6. MapsAreHonest'
    BY <1>1, <1>2, <1>4 DEF AuthInv, MapsAreHonest, AgentOf
<1>7. AdmissionLags'
    <2> SUFFICES ASSUME NEW d \in Container, NEW t \in Token, known'[d] # NoMap
                 PROVE  /\ Matches(d, t)' # {} /\ ~InForce(t)' => issued'[t] \in stale'[d]
                        /\ Matches(d, t)' = {} /\ InForce(t)' =>
                             issued'[t] \in stale'[d] \cup unread'[d]
        BY DEF AdmissionLags
    <2>1. InForce(t)' = InForce(t)
        BY <1>2 DEF InForce
    <2>2. CASE d = c
        <3>1. known'[d] = M /\ unread'[d] = failed /\ issued' = issued
            BY <1>2, <1>4, <2>2
        <3>2. Matches(d, t)' = {a \in Agent : <<t, a>> \in M}
            BY <3>1 DEF Matches
        <3>3. ASSUME NEW a \in Agent, <<t, a>> \in M PROVE InForce(t)
            BY <1>1, <3>3
        <3> QED
            BY <1>1, <2>1, <3>1, <3>2, <3>3
    <2>3. CASE d # c
        <3>1. Matches(d, t)' = Matches(d, t)
            BY <1>4, <2>3 DEF Matches
        <3>2. known[d] # NoMap /\ unread'[d] = unread[d]
            BY <1>4, <2>3
        <3>3. /\ Matches(d, t) # {} /\ ~InForce(t) => issued[t] \in stale[d]
              /\ Matches(d, t) = {} /\ InForce(t) => issued[t] \in stale[d] \cup unread[d]
            BY <3>2 DEF AuthInv, AdmissionLags
        <3> QED
            BY <1>2, <2>1, <3>1, <3>2, <3>3
    <2> QED
        BY <2>2, <2>3
<1> QED
    BY <1>3, <1>5, <1>6, <1>7 DEF AuthInv

(* Requests come and go without touching secrets or maps.                   *)
LEMMA ContextStep ==
    ASSUME AuthInv, secret' = secret, issued' = issued, known' = known,
           unread' = unread, stale' = stale,
           context' \in [Call -> [container : Container, token : Token, agent : Agent]
                                 \cup {NoContext}],
           ServedAsOwner'
    PROVE  AuthInv'
<1>1. AuthTypeOK'
    BY DEF AuthInv, AuthTypeOK
<1>2. SecretsAreOwn' /\ MapsAreHonest'
    BY DEF AuthInv, SecretsAreOwn, MapsAreHonest, AgentOf
<1>3. AdmissionLags'
    BY DEF AuthInv, AdmissionLags, InForce, Matches
<1> QED
    BY <1>1, <1>2, <1>3 DEF AuthInv

(* A token is matched only with its owner's agent.                          *)
LEMMA AdmitStep ==
    ASSUME AuthInv, NEW k \in Call, NEW c \in Container, NEW t \in Token, Admit(k, c, t)
    PROVE  AuthInv'
<1>1. PICK a \in Matches(c, t) :
          context' = [context EXCEPT ![k] = [container |-> c, token |-> t, agent |-> a]]
    BY DEF Admit
<1>2. a \in Agent /\ <<t, a>> \in known[c] /\ known[c] # NoMap
    BY DEF Matches, Admit
<1>3. issued[t] # NoOne /\ a = AgentOf(issued[t])
    BY <1>2 DEF AuthInv, MapsAreHonest
<1>4. context' \in [Call -> [container : Container, token : Token, agent : Agent]
                            \cup {NoContext}]
    BY <1>1, <1>2 DEF AuthInv, AuthTypeOK
<1>5. ServedAsOwner'
    BY <1>1, <1>3, <1>4 DEF AuthInv, AuthTypeOK, ServedAsOwner, Admit, AgentOf
<1> QED
    BY <1>4, <1>5, ContextStep DEF Admit

LEMMA LeaveStep ==
    ASSUME AuthInv, NEW k \in Call, Leave(k)
    PROVE  AuthInv'
<1>1. context' \in [Call -> [container : Container, token : Token, agent : Agent]
                            \cup {NoContext}]
    BY DEF Leave, AuthInv, AuthTypeOK
<1>2. ServedAsOwner'
    BY <1>1 DEF Leave, AuthInv, AuthTypeOK, ServedAsOwner, AgentOf
<1> QED
    BY <1>1, <1>2, ContextStep DEF Leave

(* The rotated token is stale in every warm container from that moment on,  *)
(* and so is its owner's new one.                                           *)
LEMMA RotateStep ==
    ASSUME AuthInv, NEW o \in Owner, NEW t \in Token, Rotate(o, t)
    PROVE  AuthInv'
<1>1. /\ issued[t] = NoOne
      /\ secret' = [secret EXCEPT ![o] = t] /\ issued' = [issued EXCEPT ![t] = o]
      /\ stale' = [c \in Container |-> IF known[c] = NoMap THEN {} ELSE stale[c] \cup {o}]
      /\ known' = known /\ unread' = unread /\ context' = context
    BY DEF Rotate
<1>2. AuthTypeOK'
    BY <1>1 DEF AuthInv, AuthTypeOK
<1>3. /\ \A u \in Token : issued'[u] = IF u = t THEN o ELSE issued[u]
      /\ \A p \in Owner : secret'[p] = (IF p = o THEN t ELSE secret[p]) /\ secret[p] \in Token
      /\ \A p \in Owner : p # NoOne
    BY <1>1, AuthAssumption DEF AuthInv, AuthTypeOK
<1>4. SecretsAreOwn'
    BY <1>1, <1>3 DEF AuthInv, SecretsAreOwn
<1>5. MapsAreHonest'
    <2> SUFFICES ASSUME NEW c \in Container, known[c] # NoMap, NEW e \in known[c]
                 PROVE  issued'[e[1]] # NoOne /\ e[2] = AgentOf(issued'[e[1]])
        BY <1>1 DEF MapsAreHonest, AgentOf
    <2>1. e[1] \in Token /\ issued[e[1]] # NoOne /\ e[2] = AgentOf(issued[e[1]])
        BY DEF AuthInv, AuthTypeOK, MapsAreHonest
    <2> QED
        BY <1>1, <1>3, <2>1
<1>6. ServedAsOwner'
    <2> SUFFICES ASSUME NEW k \in Call, context[k] # NoContext
                 PROVE  /\ issued'[context[k].token] # NoOne
                        /\ context[k].agent = AgentOf(issued'[context[k].token])
        BY <1>1 DEF ServedAsOwner, AgentOf, NoContext
    <2>1. /\ context[k].token \in Token /\ issued[context[k].token] # NoOne
          /\ context[k].agent = AgentOf(issued[context[k].token])
        BY DEF AuthInv, AuthTypeOK, ServedAsOwner
    <2> QED
        BY <1>1, <1>3, <2>1
<1>7. AdmissionLags'
    <2> SUFFICES ASSUME NEW c \in Container, NEW u \in Token, known[c] # NoMap
                 PROVE  /\ Matches(c, u) # {} /\ ~InForce(u)' => issued'[u] \in stale'[c]
                        /\ Matches(c, u) = {} /\ InForce(u)' =>
                             issued'[u] \in stale'[c] \cup unread'[c]
        BY <1>1 DEF AdmissionLags, Matches
    <2>1. stale'[c] = stale[c] \cup {o} /\ unread'[c] = unread[c]
        BY <1>1
    <2>2. InForce(t)'
        BY <1>3 DEF InForce
    <2>3. CASE u = t
        BY <1>3, <2>1, <2>2, <2>3
    <2>4. CASE u # t /\ u = secret[o]
        BY <1>3, <2>1, <2>4 DEF AuthInv, SecretsAreOwn
    <2>5. CASE u # t /\ u # secret[o]
        <3>1. InForce(u)' <=> InForce(u)
            BY <1>3, <2>5 DEF InForce
        <3> QED
            BY <1>3, <2>1, <2>5, <3>1 DEF AuthInv, AdmissionLags
    <2> QED
        BY <2>3, <2>4, <2>5
<1> QED
    BY <1>2, <1>4, <1>5, <1>6, <1>7 DEF AuthInv

LEMMA ReplaceStep ==
    ASSUME AuthInv, NEW c \in Container, Replace(c)
    PROVE  AuthInv'
<1>1. /\ known' = [known EXCEPT ![c] = NoMap] /\ unread' = [unread EXCEPT ![c] = {}]
      /\ stale' = [stale EXCEPT ![c] = {}]
      /\ secret' = secret /\ issued' = issued /\ context' = context
    BY DEF Replace
<1>2. AuthTypeOK'
    BY <1>1 DEF AuthInv, AuthTypeOK
<1>3. \A d \in Container : known'[d] # NoMap =>
          known'[d] = known[d] /\ unread'[d] = unread[d] /\ stale'[d] = stale[d]
    BY <1>1 DEF AuthInv, AuthTypeOK
<1>4. SecretsAreOwn' /\ ServedAsOwner'
    BY <1>1 DEF AuthInv, SecretsAreOwn, ServedAsOwner, AgentOf
<1>5. MapsAreHonest'
    BY <1>1, <1>3 DEF AuthInv, MapsAreHonest, AgentOf
<1>6. AdmissionLags'
    BY <1>1, <1>3 DEF AuthInv, AdmissionLags, InForce, Matches
<1> QED
    BY <1>2, <1>4, <1>5, <1>6 DEF AuthInv

LEMMA AuthStays == AuthInv /\ UNCHANGED auth => AuthInv'
BY ContextStep DEF auth, AuthInv, AuthTypeOK, ServedAsOwner, AgentOf
--------------------------------------------------------------------------------
(* The tools, under the identity of their request.                          *)

LEMMA NothingYet == /\ NoTask \in Task
                    /\ \A groups : \A a \in Agent : TaskOf(a, NoTask, groups)
BY DirectoryAssumption DEF NoTask, Task, TaskOf, Tool, PagesOf

LEMMA ServerStart == Init => ServerInv
<1> SUFFICES ASSUME Init PROVE ServerInv
    OBVIOUS
<1>1. AuthInv
    BY AuthStart DEF Init
<1>2. DirectoryTypeOK
    BY NothingYet DEF Init, DirectoryInit, DirectoryTypeOK
<1>3. OpenedIsRight
    BY DEF Init, DirectoryInit, OpenedIsRight
<1>4. TasksAreOwn
    BY DEF Init, AuthInit, DirectoryInit, TasksAreOwn
<1> QED
    BY <1>1, <1>2, <1>3, <1>4 DEF ServerInv

(* A step of one task that keeps to its agent keeps the invariant, for no   *)
(* group DM that is known is ever forgotten.                                *)
LEMMA TaskMoves ==
    ASSUME ServerInv, NEW k \in Call, context[k] # NoContext, UNCHANGED auth,
           NEW next \in Task, task' = [task EXCEPT ![k] = next],
           TaskOf(context[k].agent, next, KnownGroups'),
           KnownGroups \subseteq KnownGroups',
           registered' \in SUBSET Group, untyped' \in SUBSET Group,
           dms' \in SUBSET Dms, OpenedIsRight',
           opened' \in [Container -> SUBSET (Agent \X Person \X Dms)]
    PROVE  ServerInv'
<1>1. AuthInv' /\ context' = context
    BY AuthStays DEF ServerInv, auth
<1>2. task' \in [Call -> Task] /\ \A j \in Call : task'[j] = IF j = k THEN next ELSE task[j]
    BY DEF ServerInv, DirectoryTypeOK
<1>3. DirectoryTypeOK'
    BY <1>2 DEF DirectoryTypeOK
<1>4. ASSUME NEW j \in Call, context[j] # NoContext
      PROVE  TaskOf(context[j].agent, task'[j], KnownGroups')
    <2>1. TaskOf(context[j].agent, task[j], KnownGroups)
        BY <1>4 DEF ServerInv, TasksAreOwn
    <2> QED
        BY <1>2, <2>1 DEF TaskOf
<1>5. ASSUME NEW j \in Call, context[j] = NoContext PROVE task'[j] = NoTask
    BY <1>2, <1>5 DEF ServerInv, TasksAreOwn
<1>6. TasksAreOwn'
    BY <1>1, <1>4, <1>5 DEF TasksAreOwn
<1> QED
    BY <1>1, <1>3, <1>6 DEF ServerInv

(* An answer of conversations the agent may name, the group DMs among them  *)
(* registered, is such a step; so is a refusal.                             *)
LEMMA AnswerFits ==
    ASSUME ServerInv, NEW k \in Call, context[k] # NoContext, UNCHANGED auth,
           NEW found \in SUBSET Conversation,
           \A conv \in found : MayName(context[k].agent, conv),
           found \cap Group \subseteq KnownGroups,
           task' = Answered(k, found), registered' = registered, untyped' = untyped,
           dms' \in SUBSET Dms, OpenedIsRight',
           opened' \in [Container -> SUBSET (Agent \X Person \X Dms)]
    PROVE  ServerInv'
<1> DEFINE next == [NoTask EXCEPT !.pc = "done", !.tool = task[k].tool,
                                  !.about = task[k].about, !.page = task[k].page,
                                  !.found = found, !.ok = TRUE]
<1>1. task[k] \in Task /\ TaskOf(context[k].agent, task[k], KnownGroups)
    BY DEF ServerInv, DirectoryTypeOK, TasksAreOwn
<1>2. next \in Task
    BY <1>1, NothingYet DEF Task, NoTask
<1>3. TaskOf(context[k].agent, next, KnownGroups)
    BY <1>1 DEF TaskOf, NoTask
<1>4. /\ task' = [task EXCEPT ![k] = next] /\ KnownGroups' = KnownGroups
      /\ registered \in SUBSET Group /\ untyped \in SUBSET Group
    BY DEF Answered, ServerInv, DirectoryTypeOK, KnownGroups
<1> HIDE DEF next
<1> QED
    BY <1>2, <1>3, <1>4, TaskMoves

LEMMA RefusalFits ==
    ASSUME ServerInv, NEW k \in Call, context[k] # NoContext, UNCHANGED auth,
           task' = Refused(k), UNCHANGED <<dms, registered, untyped, opened>>
    PROVE  ServerInv'
<1> DEFINE next == [NoTask EXCEPT !.pc = "done"]
<1>1. context[k].agent \in Agent
    BY DEF ServerInv, AuthInv, AuthTypeOK
<1>2. next \in Task
    BY NothingYet DEF Task, NoTask
<1>3. TaskOf(context[k].agent, next, KnownGroups)
    BY <1>1, NothingYet DEF TaskOf, NoTask
<1>4. task' = [task EXCEPT ![k] = next] /\ OpenedIsRight'
    BY DEF Refused, ServerInv, OpenedIsRight
<1> HIDE DEF next
<1> QED
    BY <1>2, <1>3, <1>4, TaskMoves DEF ServerInv, DirectoryTypeOK, KnownGroups
--------------------------------------------------------------------------------
(* What a request's tool step begins with.                                  *)
Running(k) ==
    /\ ServerInv
    /\ context[k] # NoContext
    /\ UNCHANGED auth

LEMMA RunningTask ==
    ASSUME NEW k \in Call, Running(k)
    PROVE  /\ context[k].agent \in Agent
           /\ task[k] \in Task
           /\ TaskOf(context[k].agent, task[k], KnownGroups)
BY DEF Running, ServerInv, AuthInv, AuthTypeOK, DirectoryTypeOK, TasksAreOwn

(* What a step leaves alone stays as it has to be.                          *)
LEMMA CachesStay ==
    ASSUME ServerInv, UNCHANGED <<dms, opened>>
    PROVE  /\ dms' \in SUBSET Dms /\ OpenedIsRight'
           /\ opened' \in [Container -> SUBSET (Agent \X Person \X Dms)]
BY DEF ServerInv, DirectoryTypeOK, OpenedIsRight

LEMMA PagesAre ==
    ASSUME NEW t \in Task, t.page <= Len(PagesOf(t.tool))
    PROVE  PagesOf(t.tool)[t.page] \subseteq IF t.tool = "find_user" THEN Person ELSE Channel
<1>1. t.page \in 1..Len(PagesOf(t.tool))
    BY DirectoryAssumption DEF Task, PagesOf
<1>2. CASE t.tool = "find_user"
    BY <1>1, <1>2, DirectoryAssumption DEF PagesOf
<1>3. CASE t.tool # "find_user"
    BY <1>1, <1>3, DirectoryAssumption DEF PagesOf
<1> QED
    BY <1>2, <1>3

LEMMA ListChannelsStep ==
    ASSUME NEW k \in Call, Running(k), ListChannels(k)
    PROVE  ServerInv'
<1>1. CASE task' = Answered(k, ChannelPages[1])
    <2>1. ChannelPages[1] \subseteq Channel
        BY DirectoryAssumption
    <2>2. ChannelPages[1] \in SUBSET Conversation /\ ChannelPages[1] \cap Group = {}
        BY <2>1, DirectoryAssumption DEF Conversation
    <2>3. \A conv \in ChannelPages[1] : MayName(context[k].agent, conv)
        BY <2>1 DEF MayName
    <2> QED
        BY <1>1, <2>2, <2>3, AnswerFits, CachesStay DEF ListChannels, Running
<1>2. CASE task' = Refused(k)
    BY <1>2, RefusalFits DEF ListChannels, Running
<1> QED
    BY <1>1, <1>2 DEF ListChannels

LEMMA IndexDmsStep ==
    ASSUME NEW k \in Call, Running(k), IndexDms(k, current_agent_id(k))
    PROVE  ServerInv'
<1> DEFINE a == context[k].agent
<1>1. PICK index \in {DmsOf(a), {}} :
          task' = [task EXCEPT ![k].pc = "page", ![k].index = index]
    BY DEF IndexDms, current_agent_id
<1> DEFINE next == [task[k] EXCEPT !.pc = "page", !.index = index]
<1>2. index \in SUBSET Dms /\ \A d \in index : d[1] = a
    BY DEF DmsOf, Running, ServerInv, DirectoryTypeOK
<1>3. next \in Task
    BY <1>2, RunningTask DEF Task
<1>4. TaskOf(a, next, KnownGroups)
    BY <1>2, RunningTask DEF TaskOf, Task
<1>5. task' = [task EXCEPT ![k] = next]
    BY <1>1 DEF Running, ServerInv, DirectoryTypeOK
<1> HIDE DEF next
<1> QED
    BY <1>3, <1>4, <1>5, TaskMoves, CachesStay DEF IndexDms, Running, ServerInv,
       DirectoryTypeOK, KnownGroups

LEMMA ReadPageStep ==
    ASSUME NEW k \in Call, Running(k), ReadPage(k)
    PROVE  ServerInv'
<1> DEFINE a == context[k].agent
           t == task[k]
           hits == t.hits \cup (PagesOf(t.tool)[t.page] \cap Matching[t.about])
<1>1. t \in Task /\ a \in Agent /\ TaskOf(a, t, KnownGroups)
    BY RunningTask
<1>2. PagesOf(t.tool)[t.page] \subseteq IF t.tool = "find_user" THEN Person ELSE Channel
    BY <1>1, PagesAre DEF TaskOf
<1>3. /\ hits \in SUBSET (Channel \cup Group \cup Person)
      /\ t.tool # "find_user" => /\ \A h \in hits : h \in Channel \cup GroupsOf(a)
                                 /\ hits \cap Group \subseteq KnownGroups
    <2>1. hits \in SUBSET (Channel \cup Group \cup Person)
        BY <1>1, <1>2 DEF Task
    <2>2. ASSUME t.tool # "find_user"
          PROVE  /\ \A h \in hits : h \in Channel \cup GroupsOf(a)
                 /\ hits \cap Group \subseteq KnownGroups
        <3>1. PagesOf(t.tool)[t.page] \subseteq Channel
            BY <1>2, <2>2
        <3>2. \A h \in t.hits : h \in Channel \cup GroupsOf(a)
            BY <1>1, <2>2 DEF TaskOf
        <3>3. t.hits \cap Group \subseteq KnownGroups
            BY <1>1, <2>2 DEF TaskOf
        <3>4. Channel \cap Group = {}
            BY DirectoryAssumption
        <3> QED
            BY <3>1, <3>2, <3>3, <3>4
    <2> QED
        BY <2>1, <2>2
<1>4. CASE task' = Refused(k)
    BY <1>4, RefusalFits DEF ReadPage, Running
<1>5. CASE t.page < Len(PagesOf(t.tool))
           /\ task' = [task EXCEPT ![k].page = t.page + 1, ![k].hits = hits]
    <2> DEFINE next == [t EXCEPT !.page = t.page + 1, !.hits = hits]
    <2> HIDE DEF hits
    <2>1. Len(PagesOf(t.tool)) \in Nat /\ t.page \in Nat \ {0}
        BY <1>1, DirectoryAssumption DEF PagesOf, Task
    <2>2. next \in Task
        <3>1. t.page + 1 \in Nat \ {0}
            BY <2>1
        <3> DEFINE n == t.page + 1
        <3> HIDE DEF n
        <3>2. n \in Nat \ {0}
            BY <3>1 DEF n
        <3>3. [t EXCEPT !.page = n, !.hits = hits] \in Task
            BY <1>1, <1>3, <3>2 DEF Task
        <3> QED
            BY <3>3 DEF n
    <2>3. /\ next.pc = "page" /\ next.page = t.page + 1 /\ next.tool = t.tool /\ next.hits = hits
          /\ next.index = t.index /\ next.todo = t.todo /\ next.found = t.found
        BY <1>1 DEF Task, ReadPage, At
    <2>4. TaskOf(a, next, KnownGroups)
        BY <1>1, <1>3, <1>5, <2>1, <2>3 DEF TaskOf
    <2>5. task' = [task EXCEPT ![k] = next]
        BY <1>5 DEF Running, ServerInv, DirectoryTypeOK
    <2> HIDE DEF next
    <2> QED
        BY <2>2, <2>4, <2>5, TaskMoves, CachesStay DEF ReadPage, Running, ServerInv,
           DirectoryTypeOK, KnownGroups
<1>6. CASE t.tool = "find_channel"
           /\ task' = [task EXCEPT ![k].pc = "groups", ![k].hits = hits]
    <2> DEFINE next == [t EXCEPT !.pc = "groups", !.hits = hits]
    <2> HIDE DEF hits
    <2>1. next \in Task
        BY <1>1, <1>3 DEF Task
    <2>2. /\ next.pc = "groups" /\ next.page = t.page /\ next.tool = t.tool /\ next.hits = hits
          /\ next.index = t.index /\ next.todo = t.todo /\ next.found = t.found
        BY <1>1 DEF Task
    <2>3. TaskOf(a, next, KnownGroups)
        BY <1>1, <1>3, <1>6, <2>2 DEF TaskOf
    <2>4. task' = [task EXCEPT ![k] = next]
        BY <1>6 DEF Running, ServerInv, DirectoryTypeOK
    <2> HIDE DEF next
    <2> QED
        BY <2>1, <2>3, <2>4, TaskMoves, CachesStay DEF ReadPage, Running, ServerInv,
           DirectoryTypeOK, KnownGroups
<1>7. CASE task' = Answered(k, {d \in t.index : d[2] \in hits})
    <2> DEFINE found == {d \in t.index : d[2] \in hits}
    <2>1. found \subseteq Dms /\ \A d \in found : d[1] = a
        BY <1>1 DEF Task, TaskOf
    <2>2. found \in SUBSET Conversation /\ found \cap Group = {}
        BY <2>1, DirectoryAssumption DEF Conversation
    <2>3. \A conv \in found : MayName(a, conv)
        BY <2>1 DEF MayName
    <2> HIDE DEF found
    <2>4. task' = Answered(k, found)
        BY <1>7 DEF found
    <2> QED
        BY <2>2, <2>3, <2>4, AnswerFits, CachesStay DEF ReadPage, Running
<1> QED
    BY <1>4, <1>5, <1>6, <1>7 DEF ReadPage

(* Both listings of the agent's conversations begin a registration.         *)
LEMMA GroupsStep ==
    ASSUME NEW k \in Call, Running(k), task[k].tool # "find_user",
           NEW todo \in SUBSET GroupsOf(context[k].agent),
           NEW found \in SUBSET DmsOf(context[k].agent),
           task' = [task EXCEPT ![k].pc = "register", ![k].todo = todo, ![k].found = found]
           \/ task' = [task EXCEPT ![k].pc = "register", ![k].todo = todo],
           UNCHANGED <<dms, registered, untyped, opened>>
    PROVE  ServerInv'
<1> DEFINE a == context[k].agent
           t == task[k]
<1>1. t \in Task /\ a \in Agent /\ TaskOf(a, t, KnownGroups)
    BY RunningTask
<1>2. /\ todo \in SUBSET Group /\ todo \subseteq GroupsOf(a)
      /\ found \in SUBSET Conversation /\ found \cap Group = {}
      /\ \A conv \in found : MayName(a, conv)
    BY DirectoryAssumption DEF GroupsOf, DmsOf, Conversation, MayName, Running, ServerInv,
       DirectoryTypeOK
<1>3. PICK f \in {found, t.found} :
          task' = [task EXCEPT ![k] = [t EXCEPT !.pc = "register", !.todo = todo, !.found = f]]
    <2>1. [t EXCEPT !.pc = "register", !.todo = todo]
          = [t EXCEPT !.pc = "register", !.todo = todo, !.found = t.found]
        BY <1>1 DEF Task
    <2>2. task \in [Call -> Task]
        BY DEF Running, ServerInv, DirectoryTypeOK
    <2>3. CASE task' = [task EXCEPT ![k].pc = "register", ![k].todo = todo]
        <3>1. task' = [task EXCEPT ![k] = [t EXCEPT !.pc = "register", !.todo = todo]]
            BY <2>2, <2>3
        <3> QED
            BY <2>1, <3>1
    <2>4. CASE task' = [task EXCEPT ![k].pc = "register", ![k].todo = todo, ![k].found = found]
        BY <2>2, <2>4
    <2> QED
        BY <2>3, <2>4
<1> DEFINE next == [t EXCEPT !.pc = "register", !.todo = todo, !.found = f]
<1>4. next \in Task
    BY <1>1, <1>2 DEF Task
<1>5. /\ next.pc = "register" /\ next.page = t.page /\ next.tool = t.tool
      /\ next.hits = t.hits /\ next.index = t.index /\ next.todo = todo /\ next.found = f
    BY <1>1 DEF Task
<1>6. TaskOf(a, next, KnownGroups)
    BY <1>1, <1>2, <1>5 DEF TaskOf
<1> HIDE DEF next
<1> QED
    BY <1>3, <1>4, <1>6, TaskMoves, CachesStay DEF next, Running, ServerInv,
       DirectoryTypeOK, KnownGroups

LEMMA MatchGroupsStep ==
    ASSUME NEW k \in Call, Running(k), MatchGroups(k, current_agent_id(k))
    PROVE  ServerInv'
<1> DEFINE a == context[k].agent
<1>1. PICK listed \in Listings(a) \cup {{}} :
          task' = [task EXCEPT ![k].pc = "register",
                               ![k].todo = listed \cap Group \cap Matching[task[k].about]]
    BY DEF MatchGroups, current_agent_id
<1>2. listed \cap Group \subseteq GroupsOf(a)
    BY DirectoryAssumption DEF Listings, DmsOf, GroupsOf, Running, ServerInv, DirectoryTypeOK
<1>3. task[k].tool # "find_user"
    BY RunningTask DEF TaskOf, MatchGroups, At
<1> DEFINE todo == listed \cap Group \cap Matching[task[k].about]
<1>4. todo \in SUBSET GroupsOf(a) /\ {} \in SUBSET DmsOf(a)
    BY <1>2
<1>5. task' = [task EXCEPT ![k].pc = "register", ![k].todo = todo]
    BY <1>1
<1> HIDE DEF todo
<1> QED
    BY <1>3, <1>4, <1>5, GroupsStep DEF MatchGroups

LEMMA ListDmsStep ==
    ASSUME NEW k \in Call, Running(k), ListDms(k, current_agent_id(k))
    PROVE  ServerInv'
<1> DEFINE a == context[k].agent
<1>1. CASE task' = Refused(k)
    BY <1>1, RefusalFits DEF ListDms, Running
<1>2. ASSUME NEW listed \in Listings(a),
             task' = [task EXCEPT ![k].pc = "register", ![k].todo = listed \cap Group,
                                  ![k].found = listed \ Group]
      PROVE  ServerInv'
    <2>1. listed \cap Group \in SUBSET GroupsOf(a) /\ listed \ Group \in SUBSET DmsOf(a)
        BY DirectoryAssumption DEF Listings, DmsOf, GroupsOf, Running, ServerInv,
           DirectoryTypeOK
    <2> QED
        BY <1>2, <2>1, GroupsStep DEF ListDms
<1> QED
    BY <1>1, <1>2 DEF ListDms, current_agent_id

(* A group DM joins the hits with its registration.                         *)
LEMMA RegisterGroupStep ==
    ASSUME NEW k \in Call, Running(k), RegisterGroup(k)
    PROVE  ServerInv'
<1> DEFINE a == context[k].agent
           t == task[k]
<1>1. t \in Task /\ a \in Agent /\ TaskOf(a, t, KnownGroups)
    BY RunningTask
<1>2. PICK g \in t.todo :
          /\ registered' = registered \cup {g} /\ untyped' = untyped \ {g}
          /\ task' = [task EXCEPT ![k].todo = @ \ {g}, ![k].hits = @ \cup {g}]
    BY DEF RegisterGroup
<1>3. g \in Group /\ g \in GroupsOf(a) /\ registered' \in SUBSET Group
    BY <1>1, <1>2 DEF Task, TaskOf, Running, ServerInv, DirectoryTypeOK
<1> DEFINE next == [t EXCEPT !.todo = t.todo \ {g}, !.hits = t.hits \cup {g}]
<1>4. next \in Task
    BY <1>1, <1>3 DEF Task
<1>5. /\ next.pc = "register" /\ next.page = t.page /\ next.tool = t.tool
      /\ next.hits = t.hits \cup {g} /\ next.index = t.index
      /\ next.todo = t.todo \ {g} /\ next.found = t.found
    BY <1>1 DEF Task, RegisterGroup, At
<1>6. TaskOf(a, next, KnownGroups')
    <2>1. t.tool # "find_user" =>
              /\ \A h \in t.hits \cup {g} : h \in Channel \cup GroupsOf(a)
              /\ (t.hits \cup {g}) \cap Group \subseteq KnownGroups'
        <3>1. t.tool # "find_user" =>
                  /\ \A h \in t.hits : h \in Channel \cup GroupsOf(a)
                  /\ t.hits \cap Group \subseteq KnownGroups
            BY <1>1 DEF TaskOf
        <3> QED
            BY <1>2, <1>3, <3>1 DEF KnownGroups
    <2>2. /\ t.todo \ {g} \subseteq GroupsOf(a)
          /\ t.found \cap Group \subseteq KnownGroups'
        BY <1>1, <1>2 DEF TaskOf, KnownGroups
    <2>3. t.tool # "find_user"
        BY <1>1 DEF TaskOf, RegisterGroup, At
    <2> HIDE DEF next
    <2> QED
        BY <1>1, <1>5, <2>1, <2>2, <2>3 DEF TaskOf
<1>7. task' = [task EXCEPT ![k] = next]
    BY <1>2 DEF Running, ServerInv, DirectoryTypeOK
<1> HIDE DEF next
<1> QED
    BY <1>2, <1>3, <1>4, <1>6, <1>7, TaskMoves, CachesStay
       DEF KnownGroups, RegisterGroup, Running, ServerInv, DirectoryTypeOK

LEMMA AnswerFoundStep ==
    ASSUME NEW k \in Call, Running(k), AnswerFound(k)
    PROVE  ServerInv'
<1> DEFINE a == context[k].agent
           t == task[k]
           found == IF t.tool = "find_channel" THEN BestMatches(t.about, t.hits)
                    ELSE t.found \cup t.hits
<1>1. t \in Task /\ a \in Agent /\ TaskOf(a, t, KnownGroups) /\ t.tool # "find_user"
    BY RunningTask DEF AnswerFound, At, TaskOf
<1>2. /\ t.hits \subseteq Channel \cup GroupsOf(a) /\ t.hits \cap Group \subseteq KnownGroups
      /\ t.found \in SUBSET Conversation /\ t.found \cap Group \subseteq KnownGroups
      /\ \A conv \in t.found : MayName(a, conv)
    BY <1>1 DEF TaskOf, Task
<1>3. t.hits \in SUBSET Conversation /\ \A conv \in t.hits : MayName(a, conv)
    BY <1>2 DEF GroupsOf, Conversation, MayName
<1>4. found \subseteq t.found \cup t.hits
    BY DEF BestMatches
<1>5. task' = Answered(k, found)
    BY DEF AnswerFound
<1> HIDE DEF found
<1>6. /\ found \in SUBSET Conversation /\ found \cap Group \subseteq KnownGroups
      /\ \A conv \in found : MayName(a, conv)
    BY <1>2, <1>3, <1>4
<1> QED
    BY <1>5, <1>6, AnswerFits, CachesStay DEF AnswerFound, Running

(* The cached DM is the agent's: the cache's keys hold it.                  *)
LEMMA ResolveUserStep ==
    ASSUME NEW k \in Call, Running(k),
           ResolveUser(k, context[k].container, current_agent_id(k))
    PROVE  ServerInv'
<1> DEFINE a == context[k].agent
           c == context[k].container
           t == task[k]
           p == t.about
<1>1. ServerInv /\ a \in Agent /\ c \in Container /\ current_agent_id(k) = a
    BY DEF Running, ServerInv, AuthInv, AuthTypeOK, current_agent_id
<1>2. ASSUME p \in Person
      PROVE  /\ Dm(a, p) \in Dms /\ {Dm(a, p)} \in SUBSET Conversation
             /\ {Dm(a, p)} \cap Group = {} /\ MayName(a, Dm(a, p))
    BY <1>1, <1>2, DirectoryAssumption DEF Dm, Dms, Conversation, MayName
<1>3. ASSUME NEW e \in Cached(c, a, p), task' = Answered(k, {e[3]}),
             UNCHANGED <<dms, registered, untyped, opened>>
      PROVE  ServerInv'
    <2>1. e \in opened[c] /\ e[1] = a /\ e[2] = p /\ p \in Person /\ e[3] = Dm(a, p)
        BY <1>1, <1>3 DEF Cached, ServerInv, OpenedIsRight, DirectoryTypeOK
    <2> QED
        BY <1>1, <1>2, <1>3, <2>1, AnswerFits, CachesStay DEF Running
<1>4. ASSUME p \in Person, opened' = [opened EXCEPT ![c] = @ \cup {<<a, p, Dm(a, p)>>}],
             dms' = dms \cup {Dm(a, p)}, task' = Answered(k, {Dm(a, p)}),
             registered' = registered, untyped' = untyped
      PROVE  ServerInv'
    <2>1. opened' \in [Container -> SUBSET (Agent \X Person \X Dms)] /\ dms' \in SUBSET Dms
        BY <1>1, <1>2, <1>4 DEF ServerInv, DirectoryTypeOK
    <2>2. OpenedIsRight'
        BY <1>1, <1>4 DEF ServerInv, OpenedIsRight, DirectoryTypeOK
    <2> QED
        BY <1>1, <1>2, <1>4, <2>1, <2>2, AnswerFits DEF Running, KnownGroups
<1>5. CASE task' = Refused(k) /\ UNCHANGED <<dms, registered, untyped, opened>>
    BY <1>5, RefusalFits DEF Running
<1>6. p \in Person
    BY RunningTask DEF TaskOf, ResolveUser, At
<1> QED
    BY <1>1, <1>3, <1>4, <1>5, <1>6 DEF ResolveUser

LEMMA ToolStepKeeps ==
    ASSUME ServerInv, NEW k \in Call, RunTool(k)
    PROVE  ServerInv'
<1>1. Running(k)
    BY DEF Running, RunTool
<1> QED
    BY <1>1, ListChannelsStep, IndexDmsStep, ReadPageStep, MatchGroupsStep, ListDmsStep,
       RegisterGroupStep, AnswerFoundStep, ResolveUserStep DEF RunTool, ToolStep
--------------------------------------------------------------------------------
(* The composition.                                                         *)

LEMMA RequestStep ==
    ASSUME ServerInv, NEW k \in Call, NEW c \in Container, NEW t \in Token, Request(k, c, t)
    PROVE  ServerInv'
<1>1. CASE Refuse(c, t) /\ UNCHANGED directory
    BY <1>1, AuthStays DEF Refuse, directory, auth, ServerInv, DirectoryTypeOK,
       OpenedIsRight, TasksAreOwn, KnownGroups
<1>2. ASSUME Admit(k, c, t), NEW tool \in Tool, NEW about \in Query \cup Person \cup {Nobody},
             BeginTask(k, tool, about)
      PROVE  ServerInv'
    <2> DEFINE next == [NoTask EXCEPT !.pc = FirstStep(tool), !.tool = tool, !.about = about]
    <2>1. AuthInv'
        BY <1>2, AdmitStep DEF ServerInv
    <2>2. FirstStep(tool) \in {"list", "page", "index", "open"}
        BY DEF FirstStep, Tool
    <2>3. next \in Task
        BY <2>2, NothingYet DEF Task, NoTask
    <2>4. FirstStep(tool) = "open" => about \in Person
        BY <1>2 DEF BeginTask, FirstStep, Tool
    <2>5. \A a \in Agent : TaskOf(a, next, KnownGroups)
        BY <2>2, <2>4, DirectoryAssumption DEF TaskOf, NoTask, PagesOf
    <2>6. /\ task' = [task EXCEPT ![k] = next]
          /\ dms' = dms /\ registered' = registered /\ untyped' = untyped /\ opened' = opened
        BY <1>2 DEF BeginTask
    <2> HIDE DEF next
    <2>7. \A j \in Call : /\ task'[j] = IF j = k THEN next ELSE task[j]
                          /\ j # k => context'[j] = context[j]
        BY <1>2, <2>6 DEF Admit, ServerInv, AuthInv, AuthTypeOK, DirectoryTypeOK
    <2>8. context'[k] # NoContext /\ context'[k].agent \in Agent
        <3>1. PICK a \in Matches(c, t) :
                  context' = [context EXCEPT ![k] = [container |-> c, token |-> t, agent |-> a]]
            BY <1>2 DEF Admit
        <3>2. context'[k] = [container |-> c, token |-> t, agent |-> a] /\ a \in Agent
            BY <3>1 DEF Matches, ServerInv, AuthInv, AuthTypeOK
        <3> QED
            BY <3>2, AuthAssumption DEF NoContext
    <2>9. TasksAreOwn'
        BY <2>5, <2>6, <2>7, <2>8 DEF ServerInv, TasksAreOwn, KnownGroups
    <2>10. DirectoryTypeOK' /\ OpenedIsRight'
        BY <2>3, <2>6 DEF ServerInv, DirectoryTypeOK, OpenedIsRight, KnownGroups
    <2> QED
        BY <2>1, <2>9, <2>10 DEF ServerInv
<1> QED
    BY <1>1, <1>2 DEF Request

LEMMA EndRequestStep ==
    ASSUME ServerInv, NEW k \in Call, EndRequest(k)
    PROVE  ServerInv'
<1>1. AuthInv'
    BY LeaveStep DEF EndRequest, ServerInv
<1>2. DirectoryTypeOK' /\ OpenedIsRight'
    BY NothingYet DEF EndRequest, EndTask, ServerInv, DirectoryTypeOK, OpenedIsRight
<1>3. \A j \in Call : /\ task'[j] = IF j = k THEN NoTask ELSE task[j]
                      /\ context'[j] = IF j = k THEN NoContext ELSE context[j]
    BY DEF EndRequest, EndTask, Leave, ServerInv, AuthInv, AuthTypeOK, DirectoryTypeOK
<1>4. registered' = registered /\ untyped' = untyped
    BY DEF EndRequest, EndTask
<1>5. TasksAreOwn'
    BY <1>3, <1>4 DEF ServerInv, TasksAreOwn, KnownGroups
<1> QED
    BY <1>1, <1>2, <1>5 DEF ServerInv

(* What happens around the requests leaves them as they are.                *)
LEMMA AroundStep ==
    ASSUME ServerInv, AuthInv', context' = context, UNCHANGED <<registered, untyped, task>>,
           dms' \in SUBSET Dms,
           opened' \in [Container -> SUBSET (Agent \X Person \X Dms)],
           \A c \in Container : opened'[c] \subseteq opened[c]
    PROVE  ServerInv'
BY DEF ServerInv, DirectoryTypeOK, OpenedIsRight, TasksAreOwn, KnownGroups

(* An event that gives a row anew leaves every group DM that had one known. *)
LEMMA EventStep ==
    ASSUME ServerInv, NEW g \in Group, GroupEvent(g)
    PROVE  ServerInv'
<1>1. AuthInv' /\ context' = context
    BY AuthStays DEF GroupEvent, ServerInv, auth
<1>2. /\ task' = task /\ dms' = dms /\ opened' = opened
      /\ registered' \in SUBSET Group /\ untyped' \in SUBSET Group
      /\ KnownGroups \subseteq KnownGroups'
    BY DEF GroupEvent, IngestRow, ServerInv, DirectoryTypeOK, KnownGroups
<1>3. DirectoryTypeOK' /\ OpenedIsRight'
    BY <1>2 DEF ServerInv, DirectoryTypeOK, OpenedIsRight
<1>4. ASSUME NEW k \in Call, context[k] # NoContext
      PROVE  TaskOf(context[k].agent, task[k], KnownGroups')
    <2>1. TaskOf(context[k].agent, task[k], KnownGroups)
        BY <1>4 DEF ServerInv, TasksAreOwn
    <2> QED
        BY <1>2, <2>1 DEF TaskOf
<1>5. TasksAreOwn'
    BY <1>1, <1>2, <1>4 DEF ServerInv, TasksAreOwn
<1> QED
    BY <1>1, <1>3, <1>5 DEF ServerInv

LEMMA ServerStep == ServerInv /\ [Next]_vars => ServerInv'
<1> SUFFICES ASSUME ServerInv, [Next]_vars PROVE ServerInv'
    OBVIOUS
<1> USE DEF directory
<1>1. ASSUME NEW k \in Call, NEW c \in Container, NEW t \in Token, Request(k, c, t)
      PROVE  ServerInv'
    BY <1>1, RequestStep
<1>2. ASSUME NEW k \in Call, RunTool(k) PROVE ServerInv'
    BY <1>2, ToolStepKeeps
<1>3. ASSUME NEW k \in Call, EndRequest(k) PROVE ServerInv'
    BY <1>3, EndRequestStep
<1>4. ASSUME NEW c \in Container, StartContainer(c) PROVE ServerInv'
    <2>1. AuthInv' /\ context' = context
        BY <1>4, LoadStep DEF StartContainer, Load, ServerInv
    <2> QED
        BY <1>4, <2>1, AroundStep DEF StartContainer, ServerInv, DirectoryTypeOK
<1>5. ASSUME NEW c \in Container, ReplaceContainer(c) PROVE ServerInv'
    <2>1. AuthInv' /\ context' = context
        BY <1>5, ReplaceStep DEF ReplaceContainer, Replace, ServerInv
    <2>2. /\ opened' \in [Container -> SUBSET (Agent \X Person \X Dms)]
          /\ \A d \in Container : opened'[d] \subseteq opened[d]
        BY <1>5 DEF ReplaceContainer, ForgetOpened, ServerInv, DirectoryTypeOK
    <2> QED
        BY <1>5, <2>1, <2>2, AroundStep DEF ReplaceContainer, ForgetOpened, ServerInv,
           DirectoryTypeOK
<1>6. ASSUME NEW o \in Owner, NEW t \in Token, RotateSecret(o, t) PROVE ServerInv'
    <2>1. AuthInv' /\ context' = context
        BY <1>6, RotateStep DEF RotateSecret, Rotate, ServerInv
    <2> QED
        BY <1>6, <2>1, AroundStep DEF RotateSecret, ServerInv, DirectoryTypeOK
<1>7. ASSUME NEW a \in Agent, NEW p \in Person, PersonWrites(a, p) PROVE ServerInv'
    <2>1. AuthInv' /\ context' = context
        BY <1>7, AuthStays DEF PersonWrites, ServerInv, auth
    <2>2. dms' \in SUBSET Dms
        BY <1>7 DEF PersonWrites, PersonOpens, Dm, Dms, ServerInv, DirectoryTypeOK
    <2> QED
        BY <1>7, <2>1, <2>2, AroundStep DEF PersonWrites, PersonOpens, ServerInv,
           DirectoryTypeOK
<1>8. ASSUME NEW g \in Group, GroupEvent(g) PROVE ServerInv'
    BY <1>8, EventStep
<1>9. CASE UNCHANGED vars
    BY <1>9, AuthStays, AroundStep DEF vars, auth, ServerInv, DirectoryTypeOK
<1> QED
    BY <1>1, <1>2, <1>3, <1>4, <1>5, <1>6, <1>7, <1>8, <1>9 DEF Next

LEMMA ServerAlways == Spec => []ServerInv
BY ServerStart, ServerStep, PTL DEF Spec
--------------------------------------------------------------------------------
(* The variables keep to their kinds of values.                             *)
THEOREM TypeCorrect == Spec => []TypeOK
<1>1. ServerInv => TypeOK
    BY DEF ServerInv, AuthInv, TypeOK
<1> QED
    BY <1>1, ServerAlways, PTL

(* Every request is served, to its end, as the agent its token was made     *)
(* for.                                                                     *)
THEOREM ServedAsItsOwner == Spec => []ServedAsOwner
<1>1. ServerInv => ServedAsOwner
    BY DEF ServerInv, AuthInv
<1> QED
    BY <1>1, ServerAlways, PTL

(* A token is admitted too long, or refused too soon, only by a container   *)
(* that has been warm since a rotation or could not read a secret.          *)
THEOREM OnlyCachesLag == Spec => []AdmissionLags
<1>1. ServerInv => AdmissionLags
    BY DEF ServerInv, AuthInv
<1> QED
    BY <1>1, ServerAlways, PTL

(* No tool finds another agent's direct or group messages.                  *)
THEOREM NobodyElsesConversations == Spec => []OwnConversationsOnly
<1>1. ServerInv => OwnConversationsOnly
    BY DEF ServerInv, AuthInv, ServedAsOwner, TasksAreOwn, TaskOf, OwnConversationsOnly
<1> QED
    BY <1>1, ServerAlways, PTL

(* A group DM is registered before any tool names it.                       *)
THEOREM GroupsAreKnown == Spec => []FoundGroupsAreKnown
<1>1. ServerInv => FoundGroupsAreKnown
    <2> SUFFICES ASSUME ServerInv, NEW k \in Call, task[k].pc = "done"
                 PROVE  task[k].found \cap Group \subseteq KnownGroups
        BY DEF FoundGroupsAreKnown, At
    <2>1. context[k] # NoContext
        BY DEF ServerInv, TasksAreOwn, NoTask
    <2> QED
        BY <2>1 DEF ServerInv, TasksAreOwn, TaskOf
<1> QED
    BY <1>1, ServerAlways, PTL
--------------------------------------------------------------------------------
(* Sorting and cutting, for the names a search finds.                       *)

(* A finite set with numbered elements has a last one: a smallest subset    *)
(* without one would lose an element.                                       *)
LEMMA LastOf ==
    ASSUME NEW S, IsFiniteSet(S), S # {}, NEW f \in [S -> Int]
    PROVE  \E m \in S : \A x \in S : f[x] <= f[m]
<1> DEFINE HasLast(U) == \E m \in U : \A x \in U : f[x] <= f[m]
           Bad == {U \in SUBSET S : U # {} /\ ~HasLast(U)}
           R == StrictSubsetOrdering(S)
<1>1. Bad = {}
    <2>1. SUFFICES ASSUME Bad # {} PROVE FALSE
        OBVIOUS
    <2>2. IsWellFoundedOn(R, FiniteSubsetsOf(S))
        BY FS_StrictSubsetOrderingWellFounded
    <2>3. Bad \subseteq FiniteSubsetsOf(S)
        BY FS_FiniteSubsetsOfFinite
    <2>4. PICK U \in Bad : \A V \in Bad : ~(<<V, U>> \in R)
        <3> HIDE DEF R, Bad
        <3> QED
            BY <2>1, <2>2, <2>3, WFMin
    <2>5. PICK u \in U : TRUE
        BY <2>4
    <2>6. U \ {u} \notin Bad
        <3>1. <<U \ {u}, U>> \in R
            BY <2>4, <2>5 DEF StrictSubsetOrdering
        <3> QED
            BY <2>4, <3>1
    <2>7. \A x, y \in U : f[x] \in Int /\ (f[x] <= f[y] \/ f[y] <= f[x])
        BY <2>4
    <2>8. CASE U \ {u} = {}
        BY <2>4, <2>5, <2>7, <2>8
    <2>9. CASE U \ {u} # {}
        <3>1. PICK m \in U \ {u} : \A x \in U \ {u} : f[x] <= f[m]
            BY <2>4, <2>6, <2>9
        <3>2. CASE f[u] <= f[m]
            BY <2>4, <2>5, <2>7, <3>1, <3>2
        <3>3. CASE f[m] <= f[u]
            <4>1. \A x \in U : f[x] <= f[u]
                BY <2>5, <2>7, <3>1, <3>3
            <4> QED
                BY <2>4, <2>5, <4>1
        <3> QED
            BY <2>5, <2>7, <3>1, <3>2, <3>3
    <2> QED
        BY <2>8, <2>9
<1> QED
    BY <1>1

LEMMA EarliestOf ==
    ASSUME NEW S, IsFiniteSet(S), S # {}, NEW f \in [S -> Nat]
    PROVE  \E m \in S : \A x \in S : f[m] <= f[x]
<1>1. PICK g : g = [x \in S |-> 0 - f[x]]
    OBVIOUS
<1>2. g \in [S -> Int] /\ \A x \in S : g[x] = 0 - f[x]
    BY <1>1
<1>3. PICK m \in S : \A x \in S : g[x] <= g[m]
    BY <1>2, LastOf
<1>4. ASSUME NEW x \in S PROVE f[m] <= f[x]
    <2>1. g[x] <= g[m] /\ g[x] = 0 - f[x] /\ g[m] = 0 - f[m] /\ f[x] \in Nat /\ f[m] \in Nat
        BY <1>2, <1>3
    <2> QED
        BY <2>1
<1> QED
    BY <1>4

(* The first n of E in the order of f.                                      *)
FirstOf(n, E, f) == {y \in E : Cardinality({x \in E : f[x] < f[y]}) < n}

(* Of a sorted listing cut after n names, either all are kept or exactly n. *)
LEMMA CutKeepsAllOrN ==
    ASSUME NEW E, IsFiniteSet(E), NEW f \in [E -> Nat], NEW n \in Nat \ {0},
           \A x, y \in E : f[x] = f[y] => x = y,
           NEW c \in E, c \notin FirstOf(n, E, f)
    PROVE  Cardinality(FirstOf(n, E, f)) = n
<1> DEFINE Below(y) == {x \in E : f[x] < f[y]}
           B == {y \in E : Cardinality(Below(y)) < n}
<1>0. B = FirstOf(n, E, f)
    BY DEF FirstOf
<1>1. \A y \in E : /\ IsFiniteSet(Below(y)) /\ Cardinality(Below(y)) \in Nat
                   /\ f[y] \in Nat
    <2>1. ASSUME NEW y \in E PROVE IsFiniteSet(Below(y))
        BY FS_Subset
    <2> HIDE DEF Below
    <2> QED
        BY <2>1, FS_CardinalityType
<1>2. ASSUME NEW x \in E, NEW y \in E, f[x] <= f[y]
      PROVE  Cardinality(Below(x)) <= Cardinality(Below(y))
    <2>1. Below(x) \subseteq Below(y)
        BY <1>1, <1>2
    <2>2. IsFiniteSet(Below(y))
        BY <1>1
    <2> HIDE DEF Below
    <2> QED
        BY <2>1, <2>2, FS_Subset
<1>3. PICK d \in E \ B : \A x \in E \ B : f[d] <= f[x]
    <2>1. IsFiniteSet(E \ B) /\ c \in E \ B
        <3>1. c \notin B
            BY <1>0
        <3> HIDE DEF B
        <3> QED
            BY <3>1, FS_Subset
    <2>2. [x \in E \ B |-> f[x]] \in [E \ B -> Nat]
        OBVIOUS
    <2> HIDE DEF B
    <2>3. PICK g : g = [x \in E \ B |-> f[x]]
        OBVIOUS
    <2>4. PICK d \in E \ B : \A x \in E \ B : g[d] <= g[x]
        BY <2>1, <2>2, <2>3, EarliestOf
    <2> QED
        BY <2>3, <2>4
<1>4. B = Below(d)
    <2>1. ASSUME NEW x \in Below(d) PROVE x \in B
        BY <1>1, <1>3, <2>1
    <2>2. ASSUME NEW y \in B PROVE y \in Below(d)
        <3>1. ~(f[d] <= f[y])
            <4>1. SUFFICES ASSUME f[d] <= f[y] PROVE FALSE
                OBVIOUS
            <4>2. Cardinality(Below(d)) <= Cardinality(Below(y))
                BY <1>2, <1>3, <2>2, <4>1
            <4>3. Cardinality(Below(y)) < n /\ ~(Cardinality(Below(d)) < n)
                BY <1>3, <2>2
            <4>4. Cardinality(Below(y)) \in Nat /\ Cardinality(Below(d)) \in Nat
                BY <1>1, <1>3, <2>2
            <4> HIDE DEF Below, B
            <4> QED
                BY <4>2, <4>3, <4>4
        <3> QED
            BY <1>1, <1>3, <2>2, <3>1
    <2> QED
        BY <2>1, <2>2
<1>5. PICK r \in Nat : r = Cardinality(Below(d)) /\ r >= n
    BY <1>1, <1>3
<1>6. ~(r > n)
    <2>1. SUFFICES ASSUME r > n PROVE FALSE
        OBVIOUS
    <2>2. IsFiniteSet(B) /\ Cardinality(B) = r
        BY <1>1, <1>3, <1>4, <1>5
    <2>3. B # {}
        <3> HIDE DEF B
        <3> QED
            BY <2>1, <2>2, FS_EmptySet
    <2>4. PICK m \in B : \A x \in B : f[x] <= f[m]
        <3>1. B \subseteq E
            OBVIOUS
        <3> HIDE DEF B
        <3>2. PICK g : g = [x \in B |-> f[x]]
            OBVIOUS
        <3>3. g \in [B -> Int] /\ \A x \in B : g[x] = f[x]
            BY <3>1, <3>2
        <3>4. PICK m \in B : \A x \in B : g[x] <= g[m]
            BY <2>2, <2>3, <3>3, LastOf
        <3> QED
            BY <3>3, <3>4
    <2>5. Below(m) = B \ {m}
        <3>1. m \in E /\ f[m] < f[d]
            BY <1>4, <2>4
        <3>2. ASSUME NEW x \in Below(m) PROVE x \in B \ {m}
            <4>1. x \in E /\ f[x] < f[m]
                BY <3>2
            <4>2. f[x] < f[d] /\ x # m
                BY <1>1, <1>3, <3>1, <4>1
            <4> QED
                BY <1>4, <4>1, <4>2
        <3>3. ASSUME NEW x \in B \ {m} PROVE x \in Below(m)
            <4>1. x \in E /\ x # m /\ f[x] <= f[m]
                BY <2>4, <3>3
            <4>2. f[x] # f[m]
                BY <3>1, <4>1
            <4> QED
                BY <1>1, <3>1, <4>1, <4>2
        <3> QED
            BY <3>2, <3>3
    <2>6. Cardinality(Below(m)) = r - 1
        <3> HIDE DEF B, Below
        <3> QED
            BY <2>2, <2>4, <2>5, FS_RemoveElement
    <2>7. Cardinality(Below(m)) < n
        BY <2>4
    <2> HIDE DEF Below
    <2> QED
        BY <1>5, <2>1, <2>6, <2>7
<1>7. r = n
    BY <1>5, <1>6
<1> HIDE DEF B, Below
<1> QED
    BY <1>0, <1>4, <1>5, <1>7
--------------------------------------------------------------------------------
(* A search of channels has matched what the pages it has read hold, and    *)
(* ends with the last page or with enough matches.                          *)
ReadUpTo(n) == UNION {ChannelPages[i] : i \in 1..n}

Surfaced(t) ==
    \A conv \in Exact[t.about] \cap Channel :
        \/ conv \in t.found
        \/ Cardinality(Exact[t.about] \cap t.found) = MaxMatches
        \/ /\ conv \notin ReadUpTo(t.page)
           /\ Cardinality(ReadUpTo(t.page) \cap Matching[t.about]) >= MaxMatches

Gathered(t) ==
    /\ t.hits \ Group = ReadUpTo(t.page) \cap Matching[t.about]
    /\ \/ t.page = Len(ChannelPages)
       \/ Cardinality(ReadUpTo(t.page) \cap Matching[t.about]) >= MaxMatches

SearchOf(t) ==
    t.tool = "find_channel" =>
        /\ t.pc \in {"page", "groups", "register", "done"}
        /\ t.about \in Query
        /\ t.page \in 1..Len(ChannelPages)
        /\ t.pc = "page" => t.hits = ReadUpTo(t.page - 1) \cap Matching[t.about]
        /\ t.pc \in {"groups", "register"} => Gathered(t)
        /\ t.pc = "done" => Surfaced(t)

SearchInv == \A k \in Call : SearchOf(task[k])

(* A channel is among the hits of its page and those before it.             *)
LEMMA ReadingOn ==
    /\ ReadUpTo(0) = {}
    /\ \A n \in Nat : ReadUpTo(n + 1) = ReadUpTo(n) \cup ChannelPages[n + 1]
    /\ ReadUpTo(Len(ChannelPages)) = Channel
    /\ \A n \in 1..Len(ChannelPages) : ReadUpTo(n) \subseteq Channel
<1>1. ReadUpTo(0) = {}
    BY DEF ReadUpTo
<1>2. ASSUME NEW n \in Nat PROVE ReadUpTo(n + 1) = ReadUpTo(n) \cup ChannelPages[n + 1]
    <2>1. 1..n + 1 = (1..n) \cup {n + 1}
        OBVIOUS
    <2> QED
        BY <2>1 DEF ReadUpTo
<1>3. ReadUpTo(Len(ChannelPages)) = Channel
    BY ListingAssumption DEF ReadUpTo
<1>4. ASSUME NEW n \in 1..Len(ChannelPages) PROVE ReadUpTo(n) \subseteq Channel
    <2>1. 1..n \subseteq 1..Len(ChannelPages)
        BY DirectoryAssumption
    <2> QED
        BY <1>3, <2>1 DEF ReadUpTo
<1> QED
    BY <1>1, <1>2, <1>3, <1>4

(* An exact match is cut off only by as many exact matches as are shown.    *)
LEMMA ExactComesFirst ==
    ASSUME NEW q \in Query, NEW hits \in SUBSET (Channel \cup Group),
           NEW conv \in Exact[q] \cap hits, conv \notin BestMatches(q, hits)
    PROVE  Cardinality(Exact[q] \cap BestMatches(q, hits)) = MaxMatches
<1> DEFINE E == Exact[q] \cap hits
           f == [x \in E |-> Order[x]]
           Before(g, h) == \/ g \in Exact[q] /\ h \notin Exact[q]
                           \/ (g \in Exact[q] <=> h \in Exact[q]) /\ Order[g] < Order[h]
           Below(h) == {x \in E : f[x] < f[h]}
           B == {h \in E : Cardinality(Below(h)) < MaxMatches}
<1>1. IsFiniteSet(E)
    <2>1. E \in SUBSET (Channel \cup Group)
        OBVIOUS
    <2> HIDE DEF E
    <2> QED
        BY <2>1, ListingAssumption, FS_Subset
<1>2. f \in [E -> Nat] /\ \A x, y \in E : f[x] = f[y] => x = y
    BY DirectoryAssumption, ListingAssumption
<1>3. \A h \in E : {g \in hits : Before(g, h)} = Below(h)
    OBVIOUS
<1>4. BestMatches(q, hits) = {h \in hits : Cardinality({g \in hits : Before(g, h)}) < MaxMatches}
    BY DEF BestMatches
<1> HIDE DEF Before
<1>5. Exact[q] \cap BestMatches(q, hits) = B
    <2> HIDE DEF Below
    <2> QED
        BY <1>3, <1>4
<1>6. conv \in E /\ ~(Cardinality(Below(conv)) < MaxMatches)
    <2> HIDE DEF Below
    <2> QED
        BY <1>3, <1>4
<1>7. MaxMatches \in Nat \ {0}
    BY DirectoryAssumption
<1>8. Cardinality(B) = MaxMatches
    <2>1. PICK S, g, n : S = E /\ g = f /\ n = MaxMatches
        OBVIOUS
    <2> HIDE DEF E, f
    <2>2. /\ IsFiniteSet(S) /\ g \in [S -> Nat] /\ n \in Nat \ {0}
          /\ \A x, y \in S : g[x] = g[y] => x = y
        BY <1>1, <1>2, <1>7, <2>1
    <2>3. B = FirstOf(n, S, g)
        BY <2>1 DEF FirstOf
    <2>4. conv \in S /\ conv \notin FirstOf(n, S, g)
        BY <1>6, <2>1, <2>3
    <2>5. Cardinality(FirstOf(n, S, g)) = n
        BY ONLY <2>2, <2>4, CutKeepsAllOrN
    <2> QED
        BY <2>1, <2>3, <2>5
<1> QED
    BY <1>5, <1>8

LEMMA SearchMoves ==
    ASSUME SearchInv, NEW k \in Call, \A j \in Call \ {k} : task'[j] = task[j],
           SearchOf(task'[k])
    PROVE  SearchInv'
BY DEF SearchInv

(* Whatever is answered, the tool and what it is about stay; a refusal is   *)
(* no answer of a search.                                                   *)
LEMMA EndsOfTask ==
    ASSUME ServerInv, NEW k \in Call
    PROVE  /\ task' = Refused(k) => /\ \A j \in Call \ {k} : task'[j] = task[j]
                                    /\ SearchOf(task'[k])
           /\ \A found : task' = Answered(k, found) =>
                 /\ \A j \in Call \ {k} : task'[j] = task[j]
                 /\ task'[k].tool = task[k].tool /\ task'[k].pc = "done"
                 /\ task'[k].about = task[k].about /\ task'[k].page = task[k].page
                 /\ task'[k].found = found
<1>1. task \in [Call -> Task]
    BY DEF ServerInv, DirectoryTypeOK
<1>2. ASSUME task' = Refused(k)
      PROVE  /\ \A j \in Call \ {k} : task'[j] = task[j]
             /\ SearchOf(task'[k])
    <2>1. /\ \A j \in Call \ {k} : task'[j] = task[j]
          /\ task'[k] = [NoTask EXCEPT !.pc = "done"]
        BY <1>1, <1>2 DEF Refused
    <2>2. task'[k].tool = "list_channels"
        BY <2>1 DEF NoTask
    <2> QED
        BY <2>1, <2>2 DEF SearchOf
<1>3. ASSUME NEW found, task' = Answered(k, found)
      PROVE  /\ \A j \in Call \ {k} : task'[j] = task[j]
             /\ task'[k].tool = task[k].tool /\ task'[k].pc = "done"
             /\ task'[k].about = task[k].about /\ task'[k].page = task[k].page
             /\ task'[k].found = found
    <2>1. /\ \A j \in Call \ {k} : task'[j] = task[j]
          /\ task'[k] = [NoTask EXCEPT !.pc = "done", !.tool = task[k].tool,
                                       !.about = task[k].about, !.page = task[k].page,
                                       !.found = found, !.ok = TRUE]
        BY <1>1, <1>3 DEF Answered
    <2> QED
        BY <2>1 DEF NoTask
<1> QED
    BY <1>2, <1>3

LEMMA AnotherToolsAnswer ==
    ASSUME ServerInv, SearchInv, NEW k \in Call, task[k].tool # "find_channel",
           task' = Refused(k) \/ \E found : task' = Answered(k, found)
    PROVE  SearchInv'
<1>1. CASE task' = Refused(k)
    BY <1>1, EndsOfTask, SearchMoves
<1>2. ASSUME NEW found, task' = Answered(k, found) PROVE SearchInv'
    <2>1. (\A j \in Call \ {k} : task'[j] = task[j]) /\ task'[k].tool = task[k].tool
        BY <1>2, EndsOfTask
    <2> QED
        BY <2>1, SearchMoves DEF SearchOf
<1> QED
    BY <1>1, <1>2

LEMMA ReadPageSearch ==
    ASSUME SearchInv, NEW k \in Call, Running(k), ReadPage(k)
    PROVE  SearchInv'
<1> DEFINE t == task[k]
           hits == t.hits \cup (PagesOf(t.tool)[t.page] \cap Matching[t.about])
<1>1. t \in Task /\ task \in [Call -> Task] /\ ServerInv
    BY RunningTask DEF Running, ServerInv, DirectoryTypeOK
<1>2. CASE t.tool # "find_channel"
    <2>1. CASE t.page < Len(PagesOf(t.tool))
               /\ task' = [task EXCEPT ![k].page = t.page + 1, ![k].hits = hits]
        <3> HIDE DEF hits
        <3>1. (\A j \in Call \ {k} : task'[j] = task[j]) /\ task'[k].tool = t.tool
            BY <1>1, <2>1 DEF Task
        <3> QED
            BY <1>2, <3>1, SearchMoves DEF SearchOf
    <2> QED
        BY <1>1, <1>2, <2>1, AnotherToolsAnswer DEF ReadPage
<1>3. CASE t.tool = "find_channel"
    <2>1. /\ t.pc = "page" /\ t.about \in Query /\ t.page \in 1..Len(ChannelPages)
          /\ t.hits = ReadUpTo(t.page - 1) \cap Matching[t.about]
        BY <1>3 DEF SearchInv, SearchOf, ReadPage, At
    <2>2. hits = ReadUpTo(t.page) \cap Matching[t.about]
        <3>1. t.page - 1 \in Nat /\ (t.page - 1) + 1 = t.page
            BY <2>1, DirectoryAssumption
        <3>2. ReadUpTo(t.page) = ReadUpTo(t.page - 1) \cup ChannelPages[t.page]
            BY <3>1, ReadingOn
        <3>3. PagesOf(t.tool) = ChannelPages
            BY <1>3 DEF PagesOf
        <3> QED
            BY <2>1, <3>2, <3>3
    <2> HIDE DEF hits
    <2>3. CASE task' = Refused(k)
        BY <1>1, <2>3, EndsOfTask, SearchMoves
    <2>4. CASE t.page < Len(ChannelPages)
               /\ task' = [task EXCEPT ![k].page = t.page + 1, ![k].hits = hits]
        <3>1. /\ \A j \in Call \ {k} : task'[j] = task[j]
              /\ task'[k].pc = "page" /\ task'[k].about = t.about
              /\ task'[k].page = t.page + 1 /\ task'[k].hits = hits
            BY <1>1, <2>1, <2>4 DEF Task
        <3>2. t.page + 1 \in 1..Len(ChannelPages) /\ (t.page + 1) - 1 = t.page
            BY <2>1, <2>4, DirectoryAssumption
        <3>3. SearchOf(task'[k])
            BY <2>1, <2>2, <3>1, <3>2 DEF SearchOf
        <3> QED
            BY <3>1, <3>3, SearchMoves
    <2>5. CASE /\ ~(t.page < Len(ChannelPages) /\ Cardinality(hits) < MaxMatches)
               /\ task' = [task EXCEPT ![k].pc = "groups", ![k].hits = hits]
        <3>1. /\ \A j \in Call \ {k} : task'[j] = task[j]
              /\ task'[k].pc = "groups" /\ task'[k].about = t.about
              /\ task'[k].page = t.page /\ task'[k].hits = hits
            BY <1>1, <2>1, <2>5 DEF Task
        <3>2. hits \in SUBSET Channel /\ hits \ Group = hits
            BY <2>1, <2>2, ReadingOn, DirectoryAssumption
        <3>3. IsFiniteSet(hits) /\ Cardinality(hits) \in Nat
            <4>1. hits \in SUBSET (Channel \cup Group)
                BY <3>2
            <4> QED
                BY <4>1, ListingAssumption, FS_Subset, FS_CardinalityType
        <3>4. t.page = Len(ChannelPages) \/ Cardinality(hits) >= MaxMatches
            BY <2>1, <2>5, <3>3, DirectoryAssumption
        <3>5. Gathered(task'[k])
            BY <2>2, <3>1, <3>2, <3>4 DEF Gathered
        <3>6. SearchOf(task'[k])
            BY <2>1, <3>1, <3>5 DEF SearchOf
        <3> QED
            BY <3>1, <3>6, SearchMoves
    <2>6. PagesOf(t.tool) = ChannelPages
        BY <1>3 DEF PagesOf
    <2> QED
        BY <1>3, <2>3, <2>4, <2>5, <2>6 DEF ReadPage, hits
<1> QED
    BY <1>2, <1>3

LEMMA AnswerFoundSearch ==
    ASSUME SearchInv, NEW k \in Call, Running(k), AnswerFound(k)
    PROVE  SearchInv'
<1> DEFINE t == task[k]
<1>1. t \in Task /\ ServerInv /\ t.pc = "register" /\ TaskOf(context[k].agent, t, KnownGroups)
    BY RunningTask DEF Running, AnswerFound, At
<1>2. CASE t.tool # "find_channel"
    BY <1>1, <1>2, AnotherToolsAnswer DEF AnswerFound
<1>3. CASE t.tool = "find_channel"
    <2> DEFINE found == BestMatches(t.about, t.hits)
    <2>1. /\ t.about \in Query /\ t.page \in 1..Len(ChannelPages)
          /\ Gathered(t)
        BY <1>1, <1>3 DEF SearchInv, SearchOf
    <2>2. /\ \A j \in Call \ {k} : task'[j] = task[j]
          /\ task'[k].tool = "find_channel" /\ task'[k].pc = "done"
          /\ task'[k].about = t.about /\ task'[k].page = t.page
          /\ task'[k].found = found
        <3> HIDE DEF found
        <3>1. task' = Answered(k, found)
            BY <1>3 DEF AnswerFound, found
        <3> QED
            BY <1>1, <1>3, <3>1, EndsOfTask
    <2>3. t.hits \in SUBSET (Channel \cup Group)
        BY <1>1, <1>3 DEF TaskOf, GroupsOf
    <2>4. ASSUME NEW conv \in Exact[t.about] \cap Channel
          PROVE  \/ conv \in found
                 \/ Cardinality(Exact[t.about] \cap found) = MaxMatches
                 \/ /\ conv \notin ReadUpTo(t.page)
                    /\ Cardinality(ReadUpTo(t.page) \cap Matching[t.about]) >= MaxMatches
        <3>1. conv \in Matching[t.about]
            BY <2>1, DirectoryAssumption
        <3>2. CASE conv \in ReadUpTo(t.page)
            <4>1. conv \in Exact[t.about] \cap t.hits
                BY <2>1, <3>1, <3>2 DEF Gathered
            <4> QED
                BY <2>1, <2>3, <4>1, ExactComesFirst
        <3>3. CASE conv \notin ReadUpTo(t.page)
            <4>1. t.page # Len(ChannelPages)
                BY <3>3, ReadingOn
            <4> QED
                BY <2>1, <3>3, <4>1 DEF Gathered
        <3> QED
            BY <3>2, <3>3
    <2> HIDE DEF found
    <2>5. Surfaced(task'[k])
        BY <2>2, <2>4 DEF Surfaced
    <2>6. SearchOf(task'[k])
        BY <2>1, <2>2, <2>5 DEF SearchOf
    <2> QED
        BY <2>2, <2>6, SearchMoves
<1> QED
    BY <1>2, <1>3

(* The other steps of a tool leave what a search has gathered as it is, but *)
(* for the group DMs it registers.                                          *)
LEMMA ToolStepSearch ==
    ASSUME SearchInv, NEW k \in Call, RunTool(k), ServerInv
    PROVE  SearchInv'
<1> DEFINE t == task[k]
           a == current_agent_id(k)
<1>1. Running(k)
    BY DEF RunTool, Running
<1>2. /\ t \in Task /\ task \in [Call -> Task] /\ SearchOf(t)
      /\ TaskOf(context[k].agent, t, KnownGroups)
    BY <1>1, RunningTask DEF Running, ServerInv, DirectoryTypeOK, SearchInv
<1>3. CASE ListChannels(k)
    <2>1. t.tool # "find_channel"
        BY <1>3 DEF ListChannels
    <2> QED
        BY <1>3, <2>1, AnotherToolsAnswer DEF ListChannels
<1>4. CASE IndexDms(k, a)
    <2>1. t.tool # "find_channel"
        BY <1>2, <1>4 DEF IndexDms, At, SearchOf
    <2>2. (\A j \in Call \ {k} : task'[j] = task[j]) /\ task'[k].tool = t.tool
        BY <1>2, <1>4 DEF IndexDms, Task
    <2> QED
        BY <2>1, <2>2, SearchMoves DEF SearchOf
<1>5. CASE MatchGroups(k, a)
    <2>1. PICK todo : task' = [task EXCEPT ![k].pc = "register", ![k].todo = todo]
        BY <1>5 DEF MatchGroups
    <2>2. /\ \A j \in Call \ {k} : task'[j] = task[j]
          /\ task'[k].pc = "register" /\ task'[k].tool = t.tool /\ task'[k].about = t.about
          /\ task'[k].page = t.page /\ task'[k].hits = t.hits
        BY <1>2, <2>1 DEF Task
    <2>3. t.pc = "groups"
        BY <1>5 DEF MatchGroups, At
    <2>4. SearchOf(task'[k])
        BY <1>2, <2>2, <2>3 DEF SearchOf, Gathered
    <2> QED
        BY <2>2, <2>4, SearchMoves
<1>6. CASE ListDms(k, a)
    <2>1. t.tool # "find_channel"
        BY <1>6 DEF ListDms
    <2>2. CASE task' = Refused(k)
        BY <2>1, <2>2, AnotherToolsAnswer
    <2>3. ASSUME NEW todo, NEW found,
                 task' = [task EXCEPT ![k].pc = "register", ![k].todo = todo, ![k].found = found]
          PROVE  SearchInv'
        <3>1. (\A j \in Call \ {k} : task'[j] = task[j]) /\ task'[k].tool = t.tool
            BY <1>2, <2>3 DEF Task
        <3> QED
            BY <2>1, <3>1, SearchMoves DEF SearchOf
    <2> QED
        BY <1>6, <2>2, <2>3 DEF ListDms
<1>7. CASE RegisterGroup(k)
    <2>1. PICK g \in t.todo :
              task' = [task EXCEPT ![k].todo = @ \ {g}, ![k].hits = @ \cup {g}]
        BY <1>7 DEF RegisterGroup
    <2>2. /\ \A j \in Call \ {k} : task'[j] = task[j]
          /\ task'[k].pc = t.pc /\ task'[k].tool = t.tool /\ task'[k].about = t.about
          /\ task'[k].page = t.page /\ task'[k].hits = t.hits \cup {g}
        BY <1>2, <2>1 DEF Task
    <2>3. t.pc = "register" /\ g \in Group
        BY <1>2, <1>7, <2>1 DEF RegisterGroup, At, Task
    <2>4. task'[k].hits \ Group = t.hits \ Group
        BY <2>2, <2>3
    <2>5. SearchOf(task'[k])
        BY <1>2, <2>2, <2>3, <2>4 DEF SearchOf, Gathered
    <2> QED
        BY <2>2, <2>5, SearchMoves
<1>8. CASE ResolveUser(k, context[k].container, a)
    <2>1. t.tool # "find_channel"
        BY <1>2, <1>8 DEF ResolveUser, At, SearchOf
    <2> QED
        BY <1>8, <2>1, AnotherToolsAnswer DEF ResolveUser
<1> QED
    BY <1>1, <1>3, <1>4, <1>5, <1>6, <1>7, <1>8, ReadPageSearch, AnswerFoundSearch
    DEF RunTool, ToolStep

(* A search begins at the first page, with nothing found.                   *)
LEMMA BeginSearch ==
    ASSUME ServerInv, SearchInv, NEW k \in Call, NEW tool \in Tool, NEW about,
           BeginTask(k, tool, about)
    PROVE  SearchInv'
<1> DEFINE next == [NoTask EXCEPT !.pc = FirstStep(tool), !.tool = tool, !.about = about]
<1>1. /\ next.tool = tool /\ next.pc = FirstStep(tool) /\ next.about = about
      /\ next.page = 1 /\ next.hits = {}
    BY DEF NoTask
<1>2. task' = [task EXCEPT ![k] = next] /\ task \in [Call -> Task]
    BY DEF BeginTask, ServerInv, DirectoryTypeOK
<1>3. tool = "find_channel" => FirstStep(tool) = "page" /\ about \in Query
    BY DEF BeginTask, FirstStep
<1> HIDE DEF next
<1>4. (\A j \in Call \ {k} : task'[j] = task[j]) /\ task'[k] = next
    BY <1>2
<1>5. SearchOf(next)
    <2> SUFFICES ASSUME tool = "find_channel" PROVE SearchOf(next)
        BY <1>1 DEF SearchOf
    <2>1. 1 \in 1..Len(ChannelPages)
        BY DirectoryAssumption
    <2>2. next.hits = ReadUpTo(next.page - 1) \cap Matching[next.about]
        BY <1>1, ReadingOn
    <2> QED
        BY <1>1, <1>3, <2>1, <2>2 DEF SearchOf
<1> QED
    BY <1>4, <1>5, SearchMoves

LEMMA SearchStep == ServerInv /\ SearchInv /\ [Next]_vars => SearchInv'
<1> SUFFICES ASSUME ServerInv, SearchInv, [Next]_vars PROVE SearchInv'
    OBVIOUS
<1>1. ASSUME NEW k \in Call, NEW c \in Container, NEW t \in Token, Request(k, c, t)
      PROVE  SearchInv'
    BY <1>1, BeginSearch DEF Request, directory, SearchInv
<1>2. ASSUME NEW k \in Call, RunTool(k) PROVE SearchInv'
    BY <1>2, ToolStepSearch
<1>3. ASSUME NEW k \in Call, EndRequest(k) PROVE SearchInv'
    <2>1. (\A j \in Call \ {k} : task'[j] = task[j]) /\ task'[k] = NoTask
        BY <1>3 DEF EndRequest, EndTask, ServerInv, DirectoryTypeOK
    <2> QED
        BY <2>1, SearchMoves DEF SearchOf, NoTask
<1>4. ASSUME task' = task PROVE SearchInv'
    BY <1>4 DEF SearchInv
<1>5. CASE \E c \in Container : StartContainer(c) \/ ReplaceContainer(c)
    BY <1>4, <1>5 DEF StartContainer, ReplaceContainer, ForgetOpened, directory
<1>6. CASE \E o \in Owner, t \in Token : RotateSecret(o, t)
    BY <1>4, <1>6 DEF RotateSecret, directory
<1>7. CASE \E a \in Agent, p \in Person : PersonWrites(a, p)
    BY <1>4, <1>7 DEF PersonWrites, PersonOpens
<1>8. CASE \E g \in Group : GroupEvent(g)
    BY <1>4, <1>8 DEF GroupEvent, IngestRow
<1>9. CASE UNCHANGED vars
    BY <1>4, <1>9 DEF vars, directory
<1> QED
    BY <1>1, <1>2, <1>3, <1>5, <1>6, <1>7, <1>8, <1>9 DEF Next

LEMMA SearchAlways == Spec => []SearchInv
<1>1. Init => SearchInv
    BY DEF Init, DirectoryInit, SearchInv, SearchOf, NoTask
<1> QED
    BY <1>1, SearchStep, ServerAlways, PTL DEF Spec

(* A channel named exactly as searched is in the answer, unless as many of  *)
(* that name as the tool shows are, or enough matches on the pages before   *)
(* its own ended the search.                                                *)
THEOREM ExactNamesSurface == Spec => []ExactNameSurfaces
<1>1. SearchInv => ExactNameSurfaces
    <2>1. \A k \in Call : PagesRead(k) = ReadUpTo(task[k].page)
        BY DEF PagesRead, ReadUpTo
    <2> QED
        BY <2>1 DEF SearchInv, SearchOf, Surfaced, ExactNameSurfaces, At
<1> QED
    BY <1>1, SearchAlways, PTL
================================================================================
