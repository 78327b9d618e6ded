------------------------------- MODULE BearerAuth -------------------------------
(***************************************************************************)
(* Who a request is served as (mcpServer/auth/bearer.py and                *)
(* sharedModules/identity.py).  Each agent's token is a secret, and one    *)
(* more, the legacy token, stands for the default agent.  A container      *)
(* reads them all with its first request and keeps the map for its life;   *)
(* an operator rotates a secret and then has the containers replaced.      *)
(***************************************************************************)
EXTENDS FiniteSets

CONSTANTS
    Agent, DefaultAgent,
    Legacy,      \* the owner of the legacy secret
    Token,
    NoOne,       \* no agent: an unused token's owner, an idle call's agent
    NoMap,       \* token_map before its first call
    Container, Call

Owner == Agent \cup {Legacy}

ASSUME AuthAssumption ==
    /\ DefaultAgent \in Agent
    /\ Legacy \notin Agent
    /\ NoOne \notin Owner \cup Container \cup Token

VARIABLES
    secret,    \* secret[o]: the token Secrets Manager holds for o
    issued,    \* issued[t]: the owner t was made for
    known,     \* token_map of each container: its <<token, agent>> pairs
    unread,    \* the agents whose secret could not be read for it
    stale,     \* the owners whose secret has changed since
    context    \* each request's container, token and agent (the ContextVar)

auth == <<secret, issued, known, unread, stale, context>>

AgentOf(o) == IF o = Legacy THEN DefaultAgent ELSE o

NoContext == [container |-> NoOne, token |-> NoOne, agent |-> NoOne]

AuthTypeOK ==
    /\ secret \in [Owner -> Token]
    /\ issued \in [Token -> Owner \cup {NoOne}]
    /\ known \in [Container -> (SUBSET (Token \X Agent)) \cup {NoMap}]
    /\ unread \in [Container -> SUBSET Agent]
    /\ stale \in [Container -> SUBSET Owner]
    /\ context \in [Call -> [container : Container, token : Token, agent : Agent]
                            \cup {NoContext}]

AuthInit ==
    /\ secret \in [Owner -> Token]
    /\ \A o, p \in Owner : secret[o] = secret[p] => o = p
    /\ issued = [t \in Token |-> IF \E o \in Owner : secret[o] = t
                                 THEN CHOOSE o \in Owner : secret[o] = t ELSE NoOne]
    /\ known = [c \in Container |-> NoMap]
    /\ unread = [c \in Container |-> {}]
    /\ stale = [c \in Container |-> {}]
    /\ context = [k \in Call |-> NoContext]
--------------------------------------------------------------------------------
(* Seeded defect: the first secret that cannot be read ends the loop.      *)
Mapping_StopsAt(failed) ==
    {<<secret[Legacy], DefaultAgent>>}
        \cup {<<secret[a], a>> : a \in IF failed = {} THEN Agent ELSE {}}

(* token_map: the legacy token (without it the request fails, and nothing  *)
(* is kept), and those agents' tokens that can be read.                    *)
Mapping(failed) ==
    {<<secret[Legacy], DefaultAgent>>} \cup {<<secret[a], a>> : a \in Agent \ failed}

Load(c, failed) ==
    /\ known[c] = NoMap
    /\ known' = [known EXCEPT ![c] = Mapping(failed)]
    /\ unread' = [unread EXCEPT ![c] = failed]
    /\ UNCHANGED <<secret, issued, stale, context>>

(* _resolve: the agent a token stands for in this container's map.         *)
Matches(c, t) == {a \in Agent : <<t, a>> \in known[c]}

(* Seeded defect: the identity is kept per container, not per request.     *)
Admit_Global(k, c, t) ==
    /\ known[c] # NoMap
    /\ \E a \in Matches(c, t) :
        context' = [j \in Call |->
            IF j = k THEN [container |-> c, token |-> t, agent |-> a]
            ELSE IF context[j].container = c THEN [context[j] EXCEPT !.agent = a]
            ELSE context[j]]
    /\ UNCHANGED <<secret, issued, known, unread, stale>>

(* The middleware passes the request on with its identity ...              *)
Admit(k, c, t) ==
    /\ known[c] # NoMap
    /\ \E a \in Matches(c, t) :
        context' = [context EXCEPT ![k] = [container |-> c, token |-> t, agent |-> a]]
    /\ UNCHANGED <<secret, issued, known, unread, stale>>

(* ... or answers 401.                                                     *)
Refuse(c, t) ==
    /\ known[c] # NoMap
    /\ Matches(c, t) = {}
    /\ UNCHANGED auth

(* set_current_agent's value, as the tools of request k read it.           *)
current_agent_id(k) == context[k].agent

Leave(k) ==
    /\ context' = [context EXCEPT ![k] = NoContext]
    /\ UNCHANGED <<secret, issued, known, unread, stale>>

(* The operator puts a new token in the place of one.                      *)
Rotate(o, t) ==
    /\ issued[t] = NoOne
    /\ secret' = [secret EXCEPT ![o] = t]
    /\ issued' = [issued EXCEPT ![t] = o]
    /\ stale' = [c \in Container |-> IF known[c] = NoMap THEN {} ELSE stale[c] \cup {o}]
    /\ UNCHANGED <<known, unread, context>>

(* A container without requests is replaced, by Lambda or by the operator. *)
Replace(c) ==
    /\ known[c] # NoMap
    /\ \A k \in Call : context[k].container # c
    /\ known' = [known EXCEPT ![c] = NoMap]
    /\ unread' = [unread EXCEPT ![c] = {}]
    /\ stale' = [stale EXCEPT ![c] = {}]
    /\ UNCHANGED <<secret, issued, context>>
--------------------------------------------------------------------------------
InForce(t) == \E o \in Owner : secret[o] = t

(* Every request is served as the agent its token was made for, for as     *)
(* long as it runs: "concurrent requests with different tokens never see   *)
(* each other's identity" (identity.py), and neither a rotation nor another*)
(* container's map changes it.                                             *)
ServedAsOwner ==
    \A k \in Call : context[k] # NoContext =>
        /\ issued[context[k].token] # NoOne
        /\ context[k].agent = AgentOf(issued[context[k].token])

(* What a container's cached map can get wrong, and nothing else: a token  *)
(* that was rotated away is admitted only by a container that has been     *)
(* warm since before, and one in force is refused only by such a container *)
(* or by one that could not read this agent's secret.                      *)
AdmissionLags ==
    \A c \in Container, t \in Token : known[c] # NoMap =>
        /\ Matches(c, t) # {} /\ ~InForce(t) => issued[t] \in stale[c]
        /\ Matches(c, t) = {} /\ InForce(t) => issued[t] \in stale[c] \cup unread[c]

(* The parts of the inductive invariant the proofs rest on: a secret in    *)
(* force is its owner's, and a container's map says of no token that it is *)
(* anyone's but its owner's.                                               *)
SecretsAreOwn == \A o \in Owner : issued[secret[o]] = o

MapsAreHonest ==
    \A c \in Container : known[c] # NoMap =>
        \A e \in known[c] : issued[e[1]] # NoOne /\ e[2] = AgentOf(issued[e[1]])

AuthInv == AuthTypeOK /\ SecretsAreOwn /\ MapsAreHonest /\ AdmissionLags /\ ServedAsOwner
================================================================================
