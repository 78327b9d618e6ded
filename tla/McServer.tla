-------------------------------- MODULE McServer --------------------------------
(***************************************************************************)
(* Requests to the MCP server (mcpServer/app.py): the bearer middleware    *)
(* admits a request and gives it its identity (BearerAuth), one tool runs  *)
(* under it (Directory), and the request ends.  Requests run at once, in   *)
(* one container and in several, and die with it.                          *)
(***************************************************************************)
EXTENDS Directory

vars == <<auth, directory>>

TypeOK == AuthTypeOK /\ DirectoryTypeOK

Init == AuthInit /\ DirectoryInit

(* The first request of a container reads the secrets; some may fail.      *)
StartContainer(c) ==
    /\ \E failed \in SUBSET Agent : Load(c, failed)
    /\ UNCHANGED directory

Request(k, c, t) ==
    /\ context[k] = NoContext
    /\ \/ /\ Admit(k, c, t)
          /\ \E tool \in Tool, about \in Query \cup Person \cup {Nobody} :
                BeginTask(k, tool, about)
       \/ Refuse(c, t) /\ UNCHANGED directory

(* The tool of a request reads the identity wherever it needs it.          *)
RunTool(k) ==
    /\ context[k] # NoContext
    /\ ToolStep(k, context[k].container, current_agent_id(k))
    /\ UNCHANGED auth

(* The answer is sent, or the request dies.                                *)
EndRequest(k) ==
    /\ context[k] # NoContext
    /\ Leave(k)
    /\ EndTask(k)

RotateSecret(o, t) ==
    /\ Rotate(o, t)
    /\ UNCHANGED directory

ReplaceContainer(c) ==
    /\ Replace(c)
    /\ ForgetOpened(c)

PersonWrites(a, p) ==
    /\ PersonOpens(a, p)
    /\ UNCHANGED auth

GroupEvent(g) ==
    /\ IngestRow(g)
    /\ UNCHANGED auth

Next ==
    \/ \E k \in Call :
        \/ \E c \in Container, t \in Token : Request(k, c, t)
        \/ RunTool(k)
        \/ EndRequest(k)
    \/ \E c \in Container : StartContainer(c) \/ ReplaceContainer(c)
    \/ \E o \in Owner, t \in Token : RotateSecret(o, t)
    \/ \E a \in Agent, p \in Person : PersonWrites(a, p)
    \/ \E g \in Group : GroupEvent(g)

Spec == Init /\ [][Next]_vars
--------------------------------------------------------------------------------
(* Whatever runs at the same time, whatever the containers have cached and *)
(* whatever was rotated: the direct and group messages a tool finds are    *)
(* those of the agent the request's token was made for.                    *)
OwnConversationsOnly ==
    \A k \in Call : context[k] # NoContext =>
        \A conv \in task[k].found :
            MayName(AgentOf(issued[context[k].token]), conv)

TasksAreOwn ==
    \A k \in Call :
        /\ context[k] = NoContext => task[k] = NoTask
        /\ context[k] # NoContext => TaskOf(context[k].agent, task[k], KnownGroups)

(* The inductive invariant the proofs rest on.                             *)
ServerInv == AuthInv /\ DirectoryTypeOK /\ OpenedIsRight /\ TasksAreOwn
================================================================================
