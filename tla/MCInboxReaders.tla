---------------------------- MODULE MCInboxReaders ----------------------------
(* The readers on small inboxes: a channel and a DM with one to three       *)
(* messages, some of them the reader's own posts.  A run explores several   *)
(* plans side by side, each with calls and messages of its own.             *)
EXTENDS InboxReaders, TLC

CONSTANTS chan, dm, someone, s1, s2, Posted, Plans

VARIABLE plan   \* fixed at the start: which calls, messages and losses may come

check(args, filter) == [kind |-> "check", args |-> args, filter |-> filter]
wait(args, filter) == [kind |-> "wait", args |-> args, filter |-> filter]

MCMessage == ({chan} \X Posted) \cup {<<dm, 1>>}
OwnFirst == {<<chan, 1>>}
NoneOwn == {}
MCMention == {<<chan, 2>>} \cap MCMessage
MCDmOf == [u \in {someone} |-> dm]

PerSession(waits, checks) == [s \in Session |-> IF s = s1 THEN waits ELSE checks]

(* A check of the one channel beside a sweep ...                            *)
Sweeps == [calls |-> PerSession({check({chan}, "all")}, {Sweep}),
           messages |-> {<<chan, 2>>, <<chan, 3>>}, losses |-> 1]

(* ... a wait for anything beside a sweep, with an own post to get past ... *)
Overlap == [calls |-> PerSession({wait({}, "all")}, {Sweep}),
            messages |-> {<<chan, 1>>, <<chan, 2>>}, losses |-> 0]

(* ... a wait for the mentions of one channel beside checks that filter and *)
(* checks that do not ...                                                   *)
Filtered == [calls |-> PerSession({wait({chan}, "mentions")},
                                  {Sweep, check({chan}, "mentions")}),
             messages |-> {<<chan, 2>>}, losses |-> 0]

(* ... and a wait that names a channel and a person: it reads the DM with   *)
(* the person but takes no events of it.                                    *)
Named == [calls |-> PerSession({wait({chan, someone}, "all")}, {Sweep}),
          messages |-> {<<dm, 1>>}, losses |-> 0]

AllCalls == [s \in Session |-> UNION {p.calls[s] : p \in Plans}]

SidePlans == {Sweeps, Overlap, Filtered, Named}

OneClient == {[calls |-> [s \in Session |-> {Sweep, wait({}, "all")}],
               messages |-> MCMessage, losses |-> 0]}

InPlan ==
    /\ plan' = plan
    /\ stored' \subseteq plan.messages
    /\ known' \subseteq {ChannelOf(m) : m \in plan.messages}
    /\ losses' <= plan.losses
    /\ \A s \in Session :
          session[s] = Idle /\ session'[s] # Idle => session'[s].call \in plan.calls[s]

MCInit == Init /\ plan \in Plans
MCNext == Next /\ InPlan

mcvars == <<vars, plan>>

MCFairness == \A s \in Session :
    /\ WF_mcvars(CallStep(s) /\ InPlan)
    /\ WF_mcvars(Timeout(s) /\ InPlan)
    /\ Sweep \in Calls[s] => SF_mcvars(Start(s, Sweep) /\ InPlan)

MCSpec == MCInit /\ [][MCNext]_mcvars
MCFairSpec == MCSpec /\ MCFairness
================================================================================
