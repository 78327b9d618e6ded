------------------------------- MODULE MCMcServer -------------------------------
(* Two agents and two requests in one container, a person both agents may    *)
(* know and a group DM of one of them.  There are two pages of channels,     *)
(* dev and ops are exact names on the second: two names on the first contain *)
(* "dev", enough to end that search; one contains "ops".                     *)
EXTENDS McServer, TLC

CONSTANTS wilma, fred, drake, devops, devnews, ops, dev, grp

MCMemberOf == [g \in Group |-> {wilma}]
MCChannelPages == <<{devops, devnews}, {ops, dev}>>
MCUserPages == <<{drake}>>
MCMatching == ("ops" :> {devops, ops, grp, drake}) @@ ("dev" :> {devops, devnews, dev})
MCExact == ("ops" :> {ops}) @@ ("dev" :> {dev})
MCOrder == (dev :> 1) @@ (devnews :> 2) @@ (devops :> 3) @@ (grp :> 4) @@ (ops :> 5)
             @@ (drake :> 0)

Same == Permutations(Call) \cup Permutations(Token)
================================================================================
