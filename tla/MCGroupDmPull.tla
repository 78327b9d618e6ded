----------------------------- MODULE MCGroupDmPull -----------------------------
(* A group DM of up to MaxTs messages; message 1 is an agent's own.         *)
EXTENDS GroupDmPull

CONSTANTS wilma

MCAuthorOf == [t \in Ts |-> IF t = 1 THEN wilma ELSE NoAgent]
================================================================================
