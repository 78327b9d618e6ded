---------------------------- MODULE MCSendGuardrails ----------------------------
(* One conversation with one or two send_message calls at a time.  The budget *)
(* counts any agent's messages: one identity stands for all.                  *)
EXTENDS SendGuardrails, TLC

CONSTANTS wilma

MCAgentOf == [s \in Sender |-> wilma]

Same == Permutations(Sender)
================================================================================
