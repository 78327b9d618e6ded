------------------------------ MODULE MCNameCache ------------------------------
(* An agent's bot, with a display name of its own, and a person without any  *)
(* name, looked up by two containers of ingest and two tool calls.           *)
EXTENDS NameCache, TLC

Others == Permutations(Reader) \cup Permutations(Ingest)
================================================================================
