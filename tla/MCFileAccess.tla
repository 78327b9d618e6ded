----------------------------- MODULE MCFileAccess -----------------------------
(* A channel with the relay in it and the DM of one of two agents; a note   *)
(* that read_file can show and a video whose size Slack understates.  The   *)
(* other agent's app lacks the scope for files.                             *)
EXTENDS FileAccess

CONSTANTS wilma, claude, chan, dmWilma, note, video

MCMember == [app \in App |-> IF app = wilma THEN {chan, dmWilma} ELSE {chan}]
================================================================================
