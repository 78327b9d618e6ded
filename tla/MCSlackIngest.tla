----------------------------- MODULE MCSlackIngest -----------------------------
(* The receiver on a small instance: a message from a person, an agent's    *)
(* file post (no metadata), and an edit.                                    *)
EXTENDS SlackIngest

CONSTANTS human, upload, edit, chan, dm, pdf, wilma, relay

MCChannelOf == [m \in Message |-> IF m = upload THEN dm ELSE chan]
MCFilesOf == [m \in Message |-> IF m = upload THEN {pdf} ELSE {}]
MCAuthorOf == [m \in Message |-> IF m = upload THEN wilma ELSE NoAgent]
MCMentioning == {human}
================================================================================
