----------------------------- MODULE MCChatTab -----------------------------
(* Instances of ChatTab for TLC: to each chat there may be two replies. *)
EXTENDS ChatTab

CONSTANTS c1, c2, r1, r1again, r2, r2again

MCChatOf == [r \in Replies |-> IF r \in {r1, r1again} THEN c1 ELSE c2]
=============================================================================
