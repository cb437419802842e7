------------------------------- MODULE ChatLog -------------------------------
(***************************************************************************)
(* What the session store of klyde-agent promises, without keys, buckets   *)
(* or transactions: a session is opened once, is an append-only log of     *)
(* messages while it lives, and is discarded with all of it.               *)
(* SessionStore is shown to implement this specification.                  *)
(***************************************************************************)
EXTENDS Sequences

CONSTANTS Sids,     \* session ids
          Message   \* what a log holds

VARIABLES living,   \* sessions that exist
          ended,    \* sessions that were discarded
          log       \* log[s]: the messages of s, oldest first

logVars == <<living, ended, log>>

LogInit ==
    /\ living = {} /\ ended = {}
    /\ log = [s \in Sids |-> <<>>]

Open(s) ==
    /\ s \notin living \cup ended
    /\ living' = living \cup {s}
    /\ UNCHANGED <<ended, log>>

Say(s, m) ==
    /\ s \in living
    /\ log' = [log EXCEPT ![s] = Append(@, m)]
    /\ UNCHANGED <<living, ended>>

Discard(s) ==
    /\ s \in living
    /\ living' = living \ {s}
    /\ ended' = ended \cup {s}
    /\ log' = [log EXCEPT ![s] = <<>>]

LogNext == \E s \in Sids : Open(s) \/ Discard(s) \/ \E m \in Message : Say(s, m)

LogSpec == LogInit /\ [][LogNext]_logVars
=============================================================================
