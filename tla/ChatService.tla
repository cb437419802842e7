---------------------------- MODULE ChatService ----------------------------
(***************************************************************************)
(* What TaskDone promises about the chats it has queued, without streams,  *)
(* pods or autoscalers.  An entry is one time that a chat was queued: one, *)
(* unless the client's library sent its XADD again.  It is open until it   *)
(* is answered or lost; it is answered by one reply, only while it is      *)
(* open; that reply may be published several times if its PUBLISH is sent  *)
(* again; and neither an answer nor a loss is ever taken back.             *)
(* AgentQueue is shown to implement this specification.                    *)
(***************************************************************************)
EXTENDS Naturals

CONSTANT Entries    \* what may be queued

VARIABLES status,   \* status[e]: what has become of entry e
          answers   \* answers[e]: how often its reply was published

svcVars == <<status, answers>>

SvcInit ==
    /\ status = [e \in Entries |-> "new"]
    /\ answers = [e \in Entries |-> 0]

Accept(e) ==
    /\ status[e] = "new"
    /\ status' = [status EXCEPT ![e] = "open"]
    /\ UNCHANGED answers

Answer(e) ==
    /\ status[e] = "open"
    /\ status' = [status EXCEPT ![e] = "answered"]
    /\ answers' = [answers EXCEPT ![e] = @ + 1]

Repeat(e) ==
    /\ status[e] = "answered"
    /\ answers' = [answers EXCEPT ![e] = @ + 1]
    /\ UNCHANGED status

(* A Redis restart or a scale-down takes several open entries at once. *)
Lose(S) ==
    /\ \A e \in S : status[e] = "open"
    /\ status' = [e \in Entries |-> IF e \in S THEN "lost" ELSE status[e]]
    /\ UNCHANGED answers

SvcNext ==
    \/ \E e \in Entries : Accept(e) \/ Answer(e) \/ Repeat(e)
    \/ \E S \in SUBSET Entries : Lose(S)

SvcSpec == SvcInit /\ [][SvcNext]_svcVars
=============================================================================
