----------------------------- MODULE AgentTurn -----------------------------
(***************************************************************************)
(* One chat in an agent-worker pod: the tool-use loop run_agent_turn, the  *)
(* MCP calls it makes, and process_entry around it.  AgentQueue takes all  *)
(* of this for the steps turn, reply and notify of a pod.                  *)
(*                                                                         *)
(* Text is left out.  The tool_use blocks of a turn are numbered in the    *)
(* order the model emits them; a message is its role and the numbers of    *)
(* the blocks, or of the results, it consists of.                          *)
(*                                                                         *)
(* A tool call takes effect below the worker: at mcp-server, api, MySQL    *)
(* and Redis (TodoTools).  A call that is answered with success took       *)
(* effect.  Three kinds of calls are unsure: one answered with an error,   *)
(* which may be no more than mcp-server's client giving up after 10 s or   *)
(* api's store after 5 s; one whose Redis command go-redis sends again;    *)
(* and one that raised, because the worker itself gave up after 15 s or    *)
(* died.  An unsure call takes effect or not, and later (late) or not.     *)
(***************************************************************************)
EXTENDS Integers, Sequences, FiniteSets, SequencesExt

CONSTANTS MaxToolIterations,  \* MAX_TOOL_ITERATIONS: 8
          MaxBlocks,          \* bound: tool_use blocks in one response
          MaxUnsure           \* bound: unsure calls that are answered

ASSUME TurnAssumption ==
    /\ MaxToolIterations \in Nat \ {0} /\ MaxBlocks \in Nat \ {0}
    /\ MaxUnsure \in Nat

VARIABLES at,          \* where the pod is
          iteration,   \* of the loop
          messages,    \* the conversation sent to the model
          asked,       \* tool_use blocks the model has emitted
          results,     \* results of the current response's blocks
          late,        \* calls that may still take effect, or again
          reply,       \* what the turn returned
          effects,     \* history: the calls that took effect, in that order
          unannounced, \* history: effects since the last todos:changed
          unsure,      \* history: calls of which no answer was certain
          raised       \* history: the call in hand when it raised, or 0

loopVars == <<iteration, messages, asked, results>>
toolVars == <<late, effects, unannounced, unsure, raised>>
vars == <<at, loopVars, reply, toolVars>>

User(ids)      == [role |-> "user", ids |-> ids]
Assistant(ids) == [role |-> "assistant", ids |-> ids]

Places  == {"entry", "model", "tool", "reply", "notify", "done", "dead"}
Replies == {"none", "text", "limit", "error"}

TypeOK ==
    /\ at \in Places
    /\ iteration \in 0..MaxToolIterations
    /\ asked \in 0..(MaxToolIterations * MaxBlocks)
    /\ messages \in Seq([role : {"user", "assistant"}, ids : Seq(1..asked)])
    /\ results \in Seq(1..asked)
    /\ late \in SUBSET (1..asked)
    /\ effects \in Seq(1..asked)
    /\ reply \in Replies /\ (at \in {"reply", "notify", "done"} => reply # "none")
    /\ unannounced \in SUBSET (1..asked) /\ unsure \in SUBSET (1..asked)
    /\ raised \in 0..asked

Init ==
    /\ at = "entry" /\ reply = "none"
    /\ iteration = 0 /\ messages = <<>> /\ asked = 0 /\ results = <<>>
    /\ late = {} /\ effects = <<>> /\ unannounced = {} /\ unsure = {} /\ raised = 0

-----------------------------------------------------------------------------
(* run_agent_turn *)

Begin ==
    /\ at = "entry"
    /\ at' = "model" /\ iteration' = 1 /\ messages' = <<User(<<>>)>>
    /\ UNCHANGED <<asked, results, reply, toolVars>>

Blocks(n) == [k \in 1..n |-> asked + k]

\* Mutant: the limit is looked at before the tools are run.
WantToolsBelowLimit(n) ==
    /\ at = "model" /\ n > 0
    /\ messages' = Append(messages, Assistant(Blocks(n)))
    /\ asked' = asked + n
    /\ results' = <<>>
    /\ IF iteration < MaxToolIterations
       THEN at' = "tool" /\ UNCHANGED reply
       ELSE at' = "reply" /\ reply' = "limit"
    /\ UNCHANGED <<iteration, toolVars>>

\* stop_reason "tool_use"
WantTools(n) ==
    /\ at = "model" /\ n > 0
    /\ messages' = Append(messages, Assistant(Blocks(n)))
    /\ asked' = asked + n
    /\ results' = <<>>
    /\ at' = "tool"
    /\ UNCHANGED <<iteration, reply, toolVars>>

\* Any other stop_reason: the text is the reply.  A response cut off by
\* max_tokens may hold blocks, which are not run.
Finish(n) ==
    /\ at = "model"
    /\ messages' = Append(messages, Assistant(Blocks(n)))
    /\ asked' = asked + n
    /\ at' = "reply" /\ reply' = "text"
    /\ UNCHANGED <<iteration, results, toolVars>>

\* An exception anywhere in the turn is caught by process_entry.
Fail == at' = "reply" /\ reply' = "error"

ModelFails ==
    /\ at = "model"
    /\ Fail
    /\ UNCHANGED <<loopVars, toolVars>>

Current == Last(messages).ids
Call    == Current[Len(results) + 1]
Calling == at = "tool" /\ Len(results) < Len(Current)

TakesEffect(id) ==
    /\ effects' = Append(effects, id)
    /\ unannounced' = unannounced \cup {id}

\* The call is answered with success, and nothing of it was sent twice.
CallSucceeds ==
    /\ Calling
    /\ TakesEffect(Call)
    /\ results' = Append(results, Call)
    /\ UNCHANGED <<at, iteration, messages, asked, reply, late, unsure, raised>>

Unsure ==
    /\ unsure' = unsure \cup {Call}
    /\ TakesEffect(Call) \/ UNCHANGED <<effects, unannounced>>
    /\ late' \in {late, late \cup {Call}}

\* It is answered, and the loop goes on: with is_error, or with success after
\* a Redis command was sent again.
CallUnsure ==
    /\ Calling /\ Cardinality(unsure) < MaxUnsure
    /\ Unsure
    /\ results' = Append(results, Call)
    /\ UNCHANGED <<at, iteration, messages, asked, reply, raised>>

\* The worker learns nothing.
GiveUp == Unsure /\ raised' = Call

\* Mutant: the exception of a call is caught as the call's error.
CallFailsCaught ==
    /\ Calling
    /\ GiveUp
    /\ results' = Append(results, Call)
    /\ UNCHANGED <<at, iteration, messages, asked, reply>>

\* A timeout, an HTTP error or a JSON-RPC error raises in call_tool.
CallFails ==
    /\ Calling
    /\ GiveUp
    /\ Fail
    /\ UNCHANGED loopVars

\* Mutant: each result is a message of its own.
NextRoundSplit ==
    /\ at = "tool" /\ Len(results) = Len(Current)
    /\ messages' = messages \o [k \in 1..Len(results) |-> User(<<results[k]>>)]
    /\ IF iteration < MaxToolIterations
       THEN at' = "model" /\ iteration' = iteration + 1 /\ UNCHANGED reply
       ELSE at' = "reply" /\ reply' = "limit" /\ UNCHANGED iteration
    /\ UNCHANGED <<asked, results, toolVars>>

\* Mutant: one round too many.
NextRoundOneMore ==
    /\ at = "tool" /\ Len(results) = Len(Current)
    /\ messages' = Append(messages, User(results))
    /\ IF iteration <= MaxToolIterations
       THEN at' = "model" /\ iteration' = iteration + 1 /\ UNCHANGED reply
       ELSE at' = "reply" /\ reply' = "limit" /\ UNCHANGED iteration
    /\ UNCHANGED <<asked, results, toolVars>>

\* All blocks have results.  After the last round the loop ends.
NextRound ==
    /\ at = "tool" /\ Len(results) = Len(Current)
    /\ messages' = Append(messages, User(results))
    /\ IF iteration < MaxToolIterations
       THEN at' = "model" /\ iteration' = iteration + 1 /\ UNCHANGED reply
       ELSE at' = "reply" /\ reply' = "limit" /\ UNCHANGED iteration
    /\ UNCHANGED <<asked, results, toolVars>>

-----------------------------------------------------------------------------
(* process_entry, after the turn; mcp-server; and the pod's end. *)

\* Mutant: todos:changed is published only when the turn went well.
PublishReplyOnly ==
    /\ at = "reply"
    /\ at' = IF reply = "error" THEN "done" ELSE "notify"
    /\ UNCHANGED <<loopVars, reply, toolVars>>

PublishReply ==
    /\ at = "reply"
    /\ at' = "notify"
    /\ UNCHANGED <<loopVars, reply, toolVars>>

PublishChanged ==
    /\ at = "notify"
    /\ at' = "done" /\ unannounced' = {}
    /\ UNCHANGED <<loopVars, reply, late, effects, unsure, raised>>

LateEffect ==
    \E id \in late :
        /\ late' = late \ {id}
        /\ TakesEffect(id)
        /\ UNCHANGED <<at, loopVars, reply, unsure, raised>>

\* The pod is killed, or Redis fails a PUBLISH and main() exits.
Die ==
    /\ at \notin {"entry", "done", "dead"}
    /\ at' = "dead"
    /\ IF Calling THEN GiveUp ELSE UNCHANGED toolVars
    /\ UNCHANGED <<loopVars, reply>>

-----------------------------------------------------------------------------
Next ==
    \/ Begin
    \/ \E n \in 1..MaxBlocks : WantTools(n)
    \/ \E n \in 0..MaxBlocks : Finish(n)
    \/ ModelFails
    \/ CallSucceeds \/ CallUnsure \/ CallFails
    \/ NextRound
    \/ PublishReply \/ PublishChanged
    \/ LateEffect
    \/ Die

Spec == Init /\ [][Next]_vars

-----------------------------------------------------------------------------
(* Properties. *)

\* What the Messages API demands of a conversation, or else refuses it: it
\* starts with the user, the roles alternate, and the message after one with
\* tool_use blocks holds their results, all of them and in order.
WellFormed ==
    /\ \A i \in DOMAIN messages :
         messages[i].role = IF i % 2 = 1 THEN "user" ELSE "assistant"
    /\ \A i \in DOMAIN messages :
         i % 2 = 0 /\ i < Len(messages) => messages[i + 1].ids = messages[i].ids
    /\ at = "model" => Len(messages) % 2 = 1

\* A call that the model was told had succeeded has taken effect once, and
\* before every call that the model asked for after it, whichever of them come
\* late.  A call that was answered with an error may be overtaken, and a call
\* that raised may not: the turn ends with it.
EffectsInOrder ==
    /\ \A i, j \in DOMAIN effects :
          i < j /\ effects[j] \notin unsure => effects[i] < effects[j]
    /\ \A i \in DOMAIN effects : raised # 0 => effects[i] <= raised

\* A turn that is done, well or with an error or at the limit, has told the
\* gateway of every change it made, but for those that came late: each of them
\* is of a call that was answered with an error, sent again or given up.
AnnouncedUnlessLate == at = "done" => unannounced \subseteq unsure

\* "I made some changes but hit my tool-call limit": MaxToolIterations rounds
\* were run to their end, and every call of them took effect or came back to
\* the model as one that may have failed.
LimitIsTrue ==
    reply = "limit" =>
        /\ Len(messages) = 2 * MaxToolIterations + 1 /\ raised = 0
        /\ asked >= MaxToolIterations
        /\ 1..asked \subseteq Range(effects) \cup unsure

=============================================================================
