----------------------------- MODULE AgentQueue -----------------------------
(***************************************************************************)
(* The chat queue of TaskDone: the Redis stream agent:tasks, its consumer  *)
(* group agent-workers, the agent-worker pods that consume it, the KEDA    *)
(* ScaledObject that starts and stops those pods, and the one-shot Job     *)
(* that creates the group.                                                 *)
(*                                                                         *)
(* A chat is one websocket frame and one call of XAdd, but go-redis sends  *)
(* a command again when the connection fails after it was sent: each       *)
(* sending that Redis executes is an entry of its own, with an id of its   *)
(* own, and is answered on its own.  Which entries are of the same chat    *)
(* makes no difference to the queue (see ChatTab).                         *)
(*                                                                         *)
(* Redis stream ids only grow: the sequence `stream' with the position     *)
(* `last' of the group's last-delivered id stands for them.  Entries are   *)
(* acknowledged but never deleted from the stream.                         *)
(*                                                                         *)
(* The worker's client is redis-py from version 8.1 on, with the retries   *)
(* it has by default, which differ between versions: the model lets it     *)
(* send again.  A PUBLISH may then be executed more than once              *)
(* (RepeatReply), an XREADGROUP deliver an entry that no pod learns of     *)
(* (ReadLost); XACK, XGROUP CREATE and todos:changed do the same twice as  *)
(* once.  What a pod had sent when it exits (Crash) counts as executed     *)
(* before the exit or not at all.                                          *)
(*                                                                         *)
(* Time is abstracted: a turn of the model may outlast KEDA's cooldown, so *)
(* the scaler may act between any two steps of a pod.                      *)
(***************************************************************************)
EXTENDS Integers, Sequences, FiniteSets

CONSTANTS Entries,      \* what Redis may put in the stream: an entry for each
                        \* sending of a chat's XADD that it executes
          Pods,         \* agent-worker pods that may exist
          MaxReplicas,  \* maxReplicaCount of the ScaledObject
          MaxFaults,    \* bound: container exits outside the scaler's doing,
                        \* and answers of Redis lost on their way to a pod
          MaxRestarts,  \* bound: restarts of the Redis pod
          None          \* no entry

ASSUME QueueAssumption ==
    /\ MaxReplicas \in Nat \ {0}
    /\ MaxFaults \in Nat
    /\ MaxRestarts \in Nat
    /\ None \notin Entries

VARIABLES queued,     \* history: entries that were ever put in the stream
          stream,     \* entries of agent:tasks, oldest first
          group,      \* does the consumer group exist?
          last,       \* position of the group's last-delivered entry
          pending,    \* the group's pending entries: delivered, not acked
          job,        \* is a run of the init-agent-stream Job due?
          pc,         \* pc[p]: where pod p is in main()
          work,       \* work[p]: the entry pod p is processing
          delivered,  \* history: entries XREADGROUP has delivered
          replies,    \* replies[e]: how often a reply to e was published
          notified,   \* entries after which todos:changed was published
          faults, restarts

redisVars == <<stream, group, last, pending>>
podVars   == <<pc, work>>
outVars   == <<delivered, replies, notified>>
envVars   == <<faults, restarts>>
vars == <<queued, redisVars, job, podVars, outVars, envVars>>

PodState == {"absent", "boot", "mcp", "read", "turn", "reply", "notify", "ack"}
Busy     == {"turn", "reply", "notify", "ack"}

TypeOK ==
    /\ queued \in SUBSET Entries
    /\ stream \in Seq(Entries)
    /\ group \in BOOLEAN
    /\ last \in 0..Len(stream)
    /\ pending \in SUBSET Entries
    /\ job \in BOOLEAN
    /\ pc \in [Pods -> PodState]
    /\ work \in [Pods -> Entries \cup {None}]
    /\ delivered \in SUBSET Entries
    /\ replies \in [Entries -> Nat]
    /\ notified \in SUBSET Entries
    /\ faults \in 0..MaxFaults
    /\ restarts \in 0..MaxRestarts

Init ==
    /\ queued = {}
    /\ stream = <<>> /\ group = FALSE /\ last = 0 /\ pending = {}
    /\ job = TRUE
    /\ pc = [p \in Pods |-> "absent"]
    /\ work = [p \in Pods |-> None]
    /\ delivered = {}
    /\ replies = [e \in Entries |-> 0]
    /\ notified = {}
    /\ faults = 0 /\ restarts = 0

-----------------------------------------------------------------------------
(* The gateway: the "chat" branch of handleWS. *)

(* One sending of the chat's XADD is executed: at once, or late, when its  *)
(* connection has failed and the gateway has sent it again or given up.    *)
(* An XADD of which no sending is executed changes nothing; the gateway    *)
(* logs the error and tells nobody.                                        *)
Enqueue(e) ==
    /\ e \notin queued
    /\ queued' = queued \cup {e}
    /\ stream' = Append(stream, e)
    /\ UNCHANGED <<group, last, pending, job, podVars, outVars, envVars>>

-----------------------------------------------------------------------------
(* Mutant: the group starts after the entries already in the stream. *)
CreateGroupAtEnd ==
    /\ group' = TRUE
    /\ last' = IF group THEN last ELSE Len(stream)

(* The consumer group.  XGROUP CREATE ... 0 MKSTREAM starts the group      *)
(* before the first entry; on an existing group it fails with BUSYGROUP,   *)
(* which both callers ignore.                                              *)

CreateGroup ==
    /\ group' = TRUE
    /\ last' = IF group THEN last ELSE 0

InitStreamJob ==
    /\ job
    /\ job' = FALSE
    /\ CreateGroup
    /\ UNCHANGED <<queued, stream, pending, podVars, outVars, envVars>>

(* kubectl apply -k, or an ArgoCD sync, runs the Job again. *)
Reapply ==
    /\ ~job
    /\ job' = TRUE
    /\ UNCHANGED <<queued, redisVars, podVars, outVars, envVars>>

-----------------------------------------------------------------------------
(* One agent-worker pod: main() and process_entry(). *)

Goto(p, state) == pc' = [pc EXCEPT ![p] = state]

EnsureGroup(p) ==
    /\ pc[p] = "boot"
    /\ CreateGroup
    /\ Goto(p, "mcp")
    /\ UNCHANGED <<queued, stream, pending, job, work, outVars, envVars>>

LoadTools(p) ==
    /\ pc[p] = "mcp"
    /\ Goto(p, "read")
    /\ UNCHANGED <<queued, redisVars, job, work, outVars, envVars>>

(* Mutant: XREADGROUP with NOACK. *)
ReadNoAck(p) ==
    /\ pc[p] = "read"
    /\ group /\ last < Len(stream)
    /\ work' = [work EXCEPT ![p] = stream[last + 1]]
    /\ delivered' = delivered \cup {stream[last + 1]}
    /\ last' = last + 1
    /\ Goto(p, "turn")
    /\ UNCHANGED <<queued, stream, group, pending, job, replies, notified, envVars>>

(* Mutant: a restarted pod first takes over what the group has pending. *)
ReadPendingFirst(p) ==
    /\ pc[p] = "read"
    /\ group /\ (pending # {} \/ last < Len(stream))
    /\ \E e \in IF pending # {} THEN pending ELSE {stream[last + 1]} :
         /\ work' = [work EXCEPT ![p] = e]
         /\ pending' = pending \cup {e}
         /\ delivered' = delivered \cup {e}
    /\ last' = IF pending # {} THEN last ELSE last + 1
    /\ Goto(p, "turn")
    /\ UNCHANGED <<queued, stream, group, job, replies, notified, envVars>>

(* XREADGROUP ... > COUNT 1: the next entry never delivered to the group. *)
Read(p) ==
    /\ pc[p] = "read"
    /\ group /\ last < Len(stream)
    /\ LET e == stream[last + 1] IN
         /\ work' = [work EXCEPT ![p] = e]
         /\ pending' = pending \cup {e}
         /\ delivered' = delivered \cup {e}
    /\ last' = last + 1
    /\ Goto(p, "turn")
    /\ UNCHANGED <<queued, stream, group, job, replies, notified, envVars>>

(* The answer of XREADGROUP is lost and the client sends it again: for the *)
(* group the entry is delivered, and the pod gets the next one.            *)
ReadLost(p) ==
    /\ pc[p] = "read"
    /\ group /\ last < Len(stream)
    /\ faults < MaxFaults
    /\ faults' = faults + 1
    /\ pending' = pending \cup {stream[last + 1]}
    /\ delivered' = delivered \cup {stream[last + 1]}
    /\ last' = last + 1
    /\ UNCHANGED <<queued, stream, group, job, podVars, replies, notified, restarts>>

(* NOGROUP is a ResponseError nobody catches: the container restarts. *)
ReadNoGroup(p) ==
    /\ pc[p] = "read"
    /\ ~group
    /\ Goto(p, "boot")
    /\ UNCHANGED <<queued, redisVars, job, work, outVars, envVars>>

(* run_agent_turn returns, or raises and the error becomes the reply. *)
FinishTurn(p) ==
    /\ pc[p] = "turn"
    /\ Goto(p, "reply")
    /\ UNCHANGED <<queued, redisVars, job, work, outVars, envVars>>

PublishReply(p) ==
    /\ pc[p] = "reply"
    /\ replies' = [replies EXCEPT ![work[p]] = @ + 1]
    /\ Goto(p, "notify")
    /\ UNCHANGED <<queued, redisVars, job, work, delivered, notified, envVars>>

(* The connection fails before the answer to a PUBLISH arrives, and the    *)
(* client sends it again; the first sending may also be executed late.     *)
RepeatReply(e) ==
    /\ replies[e] > 0
    /\ faults < MaxFaults
    /\ faults' = faults + 1
    /\ replies' = [replies EXCEPT ![e] = @ + 1]
    /\ UNCHANGED <<queued, redisVars, job, podVars, delivered, notified, restarts>>

PublishChanged(p) ==
    /\ pc[p] = "notify"
    /\ notified' = notified \cup {work[p]}
    /\ Goto(p, "ack")
    /\ UNCHANGED <<queued, redisVars, job, work, delivered, replies, envVars>>

Ack(p) ==
    /\ pc[p] = "ack"
    /\ pending' = pending \ {work[p]}
    /\ work' = [work EXCEPT ![p] = None]
    /\ Goto(p, "read")
    /\ UNCHANGED <<queued, stream, group, last, job, outVars, envVars>>

(* Mutant: a restarted pod goes on with the entry it had. *)
CrashResumes(p) ==
    /\ pc[p] # "absent"
    /\ faults < MaxFaults
    /\ faults' = faults + 1
    /\ Goto(p, IF work[p] = None THEN "boot" ELSE "turn")
    /\ UNCHANGED <<queued, redisVars, job, work, outVars, restarts>>

(* The container exits: out of memory, a failing liveness probe, or a      *)
(* Redis error in XREADGROUP, PUBLISH or XACK, which nobody catches.  The  *)
(* kubelet starts it again; main() never looks at its pending entries.     *)
Crash(p) ==
    /\ pc[p] # "absent"
    /\ faults < MaxFaults
    /\ faults' = faults + 1
    /\ work' = [work EXCEPT ![p] = None]
    /\ Goto(p, "boot")
    /\ UNCHANGED <<queued, redisVars, job, outVars, restarts>>

PodStep(p) ==
    \/ EnsureGroup(p)
    \/ LoadTools(p)
    \/ Read(p)
    \/ ReadNoGroup(p)
    \/ FinishTurn(p)
    \/ PublishReply(p)
    \/ PublishChanged(p)
    \/ Ack(p)

-----------------------------------------------------------------------------
(* KEDA and the HPA it generates.  The trigger is the group's lag, entries *)
(* not yet delivered; without the group there is no lag to read, which is  *)
(* why the Job exists.                                                     *)

Live    == {p \in Pods : pc[p] # "absent"}
Lag     == IF group THEN Len(stream) - last ELSE 0
Desired == IF Lag = 0 THEN 1 ELSE IF Lag > MaxReplicas THEN MaxReplicas ELSE Lag

ScaleUp(p) ==
    /\ Lag > 0
    /\ Cardinality(Live) < Desired
    /\ pc[p] = "absent"
    /\ Goto(p, "boot")
    /\ UNCHANGED <<queued, redisVars, job, work, outVars, envVars>>

(* Deleting a pod does not ask whether it is busy. *)
Stop(S) ==
    /\ pc' = [p \in Pods |-> IF p \in S THEN "absent" ELSE pc[p]]
    /\ work' = [p \in Pods |-> IF p \in S THEN None ELSE work[p]]
    /\ UNCHANGED <<queued, redisVars, job, outVars, envVars>>

ScaleDown(p) ==
    /\ pc[p] # "absent"
    /\ Cardinality(Live) > Desired
    /\ Stop({p})

(* The trigger has been inactive for cooldownPeriod. *)
ScaleToZero ==
    /\ Lag = 0
    /\ Live # {}
    /\ Stop(Live)

(* Mutant: the group's position outlives the stream. *)
RedisRestartKeepsLast ==
    /\ restarts < MaxRestarts
    /\ restarts' = restarts + 1
    /\ stream' = <<>> /\ group' = FALSE /\ pending' = {}
    /\ UNCHANGED <<queued, last, job, podVars, outVars, faults>>

(* Redis has no volume: stream, group and pending entries are gone. *)
RedisRestart ==
    /\ restarts < MaxRestarts
    /\ restarts' = restarts + 1
    /\ stream' = <<>> /\ group' = FALSE /\ last' = 0 /\ pending' = {}
    /\ UNCHANGED <<queued, job, podVars, outVars, faults>>

-----------------------------------------------------------------------------
Next ==
    \/ \E e \in Entries : Enqueue(e) \/ RepeatReply(e)
    \/ InitStreamJob
    \/ Reapply
    \/ \E p \in Pods : PodStep(p) \/ ReadLost(p) \/ Crash(p) \/ ScaleUp(p) \/ ScaleDown(p)
    \/ ScaleToZero
    \/ RedisRestart

Spec == Init /\ [][Next]_vars

(* A pod that runs makes progress: its loop of model calls is bounded and  *)
(* every call has a timeout.  KEDA polls every pollingInterval and the Job *)
(* is retried until Redis answers.  Nothing obliges a browser to send, an  *)
(* operator to re-apply, a container to crash or a client to send again.   *)
Fairness ==
    /\ \A p \in Pods : WF_vars(PodStep(p))
    /\ WF_vars(\E p \in Pods : ScaleUp(p))
    /\ WF_vars(InitStreamJob)

FairSpec == Spec /\ Fairness

-----------------------------------------------------------------------------
(* Properties *)

Waiting(e) == \E i \in (last + 1)..Len(stream) : stream[i] = e
Held(e)    == \E p \in Pods : work[p] = e /\ pc[p] \in {"turn", "reply"}

(* Two pods never work on the same entry, and an entry that has been       *)
(* answered is in no pod's turn again, whatever crashes, scale-downs and   *)
(* Redis restarts happen: the group hands an entry to one consumer and     *)
(* nothing ever re-delivers it (agent-worker/main.py, the ">" of           *)
(* xreadgroup).  So a chat has at most as many turns as its XADD was       *)
(* executed, which is once unless go-redis sent it again.                  *)
OneTurnPerEntry ==
    /\ \A p, q \in Pods : p # q /\ work[p] # None => work[p] # work[q]
    /\ \A p \in Pods : pc[p] \in {"turn", "reply"} => replies[work[p]] = 0

(* An entry the group has delivered is either still pending or both its    *)
(* reply and its todos:changed notice have been published: process_entry   *)
(* publishes before main() acknowledges, so an acknowledged chat was       *)
(* never left without an answer.                                           *)
AckedWasAnswered ==
    \A i \in 1..last :
        \/ stream[i] \in pending
        \/ replies[stream[i]] > 0 /\ stream[i] \in notified

(* Once Redis is wiped while no pod runs and no Job is due, no group       *)
(* exists, and nothing in the cluster will create it again.                *)
Wedged == ~group /\ ~job /\ Live = {}

(* The pod that had it was stopped, its delivery was lost on the way to    *)
(* the pod, or Redis was wiped with it.                                    *)
Gone(e) ==
    /\ ~Held(e)
    /\ e \in delivered \/ \A i \in 1..Len(stream) : stream[i] # e

(* An entry of the stream does not wait for ever: it is answered, or the   *)
(* pod or the Redis that had it went away, or the queue is wedged.  This   *)
(* is what scaling from zero on lag has to achieve.                        *)
QueuedIsAnswered ==
    \A e \in Entries : Waiting(e) ~> (replies[e] > 0 \/ Gone(e) \/ Wedged)

(* What the documentation says of scaling in: the workers go back to zero  *)
(* once the messages have been processed.                                  *)
ScaledInWhenProcessed ==
    [][Live # {} /\ Live' = {} =>
         \A i \in 1..Len(stream) : replies[stream[i]] > 0]_vars

-----------------------------------------------------------------------------
(* The abstract service: an entry is open while it waits in the stream or  *)
(* a pod that has not replied yet holds it.                                *)

Status ==
    [e \in Entries |->
        IF replies[e] > 0 THEN "answered"
        ELSE IF e \notin queued THEN "new"
        ELSE IF Waiting(e) \/ Held(e) THEN "open"
        ELSE "lost"]

Service == INSTANCE ChatService WITH status <- Status, answers <- replies

(* Every behaviour of the queue is one the chat service allows. *)
ImplementsService == Service!SvcSpec
=============================================================================
