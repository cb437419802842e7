-------------------------- MODULE AgentQueueProofs --------------------------
(***************************************************************************)
(* Proofs about AgentQueue: type correctness, at most one turn for each    *)
(* entry, that an acknowledged entry was answered, and that the queue      *)
(* implements ChatService, for any number of entries, pods, faults and     *)
(* Redis restarts; and what becomes of an entry that is not answered, step *)
(* by step.                                                                *)
(*                                                                         *)
(* OneTurnPerEntry is not inductive: that an entry is read once rests on   *)
(* the stream holding it once and on the group's position only passing     *)
(* entries that are then known as delivered, and that it has no turn after *)
(* an answer on the pod's program counter telling whether its entry has    *)
(* been answered.                                                          *)
(***************************************************************************)
EXTENDS AgentQueue, SequenceTheorems, TLAPS

(* The stream holds only entries that were queued, each of them once. *)
StreamInv ==
    /\ \A i \in 1..Len(stream) : stream[i] \in queued
    /\ \A i, j \in 1..Len(stream) : stream[i] = stream[j] => i = j

(* What lies beyond the group's position was never handed to a pod. *)
CursorInv ==
    /\ ~group => last = 0
    /\ \A i \in 1..Len(stream) : i > last => stream[i] \notin delivered
    /\ delivered \subseteq queued

(* A pod holds an entry exactly while it is busy. *)
WorkInv == \A p \in Pods : work[p] = None <=> pc[p] \notin Busy

(* What it holds was delivered, and to no other pod. *)
PodInv ==
    /\ \A p \in Pods : work[p] # None => work[p] \in delivered
    /\ \A p, q \in Pods : p # q /\ work[p] # None => work[p] # work[q]

(* How far a pod has come tells what was published for its entry. *)
ReplyInv ==
    /\ \A e \in Entries : e \notin delivered => replies[e] = 0
    /\ \A p \in Pods : pc[p] \in {"turn", "reply"} => replies[work[p]] = 0
    /\ \A p \in Pods : pc[p] \in {"notify", "ack"} => replies[work[p]] > 0
    /\ \A p \in Pods : pc[p] = "ack" => work[p] \in notified

(* TypeOK needs WorkInv: the entry a pod replies to must be an entry. *)
TInv == TypeOK /\ WorkInv
QInv == StreamInv /\ CursorInv /\ PodInv /\ ReplyInv /\ AckedWasAnswered
IInv == TInv /\ QInv

-----------------------------------------------------------------------------
(* Type correctness *)

LEMMA EmptyStream == <<>> \in Seq(Entries) /\ Len(<<>>) = 0
BY EmptySeq

LEMMA TypeInit == Init => TInv
<1> SUFFICES ASSUME Init PROVE TInv
  OBVIOUS
<1> USE QueueAssumption, EmptyStream
    DEF QueueAssumption, Init, PodState, Busy
<1>1. stream \in Seq(Entries) /\ last \in 0..Len(stream)
  OBVIOUS
<1>2. /\ queued \in SUBSET Entries /\ pending \in SUBSET Entries
      /\ notified \in SUBSET Entries /\ delivered \in SUBSET Entries
  OBVIOUS
<1>3. group \in BOOLEAN /\ job \in BOOLEAN
  OBVIOUS
<1>4. pc \in [Pods -> PodState]
  OBVIOUS
<1>5. work \in [Pods -> Entries \cup {None}]
  OBVIOUS
<1>6. replies \in [Entries -> Nat]
  OBVIOUS
<1>7. faults \in 0..MaxFaults /\ restarts \in 0..MaxRestarts
  OBVIOUS
<1>8. WorkInv
  BY DEF WorkInv
<1> QED
  BY <1>1, <1>2, <1>3, <1>4, <1>5, <1>6, <1>7, <1>8 DEF TInv, TypeOK

(* Every action keeps every variable in its type. *)
LEMMA TypeStep == TInv /\ [Next]_vars => TInv'
<1> SUFFICES ASSUME TInv, [Next]_vars PROVE TInv'
  OBVIOUS
<1> USE QueueAssumption DEF QueueAssumption, TInv, WorkInv, TypeOK, PodState,
        Busy, redisVars, podVars, outVars, envVars
<1>1. ASSUME NEW e \in Entries, Enqueue(e) PROVE TInv'
  <2>1. stream' \in Seq(Entries) /\ Len(stream') = Len(stream) + 1
    BY <1>1, AppendProperties DEF Enqueue
  <2>2. last' \in 0..Len(stream')
    BY <1>1, <2>1, LenProperties DEF Enqueue
  <2>3. queued' \in SUBSET Entries
    BY <1>1 DEF Enqueue
  <2> QED
    BY <1>1, <2>1, <2>2, <2>3 DEF Enqueue
<1>2. ASSUME NEW e \in Entries, RepeatReply(e) PROVE TInv'
  BY <1>2 DEF RepeatReply
<1>3. CASE InitStreamJob
  <2>1. last' \in 0..Len(stream')
    BY <1>3 DEF InitStreamJob, CreateGroup
  <2>2. group' \in BOOLEAN /\ job' \in BOOLEAN
    BY <1>3 DEF InitStreamJob, CreateGroup
  <2> QED
    BY <1>3, <2>1, <2>2 DEF InitStreamJob
<1>4. CASE Reapply
  BY <1>4 DEF Reapply
<1>5. ASSUME NEW p \in Pods, PodStep(p) PROVE TInv'
  <2>1. CASE EnsureGroup(p)
    BY <2>1 DEF EnsureGroup, CreateGroup, Goto
  <2>2. CASE LoadTools(p)
    BY <2>2 DEF LoadTools, Goto
  <2>3. CASE Read(p)
    <3>1. last + 1 \in 1..Len(stream) /\ stream[last + 1] \in Entries
      BY <2>3 DEF Read
    <3> QED
      BY <2>3, <3>1 DEF Read, Goto
  <2>4. CASE ReadNoGroup(p)
    BY <2>4 DEF ReadNoGroup, Goto
  <2>5. CASE FinishTurn(p)
    BY <2>5 DEF FinishTurn, Goto
  <2>6. CASE PublishReply(p)
    BY <2>6 DEF PublishReply, Goto
  <2>7. CASE PublishChanged(p)
    BY <2>7 DEF PublishChanged, Goto
  <2>8. CASE Ack(p)
    BY <2>8 DEF Ack, Goto
  <2> QED
    BY <1>5, <2>1, <2>2, <2>3, <2>4, <2>5, <2>6, <2>7, <2>8 DEF PodStep
<1>6. ASSUME NEW p \in Pods, Crash(p) PROVE TInv'
  BY <1>6 DEF Crash, Goto
<1>12. ASSUME NEW p \in Pods, ReadLost(p) PROVE TInv'
  <2>1. last + 1 \in 1..Len(stream) /\ stream[last + 1] \in Entries
    BY <1>12 DEF ReadLost
  <2> QED
    BY <1>12, <2>1 DEF ReadLost
<1>7. ASSUME NEW p \in Pods, ScaleUp(p) PROVE TInv'
  BY <1>7 DEF ScaleUp, Goto
<1>8. ASSUME NEW p \in Pods, ScaleDown(p) PROVE TInv'
  BY <1>8 DEF ScaleDown, Stop
<1>9. CASE ScaleToZero
  BY <1>9 DEF ScaleToZero, Stop
<1>10. CASE RedisRestart
  <2>1. stream' \in Seq(Entries) /\ last' \in 0..Len(stream')
    BY <1>10, EmptyStream DEF RedisRestart
  <2>2. restarts' \in 0..MaxRestarts
    BY <1>10 DEF RedisRestart
  <2> QED
    BY <1>10, <2>1, <2>2 DEF RedisRestart
<1>11. CASE UNCHANGED vars
  BY <1>11 DEF vars
<1> QED
  BY <1>1, <1>2, <1>3, <1>4, <1>5, <1>6, <1>7, <1>8, <1>9, <1>10, <1>11, <1>12 DEF Next

(* Every variable of the queue keeps its type. *)
THEOREM TypeCorrect == Spec => []TypeOK
<1>1. Spec => []TInv
  BY TypeInit, TypeStep, PTL DEF Spec
<1>2. TInv => TypeOK
  BY DEF TInv
<1> QED
  BY <1>1, <1>2, PTL

-----------------------------------------------------------------------------
(* At most one turn, and an answer before the acknowledgement *)

LEMMA InvInit == Init => IInv
<1> SUFFICES ASSUME Init PROVE QInv
  BY TypeInit DEF IInv
<1> USE EmptyStream DEF Init
<1>1. StreamInv /\ CursorInv /\ AckedWasAnswered
  BY DEF StreamInv, CursorInv, AckedWasAnswered
<1>2. PodInv /\ ReplyInv
  BY DEF PodInv, ReplyInv
<1> QED
  BY <1>1, <1>2 DEF QInv

(* What an append does to the stream. *)
LEMMA EnqueueAppends ==
    ASSUME TypeOK, NEW e \in Entries, Enqueue(e)
    PROVE  /\ Len(stream) \in Nat /\ Len(stream') = Len(stream) + 1
           /\ \A i \in 1..Len(stream) : stream'[i] = stream[i]
           /\ stream'[Len(stream) + 1] = e
BY AppendProperties, LenProperties DEF TypeOK, Enqueue

(* Every action preserves the invariant. *)
LEMMA InvStep == IInv /\ [Next]_vars => IInv'
<1> SUFFICES ASSUME TInv, QInv, TInv', [Next]_vars PROVE QInv'
  BY TypeStep DEF IInv
<1>0. Len(stream) \in Nat /\ last \in 0..Len(stream)
  BY LenProperties DEF TInv, TypeOK
<1> USE DEF redisVars, podVars, outVars, envVars
<1>1. ASSUME NEW e \in Entries, Enqueue(e) PROVE QInv'
  <2> USE <1>0, <1>1, EnqueueAppends DEF TInv, TypeOK, QInv, Enqueue
  <2>1. StreamInv'
    BY DEF StreamInv
  <2>2. CursorInv'
    BY DEF CursorInv
  <2>3. PodInv' /\ ReplyInv'
    BY DEF PodInv, ReplyInv
  <2>4. AckedWasAnswered'
    BY DEF AckedWasAnswered
  <2> QED
    BY <2>1, <2>2, <2>3, <2>4
<1>2. ASSUME NEW e \in Entries, RepeatReply(e) PROVE QInv'
  <2>1. /\ replies[e] > 0 /\ replies' = [replies EXCEPT ![e] = @ + 1]
        /\ UNCHANGED <<queued, stream, group, last, pending, pc, work, delivered, notified>>
    BY <1>2 DEF RepeatReply
  <2>2. /\ replies'[e] > 0 /\ \A d \in Entries \ {e} : replies'[d] = replies[d]
        /\ \A d \in Entries : replies[d] > 0 => replies'[d] > 0
        /\ \A d \in Entries : replies[d] = 0 => replies'[d] = 0
    BY <2>1 DEF TInv, TypeOK
  <2>3. StreamInv' /\ CursorInv' /\ PodInv'
    BY <2>1 DEF QInv, StreamInv, CursorInv, PodInv
  <2>4. \A p \in Pods : pc[p] \in Busy => work[p] \in Entries
    BY DEF TInv, TypeOK, WorkInv
  <2>5. ReplyInv'
    BY <2>1, <2>2, <2>4 DEF QInv, ReplyInv, Busy
  <2>6. AckedWasAnswered'
    BY <1>0, <2>1, <2>2 DEF TInv, TypeOK, QInv, AckedWasAnswered
  <2> QED
    BY <2>3, <2>5, <2>6 DEF QInv
<1>3. ASSUME CreateGroup, UNCHANGED <<stream, pending, delivered, queued>>,
             UNCHANGED <<replies, notified>>
      PROVE  StreamInv' /\ CursorInv' /\ AckedWasAnswered'
  BY <1>3 DEF CreateGroup, QInv, StreamInv, CursorInv, AckedWasAnswered
<1>4. CASE InitStreamJob
  <2>1. PodInv' /\ ReplyInv'
    BY <1>4 DEF InitStreamJob, QInv, PodInv, ReplyInv
  <2> QED
    BY <1>3, <1>4, <2>1 DEF InitStreamJob, QInv
<1>5. CASE Reapply
  BY <1>5 DEF Reapply, QInv, StreamInv, CursorInv, PodInv, ReplyInv, AckedWasAnswered
<1>6. ASSUME NEW S \in SUBSET Pods, Stop(S) PROVE QInv'
  <2> USE <1>6 DEF Stop, QInv
  <2>1. StreamInv' /\ CursorInv' /\ AckedWasAnswered'
    BY DEF StreamInv, CursorInv, AckedWasAnswered
  <2>2. PodInv' /\ ReplyInv'
    BY DEF PodInv, ReplyInv, TInv, TypeOK
  <2> QED
    BY <2>1, <2>2
<1>7. ASSUME NEW p \in Pods, NEW state \in {"absent", "boot", "mcp", "read"},
             Goto(p, state), work' = work \/ work' = [work EXCEPT ![p] = None]
      PROVE  UNCHANGED <<delivered, replies, notified>> => PodInv' /\ ReplyInv'
  BY <1>7 DEF Goto, QInv, PodInv, ReplyInv, TInv, TypeOK
<1>8. ASSUME NEW p \in Pods, PodStep(p) PROVE QInv'
  <2>1. CASE EnsureGroup(p)
    BY <1>3, <1>7, <2>1 DEF EnsureGroup, QInv
  <2>2. CASE LoadTools(p) \/ ReadNoGroup(p)
    <3>1. StreamInv' /\ CursorInv' /\ AckedWasAnswered'
      BY <2>2 DEF LoadTools, ReadNoGroup, QInv, StreamInv, CursorInv, AckedWasAnswered
    <3> QED
      BY <1>7, <2>2, <3>1 DEF LoadTools, ReadNoGroup, QInv
  <2>3. CASE Read(p)
    <3> DEFINE e == stream[last + 1]
    <3>1. /\ last + 1 \in 1..Len(stream) /\ last' = last + 1
          /\ e \in Entries /\ e \in queued /\ e # None
          /\ e \notin delivered
          /\ delivered' = delivered \cup {e} /\ pending' = pending \cup {e}
      BY <1>0, <2>3, QueueAssumption
         DEF Read, TInv, TypeOK, QInv, StreamInv, CursorInv, QueueAssumption
    <3>2. StreamInv'
      BY <2>3 DEF Read, QInv, StreamInv
    <3>3. CursorInv'
      BY <1>0, <2>3, <3>1 DEF Read, QInv, StreamInv, CursorInv
    <3>4. PodInv'
      BY <2>3, <3>1 DEF Read, QInv, PodInv, TInv, TypeOK
    <3>5. ReplyInv'
      BY <2>3, <3>1 DEF Read, Goto, QInv, ReplyInv, TInv, TypeOK
    <3>6. AckedWasAnswered'
      BY <1>0, <2>3, <3>1 DEF Read, QInv, AckedWasAnswered
    <3> QED
      BY <3>2, <3>3, <3>4, <3>5, <3>6 DEF QInv
  <2>4. CASE FinishTurn(p)
    BY <2>4 DEF FinishTurn, Goto, TInv, TypeOK, QInv, StreamInv, CursorInv, PodInv,
                ReplyInv, AckedWasAnswered
  <2>5. ASSUME pc[p] \in Busy
        PROVE  work[p] \in Entries /\ work[p] # None /\ work[p] \in delivered
    BY <2>5 DEF TInv, TypeOK, WorkInv, QInv, PodInv
  <2>6. CASE PublishReply(p)
    <3>1. work[p] \in Entries /\ work[p] \in delivered /\ replies[work[p]] = 0
      BY <2>5, <2>6 DEF PublishReply, Busy, QInv, ReplyInv
    <3>2. StreamInv' /\ CursorInv' /\ PodInv'
      BY <2>6 DEF PublishReply, QInv, StreamInv, CursorInv, PodInv
    <3>3. ReplyInv'
      BY <2>6, <3>1 DEF PublishReply, Goto, TInv, TypeOK, QInv, ReplyInv, PodInv,
                        WorkInv, Busy
    <3>4. AckedWasAnswered'
      BY <1>0, <2>6, <3>1 DEF PublishReply, TInv, TypeOK, QInv, AckedWasAnswered
    <3> QED
      BY <3>2, <3>3, <3>4 DEF QInv
  <2>7. CASE PublishChanged(p)
    BY <2>5, <2>7 DEF PublishChanged, Goto, Busy, TInv, TypeOK, QInv, StreamInv,
                      CursorInv, PodInv, ReplyInv, AckedWasAnswered
  <2>8. CASE Ack(p)
    <3>1. work[p] \in Entries /\ replies[work[p]] > 0 /\ work[p] \in notified
      BY <2>5, <2>8 DEF Ack, Busy, QInv, ReplyInv
    <3>2. StreamInv' /\ CursorInv' /\ AckedWasAnswered'
      BY <2>8, <3>1 DEF Ack, QInv, StreamInv, CursorInv, AckedWasAnswered
    <3> QED
      BY <1>7, <2>8, <3>2 DEF Ack, QInv
  <2> QED
    BY <1>8, <2>1, <2>2, <2>3, <2>4, <2>6, <2>7, <2>8 DEF PodStep
<1>9. ASSUME NEW p \in Pods, Crash(p) \/ ScaleUp(p) PROVE QInv'
  <2>1. StreamInv' /\ CursorInv' /\ AckedWasAnswered'
    BY <1>9 DEF Crash, ScaleUp, QInv, StreamInv, CursorInv, AckedWasAnswered
  <2> QED
    BY <1>7, <1>9, <2>1 DEF Crash, ScaleUp, QInv
<1>10. ASSUME NEW p \in Pods, ScaleDown(p) PROVE QInv'
  BY <1>6, <1>10 DEF ScaleDown
<1>11. CASE ScaleToZero
  BY <1>6, <1>11 DEF ScaleToZero, Live
<1>14. ASSUME NEW p \in Pods, ReadLost(p) PROVE QInv'
  <2> DEFINE e == stream[last + 1]
  <2>1. /\ last + 1 \in 1..Len(stream) /\ last' = last + 1
        /\ e \in Entries /\ e \in queued /\ e \notin delivered
        /\ delivered' = delivered \cup {e} /\ pending' = pending \cup {e}
        /\ UNCHANGED <<queued, stream, group, pc, work, replies, notified>>
    BY <1>0, <1>14 DEF ReadLost, TInv, TypeOK, QInv, StreamInv, CursorInv
  <2>2. StreamInv' /\ PodInv' /\ ReplyInv'
    BY <2>1 DEF QInv, StreamInv, PodInv, ReplyInv
  <2>3. CursorInv'
    BY <1>0, <1>14, <2>1 DEF ReadLost, QInv, StreamInv, CursorInv
  <2>4. AckedWasAnswered'
    BY <1>0, <2>1 DEF QInv, AckedWasAnswered
  <2> QED
    BY <2>2, <2>3, <2>4 DEF QInv
<1>12. CASE RedisRestart
  BY <1>12, EmptyStream DEF RedisRestart, QInv, StreamInv, CursorInv, PodInv, ReplyInv,
     AckedWasAnswered
<1>13. CASE UNCHANGED vars
  BY <1>13 DEF vars, QInv, StreamInv, CursorInv, PodInv, ReplyInv, AckedWasAnswered
<1> QED
  BY <1>1, <1>2, <1>4, <1>5, <1>8, <1>9, <1>10, <1>11, <1>12, <1>13, <1>14 DEF Next

LEMMA Inductive == Spec => []IInv
  BY InvInit, InvStep, PTL DEF Spec

(* No two pods ever hold the same entry, and none has an answered entry in *)
(* its turn: a chat has one turn for each time its XADD was executed       *)
(* (agent-worker/main.py, the ">" of xreadgroup).                          *)
THEOREM OneTurnEach == Spec => []OneTurnPerEntry
<1>1. IInv => OneTurnPerEntry
  BY DEF IInv, QInv, ReplyInv, PodInv, OneTurnPerEntry
<1> QED
  BY <1>1, Inductive, PTL

(* An entry leaves the group's pending list only after its reply and its   *)
(* todos:changed notice were published.                                    *)
THEOREM AckedOnlyAnswered == Spec => []AckedWasAnswered
<1>1. IInv => AckedWasAnswered
  BY DEF IInv, QInv
<1> QED
  BY <1>1, Inductive, PTL

-----------------------------------------------------------------------------
(* The queue is a chat service *)

(* What the service calls an open entry, in terms of the queue. *)
Open(e) == Waiting(e) \/ Held(e)

LEMMA OpenEntries ==
    ASSUME IInv, NEW e \in Entries
    PROVE  /\ replies[e] \in Nat
           /\ Open(e) => e \in queued /\ replies[e] = 0
           /\ e \notin queued => replies[e] = 0
<1>1. /\ TypeOK /\ StreamInv /\ CursorInv /\ PodInv /\ ReplyInv
      /\ last \in Nat
    BY DEF IInv, TInv, QInv, TypeOK
<1>2. ASSUME Waiting(e) PROVE e \in queued /\ e \notin delivered
    <2>1. PICK i \in (last + 1)..Len(stream) : stream[i] = e
        BY <1>2 DEF Waiting
    <2>2. i \in 1..Len(stream) /\ i > last
        BY <1>1, <2>1
    <2> QED BY <1>1, <2>1, <2>2 DEF StreamInv, CursorInv
<1>3. ASSUME Held(e) PROVE e \in queued /\ replies[e] = 0
    <2>1. PICK p \in Pods : work[p] = e /\ pc[p] \in {"turn", "reply"}
        BY <1>3 DEF Held
    <2>2. work[p] # None
        BY <2>1, QueueAssumption
    <2> QED BY <1>1, <2>1, <2>2 DEF PodInv, ReplyInv, CursorInv
<1>4. replies[e] \in Nat
    BY <1>1 DEF TypeOK
<1> QED BY <1>1, <1>2, <1>3, <1>4 DEF Open, ReplyInv, CursorInv

(* A step that queues and answers nothing at most loses entries. *)
LEMMA AtMostLoses ==
    ASSUME IInv, UNCHANGED <<queued, replies>>,
           \A e \in Entries : Open(e)' => Open(e)
    PROVE  Service!SvcNext
<1> DEFINE S == {e \in Entries : Status[e] = "open" /\ ~Open(e)'}
<1>1. ASSUME NEW e \in Entries
      PROVE  /\ e \in S => Status[e] = "open" /\ Status'[e] = "lost"
             /\ e \notin S => Status'[e] = Status[e]
    BY <1>1, OpenEntries DEF Status, Open
<1>2. S \in SUBSET Entries
    OBVIOUS
<1>3. Status' = [e \in Entries |-> IF e \in S THEN "lost" ELSE Status[e]]
    <2>1. Status' = [e \in Entries |-> Status'[e]]
        BY DEF Status
    <2> QED BY <1>1, <2>1
<1>4. Service!Lose(S)
    BY <1>1, <1>3 DEF Service!Lose
<1> QED BY <1>2, <1>4 DEF Service!SvcNext

(* A step that changes what has become of one entry only. *)
LEMMA OneChanges ==
    ASSUME NEW e \in Entries, NEW new,
           Status'[e] = new, \A d \in Entries \ {e} : Status'[d] = Status[d]
    PROVE  Status' = [Status EXCEPT ![e] = new]
<1>1. Status = [d \in Entries |-> Status[d]] /\ Status' = [d \in Entries |-> Status'[d]]
    BY DEF Status
<1> QED BY <1>1

LEMMA EnqueueAccepts ==
    ASSUME IInv, NEW e \in Entries, Enqueue(e)
    PROVE  Service!SvcNext
<1>1. /\ e \notin queued /\ queued' = queued \cup {e}
      /\ UNCHANGED <<last, pc, work, replies>>
    BY DEF Enqueue, podVars, outVars
<1>2. /\ Len(stream) \in Nat /\ Len(stream') = Len(stream) + 1
      /\ \A i \in 1..Len(stream) : stream'[i] = stream[i]
      /\ stream'[Len(stream) + 1] = e
      /\ last \in 0..Len(stream)
    BY EnqueueAppends DEF IInv, TInv, TypeOK
<1>3. Waiting(e)'
    BY <1>1, <1>2 DEF Waiting
<1>4. ASSUME NEW d \in Entries \ {e} PROVE Waiting(d)' <=> Waiting(d)
    <2>1. (last + 1)..Len(stream') = ((last + 1)..Len(stream)) \cup {Len(stream) + 1}
        BY <1>2
    <2>2. \A i \in (last + 1)..Len(stream) : stream'[i] = stream[i]
        BY <1>2
    <2> QED BY <1>1, <1>2, <2>1, <2>2 DEF Waiting
<1>5. \A d \in Entries : Held(d)' <=> Held(d)
    BY <1>1 DEF Held
<1>6. Status[e] = "new" /\ Status'[e] = "open"
    BY <1>1, <1>3, OpenEntries DEF Status
<1>7. \A d \in Entries \ {e} : Status'[d] = Status[d]
    BY <1>1, <1>4, <1>5 DEF Status
<1>8. Service!Accept(e)
    BY <1>1, <1>6, <1>7, OneChanges DEF Service!Accept
<1> QED BY <1>8 DEF Service!SvcNext

LEMMA RepeatRepeats ==
    ASSUME IInv, NEW e \in Entries, RepeatReply(e)
    PROVE  Service!SvcNext
<1>1. /\ replies[e] > 0 /\ replies' = [replies EXCEPT ![e] = @ + 1]
      /\ UNCHANGED <<queued, stream, last, pc, work>>
    BY DEF RepeatReply, redisVars, podVars
<1>2. ASSUME NEW d \in Entries PROVE Status'[d] = Status[d]
    <2>1. (replies'[d] > 0 <=> replies[d] > 0) /\ (replies'[d] = 0 <=> replies[d] = 0)
        BY <1>1 DEF IInv, TInv, TypeOK
    <2> QED BY <1>1, <2>1 DEF Status, Waiting, Held
<1>3. Status' = Status
    <2>1. Status = [d \in Entries |-> Status[d]] /\ Status' = [d \in Entries |-> Status'[d]]
        BY DEF Status
    <2> QED BY <1>2, <2>1
<1>4. Status[e] = "answered"
    BY <1>1 DEF Status
<1>5. Service!Repeat(e)
    BY <1>1, <1>3, <1>4 DEF Service!Repeat
<1> QED BY <1>5 DEF Service!SvcNext

(* The entry is delivered to nobody: it is open no more. *)
LEMMA ReadLostLoses ==
    ASSUME IInv, NEW p \in Pods, ReadLost(p)
    PROVE  Service!SvcNext
<1>1. /\ last < Len(stream) /\ last' = last + 1
      /\ UNCHANGED <<queued, stream, pc, work, replies>>
      /\ last \in Nat /\ Len(stream) \in Nat
    BY LenProperties DEF ReadLost, podVars, IInv, TInv, TypeOK
<1>2. ASSUME NEW e \in Entries, Waiting(e)' PROVE Waiting(e)
    <2>1. PICK i \in (last' + 1)..Len(stream) : stream[i] = e
        BY <1>1, <1>2 DEF Waiting
    <2>2. i \in (last + 1)..Len(stream)
        BY <1>1, <2>1
    <2> QED BY <2>1, <2>2 DEF Waiting
<1>3. \A e \in Entries : Held(e)' => Held(e)
    BY <1>1 DEF Held
<1> QED BY <1>1, <1>2, <1>3, AtMostLoses DEF Open

LEMMA ReplyAnswers ==
    ASSUME IInv, NEW p \in Pods, PublishReply(p)
    PROVE  Service!SvcNext
<1> DEFINE e == work[p]
<1>0. TypeOK /\ WorkInv /\ PodInv
    BY DEF IInv, TInv, QInv
<1>1. e \in Entries /\ e # None
    <2>1. e # None
        BY <1>0 DEF PublishReply, WorkInv, Busy
    <2> QED BY <1>0, <2>1 DEF TypeOK
<1>2. /\ pc[p] = "reply" /\ pc' = [pc EXCEPT ![p] = "notify"]
      /\ replies' = [replies EXCEPT ![e] = @ + 1]
      /\ UNCHANGED <<queued, stream, last, work>>
    BY DEF PublishReply, Goto, redisVars
<1>3. Open(e) /\ replies[e] = 0 /\ e \in queued
    <2>1. Held(e)
        BY <1>2 DEF Held
    <2> QED BY <1>1, <2>1, OpenEntries DEF Open
<1> HIDE DEF e
<1>4. ASSUME NEW d \in Entries \ {e} PROVE Status'[d] = Status[d]
    <2>1. Waiting(d)' <=> Waiting(d)
        BY <1>2 DEF Waiting
    <2>2. Held(d)' <=> Held(d)
        <3>1. work[p] # d /\ \A q \in Pods \ {p} : pc'[q] = pc[q]
            BY <1>0, <1>2 DEF e, TypeOK
        <3> QED BY <1>2, <3>1 DEF Held
    <2>3. replies'[d] = replies[d]
        BY <1>0, <1>2 DEF TypeOK
    <2> QED BY <1>2, <2>1, <2>2, <2>3 DEF Status
<1>5. replies'[e] = 1
    BY <1>0, <1>1, <1>2, <1>3 DEF TypeOK
<1>6. Status[e] = "open" /\ Status'[e] = "answered"
    BY <1>1, <1>3, <1>5 DEF Status, Open
<1>7. Service!Answer(e)
    BY <1>1, <1>2, <1>4, <1>6, OneChanges DEF Service!Answer
<1> QED BY <1>1, <1>7 DEF Service!SvcNext

(* A pod goes on to a state where it still holds its entry, or lets it go. *)
LEMMA PodMoves ==
    ASSUME IInv, NEW p \in Pods, NEW state, Goto(p, state),
           state \in {"turn", "reply"} => pc[p] \in {"turn", "reply"},
           work' \in {work, [work EXCEPT ![p] = None]},
           UNCHANGED <<queued, replies, stream, last>>
    PROVE  Service!SvcNext
<1>1. ASSUME NEW e \in Entries, Held(e)' PROVE Held(e)
    <2>1. PICK q \in Pods : work'[q] = e /\ pc'[q] \in {"turn", "reply"}
        BY <1>1 DEF Held
    <2>2. work[q] = e
        BY <2>1, QueueAssumption DEF IInv, TInv, TypeOK
    <2>3. pc[q] \in {"turn", "reply"}
        BY <2>1 DEF Goto, IInv, TInv, TypeOK
    <2> QED BY <2>2, <2>3 DEF Held
<1>2. \A e \in Entries : Waiting(e)' => Waiting(e)
    BY DEF Waiting
<1> QED BY <1>1, <1>2, AtMostLoses DEF Open

LEMMA ReadKeepsOpen ==
    ASSUME IInv, NEW p \in Pods, Read(p)
    PROVE  Service!SvcNext
<1>1. /\ last < Len(stream) /\ last' = last + 1
      /\ work' = [work EXCEPT ![p] = stream[last + 1]]
      /\ pc' = [pc EXCEPT ![p] = "turn"]
      /\ UNCHANGED <<queued, stream, replies>>
      /\ TypeOK /\ last \in Nat /\ Len(stream) \in Nat
    BY LenProperties DEF Read, Goto, IInv, TInv, TypeOK
<1>2. ASSUME NEW e \in Entries, Waiting(e)' PROVE Waiting(e)
    <2>1. PICK i \in (last' + 1)..Len(stream) : stream[i] = e
        BY <1>1, <1>2 DEF Waiting
    <2>2. i \in (last + 1)..Len(stream)
        BY <1>1, <2>1
    <2> QED BY <2>1, <2>2 DEF Waiting
<1>3. ASSUME NEW e \in Entries, Held(e)' PROVE Open(e)
    <2>1. PICK q \in Pods : work'[q] = e /\ pc'[q] \in {"turn", "reply"}
        BY <1>3 DEF Held
    <2>2. CASE q = p
        <3>1. e = stream[last + 1] /\ last + 1 \in (last + 1)..Len(stream)
            BY <1>1, <2>1, <2>2 DEF TypeOK
        <3> QED BY <3>1 DEF Open, Waiting
    <2>3. CASE q # p
        <3>1. work[q] = e /\ pc[q] \in {"turn", "reply"}
            BY <1>1, <2>1, <2>3 DEF TypeOK
        <3> QED BY <3>1 DEF Open, Held
    <2> QED BY <2>2, <2>3
<1> QED BY <1>1, <1>2, <1>3, AtMostLoses DEF Open

LEMMA ServiceStep == IInv /\ [Next]_vars => [Service!SvcNext]_(Service!svcVars)
<1> SUFFICES ASSUME IInv, [Next]_vars PROVE [Service!SvcNext]_(Service!svcVars)
    OBVIOUS
<1> USE DEF redisVars, podVars, outVars
<1>1. ASSUME NEW e \in Entries, Enqueue(e) \/ RepeatReply(e) PROVE Service!SvcNext
    BY <1>1, EnqueueAccepts, RepeatRepeats
<1>12. ASSUME NEW p \in Pods, ReadLost(p) PROVE Service!SvcNext
    BY <1>12, ReadLostLoses
<1>2. ASSUME UNCHANGED <<queued, replies, pc, work, stream, last>> PROVE Service!SvcNext
    <2>1. \A e \in Entries : Open(e)' => Open(e)
        BY <1>2 DEF Open, Waiting, Held
    <2> QED BY <1>2, <2>1, AtMostLoses
<1>3. CreateGroup => last' = last
    BY DEF CreateGroup, IInv, QInv, CursorInv
<1>4. CASE InitStreamJob \/ Reapply \/ UNCHANGED vars
    BY <1>2, <1>3, <1>4 DEF InitStreamJob, Reapply, vars
<1>5. ASSUME NEW p \in Pods, PodStep(p) PROVE Service!SvcNext
    <2>1. CASE Read(p)
        BY <2>1, ReadKeepsOpen
    <2>2. CASE PublishReply(p)
        BY <2>2, ReplyAnswers
    <2>3. CASE EnsureGroup(p)
        BY <1>3, <2>3, PodMoves DEF EnsureGroup
    <2>4. CASE LoadTools(p)
        BY <2>4, PodMoves DEF LoadTools
    <2>5. CASE ReadNoGroup(p)
        BY <2>5, PodMoves DEF ReadNoGroup
    <2>6. CASE FinishTurn(p)
        BY <2>6, PodMoves DEF FinishTurn
    <2>7. CASE PublishChanged(p)
        BY <2>7, PodMoves DEF PublishChanged
    <2>8. CASE Ack(p)
        BY <2>8, PodMoves DEF Ack
    <2> QED BY <1>5, <2>1, <2>2, <2>3, <2>4, <2>5, <2>6, <2>7, <2>8 DEF PodStep
<1>6. ASSUME NEW p \in Pods, Crash(p) PROVE Service!SvcNext
    BY <1>6, PodMoves DEF Crash
<1>7. ASSUME NEW p \in Pods, ScaleUp(p) PROVE Service!SvcNext
    BY <1>7, PodMoves DEF ScaleUp
<1>8. ASSUME NEW S \in SUBSET Pods, Stop(S) PROVE Service!SvcNext
    <2>1. ASSUME NEW e \in Entries, Held(e)' PROVE Held(e)
        BY <1>8, <2>1, QueueAssumption DEF Stop, Held
    <2>2. \A e \in Entries : Waiting(e)' => Waiting(e)
        BY <1>8 DEF Stop, Waiting
    <2> QED BY <1>8, <2>1, <2>2, AtMostLoses DEF Stop, Open
<1>9. ASSUME NEW p \in Pods, ScaleDown(p) PROVE Service!SvcNext
    BY <1>8, <1>9 DEF ScaleDown
<1>10. CASE ScaleToZero
    BY <1>8, <1>10 DEF ScaleToZero, Live
<1>11. CASE RedisRestart
    <2>1. stream' = <<>> /\ last' = 0 /\ UNCHANGED <<queued, replies, pc, work>>
        BY <1>11 DEF RedisRestart
    <2>2. \A e \in Entries : ~Waiting(e)' /\ (Held(e)' => Held(e))
        BY <2>1, EmptyStream DEF Waiting, Held
    <2> QED BY <2>1, <2>2, AtMostLoses DEF Open
<1> QED BY <1>1, <1>4, <1>5, <1>6, <1>7, <1>9, <1>10, <1>11, <1>12 DEF Next

(* Every behaviour of the queue, with its pods, scaler, lost and repeated  *)
(* commands and restarts, is one the chat service allows: an entry is open *)
(* from its XADD to the first reply, is answered only while open, after    *)
(* that only by a repetition, and neither an answer nor a loss is taken    *)
(* back.                                                                   *)
THEOREM QueueIsChatService == Spec => ImplementsService
<1>1. Init => Service!SvcInit
    <2> SUFFICES ASSUME Init PROVE Service!SvcInit
        OBVIOUS
    <2>1. \A e \in Entries : replies[e] = 0 /\ e \notin queued
        BY DEF Init
    <2>2. Status = [e \in Entries |-> "new"]
        BY <2>1 DEF Status
    <2>3. replies = [e \in Entries |-> 0]
        BY DEF Init
    <2> QED BY <2>2, <2>3 DEF Service!SvcInit
<1> QED BY <1>1, ServiceStep, Inductive, PTL DEF Spec, ImplementsService, Service!SvcSpec

-----------------------------------------------------------------------------
(* What becomes of an entry that nobody answers *)

(* Replies are published by a pod in its turn, or once more by its client. *)
LEMMA OnlyRepeats ==
    ASSUME [Next]_vars, replies' # replies, ~(\E p \in Pods : PublishReply(p))
    PROVE  \E e \in Entries : RepeatReply(e)
<1> USE DEF outVars
<1>1. \A e \in Entries : ~Enqueue(e)
    BY DEF Enqueue
<1>2. ~InitStreamJob /\ ~Reapply /\ ~ScaleToZero /\ ~RedisRestart /\ ~UNCHANGED vars
    BY DEF InitStreamJob, Reapply, ScaleToZero, Stop, RedisRestart, vars
<1>3. \A p \in Pods : ~PodStep(p)
    BY DEF PodStep, EnsureGroup, LoadTools, Read, ReadNoGroup, FinishTurn, PublishChanged, Ack
<1>4. \A p \in Pods : ~ReadLost(p) /\ ~Crash(p) /\ ~ScaleUp(p) /\ ~ScaleDown(p)
    BY DEF ReadLost, Crash, ScaleUp, ScaleDown, Stop
<1> QED BY <1>1, <1>2, <1>3, <1>4 DEF Next

(* Of every chat service: what was answered or lost stays so. *)
LEMMA FateStep ==
    ASSUME IInv, [Service!SvcNext]_(Service!svcVars), NEW e \in Entries,
           Status[e] \in {"answered", "lost"}
    PROVE  /\ Status'[e] = Status[e]
           /\ replies'[e] # replies[e] => Service!Repeat(e)
<1>0. /\ Status = [d \in Entries |-> Status[d]]
      /\ replies = [d \in Entries |-> replies[d]]
    BY DEF Status, IInv, TInv, TypeOK
<1>1. CASE UNCHANGED Service!svcVars
    BY <1>1 DEF Service!svcVars
<1>2. ASSUME NEW d \in Entries, Service!Accept(d) \/ Service!Answer(d)
      PROVE  Status'[e] = Status[e] /\ replies'[e] = replies[e]
    <2>1. d # e
        BY <1>2 DEF Service!Accept, Service!Answer
    <2> QED BY <1>0, <1>2, <2>1 DEF Service!Accept, Service!Answer
<1>3. ASSUME NEW S \in SUBSET Entries, Service!Lose(S)
      PROVE  Status'[e] = Status[e] /\ replies'[e] = replies[e]
    <2>1. e \notin S
        BY <1>3 DEF Service!Lose
    <2> QED BY <1>3, <2>1 DEF Service!Lose
<1>4. ASSUME NEW d \in Entries, Service!Repeat(d)
      PROVE  Status'[e] = Status[e] /\ (replies'[e] # replies[e] => d = e)
    BY <1>0, <1>4 DEF Service!Repeat
<1> QED BY <1>1, <1>2, <1>3, <1>4 DEF Service!SvcNext

(* An answer comes from one turn and a loss is not repaired: an entry      *)
(* whose pod went away, whose delivery was lost or which Redis forgot is   *)
(* never answered later, and one that was answered has its reply           *)
(* published again by a client that sends the PUBLISH again and by nothing *)
(* else (agent-worker/main.py reads only ">").                             *)
FateIsFinal ==
    [][\A e \in Entries : Status[e] \in {"answered", "lost"} =>
          /\ Status'[e] = Status[e]
          /\ \A p \in Pods : PublishReply(p) => work[p] # e
          /\ \/ replies'[e] = replies[e]
             \/ Status[e] = "answered" /\ faults' = faults + 1]_vars

(* main() of the worker never answers an entry again, nor one that was     *)
(* lost.                                                                   *)
THEOREM FateFinal == Spec => FateIsFinal
<1>1. ASSUME IInv, [Next]_vars, NEW e \in Entries, Status[e] \in {"answered", "lost"}
      PROVE  /\ Status'[e] = Status[e]
             /\ \A p \in Pods : PublishReply(p) => work[p] # e
             /\ replies'[e] = replies[e] \/ (Status[e] = "answered" /\ faults' = faults + 1)
    <2>1. /\ Status'[e] = Status[e]
          /\ replies'[e] # replies[e] => Service!Repeat(e)
        BY <1>1, ServiceStep, FateStep
    <2>2. ASSUME NEW p \in Pods, PublishReply(p) PROVE work[p] # e
        <3>1. pc[p] = "reply"
            BY <2>2 DEF PublishReply
        <3>2. work[p] # e \/ Open(e)
            BY <3>1 DEF Open, Held
        <3> QED BY <1>1, <3>2, OpenEntries DEF Status, Open
    <2>3. ASSUME replies'[e] # replies[e]
          PROVE  Status[e] = "answered" /\ faults' = faults + 1
        <3>1. Status[e] = "answered" /\ replies[e] > 0
            BY <2>1, <2>3 DEF Service!Repeat, Status
        <3>2. \A p \in Pods : ~PublishReply(p) \/ work[p] # e
            BY <2>2
        <3>3. ~(\E p \in Pods : PublishReply(p))
            BY <1>1, <2>3, <3>2 DEF PublishReply, IInv, TInv, TypeOK
        <3>4. \E d \in Entries : RepeatReply(d)
            BY <1>1, <2>3, <3>3, OnlyRepeats
        <3> QED BY <3>1, <3>4 DEF RepeatReply
    <2> QED BY <2>1, <2>2, <2>3
<1>2. IInv /\ [Next]_vars =>
          [\A e \in Entries : Status[e] \in {"answered", "lost"} =>
              /\ Status'[e] = Status[e]
              /\ \A p \in Pods : PublishReply(p) => work[p] # e
              /\ \/ replies'[e] = replies[e]
                 \/ Status[e] = "answered" /\ faults' = faults + 1]_vars
    BY <1>1
<1> QED BY <1>2, Inductive, PTL DEF Spec, FateIsFinal

(* An entry that waits or is held stops being so only by its reply, with   *)
(* the pod that holds it, by a delivery that is lost, or with Redis.       *)
LEMMA StaysOpen ==
    ASSUME IInv, [Next]_vars, NEW e \in Entries, Open(e),
           \A p \in Pods : work[p] = e => pc'[p] \notin {"absent", "boot"},
           ~(e \in delivered' /\ e \notin delivered /\ faults' = faults + 1),
           restarts' # restarts + 1
    PROVE  Open(e)' \/ replies'[e] > 0
<1> USE DEF redisVars, podVars, outVars, envVars
<1>0. /\ TypeOK /\ WorkInv /\ last \in Nat /\ Len(stream) \in Nat /\ restarts \in Nat
      /\ replies[e] = 0
    BY OpenEntries DEF IInv, TInv, TypeOK
<1>1. ASSUME UNCHANGED <<stream, last>>,
             \A p \in Pods : work[p] = e /\ pc[p] \in {"turn", "reply"} =>
                 work'[p] = e /\ pc'[p] \in {"turn", "reply"}
      PROVE  Open(e)'
    BY <1>1 DEF Open, Waiting, Held
<1>2. CreateGroup => last' = last
    BY DEF CreateGroup, IInv, QInv, CursorInv
<1>3. ASSUME NEW d \in Entries, Enqueue(d) PROVE Open(e)'
    <2>1. /\ Len(stream') = Len(stream) + 1 /\ last' = last
          /\ \A i \in 1..Len(stream) : stream'[i] = stream[i]
          /\ UNCHANGED <<pc, work>>
        BY <1>0, <1>3, EnqueueAppends DEF Enqueue
    <2>2. ASSUME Waiting(e) PROVE Waiting(e)'
        <3>1. PICK i \in (last + 1)..Len(stream) : stream[i] = e
            BY <2>2 DEF Waiting
        <3>2. i \in (last' + 1)..Len(stream') /\ stream'[i] = e
            BY <1>0, <2>1, <3>1
        <3> QED BY <3>2 DEF Waiting
    <2>3. ASSUME Held(e) PROVE Held(e)'
        BY <2>1, <2>3 DEF Held
    <2> QED BY <2>2, <2>3 DEF Open
<1>4. CASE InitStreamJob \/ Reapply \/ UNCHANGED vars \/ \E d \in Entries : RepeatReply(d)
    BY <1>1, <1>2, <1>4 DEF InitStreamJob, Reapply, RepeatReply, vars
<1>5. ASSUME NEW p \in Pods, NEW state, Goto(p, state),
             pc[p] \in {"turn", "reply"} => state \in {"turn", "reply"},
             UNCHANGED <<stream, last, work>>
      PROVE  Open(e)'
    <2>1. \A q \in Pods : pc[q] \in {"turn", "reply"} => pc'[q] \in {"turn", "reply"}
        BY <1>0, <1>5 DEF Goto, TypeOK
    <2> QED BY <1>1, <1>5, <2>1
<1>6. ASSUME NEW p \in Pods, Read(p) PROVE Open(e)'
    <2>1. /\ pc[p] = "read" /\ last < Len(stream) /\ last' = last + 1 /\ stream' = stream
          /\ work' = [work EXCEPT ![p] = stream[last + 1]]
          /\ pc' = [pc EXCEPT ![p] = "turn"]
        BY <1>6 DEF Read, Goto
    <2>2. ASSUME Waiting(e) PROVE Open(e)'
        <3>1. PICK i \in (last + 1)..Len(stream) : stream[i] = e
            BY <2>2 DEF Waiting
        <3>2. CASE i = last + 1
            <4>1. work'[p] = e /\ pc'[p] = "turn"
                BY <1>0, <2>1, <3>1, <3>2 DEF TypeOK
            <4> QED BY <4>1 DEF Open, Held
        <3>3. CASE i # last + 1
            <4>1. i \in (last' + 1)..Len(stream')
                BY <1>0, <2>1, <3>1, <3>3
            <4> QED BY <2>1, <3>1, <4>1 DEF Open, Waiting
        <3> QED BY <3>2, <3>3
    <2>3. ASSUME Held(e) PROVE Open(e)'
        <3>1. PICK q \in Pods : work[q] = e /\ pc[q] \in {"turn", "reply"}
            BY <2>3 DEF Held
        <3>2. work'[q] = e /\ pc'[q] = pc[q]
            BY <1>0, <2>1, <3>1 DEF TypeOK
        <3> QED BY <3>1, <3>2 DEF Open, Held
    <2> QED BY <2>2, <2>3 DEF Open
<1>7. ASSUME NEW p \in Pods, PublishReply(p) PROVE Open(e)' \/ replies'[e] > 0
    <2>1. /\ pc[p] = "reply" /\ pc' = [pc EXCEPT ![p] = "notify"]
          /\ replies' = [replies EXCEPT ![work[p]] = @ + 1]
          /\ UNCHANGED <<stream, last, work>>
        BY <1>7 DEF PublishReply, Goto
    <2>2. CASE work[p] = e
        <3>1. replies'[e] = replies[e] + 1
            BY <1>0, <2>1, <2>2 DEF TypeOK
        <3> QED BY <1>0, <3>1
    <2>3. CASE work[p] # e
        <3>1. \A q \in Pods : q # p => pc'[q] = pc[q]
            BY <1>0, <2>1 DEF TypeOK
        <3> QED BY <1>1, <2>1, <2>3, <3>1
    <2> QED BY <2>2, <2>3
<1>8. ASSUME NEW p \in Pods, Ack(p) PROVE Open(e)'
    <2>1. /\ pc[p] = "ack" /\ UNCHANGED <<stream, last>>
          /\ \A q \in Pods : q # p => pc'[q] = pc[q] /\ work'[q] = work[q]
        BY <1>0, <1>8 DEF Ack, Goto, TypeOK
    <2> QED BY <1>1, <2>1
<1>9. ASSUME NEW p \in Pods, PodStep(p) PROVE Open(e)' \/ replies'[e] > 0
    <2>1. CASE EnsureGroup(p)
        BY <1>2, <1>5, <2>1 DEF EnsureGroup
    <2>2. CASE LoadTools(p)
        BY <1>5, <2>2 DEF LoadTools
    <2>3. CASE ReadNoGroup(p)
        BY <1>5, <2>3 DEF ReadNoGroup
    <2>4. CASE FinishTurn(p)
        BY <1>5, <2>4 DEF FinishTurn
    <2>5. CASE PublishChanged(p)
        BY <1>5, <2>5 DEF PublishChanged
    <2> QED BY <1>6, <1>7, <1>8, <1>9, <2>1, <2>2, <2>3, <2>4, <2>5 DEF PodStep
<1>10. ASSUME NEW p \in Pods, Crash(p) PROVE Open(e)'
    <2>1. /\ pc'[p] = "boot" /\ UNCHANGED <<stream, last>>
          /\ \A q \in Pods : q # p => pc'[q] = pc[q] /\ work'[q] = work[q]
        BY <1>0, <1>10 DEF Crash, Goto, TypeOK
    <2>2. work[p] # e
        BY <2>1
    <2> QED BY <1>1, <2>1, <2>2
<1>11. ASSUME NEW p \in Pods, ScaleUp(p) PROVE Open(e)'
    BY <1>5, <1>11 DEF ScaleUp
<1>12. ASSUME NEW S \in SUBSET Pods, Stop(S) PROVE Open(e)'
    <2>1. /\ UNCHANGED <<stream, last>>
          /\ \A q \in S : pc'[q] = "absent"
          /\ \A q \in Pods \ S : pc'[q] = pc[q] /\ work'[q] = work[q]
        BY <1>12 DEF Stop
    <2>2. \A q \in S : work[q] # e
        BY <2>1
    <2> QED BY <1>1, <2>1, <2>2
<1>13. ASSUME NEW p \in Pods, ScaleDown(p) PROVE Open(e)'
    BY <1>12, <1>13 DEF ScaleDown
<1>14. CASE ScaleToZero
    BY <1>12, <1>14 DEF ScaleToZero, Live
<1>15. CASE RedisRestart
    BY <1>15 DEF RedisRestart
<1>16. ASSUME NEW p \in Pods, ReadLost(p) PROVE Open(e)'
    <2>1. /\ last < Len(stream) /\ last' = last + 1 /\ faults' = faults + 1
          /\ delivered' = delivered \cup {stream[last + 1]}
          /\ UNCHANGED <<stream, pc, work>>
        BY <1>16 DEF ReadLost
    <2>2. stream[last + 1] \notin delivered
        <3>1. last + 1 \in 1..Len(stream) /\ last + 1 > last
            BY <1>0, <2>1
        <3> QED BY <3>1 DEF IInv, QInv, CursorInv
    <2>3. stream[last + 1] # e
        BY <2>1, <2>2
    <2>4. ASSUME Waiting(e) PROVE Waiting(e)'
        <3>1. PICK i \in (last + 1)..Len(stream) : stream[i] = e
            BY <2>4 DEF Waiting
        <3>2. i \in (last' + 1)..Len(stream')
            BY <1>0, <2>1, <2>3, <3>1
        <3> QED BY <2>1, <3>1, <3>2 DEF Waiting
    <2>5. Held(e) => Held(e)'
        BY <2>1 DEF Held
    <2> QED BY <2>4, <2>5 DEF Open
<1> QED BY <1>3, <1>4, <1>9, <1>10, <1>11, <1>13, <1>14, <1>15, <1>16 DEF Next

(* No entry is lost silently: one that was in the stream or in a turn is   *)
(* lost only when the container that has it exits or is scaled in, when    *)
(* its delivery does not reach the pod, or when Redis restarts.  What      *)
(* QueuedIsAnswered says of fair runs, this says of every step             *)
(* (agent-worker/main.py, scaledobject-agent-worker.yaml).                 *)
LostWithItsHolder ==
    [][\A e \in Entries : Status[e] = "open" /\ Status'[e] = "lost" =>
          \/ \E p \in Pods : work[p] = e /\ pc'[p] \in {"absent", "boot"}
          \/ e \in delivered' /\ e \notin delivered /\ faults' = faults + 1
          \/ restarts' = restarts + 1]_vars

(* An entry is lost by a step that stops its pod, on its way to one, or    *)
(* with Redis, only.                                                       *)
THEOREM LostOnlyWithHolder == Spec => LostWithItsHolder
<1>1. ASSUME IInv, IInv', [Next]_vars, NEW e \in Entries,
             Status[e] = "open", Status'[e] = "lost"
      PROVE  \/ \E p \in Pods : work[p] = e /\ pc'[p] \in {"absent", "boot"}
             \/ e \in delivered' /\ e \notin delivered /\ faults' = faults + 1
             \/ restarts' = restarts + 1
    <2>1. Open(e)
        BY <1>1 DEF Status, Open
    <2>2. ~Open(e)' /\ ~(replies'[e] > 0)
        BY <1>1 DEF Status, Open, IInv, TInv, TypeOK
    <2> QED BY <1>1, <2>1, <2>2, StaysOpen
<1>2. IInv /\ IInv' /\ [Next]_vars =>
          [\A e \in Entries : Status[e] = "open" /\ Status'[e] = "lost" =>
              \/ \E p \in Pods : work[p] = e /\ pc'[p] \in {"absent", "boot"}
              \/ e \in delivered' /\ e \notin delivered /\ faults' = faults + 1
              \/ restarts' = restarts + 1]_vars
    BY <1>1
<1> QED BY <1>2, Inductive, PTL DEF Spec, LostWithItsHolder

-----------------------------------------------------------------------------
(* What nothing in the cluster repairs *)

PendingDelivered == pending \subseteq delivered

LEMMA PendingStep == PendingDelivered /\ [Next]_vars => PendingDelivered'
<1> SUFFICES ASSUME PendingDelivered, [Next]_vars PROVE PendingDelivered'
    OBVIOUS
<1> USE DEF redisVars, podVars, outVars, envVars, PendingDelivered
<1>1. CASE InitStreamJob \/ Reapply \/ ScaleToZero \/ RedisRestart \/ UNCHANGED vars
    BY <1>1 DEF InitStreamJob, Reapply, ScaleToZero, RedisRestart, Stop, vars
<1>2. CASE \E e \in Entries : Enqueue(e) \/ RepeatReply(e)
    BY <1>2 DEF Enqueue, RepeatReply
<1>3. ASSUME NEW p \in Pods, PodStep(p) PROVE PendingDelivered'
    BY <1>3 DEF PodStep, EnsureGroup, LoadTools, Read, ReadNoGroup, FinishTurn,
                PublishReply, PublishChanged, Ack
<1>4. CASE \E p \in Pods : ReadLost(p) \/ Crash(p) \/ ScaleUp(p) \/ ScaleDown(p)
    BY <1>4 DEF ReadLost, Crash, ScaleUp, ScaleDown, Stop
<1> QED BY <1>1, <1>2, <1>3, <1>4 DEF Next

LEMMA PendingInductive == Spec => []PendingDelivered
<1>1. Init => PendingDelivered
    BY DEF Init, PendingDelivered
<1> QED BY <1>1, PendingStep, PTL DEF Spec

(* An entry left pending by a pod that went away is nobody's: no pod takes *)
(* it over and nothing acknowledges it, until Redis forgets it with the    *)
(* rest (agent-worker/main.py never claims, a restarted pod reads ">").    *)
AbandonedStaysPending ==
    [][\A e \in pending : (\A p \in Pods : work[p] # e) =>
          \/ e \in pending' /\ \A p \in Pods : work'[p] # e
          \/ restarts' = restarts + 1]_vars

LEMMA AbandonedStep ==
    ASSUME IInv, PendingDelivered, [Next]_vars,
           NEW e \in pending, \A p \in Pods : work[p] # e, restarts' # restarts + 1
    PROVE  e \in pending' /\ \A p \in Pods : work'[p] # e
<1> USE DEF redisVars, podVars, outVars, envVars
<1>0. /\ TypeOK /\ e \in Entries /\ e # None /\ e \in delivered
      /\ last \in Nat /\ Len(stream) \in Nat
    BY QueueAssumption DEF IInv, TInv, TypeOK, PendingDelivered, QueueAssumption
<1>1. ASSUME pending' = pending, \A p \in Pods : work'[p] \in {work[p], None}
      PROVE  e \in pending' /\ \A p \in Pods : work'[p] # e
    BY <1>0, <1>1
<1>2. CASE InitStreamJob \/ Reapply \/ UNCHANGED vars
           \/ \E d \in Entries : Enqueue(d) \/ RepeatReply(d)
    BY <1>1, <1>2 DEF InitStreamJob, Reapply, Enqueue, RepeatReply, vars
<1>3. ASSUME NEW p \in Pods, Read(p)
      PROVE  e \in pending' /\ \A q \in Pods : work'[q] # e
    <2>1. /\ last < Len(stream) /\ pending' = pending \cup {stream[last + 1]}
          /\ work' = [work EXCEPT ![p] = stream[last + 1]]
        BY <1>3 DEF Read
    <2>2. stream[last + 1] \notin delivered
        <3>1. last + 1 \in 1..Len(stream) /\ last + 1 > last
            BY <1>0, <2>1
        <3> QED BY <3>1 DEF IInv, QInv, CursorInv
    <2> QED BY <1>0, <2>1, <2>2 DEF TypeOK
<1>4. ASSUME NEW p \in Pods, Ack(p)
      PROVE  e \in pending' /\ \A q \in Pods : work'[q] # e
    <2>1. pending' = pending \ {work[p]} /\ work' = [work EXCEPT ![p] = None]
        BY <1>4 DEF Ack
    <2> QED BY <1>0, <2>1 DEF TypeOK
<1>5. ASSUME NEW p \in Pods, PodStep(p)
      PROVE  e \in pending' /\ \A q \in Pods : work'[q] # e
    BY <1>1, <1>3, <1>4, <1>5 DEF PodStep, EnsureGroup, LoadTools, ReadNoGroup,
                FinishTurn, PublishReply, PublishChanged
<1>6. ASSUME NEW p \in Pods, Crash(p) \/ ScaleUp(p)
      PROVE  e \in pending' /\ \A q \in Pods : work'[q] # e
    <2>1. pending' = pending /\ work' \in {work, [work EXCEPT ![p] = None]}
        BY <1>6 DEF Crash, ScaleUp
    <2> QED BY <1>0, <1>1, <2>1 DEF TypeOK
<1>7. ASSUME NEW S, Stop(S)
      PROVE  e \in pending' /\ \A q \in Pods : work'[q] # e
    BY <1>1, <1>7 DEF Stop
<1>8. CASE ScaleToZero \/ \E p \in Pods : ScaleDown(p)
    BY <1>7, <1>8 DEF ScaleToZero, ScaleDown
<1>9. CASE RedisRestart
    BY <1>9 DEF RedisRestart
<1>10. CASE \E p \in Pods : ReadLost(p)
    BY <1>0, <1>10 DEF ReadLost
<1> QED BY <1>2, <1>5, <1>6, <1>8, <1>9, <1>10 DEF Next

(* What a stopped pod held stays in the group's pending list, untouched.   *)
THEOREM AbandonedForGood == Spec => AbandonedStaysPending
<1>1. IInv /\ PendingDelivered /\ [Next]_vars =>
          [\A e \in pending : (\A p \in Pods : work[p] # e) =>
              \/ e \in pending' /\ \A p \in Pods : work'[p] # e
              \/ restarts' = restarts + 1]_vars
    BY AbandonedStep
<1> QED BY <1>1, Inductive, PendingInductive, PTL DEF Spec, AbandonedStaysPending

(* Wiped while no pod runs and no Job is due, the queue stays wedged until *)
(* the Job is applied again, and until then no entry is delivered and none *)
(* has its first answer: without the group KEDA reads no lag and starts no *)
(* pod.                                                                    *)
WedgedUntilReapplied ==
    [][Wedged =>
          /\ Wedged' \/ Reapply
          /\ UNCHANGED <<delivered, notified>>
          /\ \A e \in Entries : replies[e] = 0 => replies'[e] = 0]_vars

(* Only applying init-agent-stream-job.yaml again ends the wedge.          *)
THEOREM WedgeHolds == Spec => WedgedUntilReapplied
<1> DEFINE Kept == /\ Wedged' \/ Reapply
                   /\ UNCHANGED <<delivered, notified>>
                   /\ \A e \in Entries : replies[e] = 0 => replies'[e] = 0
<1>1. ASSUME TypeOK, [Next]_vars, Wedged PROVE Kept
    <2> USE DEF redisVars, podVars, outVars, envVars
    <2>1. \A p \in Pods : pc[p] = "absent"
        BY <1>1 DEF Wedged, Live
    <2>2. ASSUME NEW p \in Pods,
                 PodStep(p) \/ ReadLost(p) \/ Crash(p) \/ ScaleUp(p) \/ ScaleDown(p)
          PROVE  FALSE
        <3>1. Lag = 0
            BY <1>1 DEF Wedged, Lag
        <3>2. ~ScaleUp(p)
            BY <3>1 DEF ScaleUp
        <3>3. pc[p] = "absent"
            BY <2>1
        <3> QED BY <2>2, <3>2, <3>3 DEF PodStep, EnsureGroup, LoadTools, Read, ReadNoGroup,
                FinishTurn, PublishReply, PublishChanged, Ack, ReadLost, Crash, ScaleDown
    <2>3. ~InitStreamJob /\ ~ScaleToZero
        BY <1>1 DEF Wedged, InitStreamJob, ScaleToZero
    <2>4. CASE RedisRestart \/ UNCHANGED vars \/ \E e \in Entries : Enqueue(e)
        BY <1>1, <2>4 DEF RedisRestart, Enqueue, vars, Wedged, Live
    <2>5. CASE Reapply
        BY <2>5 DEF Reapply
    <2>6. CASE \E e \in Entries : RepeatReply(e)
        <3>1. PICK e \in Entries : RepeatReply(e)
            BY <2>6
        <3>2. replies[e] > 0 /\ replies' = [replies EXCEPT ![e] = @ + 1]
            BY <3>1 DEF RepeatReply
        <3>3. \A d \in Entries : replies[d] = 0 => replies'[d] = 0
            BY <1>1, <3>2 DEF TypeOK
        <3>4. Wedged' /\ UNCHANGED <<delivered, notified>>
            BY <1>1, <3>1 DEF RepeatReply, Wedged, Live
        <3> QED BY <3>3, <3>4
    <2> QED BY <1>1, <2>2, <2>3, <2>4, <2>5, <2>6 DEF Next
<1>2. TypeOK /\ [Next]_vars => [Wedged => Kept]_vars
    BY <1>1
<1> QED BY <1>2, TypeCorrect, PTL DEF Spec, WedgedUntilReapplied
=============================================================================
