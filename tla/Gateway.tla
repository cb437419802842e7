------------------------------ MODULE Gateway ------------------------------
(***************************************************************************)
(* websocket-gateway: the hub of connected tabs, one handleWS goroutine    *)
(* per connection, and the single subscribeUpdates goroutine that relays   *)
(* the agent-worker's Redis Pub/Sub messages to the tabs.                  *)
(*                                                                         *)
(* A todo list is abstracted to its version: how many edits went into it.  *)
(* list_todos returns the version of the moment it reads.  A session is    *)
(* one connection; a tab that reconnects comes back as another session.    *)
(* Each session asks the agent at most one question and gets one reply;    *)
(* ChatTab has many, and the second reply to a chat whose XADD or PUBLISH  *)
(* was sent again.  AgentQueue has the queue between XADD and the turn,    *)
(* which is one step here.                                                 *)
(***************************************************************************)
EXTENDS Integers, Sequences, FiniteSets

CONSTANTS Sessions,     \* connections that may be made
          CanStall,     \* sessions whose tab may stop reading its socket
          MaxEdits,     \* bound: edits of the todo list
          MaxFrames,    \* bound: frames of a tab not yet read by its handler
          MaxFails,     \* bound: list_todos calls and XADDs that fail
          MaxDrops,     \* bound: times the subscription to Redis is lost
          MaxRestarts   \* bound: restarts of the gateway

ASSUME GatewayAssumption ==
    /\ CanStall \subseteq Sessions
    /\ MaxEdits \in Nat /\ MaxFrames \in Nat /\ MaxFails \in Nat
    /\ MaxDrops \in Nat /\ MaxRestarts \in Nat

VARIABLES version,   \* edits made to the todo list so far
          open,      \* sessions whose tab has its socket open
          stalled,   \* sessions whose tab has stopped reading
          frames,    \* frames[s]: sent by the tab, not yet read
          owes,      \* sessions whose tab has edited and not yet refreshed
          conns,     \* hub.conns
          pc, got,   \* handleWS of s: where it is, the list it has fetched
          greeted,   \* sessions whose handler has written them a list
          best,      \* best[s]: newest list ever written to s
          own,       \* own[s]: version of the last edit made in tab s
          question,  \* question[s]: how far the question of s has come
          answered,  \* sessions that were sent the reply to their question
          channel,   \* messages on the way to subscribeUpdates, oldest first
          rpc, rmsg, rgot, rleft, \* subscribeUpdates: where it is, its
                     \* message, the list it has fetched, who is left to write
          relayed,   \* version of the last finished broadcast
          noticed,   \* sessions whose turn's todos:changed has been relayed
          fails, drops, restarts

tabVars   == <<open, stalled, frames, owes, own>>
handler   == <<pc, got, greeted>>
sentVars  == <<best, answered>>
relayVars == <<rpc, rmsg, rgot, rleft, relayed, noticed>>
bounds    == <<fails, drops, restarts>>
vars == <<version, tabVars, conns, handler, sentVars, question, channel,
          relayVars, bounds>>

HandlerState == {"none", "hello", "helloWrite", "read", "fetch", "write", "gone"}
Question     == {"none", "queued", "working", "replied", "done"}
Message      == [type : {"reply", "changed"}, to : Sessions]
NoMsg        == [type |-> "none"]

TypeOK ==
    /\ version \in 0..MaxEdits
    /\ open \in SUBSET Sessions /\ stalled \in SUBSET open
    /\ owes \in SUBSET Sessions
    /\ frames \in [Sessions -> Seq({"chat", "refresh"})]
    /\ conns \in SUBSET Sessions
    /\ pc \in [Sessions -> HandlerState]
    /\ greeted \in SUBSET Sessions
    /\ {got, best, own} \subseteq [Sessions -> 0..version]
    /\ question \in [Sessions -> Question]
    /\ answered \in SUBSET Sessions /\ noticed \in SUBSET Sessions
    /\ channel \in Seq(Message)
    /\ rpc \in {"receive", "fetch", "snapshot", "broadcast", "sendTo"}
    /\ rmsg \in Message \cup {NoMsg}
    /\ rgot \in 0..version /\ relayed \in 0..version
    /\ rleft \in SUBSET Sessions
    /\ fails \in 0..MaxFails
    /\ drops \in 0..MaxDrops
    /\ restarts \in 0..MaxRestarts

Init ==
    /\ version = 0
    /\ open = {} /\ stalled = {} /\ owes = {}
    /\ frames = [s \in Sessions |-> <<>>]
    /\ conns = {}
    /\ pc = [s \in Sessions |-> "none"]
    /\ got = [s \in Sessions |-> 0]
    /\ greeted = {}
    /\ best = [s \in Sessions |-> 0]
    /\ own = [s \in Sessions |-> 0]
    /\ question = [s \in Sessions |-> "none"]
    /\ answered = {} /\ noticed = {}
    /\ channel = <<>>
    /\ rpc = "receive" /\ rmsg = NoMsg /\ rgot = 0 /\ rleft = {}
    /\ relayed = 0
    /\ fails = 0 /\ drops = 0 /\ restarts = 0

-----------------------------------------------------------------------------
(* The tab: keda/web/index.html. *)

(* toggle, remove or add: an edit of the list through the REST API ... *)
Edit(s) ==
    /\ s \in open /\ s \notin owes
    /\ version < MaxEdits
    /\ version' = version + 1
    /\ own' = [own EXCEPT ![s] = version + 1]
    /\ owes' = owes \cup {s}
    /\ UNCHANGED <<open, stalled, frames, conns, handler, sentVars, question,
                   channel, relayVars, bounds>>

(* ... and, when fetch() has returned, refresh(). *)
Refresh(s) ==
    /\ s \in owes
    /\ Len(frames[s]) < MaxFrames
    /\ owes' = owes \ {s}
    /\ frames' = [frames EXCEPT ![s] = IF s \in open THEN Append(@, "refresh") ELSE @]
    /\ UNCHANGED <<version, open, stalled, own, conns, handler, sentVars,
                   question, channel, relayVars, bounds>>

Ask(s) ==
    /\ s \in open
    /\ question[s] = "none" /\ "chat" \notin {frames[s][i] : i \in 1..Len(frames[s])}
    /\ Len(frames[s]) < MaxFrames
    /\ frames' = [frames EXCEPT ![s] = Append(@, "chat")]
    /\ UNCHANGED <<version, open, stalled, owes, own, conns, handler, sentVars,
                   question, channel, relayVars, bounds>>

Close(s) ==
    /\ s \in open
    /\ open' = open \ {s}
    /\ stalled' = stalled \ {s}
    /\ UNCHANGED <<version, frames, owes, own, conns, handler, sentVars, question,
                   channel, relayVars, bounds>>

Stall(s) ==
    /\ s \in CanStall \cap open /\ s \notin stalled
    /\ stalled' = stalled \cup {s}
    /\ UNCHANGED <<version, open, frames, owes, own, conns, handler, sentVars,
                   question, channel, relayVars, bounds>>

-----------------------------------------------------------------------------
(* handleWS *)

At(s, from, to) == pc[s] = from /\ pc' = [pc EXCEPT ![s] = to]

(* wsjson.Write waits for a tab that no longer drains its socket, and its  *)
(* error, when the socket is closed, is dropped.                           *)
Writable(s) == s \notin stalled

Send(s, list) ==
    /\ Writable(s)
    /\ best' = IF s \in open /\ list > best[s] THEN [best EXCEPT ![s] = list] ELSE best
    /\ UNCHANGED answered

Accept(s) ==
    /\ At(s, "none", "hello")
    /\ open' = open \cup {s}
    /\ conns' = conns \cup {s}
    /\ UNCHANGED <<version, stalled, frames, owes, own, got, greeted, sentVars,
                   question, channel, relayVars, bounds>>

(* Mutant: a refresh is answered from the list the tab was sent last. *)
FetchCached(s) ==
    /\ \/ At(s, "hello", "helloWrite")
       \/ At(s, "fetch", "write")
    /\ got' = [got EXCEPT ![s] = IF s \in greeted THEN best[s] ELSE version]
    /\ UNCHANGED <<version, tabVars, conns, greeted, sentVars, question, channel,
                   relayVars, bounds>>

Fetch(s) ==
    /\ \/ At(s, "hello", "helloWrite")
       \/ At(s, "fetch", "write")
    /\ got' = [got EXCEPT ![s] = version]
    /\ UNCHANGED <<version, tabVars, conns, greeted, sentVars, question, channel,
                   relayVars, bounds>>

FetchFails(s) ==
    /\ fails < MaxFails
    /\ fails' = fails + 1
    /\ \/ At(s, "hello", "read")
       \/ At(s, "fetch", "read")
    /\ own' = [own EXCEPT ![s] = 0]
    /\ UNCHANGED <<version, open, stalled, frames, owes, conns, got, greeted,
                   sentVars, question, channel, relayVars, drops, restarts>>

WriteList(s) ==
    /\ \/ At(s, "helloWrite", "read")
       \/ At(s, "write", "read")
    /\ Send(s, got[s])
    /\ got' = [got EXCEPT ![s] = 0]
    /\ greeted' = greeted \cup {s}
    /\ UNCHANGED <<version, tabVars, conns, question, channel, relayVars, bounds>>

NextFrame(s, frame) ==
    /\ frames[s] # <<>> /\ Head(frames[s]) = frame
    /\ frames' = [frames EXCEPT ![s] = Tail(@)]

(* The chat frame, with XADD; a failed XADD is only logged. *)
ReadChat(s) ==
    /\ pc[s] = "read" /\ NextFrame(s, "chat")
    /\ \/ /\ question' = [question EXCEPT ![s] = "queued"]
          /\ UNCHANGED fails
       \/ /\ fails < MaxFails /\ fails' = fails + 1
          /\ UNCHANGED question
    /\ UNCHANGED <<version, open, stalled, owes, own, conns, handler, sentVars,
                   channel, relayVars, drops, restarts>>

ReadRefresh(s) ==
    /\ At(s, "read", "fetch") /\ NextFrame(s, "refresh")
    /\ UNCHANGED <<version, open, stalled, owes, own, conns, got, greeted,
                   sentVars, question, channel, relayVars, bounds>>

(* Mutant: no deferred unregister. *)
ReadClosedLeaks(s) ==
    /\ At(s, "read", "gone")
    /\ s \notin open /\ frames[s] = <<>>
    /\ UNCHANGED <<version, tabVars, conns, got, greeted, sentVars, question, channel,
                   relayVars, bounds>>

(* wsjson.Read fails: the deferred unregister. *)
ReadClosed(s) ==
    /\ At(s, "read", "gone")
    /\ s \notin open /\ frames[s] = <<>>
    /\ conns' = conns \ {s}
    /\ UNCHANGED <<version, tabVars, got, greeted, sentVars, question, channel,
                   relayVars, bounds>>

HandlerStep(s) ==
    \/ Fetch(s)
    \/ WriteList(s)
    \/ ReadChat(s)
    \/ ReadRefresh(s)
    \/ ReadClosed(s)

-----------------------------------------------------------------------------
(* The agent-worker, as process_entry shows it to the gateway. *)

WorkerVars == <<tabVars, conns, handler, sentVars, relayVars, bounds>>

StartTurn(s) ==
    /\ question[s] = "queued"
    /\ question' = [question EXCEPT ![s] = "working"]
    /\ UNCHANGED <<version, channel, WorkerVars>>

WorkerEdit(s) ==
    /\ question[s] = "working"
    /\ version < MaxEdits
    /\ version' = version + 1
    /\ UNCHANGED <<question, channel, WorkerVars>>

Publish(s, type) == channel' = Append(channel, [type |-> type, to |-> s])

PublishReply(s) ==
    /\ question[s] = "working"
    /\ question' = [question EXCEPT ![s] = "replied"]
    /\ Publish(s, "reply")
    /\ UNCHANGED <<version, WorkerVars>>

PublishChanged(s) ==
    /\ question[s] = "replied"
    /\ question' = [question EXCEPT ![s] = "done"]
    /\ Publish(s, "changed")
    /\ UNCHANGED <<version, WorkerVars>>

WorkerStep(s) == StartTurn(s) \/ PublishReply(s) \/ PublishChanged(s)

(* The subscription breaks: Pub/Sub keeps nothing for an absent reader. *)
Drop ==
    /\ drops < MaxDrops
    /\ channel # <<>>
    /\ drops' = drops + 1
    /\ channel' = <<>>
    /\ UNCHANGED <<version, question, tabVars, conns, handler, sentVars, relayVars,
                   fails, restarts>>

-----------------------------------------------------------------------------
(* subscribeUpdates *)

relayFrame == <<version, tabVars, conns, handler, question, bounds>>

(* Mutant: each message is handled in a goroutine of its own. *)
ReceiveAny ==
    /\ rpc = "receive"
    /\ \E i \in 1..Len(channel) :
          /\ rmsg' = channel[i]
          /\ channel' = SubSeq(channel, 1, i - 1) \o SubSeq(channel, i + 1, Len(channel))
    /\ rpc' = IF rmsg'.type = "changed" THEN "fetch" ELSE "sendTo"
    /\ UNCHANGED <<relayFrame, sentVars, rgot, rleft, relayed, noticed>>

Receive ==
    /\ rpc = "receive" /\ channel # <<>>
    /\ rmsg' = Head(channel)
    /\ channel' = Tail(channel)
    /\ rpc' = IF rmsg'.type = "changed" THEN "fetch" ELSE "sendTo"
    /\ UNCHANGED <<relayFrame, sentVars, rgot, rleft, relayed, noticed>>

RelayFetch ==
    /\ rpc = "fetch"
    /\ rgot' = version
    /\ rpc' = "snapshot"
    /\ UNCHANGED <<relayFrame, sentVars, channel, rmsg, rleft, relayed, noticed>>

(* Mutant: the goroutine returns instead of going on with the next message. *)
RelayFetchFailsReturns ==
    /\ rpc = "fetch"
    /\ fails < MaxFails
    /\ fails' = fails + 1
    /\ rpc' = "returned" /\ rmsg' = NoMsg
    /\ UNCHANGED <<version, tabVars, conns, handler, question, drops, restarts,
                   sentVars, channel, rgot, rleft, relayed, noticed>>

(* The notice is dropped; nobody asks again. *)
RelayFetchFails ==
    /\ rpc = "fetch"
    /\ fails < MaxFails
    /\ fails' = fails + 1
    /\ rpc' = "receive" /\ rmsg' = NoMsg
    /\ UNCHANGED <<version, tabVars, conns, handler, question, drops, restarts,
                   sentVars, channel, rgot, rleft, relayed, noticed>>

(* Mutant: tabs about to get their initial list are left out. *)
SnapshotGreeted ==
    /\ rpc = "snapshot"
    /\ rleft' = {s \in conns : pc[s] # "helloWrite"}
    /\ rpc' = "broadcast"
    /\ UNCHANGED <<relayFrame, sentVars, channel, rmsg, rgot, relayed, noticed>>

(* broadcast copies the connections under the lock ... *)
Snapshot ==
    /\ rpc = "snapshot"
    /\ rleft' = conns
    /\ rpc' = "broadcast"
    /\ UNCHANGED <<relayFrame, sentVars, channel, rmsg, rgot, relayed, noticed>>

(* ... and writes to them one after the other, without it. *)
BroadcastTo(s) ==
    /\ rpc = "broadcast" /\ s \in rleft
    /\ Send(s, rgot)
    /\ rleft' = rleft \ {s}
    /\ UNCHANGED <<relayFrame, channel, rpc, rmsg, rgot, relayed, noticed>>

BroadcastDone ==
    /\ rpc = "broadcast" /\ rleft = {}
    /\ relayed' = rgot
    /\ noticed' = noticed \cup {rmsg.to}
    /\ rpc' = "receive" /\ rmsg' = NoMsg /\ rgot' = 0
    /\ UNCHANGED <<relayFrame, sentVars, channel, rleft>>

SendTo ==
    /\ rpc = "sendTo"
    /\ LET s == rmsg.to IN
         /\ s \in conns => Writable(s)
         /\ answered' = IF s \in conns \cap open THEN answered \cup {s} ELSE answered
    /\ rpc' = "receive" /\ rmsg' = NoMsg
    /\ UNCHANGED <<relayFrame, channel, best, rgot, rleft, relayed, noticed>>

RelayStep ==
    \/ Receive
    \/ RelayFetch
    \/ Snapshot
    \/ \E s \in Sessions : BroadcastTo(s)
    \/ BroadcastDone
    \/ SendTo

(* The gateway's container restarts: every connection breaks. *)
Restart ==
    /\ restarts < MaxRestarts
    /\ restarts' = restarts + 1
    /\ open' = {} /\ stalled' = {} /\ conns' = {}
    /\ frames' = [s \in Sessions |-> <<>>]
    /\ pc' = [s \in Sessions |-> IF pc[s] = "none" THEN "none" ELSE "gone"]
    /\ channel' = <<>>
    /\ rpc' = "receive" /\ rmsg' = NoMsg /\ rgot' = 0 /\ rleft' = {}
    /\ got' = [s \in Sessions |-> 0]
    /\ UNCHANGED <<version, owes, own, greeted, sentVars, question, relayed, noticed,
                   fails, drops>>

-----------------------------------------------------------------------------
Tab(s) == Edit(s) \/ Refresh(s) \/ Ask(s) \/ Close(s) \/ Stall(s)

Next ==
    \/ \E s \in Sessions :
          \/ Tab(s) \/ Accept(s) \/ HandlerStep(s) \/ FetchFails(s)
          \/ WorkerStep(s) \/ WorkerEdit(s)
    \/ RelayStep
    \/ RelayFetchFails
    \/ Drop
    \/ Restart

Spec == Init /\ [][Next]_vars

(* A goroutine that can step does: list_todos answers or fails within the  *)
(* mcp-server's timeouts, and a closed socket is noticed.  Nothing obliges *)
(* a tab to read, to ask, to edit or to close, nor a worker to reply.      *)
FairSpec ==
    /\ Spec
    /\ \A s \in Sessions : WF_vars(HandlerStep(s))
    /\ WF_vars(RelayStep)

-----------------------------------------------------------------------------
(* Properties *)

(* No tab is forgotten by a broadcast: once subscribeUpdates has relayed a *)
(* list, every open tab past its initial list has been written one at      *)
(* least as new, even one that connected in the middle of the broadcast.   *)
(* handleWS registers before it fetches, and broadcast fetches before it   *)
(* copies the connections; swap either and a tab misses the notice.        *)
BroadcastReachesAll ==
    \A s \in open \cap greeted :
        pc[s] \in {"read", "fetch", "write"} => best[s] >= relayed

(* A tab whose refresh has been answered has been sent its own last edit,  *)
(* unless list_todos failed for it (own[s] is then 0 again).               *)
ReadYourEdits ==
    \A s \in open \ owes :
        pc[s] = "read" /\ frames[s] = <<>> => best[s] >= own[s]

(* The reply to a question is written before the list its turn produced is *)
(* relayed: process_entry publishes them in this order and one goroutine   *)
(* relays them.                                                            *)
ReplyBeforeNotice ==
    [][\A s \in Sessions : s \in answered' \ answered => s \notin noticed]_vars

ReplyTo(s) == [type |-> "reply", to |-> s]
Coming(s)  == rmsg = ReplyTo(s) \/ \E i \in 1..Len(channel) : channel[i] = ReplyTo(s)

(* A published reply is written to the tab that asked, as long as that tab *)
(* stays connected and the subscription to Redis is not lost while it is   *)
(* on its way.  It depends on every other tab as well: one goroutine       *)
(* writes to all of them and no write has a deadline, so a tab that stops  *)
(* reading is an exception for everybody's replies.                        *)
ReplyArrives ==
    \A s \in Sessions, lost \in 0..MaxDrops :
        Coming(s) /\ drops = lost ~>
            s \in answered \/ s \notin open \/ stalled # {} \/ drops # lost

(* A closed tab does not stay in the hub. *)
ClosedIsForgotten ==
    \A s \in Sessions : s \notin open ~> s \notin conns
=============================================================================
