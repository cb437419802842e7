---------------------------- MODULE GatewayProofs ----------------------------
(***************************************************************************)
(* Proofs about Gateway, for any number of sessions, edits, failures and   *)
(* restarts: that a broadcast reaches every connected tab, that a tab is   *)
(* sent its own edits, that a reply comes before the notice of its turn    *)
(* and is written once, and that the hub holds the connections whose       *)
(* handler runs.                                                           *)
(*                                                                         *)
(* BroadcastReachesAll says nothing of a broadcast that is still going on, *)
(* nor of a handler that has not written its first list; the invariant     *)
(* does. A tab the broadcast has passed, or never had in its copy of the   *)
(* hub, either has the list already, or its handler holds one as new, or   *)
(* its handler has yet to fetch and will then get one as new.              *)
(***************************************************************************)
EXTENDS Gateway, TLAPS

(* The part of TypeOK the argument needs. *)
NumInv ==
    /\ version \in Nat /\ relayed \in Nat /\ rgot \in Nat
    /\ got \in [Sessions -> Nat] /\ best \in [Sessions -> Nat]
    /\ pc \in [Sessions -> HandlerState]
    /\ relayed <= version /\ rgot <= version

(* An open socket is in the hub, from before its first list is fetched. *)
HubInv ==
    /\ open \subseteq conns
    /\ \A s \in Sessions : pc[s] = "none" => s \notin open
    /\ \A s \in Sessions : s \in greeted => pc[s] \notin {"none", "hello", "helloWrite"}

(* The tab of s has list v, or its handler holds one as new, or the        *)
(* handler has yet to fetch its first list.                                *)
Reached(s, v) ==
    /\ s \in greeted => best[s] >= v
    /\ pc[s] \in {"helloWrite", "write"} => best[s] >= v \/ got[s] >= v

RelayInv ==
    /\ rpc \in {"snapshot", "broadcast"} => rgot >= relayed
    /\ \A s \in open : s \in Sessions /\ Reached(s, relayed)
    /\ rpc = "broadcast" => \A s \in open \ rleft : Reached(s, rgot)

GInv == NumInv /\ HubInv /\ RelayInv

-----------------------------------------------------------------------------
LEMMA GInit == Init => GInv
BY DEF Init, GInv, NumInv, HubInv, RelayInv, HandlerState

(* Steps that leave the hub, the handlers and what was sent alone. *)
Quiet ==
    /\ UNCHANGED <<conns, pc, got, greeted, best, relayed>>
    /\ open' \subseteq open
    /\ version' \in Nat /\ version' >= version

LEMMA QuietStep ==
    ASSUME GInv, Quiet,
           \/ UNCHANGED <<rpc, rgot, rleft>>
           \/ rpc' \in {"receive", "sendTo"} /\ rgot' \in {rgot, 0}
           \/ rpc' = "fetch" /\ rgot' = rgot
    PROVE  GInv'
BY DEF GInv, NumInv, HubInv, RelayInv, Reached, Quiet

(* What a handler's write to s does for any list v. *)
LEMMA SendReaches ==
    ASSUME NumInv, NEW s \in Sessions, NEW list \in Nat, Send(s, list)
    PROVE  /\ best' \in [Sessions -> Nat]
           /\ \A t \in Sessions : best'[t] >= best[t]
           /\ s \in open => best'[s] >= list
BY DEF NumInv, Send

(* A step of the handler of s that closes nothing and fetches nothing. *)
LEMMA HandlerMoves ==
    ASSUME GInv, NEW s \in Sessions, NEW from, NEW to \in {"read", "fetch"},
           At(s, from, to), from \in {"hello", "fetch", "read"},
           UNCHANGED <<version, open, conns, got, greeted, best, relayed, rpc, rgot, rleft>>
    PROVE  GInv'
BY DEF GInv, NumInv, HubInv, RelayInv, Reached, At, HandlerState

(* Every action preserves the invariant. *)
LEMMA GStep == GInv /\ [Next]_vars => GInv'
<1> SUFFICES ASSUME GInv, [Next]_vars PROVE GInv'
  OBVIOUS
<1> USE DEF tabVars, handler, sentVars, relayVars, bounds, relayFrame, WorkerVars
<1>v. version \in Nat
  BY DEF GInv, NumInv
<1>1. ASSUME NEW s \in Sessions, Tab(s) PROVE GInv'
  BY <1>1, <1>v, QuietStep DEF Tab, Edit, Refresh, Ask, Close, Stall, Quiet
<1>2. ASSUME NEW s \in Sessions, Accept(s) PROVE GInv'
  BY <1>2 DEF Accept, At, GInv, NumInv, HubInv, RelayInv, Reached, HandlerState
<1>3. ASSUME NEW s \in Sessions, HandlerStep(s) PROVE GInv'
  <2>1. CASE Fetch(s)
    <3>1. NumInv' /\ HubInv'
      BY <2>1 DEF Fetch, At, GInv, NumInv, HubInv, HandlerState
    <3>2. RelayInv'
      BY <2>1 DEF Fetch, At, GInv, NumInv, HubInv, RelayInv, Reached
    <3> QED
      BY <3>1, <3>2 DEF GInv
  <2>2. CASE WriteList(s)
    <3>1. /\ best' \in [Sessions -> Nat]
          /\ \A t \in Sessions : best'[t] >= best[t]
          /\ s \in open => best'[s] >= got[s]
      BY <2>2, SendReaches DEF WriteList, GInv, NumInv
    <3>2. NumInv' /\ HubInv'
      BY <2>2, <3>1 DEF WriteList, At, GInv, NumInv, HubInv, HandlerState
    <3>3. pc[s] \in {"helloWrite", "write"} /\ pc' = [pc EXCEPT ![s] = "read"]
      BY <2>2 DEF WriteList, At
    <3>4. ASSUME NEW t \in open, t \in Sessions, NEW v \in Nat, Reached(t, v)
          PROVE  Reached(t, v)'
      BY <2>2, <3>1, <3>3, <3>4 DEF WriteList, Reached, GInv, NumInv
    <3>5. RelayInv'
      BY <2>2, <3>4 DEF WriteList, GInv, NumInv, RelayInv
    <3> QED
      BY <3>2, <3>5 DEF GInv
  <2>3. CASE ReadChat(s)
    BY <2>3, <1>v, QuietStep DEF ReadChat, NextFrame, Quiet
  <2>4. CASE ReadRefresh(s)
    BY <2>4, HandlerMoves DEF ReadRefresh, NextFrame
  <2>5. CASE ReadClosed(s)
    BY <2>5 DEF ReadClosed, At, GInv, NumInv, HubInv, RelayInv, Reached, HandlerState
  <2> QED
    BY <1>3, <2>1, <2>2, <2>3, <2>4, <2>5 DEF HandlerStep
<1>4. ASSUME NEW s \in Sessions, FetchFails(s) PROVE GInv'
  BY <1>4, HandlerMoves DEF FetchFails
<1>5. ASSUME NEW s \in Sessions, WorkerStep(s) \/ WorkerEdit(s) PROVE GInv'
  BY <1>5, <1>v, QuietStep
     DEF WorkerStep, StartTurn, WorkerEdit, PublishReply, PublishChanged, Publish, Quiet
<1>6. CASE RelayStep
  <2>1. CASE Receive
    BY <2>1, <1>v, QuietStep DEF Receive, Quiet
  <2>2. CASE RelayFetch
    BY <2>2 DEF RelayFetch, GInv, NumInv, HubInv, RelayInv, Reached
  <2>3. CASE Snapshot
    BY <2>3 DEF Snapshot, GInv, NumInv, HubInv, RelayInv, Reached
  <2>4. ASSUME NEW s \in Sessions, BroadcastTo(s) PROVE GInv'
    <3>1. /\ best' \in [Sessions -> Nat]
          /\ \A t \in Sessions : best'[t] >= best[t]
          /\ s \in open => best'[s] >= rgot
      BY <2>4, SendReaches DEF BroadcastTo, GInv, NumInv
    <3>2. NumInv' /\ HubInv'
      BY <2>4, <3>1 DEF BroadcastTo, GInv, NumInv, HubInv
    <3>3. ASSUME NEW t \in open, t \in Sessions, NEW v \in Nat, Reached(t, v)
          PROVE  Reached(t, v)'
      BY <2>4, <3>1, <3>3 DEF BroadcastTo, Reached, GInv, NumInv
    <3>4. s \in open => Reached(s, rgot)'
      BY <2>4, <3>1 DEF BroadcastTo, Reached, GInv, NumInv
    <3>5. RelayInv'
      BY <2>4, <3>3, <3>4 DEF BroadcastTo, GInv, NumInv, RelayInv
    <3> QED
      BY <3>2, <3>5 DEF GInv
  <2>5. CASE BroadcastDone
    BY <2>5 DEF BroadcastDone, GInv, NumInv, HubInv, RelayInv, Reached
  <2>6. CASE SendTo
    BY <2>6, <1>v, QuietStep DEF SendTo, Quiet
  <2> QED
    BY <1>6, <2>1, <2>2, <2>3, <2>4, <2>5, <2>6 DEF RelayStep
<1>7. CASE RelayFetchFails
  BY <1>7, <1>v, QuietStep DEF RelayFetchFails, Quiet
<1>8. CASE Drop
  BY <1>8, <1>v, QuietStep DEF Drop, Quiet
<1>9. CASE Restart
  BY <1>9 DEF Restart, GInv, NumInv, HubInv, RelayInv, Reached, HandlerState
<1>10. CASE UNCHANGED vars
  BY <1>10, <1>v, QuietStep DEF vars, Quiet
<1> QED
  BY <1>1, <1>2, <1>3, <1>4, <1>5, <1>6, <1>7, <1>8, <1>9, <1>10 DEF Next

LEMMA GInductive == Spec => []GInv
  BY GInit, GStep, PTL DEF Spec

(* No connected tab misses a list that subscribeUpdates has relayed. *)
THEOREM EveryTabReached == Spec => []BroadcastReachesAll
<1>1. GInv => BroadcastReachesAll
  BY DEF GInv, NumInv, RelayInv, Reached, BroadcastReachesAll
<1> QED
  BY <1>1, GInductive, PTL

-----------------------------------------------------------------------------
(* Types, with the message subscribeUpdates has in hand. *)
HandInv ==
    /\ rpc = "receive" <=> rmsg = NoMsg
    /\ rpc = "sendTo" => rmsg \in Message /\ rmsg.type = "reply"
    /\ rpc \in {"fetch", "snapshot", "broadcast"} => rmsg \in Message /\ rmsg.type = "changed"

LEMMA TypeInit == Init => TypeOK
<1> SUFFICES ASSUME Init PROVE TypeOK
    OBVIOUS
<1> USE GatewayAssumption
<1>1. /\ frames \in [Sessions -> Seq({"chat", "refresh"})] /\ channel \in Seq(Message)
      /\ pc \in [Sessions -> HandlerState] /\ question \in [Sessions -> Question]
    BY DEF Init, HandlerState, Question
<1>2. {got, best, own} \subseteq [Sessions -> 0..version] /\ version \in 0..MaxEdits
    BY DEF Init
<1>3. /\ open \in SUBSET Sessions /\ stalled \in SUBSET open /\ owes \in SUBSET Sessions
      /\ conns \in SUBSET Sessions /\ greeted \in SUBSET Sessions
      /\ answered \in SUBSET Sessions /\ noticed \in SUBSET Sessions /\ rleft \in SUBSET Sessions
    BY DEF Init
<1>4. rmsg \in Message \cup {NoMsg} /\ rgot \in 0..version /\ relayed \in 0..version
    BY DEF Init
<1>5. fails \in 0..MaxFails /\ drops \in 0..MaxDrops /\ restarts \in 0..MaxRestarts
    BY DEF Init
<1>6. rpc \in {"receive", "fetch", "snapshot", "broadcast", "sendTo"}
    BY DEF Init
<1> QED BY <1>1, <1>2, <1>3, <1>4, <1>5, <1>6 DEF TypeOK

(* One more edit: what was a version stays one. *)
LEMMA Versions ==
    ASSUME TypeOK, version' \in 0..MaxEdits, version' >= version
    PROVE  /\ {got, best, own} \subseteq [Sessions -> 0..version']
           /\ rgot \in 0..version' /\ relayed \in 0..version'
           /\ version \in Nat /\ version' \in Nat
<1> USE GatewayAssumption
<1>1. version \in Nat /\ version' \in Nat /\ 0..version \subseteq 0..version'
    BY DEF TypeOK
<1>2. ASSUME NEW f \in [Sessions -> 0..version] PROVE f \in [Sessions -> 0..version']
    BY <1>1, <1>2
<1> QED BY <1>1, <1>2 DEF TypeOK

LEMMA SendTypes ==
    ASSUME TypeOK, NEW s \in Sessions, NEW list \in 0..version, Send(s, list)
    PROVE  best' \in [Sessions -> 0..version] /\ answered' = answered
BY DEF Send, TypeOK

(* A handler that moves on. *)
LEMMA AtTypes ==
    ASSUME TypeOK, NEW s \in Sessions, NEW from, NEW to \in HandlerState, At(s, from, to)
    PROVE  /\ pc' \in [Sessions -> HandlerState] /\ pc[s] = from /\ pc'[s] = to
           /\ \A t \in Sessions \ {s} : pc'[t] = pc[t]
BY DEF At, TypeOK

(* A tab's frames: one more, or the first one read. *)
LEMMA FramesTypes ==
    ASSUME NEW q \in Seq({"chat", "refresh"})
    PROVE  /\ \A f \in {"chat", "refresh"} : Append(q, f) \in Seq({"chat", "refresh"})
           /\ q # <<>> => Tail(q) \in Seq({"chat", "refresh"})
OBVIOUS

LEMMA TabTypes == ASSUME TypeOK, NEW s \in Sessions, Tab(s) PROVE TypeOK'
<1> USE GatewayAssumption DEF tabVars, handler, sentVars, relayVars, bounds
<1>1. CASE Edit(s)
    <2>1. version' \in 0..MaxEdits /\ version' >= version /\ version' = version + 1
        BY <1>1 DEF Edit, TypeOK
    <2>2. /\ {got, best, own} \subseteq [Sessions -> 0..version']
          /\ rgot \in 0..version' /\ relayed \in 0..version' /\ version' \in 0..version'
        BY <2>1, Versions
    <2>3. own' \in [Sessions -> 0..version'] /\ owes' \in SUBSET Sessions
        BY <1>1, <2>1, <2>2 DEF Edit, TypeOK
    <2> QED BY <1>1, <2>1, <2>2, <2>3 DEF Edit, TypeOK
<1>2. CASE Refresh(s)
    <2>1. frames' \in [Sessions -> Seq({"chat", "refresh"})]
        BY <1>2, FramesTypes DEF Refresh, TypeOK
    <2> QED BY <1>2, <2>1 DEF Refresh, TypeOK
<1>3. CASE Ask(s)
    <2>1. frames' \in [Sessions -> Seq({"chat", "refresh"})]
        BY <1>3, FramesTypes DEF Ask, TypeOK
    <2> QED BY <1>3, <2>1 DEF Ask, TypeOK
<1>4. CASE Close(s)
    BY <1>4 DEF Close, TypeOK
<1>5. CASE Stall(s)
    BY <1>5 DEF Stall, TypeOK
<1> QED BY <1>1, <1>2, <1>3, <1>4, <1>5 DEF Tab

LEMMA HandlerTypes ==
    ASSUME TypeOK, NEW s \in Sessions, Accept(s) \/ HandlerStep(s) \/ FetchFails(s)
    PROVE  TypeOK'
<1> USE GatewayAssumption DEF tabVars, handler, sentVars, relayVars, bounds
<1> {"hello", "helloWrite", "read", "fetch", "write", "gone"} \subseteq HandlerState
    BY DEF HandlerState
<1>1. CASE Accept(s)
    <2>1. pc' \in [Sessions -> HandlerState]
        BY <1>1, AtTypes DEF Accept
    <2> QED BY <1>1, <2>1 DEF Accept, TypeOK
<1>2. CASE Fetch(s)
    <2>1. pc' \in [Sessions -> HandlerState]
        BY <1>2, AtTypes DEF Fetch
    <2>2. got' \in [Sessions -> 0..version]
        BY <1>2 DEF Fetch, TypeOK
    <2> QED BY <1>2, <2>1, <2>2 DEF Fetch, TypeOK
<1>3. CASE WriteList(s)
    <2>1. pc' \in [Sessions -> HandlerState]
        BY <1>3, AtTypes DEF WriteList
    <2>2. got' \in [Sessions -> 0..version] /\ got[s] \in 0..version
        BY <1>3 DEF WriteList, TypeOK
    <2>3. best' \in [Sessions -> 0..version] /\ answered' = answered
        BY <1>3, <2>2, SendTypes DEF WriteList
    <2> QED BY <1>3, <2>1, <2>2, <2>3 DEF WriteList, TypeOK
<1>4. CASE ReadChat(s)
    <2>1. frames' \in [Sessions -> Seq({"chat", "refresh"})]
        BY <1>4, FramesTypes DEF ReadChat, NextFrame, TypeOK
    <2>2. question' \in [Sessions -> Question] /\ fails' \in 0..MaxFails
        BY <1>4 DEF ReadChat, TypeOK, Question
    <2> QED BY <1>4, <2>1, <2>2 DEF ReadChat, TypeOK
<1>5. CASE ReadRefresh(s)
    <2>1. frames' \in [Sessions -> Seq({"chat", "refresh"})]
        BY <1>5, FramesTypes DEF ReadRefresh, NextFrame, TypeOK
    <2>2. pc' \in [Sessions -> HandlerState]
        BY <1>5, AtTypes DEF ReadRefresh
    <2> QED BY <1>5, <2>1, <2>2 DEF ReadRefresh, TypeOK
<1>6. CASE ReadClosed(s)
    <2>1. pc' \in [Sessions -> HandlerState]
        BY <1>6, AtTypes DEF ReadClosed
    <2> QED BY <1>6, <2>1 DEF ReadClosed, TypeOK
<1>7. CASE FetchFails(s)
    <2>1. pc' \in [Sessions -> HandlerState]
        BY <1>7, AtTypes DEF FetchFails
    <2>2. own' \in [Sessions -> 0..version] /\ fails' \in 0..MaxFails
        BY <1>7 DEF FetchFails, TypeOK
    <2> QED BY <1>7, <2>1, <2>2 DEF FetchFails, TypeOK
<1> QED BY <1>1, <1>2, <1>3, <1>4, <1>5, <1>6, <1>7 DEF HandlerStep

LEMMA WorkerTypes ==
    ASSUME TypeOK, NEW s \in Sessions, WorkerStep(s) \/ WorkerEdit(s) PROVE TypeOK'
<1> USE GatewayAssumption DEF tabVars, handler, sentVars, relayVars, bounds, WorkerVars
<1>1. CASE WorkerEdit(s)
    <2>1. version' \in 0..MaxEdits /\ version' >= version
        BY <1>1 DEF WorkerEdit, TypeOK
    <2>2. /\ {got, best, own} \subseteq [Sessions -> 0..version']
          /\ rgot \in 0..version' /\ relayed \in 0..version'
        BY <2>1, Versions
    <2> QED BY <1>1, <2>1, <2>2 DEF WorkerEdit, TypeOK
<1>2. CASE WorkerStep(s)
    <2>1. question' \in [Sessions -> Question]
        BY <1>2 DEF WorkerStep, StartTurn, PublishReply, PublishChanged, TypeOK, Question
    <2>2. channel' \in Seq(Message)
        <3>1. \A type \in {"reply", "changed"} : [type |-> type, to |-> s] \in Message
            BY DEF Message
        <3>2. channel \in Seq(Message)
            BY DEF TypeOK
        <3>3. ASSUME NEW m \in Message PROVE Append(channel, m) \in Seq(Message)
            BY <3>2, <3>3
        <3> QED BY <1>2, <3>1, <3>2, <3>3
                DEF WorkerStep, StartTurn, PublishReply, PublishChanged, Publish
    <2> QED BY <1>2, <2>1, <2>2
            DEF WorkerStep, StartTurn, PublishReply, PublishChanged, TypeOK
<1> QED BY <1>1, <1>2

LEMMA RelayTypes ==
    ASSUME TypeOK, HandInv, RelayStep \/ RelayFetchFails PROVE TypeOK' /\ HandInv'
<1> USE GatewayAssumption DEF tabVars, handler, sentVars, relayVars, bounds, relayFrame
<1>m. \A m \in Message : m # NoMsg /\ m.type \in {"reply", "changed"} /\ m.to \in Sessions
    BY DEF Message, NoMsg
<1>1. CASE Receive
    <2>1. /\ channel' \in Seq(Message) /\ rmsg' \in Message
          /\ rpc' = IF rmsg'.type = "changed" THEN "fetch" ELSE "sendTo"
        BY <1>1 DEF Receive, TypeOK
    <2>2. TypeOK'
        BY <1>1, <2>1 DEF Receive, TypeOK
    <2> QED BY <1>m, <2>1, <2>2 DEF HandInv
<1>2. CASE RelayFetch
    BY <1>2 DEF RelayFetch, TypeOK, HandInv
<1>3. CASE Snapshot
    BY <1>3 DEF Snapshot, TypeOK, HandInv
<1>4. ASSUME NEW s \in Sessions, BroadcastTo(s) PROVE TypeOK' /\ HandInv'
    <2>1. best' \in [Sessions -> 0..version] /\ answered' = answered
        BY <1>4, SendTypes DEF BroadcastTo, TypeOK
    <2>2. HandInv'
        BY <1>4 DEF BroadcastTo, HandInv
    <2> QED BY <1>4, <2>1, <2>2 DEF BroadcastTo, TypeOK
<1>5. CASE BroadcastDone
    <2>1. rmsg \in Message
        BY <1>5 DEF BroadcastDone, HandInv
    <2>2. noticed' \in SUBSET Sessions
        BY <1>5, <1>m, <2>1 DEF BroadcastDone, TypeOK
    <2>3. HandInv'
        BY <1>5 DEF BroadcastDone, HandInv
    <2> QED BY <1>5, <2>2, <2>3 DEF BroadcastDone, TypeOK
<1>6. CASE SendTo
    <2>1. rmsg.to \in Sessions
        BY <1>6, <1>m DEF SendTo, HandInv
    <2>2. answered' \in SUBSET Sessions
        BY <1>6, <2>1 DEF SendTo, TypeOK
    <2>3. HandInv'
        BY <1>6 DEF SendTo, HandInv
    <2> QED BY <1>6, <2>2, <2>3 DEF SendTo, TypeOK
<1>7. CASE RelayFetchFails
    <2>1. HandInv'
        BY <1>7 DEF RelayFetchFails, HandInv
    <2> QED BY <1>7, <2>1 DEF RelayFetchFails, TypeOK
<1> QED BY <1>1, <1>2, <1>3, <1>4, <1>5, <1>6, <1>7 DEF RelayStep

LEMMA DropTypes == ASSUME TypeOK, Drop PROVE TypeOK'
<1>1. channel' \in Seq(Message) /\ drops' \in 0..MaxDrops
    BY GatewayAssumption DEF Drop, TypeOK
<1> QED BY <1>1 DEF Drop, TypeOK, tabVars, handler, sentVars, relayVars

LEMMA RestartTypes == ASSUME TypeOK, Restart PROVE TypeOK' /\ HandInv'
<1> USE GatewayAssumption
<1>1. frames' \in [Sessions -> Seq({"chat", "refresh"})] /\ channel' \in Seq(Message)
    BY DEF Restart
<1>2. restarts' \in 0..MaxRestarts /\ version' = version /\ version \in Nat
    BY DEF Restart, TypeOK
<1>3. got' \in [Sessions -> 0..version'] /\ rgot' \in 0..version'
    BY <1>2 DEF Restart
<1>4. pc' \in [Sessions -> HandlerState]
    <2>1. pc' = [s \in Sessions |-> IF pc[s] = "none" THEN "none" ELSE "gone"]
        BY DEF Restart
    <2>2. "none" \in HandlerState /\ "gone" \in HandlerState
        BY DEF HandlerState
    <2> QED BY <2>1, <2>2
<1>5. HandInv'
    BY DEF Restart, HandInv
<1>6. {got, best, own}' \subseteq [Sessions -> 0..version']
    BY <1>2, <1>3 DEF Restart, TypeOK, sentVars
<1>7. /\ open' = {} /\ stalled' = {} /\ conns' = {} /\ rleft' = {} /\ rpc' = "receive"
      /\ rmsg' = NoMsg
      /\ UNCHANGED <<owes, greeted, question, answered, noticed, relayed, fails, drops>>
    BY DEF Restart, sentVars
<1>8. /\ version' \in 0..MaxEdits /\ relayed' \in 0..version'
      /\ fails' \in 0..MaxFails /\ drops' \in 0..MaxDrops
      /\ owes' \in SUBSET Sessions /\ greeted' \in SUBSET Sessions
      /\ answered' \in SUBSET Sessions /\ noticed' \in SUBSET Sessions
      /\ question' \in [Sessions -> Question]
    BY <1>2, <1>7 DEF TypeOK
<1>9. /\ open' \in SUBSET Sessions /\ stalled' \in SUBSET open' /\ conns' \in SUBSET Sessions
      /\ rleft' \in SUBSET Sessions /\ rmsg' \in Message \cup {NoMsg}
      /\ rpc' \in {"receive", "fetch", "snapshot", "broadcast", "sendTo"}
    BY <1>7
<1>10. TypeOK'
    BY <1>1, <1>2, <1>3, <1>4, <1>6, <1>8, <1>9 DEF TypeOK
<1> QED BY <1>5, <1>10

LEMMA TypeStep == TypeOK /\ HandInv /\ [Next]_vars => TypeOK' /\ HandInv'
<1> SUFFICES ASSUME TypeOK, HandInv, [Next]_vars PROVE TypeOK' /\ HandInv'
    OBVIOUS
<1>1. ASSUME UNCHANGED <<rpc, rmsg>> PROVE HandInv'
    BY <1>1 DEF HandInv
<1>2. ASSUME NEW s \in Sessions, Tab(s) PROVE TypeOK' /\ HandInv'
    BY <1>1, <1>2, TabTypes DEF Tab, Edit, Refresh, Ask, Close, Stall, relayVars
<1>3. ASSUME NEW s \in Sessions, Accept(s) \/ HandlerStep(s) \/ FetchFails(s)
      PROVE  TypeOK' /\ HandInv'
    BY <1>1, <1>3, HandlerTypes
       DEF Accept, HandlerStep, Fetch, WriteList, ReadChat, ReadRefresh, ReadClosed, FetchFails,
           relayVars
<1>4. ASSUME NEW s \in Sessions, WorkerStep(s) \/ WorkerEdit(s) PROVE TypeOK' /\ HandInv'
    BY <1>1, <1>4, WorkerTypes
       DEF WorkerStep, StartTurn, PublishReply, PublishChanged, WorkerEdit, WorkerVars, relayVars
<1>5. CASE RelayStep \/ RelayFetchFails
    BY <1>5, RelayTypes
<1>6. CASE Drop
    BY <1>1, <1>6, DropTypes DEF Drop, relayVars
<1>7. CASE Restart
    BY <1>7, RestartTypes
<1>8. CASE UNCHANGED vars
    BY <1>8 DEF vars, tabVars, handler, sentVars, relayVars, bounds, TypeOK, HandInv
<1> QED BY <1>2, <1>3, <1>4, <1>5, <1>6, <1>7, <1>8 DEF Next

LEMMA TypeAlways == Spec => [](TypeOK /\ HandInv)
<1>1. Init => HandInv
    BY DEF Init, HandInv
<1> QED BY <1>1, TypeInit, TypeStep, PTL DEF Spec

(* Every variable keeps its type; no list is newer than the todos. *)
THEOREM GatewayTypeCorrect == Spec => []TypeOK
BY TypeAlways, PTL

-----------------------------------------------------------------------------
(* A tab's own edits.  Until it has been sent its last edit, the refresh   *)
(* that will bring it is on its way: in the frames, being fetched, or      *)
(* fetched and about to be written.                                        *)
HasRefresh(s) == \E i \in 1..Len(frames[s]) : frames[s][i] = "refresh"

Served(s) ==
    \/ best[s] >= own[s]
    \/ HasRefresh(s) \/ pc[s] = "fetch"
    \/ pc[s] \in {"helloWrite", "write"} /\ got[s] >= own[s]

OwnInv ==
    /\ \A s \in Sessions : pc[s] = "none" => own[s] = 0
    /\ \A s \in open \ owes : Served(s)

LEMMA ServedSame ==
    ASSUME NEW s \in Sessions, Served(s), best'[s] >= best[s], best[s] \in Nat, best'[s] \in Nat,
           own[s] \in Nat, own'[s] = own[s], frames'[s] = frames[s],
           pc'[s] = pc[s], got'[s] = got[s]
    PROVE  Served(s)'
BY DEF Served, HasRefresh

LEMMA OwnTypes ==
    ASSUME TypeOK
    PROVE  /\ version \in Nat /\ rgot \in 0..version
           /\ \A s \in Sessions : own[s] \in 0..version /\ best[s] \in 0..version /\ got[s] \in 0..version
           /\ \A s \in Sessions : frames[s] \in Seq({"chat", "refresh"})
BY GatewayAssumption DEF TypeOK

LEMMA FrameRead ==
    ASSUME TypeOK, NEW s \in Sessions, NEW f, NextFrame(s, f)
    PROVE  /\ \A t \in Sessions \ {s} : frames'[t] = frames[t]
           /\ f # "refresh" /\ HasRefresh(s) => HasRefresh(s)'
<1> DEFINE q == frames[s]
<1>1. q \in Seq({"chat", "refresh"}) /\ q # <<>> /\ Head(q) = f
      /\ frames' = [frames EXCEPT ![s] = Tail(q)] /\ frames'[s] = Tail(q)
      /\ \A t \in Sessions \ {s} : frames'[t] = frames[t]
    BY DEF NextFrame, TypeOK
<1> HIDE DEF q
<1>2. /\ Head(q) = q[1] /\ Len(q) \in Nat /\ Len(Tail(q)) = Len(q) - 1
      /\ \A i \in 1..(Len(q) - 1) : Tail(q)[i] = q[i + 1]
    BY <1>1
<1>3. ASSUME f # "refresh", HasRefresh(s) PROVE HasRefresh(s)'
    <2>1. PICK i \in 1..Len(q) : q[i] = "refresh"
        BY <1>3 DEF HasRefresh, q
    <2>2. i - 1 \in 1..(Len(q) - 1) /\ Tail(q)[i - 1] = "refresh"
        BY <1>1, <1>2, <1>3, <2>1
    <2> QED BY <1>1, <1>2, <2>2 DEF HasRefresh
<1> QED BY <1>1, <1>3

LEMMA RefreshSent ==
    ASSUME TypeOK, NEW s \in Sessions, NEW f \in {"chat", "refresh"},
           frames' = [frames EXCEPT ![s] = Append(@, f)]
    PROVE  /\ \A t \in Sessions \ {s} : frames'[t] = frames[t]
           /\ HasRefresh(s) => HasRefresh(s)'
           /\ f = "refresh" => HasRefresh(s)'
<1> DEFINE q == frames[s]
<1>1. q \in Seq({"chat", "refresh"}) /\ frames'[s] = Append(q, f)
      /\ \A t \in Sessions \ {s} : frames'[t] = frames[t]
    BY DEF TypeOK
<1>2. /\ Len(q) \in Nat /\ Len(Append(q, f)) = Len(q) + 1 /\ Append(q, f)[Len(q) + 1] = f
      /\ \A i \in 1..Len(q) : Append(q, f)[i] = q[i]
    BY <1>1
<1>3. ASSUME HasRefresh(s) PROVE HasRefresh(s)'
    <2>1. PICK i \in 1..Len(q) : q[i] = "refresh"
        BY <1>3 DEF HasRefresh
    <2>2. i \in 1..Len(frames'[s]) /\ frames'[s][i] = "refresh"
        BY <1>1, <1>2, <2>1
    <2> QED BY <2>2 DEF HasRefresh
<1>4. ASSUME f = "refresh" PROVE HasRefresh(s)'
    <2>1. Len(q) + 1 \in 1..Len(frames'[s]) /\ frames'[s][Len(q) + 1] = "refresh"
        BY <1>1, <1>2, <1>4
    <2> QED BY <2>1 DEF HasRefresh
<1> QED BY <1>1, <1>3, <1>4

(* Steps that touch no tab, no handler, and send no list or a newer one. *)
LEMMA OwnKept ==
    ASSUME TypeOK, OwnInv, UNCHANGED <<owes, own, frames, pc, got>>, open' \subseteq open,
           \A s \in Sessions : best'[s] \in Nat /\ best'[s] >= best[s]
    PROVE  OwnInv'
<1>1. \A s \in Sessions : own[s] \in Nat /\ best[s] \in Nat
    BY OwnTypes
<1>2. open \subseteq Sessions
    BY DEF TypeOK
<1>3. ASSUME NEW s \in open' \ owes' PROVE Served(s)'
    BY <1>1, <1>2, <1>3, ServedSame DEF OwnInv
<1> QED BY <1>3 DEF OwnInv

LEMMA OwnTab ==
    ASSUME TypeOK, OwnInv, HubInv, NEW s \in Sessions, Tab(s) PROVE OwnInv'
<1> USE DEF tabVars, handler, sentVars
<1>1. /\ open \subseteq Sessions /\ s \in Sessions
      /\ \A t \in Sessions : own[t] \in Nat /\ best[t] \in Nat
    BY OwnTypes DEF TypeOK
<1>2. CASE Edit(s)
    <2>1. /\ s \in open /\ owes' = owes \cup {s} /\ open' = open
          /\ \A t \in Sessions \ {s} : own'[t] = own[t]
          /\ UNCHANGED <<best, frames, pc, got>>
        BY <1>2 DEF Edit, TypeOK
    <2>2. ASSUME NEW t \in Sessions, t \in open' \ owes' PROVE Served(t)'
        BY <1>1, <2>1, <2>2, ServedSame DEF OwnInv
    <2>3. pc[s] # "none"
        BY <2>1 DEF HubInv
    <2> QED BY <1>1, <2>1, <2>2, <2>3 DEF OwnInv
<1>3. CASE Refresh(s)
    <2>1. /\ owes' = owes \ {s} /\ UNCHANGED <<open, own, best, pc, got>>
          /\ frames' = [frames EXCEPT ![s] = IF s \in open THEN Append(@, "refresh") ELSE @]
        BY <1>3 DEF Refresh
    <2>2. \A t \in Sessions \ {s} : frames'[t] = frames[t]
        BY <2>1 DEF TypeOK
    <2>3. s \in open => HasRefresh(s)'
        <3>1. s \in open => frames' = [frames EXCEPT ![s] = Append(@, "refresh")]
            BY <2>1
        <3> QED BY <3>1, RefreshSent
    <2>4. ASSUME NEW t \in Sessions, t \in open' \ owes' PROVE Served(t)'
        <3>1. CASE t = s
            BY <2>1, <2>3, <2>4, <3>1 DEF Served
        <3>2. CASE t # s
            BY <1>1, <2>1, <2>2, <2>4, <3>2, ServedSame DEF OwnInv
        <3> QED BY <3>1, <3>2
    <2> QED BY <1>1, <2>1, <2>4 DEF OwnInv
<1>4. CASE Ask(s)
    <2>1. /\ UNCHANGED <<open, owes, own, best, pc, got>>
          /\ frames' = [frames EXCEPT ![s] = Append(@, "chat")]
        BY <1>4 DEF Ask
    <2>2. /\ \A t \in Sessions \ {s} : frames'[t] = frames[t]
          /\ HasRefresh(s) => HasRefresh(s)'
        BY <2>1, RefreshSent
    <2>3. ASSUME NEW t \in Sessions, t \in open' \ owes' PROVE Served(t)'
        <3>1. CASE t = s
            BY <2>1, <2>2, <2>3, <3>1 DEF OwnInv, Served
        <3>2. CASE t # s
            BY <1>1, <2>1, <2>2, <2>3, <3>2, ServedSame DEF OwnInv
        <3> QED BY <3>1, <3>2
    <2> QED BY <1>1, <2>1, <2>3 DEF OwnInv
<1>5. CASE Close(s) \/ Stall(s)
    <2>1. UNCHANGED <<owes, own, frames, pc, got, best>> /\ open' \subseteq open
        BY <1>5 DEF Close, Stall
    <2> QED BY <1>1, <2>1, OwnKept
<1> QED BY <1>2, <1>3, <1>4, <1>5 DEF Tab

LEMMA OwnHandler ==
    ASSUME TypeOK, OwnInv, HubInv, NEW s \in Sessions,
           Accept(s) \/ HandlerStep(s) \/ FetchFails(s)
    PROVE  OwnInv'
<1> USE DEF tabVars, handler, sentVars
<1>1. /\ open \subseteq Sessions /\ version \in Nat
      /\ \A t \in Sessions : /\ own[t] \in 0..version /\ best[t] \in 0..version
                             /\ got[t] \in 0..version
    BY OwnTypes DEF TypeOK
<1>2. \A t \in Sessions : own[t] \in Nat /\ best[t] \in Nat /\ got[t] \in Nat /\ own[t] <= version
    BY <1>1
<1>3. CASE Accept(s)
    <2>1. /\ pc[s] = "none" /\ open' = open \cup {s} /\ own[s] = 0
          /\ \A t \in Sessions \ {s} : pc'[t] = pc[t]
          /\ pc'[s] = "hello"
          /\ UNCHANGED <<owes, own, frames, got, best>>
        BY <1>3 DEF Accept, At, TypeOK, OwnInv
    <2>2. ASSUME NEW t \in Sessions, t \in open' \ owes' PROVE Served(t)'
        <3>1. CASE t = s
            BY <1>2, <2>1, <3>1 DEF Served
        <3>2. CASE t # s
            BY <1>2, <2>1, <2>2, <3>2, ServedSame DEF OwnInv
        <3> QED BY <3>1, <3>2
    <2> QED BY <1>1, <2>1, <2>2 DEF OwnInv
<1>4. CASE Fetch(s)
    <2>1. /\ \/ pc[s] = "hello" /\ pc'[s] = "helloWrite"
             \/ pc[s] = "fetch" /\ pc'[s] = "write"
          /\ \A t \in Sessions \ {s} : pc'[t] = pc[t] /\ got'[t] = got[t]
          /\ got'[s] = version
          /\ UNCHANGED <<open, owes, own, frames, best>>
        <3>1. \/ pc[s] = "hello" /\ pc' = [pc EXCEPT ![s] = "helloWrite"]
              \/ pc[s] = "fetch" /\ pc' = [pc EXCEPT ![s] = "write"]
            BY <1>4 DEF Fetch, At
        <3>2. got' = [got EXCEPT ![s] = version] /\ UNCHANGED <<open, owes, own, frames, best>>
            BY <1>4 DEF Fetch
        <3> QED BY <3>1, <3>2 DEF TypeOK
    <2>2. ASSUME NEW t \in Sessions, t \in open' \ owes' PROVE Served(t)'
        <3>1. CASE t = s
            BY <1>2, <2>1, <3>1 DEF Served
        <3>2. CASE t # s
            BY <1>2, <2>1, <2>2, <3>2, ServedSame DEF OwnInv
        <3> QED BY <3>1, <3>2
    <2> QED BY <1>1, <2>1, <2>2 DEF OwnInv
<1>5. CASE WriteList(s)
    <2>1. /\ pc[s] \in {"helloWrite", "write"} /\ pc'[s] = "read"
          /\ \A t \in Sessions \ {s} : pc'[t] = pc[t] /\ got'[t] = got[t]
          /\ UNCHANGED <<open, owes, own, frames>>
        BY <1>5 DEF WriteList, At, TypeOK
    <2>2. /\ best' = IF s \in open /\ got[s] > best[s] THEN [best EXCEPT ![s] = got[s]] ELSE best
          /\ best \in [Sessions -> 0..version]
        BY <1>5 DEF WriteList, Send, TypeOK
    <2>3. /\ \A t \in Sessions \ {s} : best'[t] = best[t]
          /\ best'[s] >= best[s] /\ (s \in open => best'[s] >= got[s]) /\ best'[s] \in Nat
        BY <1>2, <2>2
    <2>4. ASSUME NEW t \in Sessions, t \in open' \ owes' PROVE Served(t)'
        <3>1. CASE t = s
            <4>1. best[s] >= own[s] \/ HasRefresh(s) \/ got[s] >= own[s]
                BY <2>1, <2>4, <3>1 DEF OwnInv, Served
            <4>2. HasRefresh(s) => HasRefresh(s)'
                BY <2>1 DEF HasRefresh
            <4>3. best'[s] >= own[s] \/ HasRefresh(s)'
                BY <1>2, <2>1, <2>3, <2>4, <3>1, <4>1, <4>2
            <4> QED BY <2>1, <3>1, <4>3 DEF Served
        <3>2. CASE t # s
            BY <1>2, <2>1, <2>3, <2>4, <3>2, ServedSame DEF OwnInv
        <3> QED BY <3>1, <3>2
    <2> QED BY <1>1, <2>1, <2>4 DEF OwnInv
<1>6. CASE ReadChat(s)
    <2>1. UNCHANGED <<open, owes, own, pc, got, best>>
        BY <1>6 DEF ReadChat
    <2>2. /\ \A t \in Sessions \ {s} : frames'[t] = frames[t]
          /\ HasRefresh(s) => HasRefresh(s)'
        BY <1>6, FrameRead DEF ReadChat
    <2>3. ASSUME NEW t \in Sessions, t \in open' \ owes' PROVE Served(t)'
        <3>1. CASE t = s
            BY <2>1, <2>2, <2>3, <3>1 DEF OwnInv, Served
        <3>2. CASE t # s
            BY <1>2, <2>1, <2>2, <2>3, <3>2, ServedSame DEF OwnInv
        <3> QED BY <3>1, <3>2
    <2> QED BY <1>1, <2>1, <2>3 DEF OwnInv
<1>7. CASE ReadRefresh(s)
    <2>1. /\ pc'[s] = "fetch" /\ \A t \in Sessions \ {s} : pc'[t] = pc[t]
          /\ pc[s] = "read"
          /\ UNCHANGED <<open, owes, own, got, best>>
        BY <1>7 DEF ReadRefresh, At, TypeOK
    <2>2. \A t \in Sessions \ {s} : frames'[t] = frames[t]
        BY <1>7, FrameRead DEF ReadRefresh
    <2>3. ASSUME NEW t \in Sessions, t \in open' \ owes' PROVE Served(t)'
        <3>1. CASE t = s
            BY <2>1, <3>1 DEF Served
        <3>2. CASE t # s
            BY <1>2, <2>1, <2>2, <2>3, <3>2, ServedSame DEF OwnInv
        <3> QED BY <3>1, <3>2
    <2> QED BY <1>1, <2>1, <2>3 DEF OwnInv
<1>8. CASE ReadClosed(s)
    <2>1. /\ s \notin open /\ pc'[s] = "gone" /\ \A t \in Sessions \ {s} : pc'[t] = pc[t]
          /\ UNCHANGED <<open, owes, own, frames, got, best>>
        BY <1>8 DEF ReadClosed, At, TypeOK
    <2>2. ASSUME NEW t \in Sessions, t \in open' \ owes' PROVE Served(t)'
        BY <1>2, <2>1, <2>2, ServedSame DEF OwnInv
    <2> QED BY <1>1, <2>1, <2>2 DEF OwnInv
<1>9. CASE FetchFails(s)
    <2>1. /\ pc'[s] = "read" /\ own'[s] = 0
          /\ \A t \in Sessions \ {s} : pc'[t] = pc[t] /\ own'[t] = own[t]
          /\ UNCHANGED <<open, owes, frames, got, best>>
        BY <1>9 DEF FetchFails, At, TypeOK
    <2>2. ASSUME NEW t \in Sessions, t \in open' \ owes' PROVE Served(t)'
        <3>1. CASE t = s
            BY <1>2, <2>1, <3>1 DEF Served
        <3>2. CASE t # s
            BY <1>2, <2>1, <2>2, <3>2, ServedSame DEF OwnInv
        <3> QED BY <3>1, <3>2
    <2> QED BY <1>1, <2>1, <2>2 DEF OwnInv
<1> QED BY <1>3, <1>4, <1>5, <1>6, <1>7, <1>8, <1>9 DEF HandlerStep

LEMMA OwnStep ==
    TypeOK /\ TypeOK' /\ GInv /\ OwnInv /\ [Next]_vars => OwnInv'
<1> SUFFICES ASSUME TypeOK, TypeOK', GInv, OwnInv, [Next]_vars PROVE OwnInv'
    OBVIOUS
<1> USE DEF tabVars, handler, sentVars, relayVars, WorkerVars, relayFrame
<1>1. \A s \in Sessions : best[s] \in Nat /\ best[s] >= best[s]
    BY OwnTypes
<1>2. HubInv
    BY DEF GInv
<1>3. ASSUME NEW s \in Sessions, Tab(s) PROVE OwnInv'
    BY <1>2, <1>3, OwnTab
<1>4. ASSUME NEW s \in Sessions, Accept(s) \/ HandlerStep(s) \/ FetchFails(s) PROVE OwnInv'
    BY <1>2, <1>4, OwnHandler
<1>5. ASSUME UNCHANGED <<open, owes, own, frames, pc, got, best>> PROVE OwnInv'
    BY <1>1, <1>5, OwnKept
<1>6. ASSUME NEW s \in Sessions, WorkerStep(s) \/ WorkerEdit(s) PROVE OwnInv'
    BY <1>5, <1>6 DEF WorkerStep, StartTurn, PublishReply, PublishChanged, WorkerEdit
<1>7. CASE Receive \/ RelayFetch \/ Snapshot \/ BroadcastDone \/ SendTo \/ RelayFetchFails \/ Drop
    BY <1>5, <1>7 DEF Receive, RelayFetch, Snapshot, BroadcastDone, SendTo, RelayFetchFails, Drop
<1>8. ASSUME NEW s \in Sessions, BroadcastTo(s) PROVE OwnInv'
    <2>1. UNCHANGED <<open, owes, own, frames, pc, got>> /\ Send(s, rgot)
        BY <1>8 DEF BroadcastTo
    <2>2. \A t \in Sessions : best'[t] \in Nat /\ best'[t] >= best[t]
        <3>1. rgot \in Nat /\ NumInv
            BY DEF GInv, NumInv
        <3> QED BY <2>1, <3>1, SendReaches
    <2> QED BY <2>1, <2>2, OwnKept
<1>9. CASE Restart
    <2>1. /\ open' = {} /\ own' = own
          /\ \A s \in Sessions : pc'[s] = "none" => pc[s] = "none"
        BY <1>9 DEF Restart
    <2> QED BY <2>1 DEF OwnInv
<1>10. CASE UNCHANGED vars
    BY <1>5, <1>10 DEF vars
<1> QED BY <1>3, <1>4, <1>6, <1>7, <1>8, <1>9, <1>10 DEF Next, RelayStep

LEMMA OwnAlways == Spec => []OwnInv
<1>1. Init => OwnInv
    BY DEF Init, OwnInv
<1> QED BY <1>1, OwnStep, TypeAlways, GInductive, PTL DEF Spec

(* A tab is sent its own last edit: the page asks for a refresh after the  *)
(* edit (index.html:102-131), handleWS fetches after it has read that, and *)
(* it writes what it has fetched.                                          *)
THEOREM OwnEditsSeen == Spec => []ReadYourEdits
<1>1. TypeOK /\ OwnInv => ReadYourEdits
    <2> SUFFICES ASSUME TypeOK, OwnInv, NEW s \in open \ owes, pc[s] = "read", frames[s] = <<>>
                 PROVE  best[s] >= own[s]
        BY DEF ReadYourEdits
    <2>1. ~HasRefresh(s)
        BY DEF HasRefresh
    <2> QED BY <2>1 DEF OwnInv, Served
<1> QED BY <1>1, OwnAlways, TypeAlways, PTL

-----------------------------------------------------------------------------
(* The reply before the notice.  A session asks once, so that its one      *)
(* reply is published before its one notice; both go through channel and   *)
(* subscribeUpdates' hand, which keep their order.                         *)
ChatInv ==
    \A s \in Sessions : \A i \in 1..Len(frames[s]) :
        frames[s][i] = "chat" =>
            /\ question[s] = "none"
            /\ \A j \in 1..Len(frames[s]) : frames[s][j] = "chat" => j = i

NoticeOf(s) == [type |-> "changed", to |-> s]
Sent(m)     == \E i \in 1..Len(channel) : channel[i] = m

OrderInv ==
    \A s \in Sessions :
        /\ question[s] \in {"none", "queued", "working"} => ~Sent(ReplyTo(s)) /\ rmsg # ReplyTo(s)
        /\ question[s] # "done" =>
              ~Sent(NoticeOf(s)) /\ rmsg # NoticeOf(s) /\ s \notin noticed
        /\ rmsg = NoticeOf(s) => ~Sent(ReplyTo(s))
        /\ s \in noticed => ~Sent(ReplyTo(s)) /\ rmsg # ReplyTo(s)
        /\ \A i, j \in 1..Len(channel) :
              channel[i] = NoticeOf(s) /\ channel[j] = ReplyTo(s) => j <= i

(* Frames: one more, or the first one read. *)
LEMMA FrameAppended ==
    ASSUME TypeOK, NEW s \in Sessions, NEW f \in {"chat", "refresh"},
           frames' = [frames EXCEPT ![s] = Append(@, f)]
    PROVE  /\ \A t \in Sessions \ {s} : frames'[t] = frames[t]
           /\ Len(frames[s]) \in Nat /\ Len(frames'[s]) = Len(frames[s]) + 1
           /\ frames'[s][Len(frames[s]) + 1] = f
           /\ \A i \in 1..Len(frames[s]) : frames'[s][i] = frames[s][i]
<1>1. frames[s] \in Seq({"chat", "refresh"}) /\ frames'[s] = Append(frames[s], f)
      /\ \A t \in Sessions \ {s} : frames'[t] = frames[t]
    BY DEF TypeOK
<1> QED BY <1>1

LEMMA FrameTaken ==
    ASSUME TypeOK, NEW s \in Sessions, NEW f, NextFrame(s, f)
    PROVE  /\ \A t \in Sessions \ {s} : frames'[t] = frames[t]
           /\ Len(frames[s]) \in Nat /\ Len(frames[s]) >= 1 /\ frames[s][1] = f
           /\ Len(frames'[s]) = Len(frames[s]) - 1
           /\ \A i \in 1..Len(frames'[s]) : frames'[s][i] = frames[s][i + 1]
<1>1. frames[s] \in Seq({"chat", "refresh"}) /\ frames[s] # <<>> /\ Head(frames[s]) = f
      /\ frames'[s] = Tail(frames[s]) /\ \A t \in Sessions \ {s} : frames'[t] = frames[t]
    BY DEF NextFrame, TypeOK
<1> QED BY <1>1

LEMMA ChatTaken ==
    ASSUME TypeOK, ChatInv, NEW s \in Sessions, NEW f, NextFrame(s, f),
           \A t \in Sessions \ {s} : question'[t] = question[t],
           f # "chat" => question'[s] = question[s]
    PROVE  ChatInv'
<1>1. /\ \A t \in Sessions \ {s} : frames'[t] = frames[t]
      /\ Len(frames[s]) \in Nat /\ Len(frames[s]) >= 1 /\ frames[s][1] = f
      /\ Len(frames'[s]) = Len(frames[s]) - 1
      /\ \A i \in 1..Len(frames'[s]) : frames'[s][i] = frames[s][i + 1]
    BY FrameTaken
<1>2. ASSUME NEW t \in Sessions \ {s}, NEW i \in 1..Len(frames'[t]), frames'[t][i] = "chat"
      PROVE  /\ question'[t] = "none"
             /\ \A j \in 1..Len(frames'[t]) : frames'[t][j] = "chat" => j = i
    BY <1>1, <1>2 DEF ChatInv
<1>3. ASSUME NEW i \in 1..Len(frames'[s]), frames'[s][i] = "chat"
      PROVE  /\ question'[s] = "none"
             /\ \A j \in 1..Len(frames'[s]) : frames'[s][j] = "chat" => j = i
    <2>1. i + 1 \in 1..Len(frames[s]) /\ frames[s][i + 1] = "chat" /\ i \in Nat /\ i >= 1
        BY <1>1, <1>3
    <2>2. /\ question[s] = "none"
          /\ \A j \in 1..Len(frames[s]) : frames[s][j] = "chat" => j = i + 1
        BY <2>1 DEF ChatInv
    <2>3. f # "chat"
        BY <1>1, <2>1, <2>2
    <2>4. \A j \in 1..Len(frames'[s]) : j + 1 \in 1..Len(frames[s]) /\ j \in Nat
        BY <1>1
    <2> QED BY <1>1, <2>1, <2>2, <2>3, <2>4
<1>4. \A t \in Sessions : \A i \in 1..Len(frames'[t]) :
          frames'[t][i] = "chat" =>
              /\ question'[t] = "none"
              /\ \A j \in 1..Len(frames'[t]) : frames'[t][j] = "chat" => j = i
    BY <1>2, <1>3
<1> QED BY <1>4 DEF ChatInv

LEMMA ChatOfTab ==
    ASSUME TypeOK, ChatInv, NEW s \in Sessions, Tab(s) PROVE ChatInv'
<1>1. question' = question
    BY DEF Tab, Edit, Refresh, Ask, Close, Stall
<1>2. ASSUME frames' = frames PROVE ChatInv'
    BY <1>1, <1>2 DEF ChatInv
<1>3. ASSUME NEW f \in {"chat", "refresh"}, frames' = [frames EXCEPT ![s] = Append(@, f)],
             f = "chat" => /\ question[s] = "none"
                           /\ \A i \in 1..Len(frames[s]) : frames[s][i] # "chat"
      PROVE  ChatInv'
    <2>1. /\ \A t \in Sessions \ {s} : frames'[t] = frames[t]
          /\ Len(frames[s]) \in Nat /\ Len(frames'[s]) = Len(frames[s]) + 1
          /\ frames'[s][Len(frames[s]) + 1] = f
          /\ \A i \in 1..Len(frames[s]) : frames'[s][i] = frames[s][i]
        BY <1>3, FrameAppended
    <2>2. \A i \in 1..Len(frames'[s]) : i \in 1..Len(frames[s]) \/ i = Len(frames[s]) + 1
        BY <2>1
    <2>3. ASSUME NEW i \in 1..Len(frames'[s]), frames'[s][i] = "chat"
          PROVE  /\ question[s] = "none"
                 /\ \A j \in 1..Len(frames'[s]) : frames'[s][j] = "chat" => j = i
        <3>1. CASE f = "chat"
            BY <1>3, <2>1, <2>2, <2>3, <3>1
        <3>2. CASE f # "chat"
            BY <1>3, <2>1, <2>2, <2>3, <3>2 DEF ChatInv
        <3> QED BY <3>1, <3>2
    <2>4. \A t \in Sessions \ {s} : \A i \in 1..Len(frames'[t]) : frames'[t][i] = "chat" =>
              /\ question[t] = "none"
              /\ \A j \in 1..Len(frames'[t]) : frames'[t][j] = "chat" => j = i
        BY <2>1 DEF ChatInv
    <2> QED BY <1>1, <2>3, <2>4 DEF ChatInv
<1>4. CASE Edit(s) \/ Close(s) \/ Stall(s)
    BY <1>2, <1>4 DEF Edit, Close, Stall
<1>5. CASE Refresh(s)
    <2>1. frames' = [frames EXCEPT ![s] = Append(@, "refresh")] \/ frames' = frames
        BY <1>5 DEF Refresh, TypeOK
    <2>2. frames' = [frames EXCEPT ![s] = Append(@, "refresh")] => ChatInv'
        BY <1>3
    <2> QED BY <1>2, <2>1, <2>2
<1>6. CASE Ask(s)
    BY <1>3, <1>6 DEF Ask
<1> QED BY <1>4, <1>5, <1>6 DEF Tab

LEMMA ChatStep == TypeOK /\ ChatInv /\ [Next]_vars => ChatInv'
<1> SUFFICES ASSUME TypeOK, ChatInv, [Next]_vars PROVE ChatInv'
    OBVIOUS
<1> USE DEF tabVars, handler, sentVars, relayVars, WorkerVars, relayFrame
<1>1. ASSUME UNCHANGED <<frames, question>> PROVE ChatInv'
    BY <1>1 DEF ChatInv
<1>2. ASSUME NEW s \in Sessions, Tab(s) PROVE ChatInv'
    BY <1>2, ChatOfTab
<1>3. ASSUME NEW s \in Sessions, ReadChat(s) PROVE ChatInv'
    <2>1. \A t \in Sessions \ {s} : question'[t] = question[t]
        BY <1>3 DEF ReadChat, TypeOK
    <2> QED BY <1>3, <2>1, ChatTaken DEF ReadChat
<1>4. ASSUME NEW s \in Sessions, ReadRefresh(s) PROVE ChatInv'
    <2>1. question' = question /\ NextFrame(s, "refresh")
        BY <1>4 DEF ReadRefresh
    <2> QED BY <2>1, ChatTaken
<1>5. ASSUME NEW s \in Sessions,
             Accept(s) \/ Fetch(s) \/ WriteList(s) \/ ReadClosed(s) \/ FetchFails(s) \/ WorkerEdit(s)
      PROVE  ChatInv'
    BY <1>1, <1>5 DEF Accept, Fetch, WriteList, ReadClosed, FetchFails, WorkerEdit
<1>6. ASSUME NEW s \in Sessions, WorkerStep(s) PROVE ChatInv'
    <2>1. /\ frames' = frames /\ question[s] # "none"
          /\ \A t \in Sessions \ {s} : question'[t] = question[t]
        BY <1>6 DEF WorkerStep, StartTurn, PublishReply, PublishChanged, TypeOK
    <2> QED BY <2>1 DEF ChatInv
<1>7. CASE RelayStep \/ RelayFetchFails \/ Drop
    BY <1>1, <1>7 DEF RelayStep, Receive, RelayFetch, Snapshot, BroadcastTo, BroadcastDone, SendTo,
                      RelayFetchFails, Drop
<1>8. CASE Restart
    BY <1>8 DEF Restart, ChatInv
<1>9. CASE UNCHANGED vars
    BY <1>1, <1>9 DEF vars
<1> QED BY <1>2, <1>3, <1>4, <1>5, <1>6, <1>7, <1>8, <1>9 DEF Next, HandlerStep

-----------------------------------------------------------------------------
(* The two messages of a turn differ, and both are messages. *)
LEMMA TwoMessages ==
    ASSUME NEW s \in Sessions
    PROVE  /\ ReplyTo(s) \in Message /\ NoticeOf(s) \in Message
           /\ \A t \in Sessions : ReplyTo(s) # NoticeOf(t)
           /\ ReplyTo(s) # NoMsg /\ NoticeOf(s) # NoMsg
           /\ \A t \in Sessions \ {s} : ReplyTo(s) # ReplyTo(t) /\ NoticeOf(s) # NoticeOf(t)
<1>1. \A t \in Sessions : /\ ReplyTo(t).type = "reply" /\ ReplyTo(t).to = t
                          /\ NoticeOf(t).type = "changed" /\ NoticeOf(t).to = t
    BY DEF ReplyTo, NoticeOf
<1>2. ReplyTo(s) \in Message /\ NoticeOf(s) \in Message
    BY DEF ReplyTo, NoticeOf, Message
<1>3. DOMAIN NoMsg = {"type"} /\ DOMAIN ReplyTo(s) = {"type", "to"}
      /\ DOMAIN NoticeOf(s) = {"type", "to"}
    BY DEF NoMsg, ReplyTo, NoticeOf
<1>4. ReplyTo(s) # NoMsg /\ NoticeOf(s) # NoMsg
    <2>1. "to" \notin {"type"}
        OBVIOUS
    <2> QED BY <1>3, <2>1
<1> QED BY <1>1, <1>2, <1>4

(* Nothing is published, and nothing taken up but put aside or lost. *)
LEMMA OrderKept ==
    ASSUME OrderInv, noticed' = noticed,
           rmsg' \in {rmsg, NoMsg}, channel' \in {channel, <<>>},
           \A s \in Sessions : \/ question'[s] = question[s]
                               \/ /\ question[s] \in {"none", "queued", "working"}
                                  /\ question'[s] \in {"none", "queued", "working"}
    PROVE  OrderInv'
<1> SUFFICES ASSUME NEW s \in Sessions
             PROVE  /\ question'[s] \in {"none", "queued", "working"}
                          => ~Sent(ReplyTo(s))' /\ rmsg' # ReplyTo(s)
                    /\ question'[s] # "done" =>
                          ~Sent(NoticeOf(s))' /\ rmsg' # NoticeOf(s) /\ s \notin noticed'
                    /\ rmsg' = NoticeOf(s) => ~Sent(ReplyTo(s))'
                    /\ s \in noticed' => ~Sent(ReplyTo(s))' /\ rmsg' # ReplyTo(s)
                    /\ \A i, j \in 1..Len(channel') :
                          channel'[i] = NoticeOf(s) /\ channel'[j] = ReplyTo(s) => j <= i
    BY DEF OrderInv, ReplyTo, NoticeOf
<1>1. ReplyTo(s) # NoMsg /\ NoticeOf(s) # NoMsg
    BY TwoMessages
<1>2. channel' = channel \/ 1..Len(channel') = {}
    OBVIOUS
<1>3. \A m \in {ReplyTo(s), NoticeOf(s)} : Sent(m)' => Sent(m)
    BY <1>2 DEF Sent
<1>4. \A m \in {ReplyTo(s), NoticeOf(s)} : rmsg' = m => rmsg = m
    BY <1>1
<1>5. /\ question'[s] \in {"none", "queued", "working"}
            => question[s] \in {"none", "queued", "working"}
      /\ question'[s] # "done" => question[s] # "done"
    OBVIOUS
<1>6. \A i, j \in 1..Len(channel') :
          channel'[i] = NoticeOf(s) /\ channel'[j] = ReplyTo(s) => j <= i
    BY <1>2 DEF OrderInv
<1> QED BY <1>3, <1>4, <1>5, <1>6 DEF OrderInv

LEMMA OrderPublish ==
    ASSUME TypeOK, OrderInv, NEW s \in Sessions, PublishReply(s) \/ PublishChanged(s)
    PROVE  OrderInv'
<1> USE DEF WorkerVars, relayVars
<1>1. PICK m \in {ReplyTo(s), NoticeOf(s)} :
          /\ channel' = Append(channel, m)
          /\ m = ReplyTo(s) => question[s] = "working" /\ question'[s] = "replied"
          /\ m = NoticeOf(s) => question[s] = "replied" /\ question'[s] = "done"
    <2>1. question \in [Sessions -> Question] /\ ReplyTo(s) # NoticeOf(s)
        BY TwoMessages DEF TypeOK
    <2>2. CASE PublishReply(s)
        BY <2>1, <2>2 DEF PublishReply, Publish, ReplyTo
    <2>3. CASE PublishChanged(s)
        BY <2>1, <2>3 DEF PublishChanged, Publish, NoticeOf
    <2> QED BY <2>2, <2>3
<1>2. /\ rmsg' = rmsg /\ noticed' = noticed
      /\ \A t \in Sessions \ {s} : question'[t] = question[t]
    BY DEF PublishReply, PublishChanged, TypeOK
<1> DEFINE n == Len(channel)
<1>3. /\ n \in Nat /\ Len(channel') = n + 1 /\ channel'[n + 1] = m
      /\ \A i \in 1..n : channel'[i] = channel[i] /\ i \in 1..(n + 1)
      /\ \A i \in 1..(n + 1) : i \in 1..n \/ i = n + 1
    BY <1>1 DEF TypeOK
<1> HIDE DEF n
<1>4. \A x \in {ReplyTo(t) : t \in Sessions} \cup {NoticeOf(t) : t \in Sessions} :
          Sent(x)' => Sent(x) \/ x = m
    <2> SUFFICES ASSUME NEW x, NEW i \in 1..Len(channel'), channel'[i] = x
                 PROVE  Sent(x) \/ x = m
        BY DEF Sent
    <2> QED BY <1>3 DEF Sent, n
<1>t. \A t \in Sessions : /\ t # s => m # ReplyTo(t) /\ m # NoticeOf(t)
                          /\ ReplyTo(t) # NoticeOf(t)
    BY TwoMessages
<1>5. ASSUME NEW t \in Sessions
      PROVE  /\ question'[t] \in {"none", "queued", "working"}
                   => ~Sent(ReplyTo(t))' /\ rmsg' # ReplyTo(t)
             /\ question'[t] # "done" =>
                   ~Sent(NoticeOf(t))' /\ rmsg' # NoticeOf(t) /\ t \notin noticed'
             /\ rmsg' = NoticeOf(t) => ~Sent(ReplyTo(t))'
             /\ t \in noticed' => ~Sent(ReplyTo(t))' /\ rmsg' # ReplyTo(t)
    <2>1. /\ question[t] \in {"none", "queued", "working"}
                => ~Sent(ReplyTo(t)) /\ rmsg # ReplyTo(t)
          /\ question[t] # "done" =>
                ~Sent(NoticeOf(t)) /\ rmsg # NoticeOf(t) /\ t \notin noticed
          /\ rmsg = NoticeOf(t) => ~Sent(ReplyTo(t))
          /\ t \in noticed => ~Sent(ReplyTo(t)) /\ rmsg # ReplyTo(t)
        BY DEF OrderInv
    <2>2. Sent(ReplyTo(t))' => Sent(ReplyTo(t)) \/ ReplyTo(t) = m
        BY <1>4
    <2>3. Sent(NoticeOf(t))' => Sent(NoticeOf(t)) \/ NoticeOf(t) = m
        BY <1>4
    <2>4. CASE t = s
        BY <1>1, <1>2, <1>t, <2>1, <2>2, <2>3, <2>4
    <2>5. CASE t # s
        BY <1>2, <1>t, <2>1, <2>2, <2>3, <2>5
    <2> QED BY <2>4, <2>5
<1>6. ASSUME NEW t \in Sessions, NEW i \in 1..Len(channel'), NEW j \in 1..Len(channel'),
             channel'[i] = NoticeOf(t), channel'[j] = ReplyTo(t)
      PROVE  j <= i
    <2>1. CASE i = n + 1
        BY <1>3, <1>6, <2>1
    <2>2. CASE i \in 1..n /\ j \in 1..n
        <3>1. channel[i] = NoticeOf(t) /\ channel[j] = ReplyTo(t)
            BY <1>3, <1>6, <2>2
        <3> QED BY <3>1, <2>2 DEF OrderInv, n
    <2>3. CASE i \in 1..n /\ j = n + 1
        <3>1. Sent(NoticeOf(t)) /\ m = ReplyTo(t)
            BY <1>3, <1>6, <2>3 DEF Sent, n
        <3>2. t = s
            BY <1>t, <3>1
        <3>3. question[t] # "done"
            BY <1>1, <3>1, <3>2
        <3> QED BY <3>1, <3>3 DEF OrderInv
    <2> QED BY <1>3, <2>1, <2>2, <2>3, <1>6
<1>7. /\ (\A t \in Sessions : (question[t] \in {"none", "queued", "working"}
             => ~Sent(ReplyTo(t)) /\ rmsg # ReplyTo(t)))'
      /\ (\A t \in Sessions : (question[t] # "done" =>
             ~Sent(NoticeOf(t)) /\ rmsg # NoticeOf(t) /\ t \notin noticed))'
      /\ (\A t \in Sessions : (rmsg = NoticeOf(t) => ~Sent(ReplyTo(t))))'
      /\ (\A t \in Sessions : (t \in noticed => ~Sent(ReplyTo(t)) /\ rmsg # ReplyTo(t)))'
    BY <1>5 DEF ReplyTo, NoticeOf
<1>8. (\A t \in Sessions : \A i, j \in 1..Len(channel) :
             channel[i] = NoticeOf(t) /\ channel[j] = ReplyTo(t) => j <= i)'
    BY <1>6 DEF ReplyTo, NoticeOf
<1> QED BY <1>7, <1>8 DEF OrderInv

LEMMA OrderReceive ==
    ASSUME TypeOK, HandInv, OrderInv, Receive
    PROVE  OrderInv'
<1> USE DEF relayFrame
<1>1. /\ channel \in Seq(Message) /\ channel # <<>>
      /\ rmsg' = channel[1] /\ channel' = Tail(channel)
      /\ question' = question /\ noticed' = noticed
    BY DEF Receive, TypeOK
<1>2. /\ Len(channel) \in Nat /\ 1 \in 1..Len(channel)
      /\ \A i \in 1..Len(channel') :
            /\ channel'[i] = channel[i + 1]
            /\ i + 1 \in 1..Len(channel) /\ i \in Nat /\ i >= 1
    BY <1>1
<1>3. ASSUME NEW x, Sent(x)' PROVE Sent(x)
    BY <1>2, <1>3 DEF Sent
<1>4. ASSUME NEW x, rmsg' = x PROVE Sent(x)
    BY <1>1, <1>2, <1>4 DEF Sent
<1>5. ASSUME NEW t \in Sessions, rmsg' = NoticeOf(t) PROVE ~Sent(ReplyTo(t))'
    <2>1. ASSUME NEW i \in 1..Len(channel'), channel'[i] = ReplyTo(t) PROVE FALSE
        <3>1. channel[i + 1] = ReplyTo(t) /\ channel[1] = NoticeOf(t)
              /\ i + 1 \in 1..Len(channel) /\ i \in Nat /\ i >= 1
            BY <1>1, <1>2, <1>5, <2>1
        <3>2. i + 1 <= 1
            BY <1>2, <3>1 DEF OrderInv
        <3> QED BY <3>1, <3>2
    <2> QED BY <2>1 DEF Sent
<1>6. ASSUME NEW t \in Sessions
      PROVE  /\ question'[t] \in {"none", "queued", "working"}
                   => ~Sent(ReplyTo(t))' /\ rmsg' # ReplyTo(t)
             /\ question'[t] # "done" =>
                   ~Sent(NoticeOf(t))' /\ rmsg' # NoticeOf(t) /\ t \notin noticed'
             /\ t \in noticed' => ~Sent(ReplyTo(t))' /\ rmsg' # ReplyTo(t)
    BY <1>1, <1>3, <1>4 DEF OrderInv
<1>7. ASSUME NEW t \in Sessions, NEW i \in 1..Len(channel'), NEW j \in 1..Len(channel'),
             channel'[i] = NoticeOf(t), channel'[j] = ReplyTo(t)
      PROVE  j <= i
    <2>1. /\ channel[i + 1] = NoticeOf(t) /\ channel[j + 1] = ReplyTo(t)
          /\ i + 1 \in 1..Len(channel) /\ j + 1 \in 1..Len(channel)
          /\ i \in Nat /\ j \in Nat
        BY <1>2, <1>7
    <2>2. j + 1 <= i + 1
        BY <2>1 DEF OrderInv
    <2> QED BY <2>1, <2>2
<1>8. /\ (\A t \in Sessions : (question[t] \in {"none", "queued", "working"}
             => ~Sent(ReplyTo(t)) /\ rmsg # ReplyTo(t)))'
      /\ (\A t \in Sessions : (question[t] # "done" =>
             ~Sent(NoticeOf(t)) /\ rmsg # NoticeOf(t) /\ t \notin noticed))'
      /\ (\A t \in Sessions : (rmsg = NoticeOf(t) => ~Sent(ReplyTo(t))))'
      /\ (\A t \in Sessions : (t \in noticed => ~Sent(ReplyTo(t)) /\ rmsg # ReplyTo(t)))'
    BY <1>5, <1>6 DEF ReplyTo, NoticeOf
<1>9. (\A t \in Sessions : \A i, j \in 1..Len(channel) :
             channel[i] = NoticeOf(t) /\ channel[j] = ReplyTo(t) => j <= i)'
    BY <1>7 DEF ReplyTo, NoticeOf
<1> QED BY <1>8, <1>9 DEF OrderInv

(* The notice of s has been relayed when broadcast is done with it. *)
LEMMA OrderDone ==
    ASSUME HandInv, OrderInv, BroadcastDone
    PROVE  OrderInv'
<1> USE DEF relayFrame
<1> DEFINE s == rmsg.to
<1>1. /\ rmsg \in Message /\ rmsg.type = "changed"
      /\ rmsg' = NoMsg /\ noticed' = noticed \cup {s}
      /\ question' = question /\ channel' = channel
    BY DEF BroadcastDone, HandInv
<1>2. s \in Sessions /\ rmsg = NoticeOf(s)
    BY <1>1 DEF Message, NoticeOf
<1> HIDE DEF s
<1>3. \A x : Sent(x)' <=> Sent(x)
    BY <1>1 DEF Sent
<1>4. question[s] = "done" /\ ~Sent(ReplyTo(s))
    BY <1>2 DEF OrderInv
<1>5. ASSUME NEW t \in Sessions
      PROVE  /\ question'[t] \in {"none", "queued", "working"}
                   => ~Sent(ReplyTo(t))' /\ rmsg' # ReplyTo(t)
             /\ question'[t] # "done" =>
                   ~Sent(NoticeOf(t))' /\ rmsg' # NoticeOf(t) /\ t \notin noticed'
             /\ rmsg' = NoticeOf(t) => ~Sent(ReplyTo(t))'
             /\ t \in noticed' => ~Sent(ReplyTo(t))' /\ rmsg' # ReplyTo(t)
    <2>1. ReplyTo(t) # NoMsg /\ NoticeOf(t) # NoMsg
        BY TwoMessages
    <2> QED BY <1>1, <1>3, <1>4, <2>1 DEF OrderInv
<1>6. /\ (\A t \in Sessions : (question[t] \in {"none", "queued", "working"}
             => ~Sent(ReplyTo(t)) /\ rmsg # ReplyTo(t)))'
      /\ (\A t \in Sessions : (question[t] # "done" =>
             ~Sent(NoticeOf(t)) /\ rmsg # NoticeOf(t) /\ t \notin noticed))'
      /\ (\A t \in Sessions : (rmsg = NoticeOf(t) => ~Sent(ReplyTo(t))))'
      /\ (\A t \in Sessions : (t \in noticed => ~Sent(ReplyTo(t)) /\ rmsg # ReplyTo(t)))'
    BY <1>5 DEF ReplyTo, NoticeOf
<1>7. (\A t \in Sessions : \A i, j \in 1..Len(channel) :
             channel[i] = NoticeOf(t) /\ channel[j] = ReplyTo(t) => j <= i)'
    BY <1>1 DEF OrderInv, ReplyTo, NoticeOf
<1> QED BY <1>6, <1>7 DEF OrderInv

LEMMA OrderStep ==
    TypeOK /\ HandInv /\ ChatInv /\ OrderInv /\ [Next]_vars => OrderInv'
<1> SUFFICES ASSUME TypeOK, HandInv, ChatInv, OrderInv, [Next]_vars PROVE OrderInv'
    OBVIOUS
<1> USE DEF tabVars, handler, sentVars, relayVars, WorkerVars, relayFrame
<1>1. ASSUME UNCHANGED <<question, noticed>>,
             rmsg' \in {rmsg, NoMsg}, channel' \in {channel, <<>>}
      PROVE  OrderInv'
    BY <1>1, OrderKept
<1>2. ASSUME NEW s \in Sessions, Tab(s) PROVE OrderInv'
    BY <1>1, <1>2 DEF Tab, Edit, Refresh, Ask, Close, Stall
<1>3. ASSUME NEW s \in Sessions,
             \/ Accept(s) \/ Fetch(s) \/ WriteList(s) \/ ReadRefresh(s) \/ ReadClosed(s)
             \/ FetchFails(s) \/ WorkerEdit(s)
      PROVE  OrderInv'
    BY <1>1, <1>3 DEF Accept, Fetch, WriteList, ReadRefresh, ReadClosed, FetchFails, WorkerEdit
<1>4. ASSUME NEW s \in Sessions, ReadChat(s) \/ StartTurn(s) PROVE OrderInv'
    <2>1. /\ \A t \in Sessions \ {s} : question'[t] = question[t]
          /\ \/ question'[s] = question[s]
             \/ question[s] \in {"none", "queued"} /\ question'[s] \in {"queued", "working"}
          /\ UNCHANGED <<noticed, rmsg, channel>>
        <3>1. CASE ReadChat(s)
            <4>1. question[s] = "none"
                <5>1. Len(frames[s]) \in Nat /\ Len(frames[s]) >= 1 /\ frames[s][1] = "chat"
                    BY <3>1, FrameTaken DEF ReadChat
                <5> QED BY <5>1 DEF ChatInv
            <4> QED BY <3>1, <4>1 DEF ReadChat, TypeOK
        <3>2. CASE StartTurn(s)
            BY <3>2 DEF StartTurn, TypeOK
        <3> QED BY <1>4, <3>1, <3>2
    <2> QED BY <2>1, OrderKept
<1>5. ASSUME NEW s \in Sessions, PublishReply(s) \/ PublishChanged(s) PROVE OrderInv'
    BY <1>5, OrderPublish
<1>6. CASE Receive
    BY <1>6, OrderReceive
<1>7. CASE BroadcastDone
    BY <1>7, OrderDone
<1>8. CASE \/ RelayFetch \/ Snapshot \/ SendTo \/ RelayFetchFails
           \/ \E s \in Sessions : BroadcastTo(s)
    BY <1>1, <1>8 DEF RelayFetch, Snapshot, SendTo, RelayFetchFails, BroadcastTo
<1>9. CASE Drop \/ Restart
    BY <1>1, <1>9 DEF Drop, Restart
<1>10. CASE UNCHANGED vars
    BY <1>1, <1>10 DEF vars
<1> QED BY <1>2, <1>3, <1>4, <1>5, <1>6, <1>7, <1>8, <1>9, <1>10
        DEF Next, HandlerStep, WorkerStep, RelayStep

LEMMA OrderAlways == Spec => []OrderInv
<1>1. Init => ChatInv /\ OrderInv
    <2> SUFFICES ASSUME Init PROVE ChatInv /\ OrderInv
        OBVIOUS
    <2>1. /\ \A s \in Sessions : frames[s] = <<>> /\ question[s] = "none"
          /\ channel = <<>> /\ rmsg = NoMsg /\ noticed = {}
        BY DEF Init
    <2>2. ChatInv
        BY <2>1 DEF ChatInv
    <2>3. \A x : ~Sent(x)
        BY <2>1 DEF Sent
    <2>4. \A s \in Sessions : NoMsg # ReplyTo(s) /\ NoMsg # NoticeOf(s)
        BY TwoMessages
    <2>5. 1..Len(channel) = {}
        BY <2>1
    <2> QED BY <2>1, <2>2, <2>3, <2>4, <2>5 DEF OrderInv
<1> QED BY <1>1, ChatStep, OrderStep, TypeAlways, PTL DEF Spec

(* The reply to a question is never written after the list its turn        *)
(* produced: process_entry publishes the reply before todos:changed        *)
(* (main.py:116-118), and one goroutine relays both (main.go:145-163).     *)
THEOREM ReplyComesFirst == Spec => ReplyBeforeNotice
<1> DEFINE InOrder == \A s \in Sessions : s \in answered' \ answered => s \notin noticed
<1>1. HandInv /\ OrderInv /\ [Next]_vars => [InOrder]_vars
    <2> SUFFICES ASSUME HandInv, OrderInv, [Next]_vars,
                        NEW s \in Sessions, s \in answered' \ answered
                 PROVE  s \notin noticed
        OBVIOUS
    <2> USE DEF tabVars, handler, sentVars, relayVars, WorkerVars, relayFrame
    <2>1. SendTo
        BY DEF Next, Tab, Edit, Refresh, Ask, Close, Stall, Accept, HandlerStep, Fetch, WriteList,
               Send, ReadChat, ReadRefresh, ReadClosed, FetchFails, WorkerStep, StartTurn,
               PublishReply, PublishChanged, WorkerEdit, RelayStep, Receive, RelayFetch, Snapshot,
               BroadcastTo, BroadcastDone, RelayFetchFails, Drop, Restart, vars
    <2>2. rmsg \in Message /\ rmsg.type = "reply" /\ rmsg.to = s
        BY <2>1 DEF SendTo, HandInv
    <2>3. rmsg = ReplyTo(s)
        BY <2>2 DEF Message, ReplyTo
    <2> QED BY <2>3 DEF OrderInv
<1>2. [][InOrder]_vars <=> ReplyBeforeNotice
    BY DEF ReplyBeforeNotice
<1> HIDE DEF InOrder
<1> QED BY <1>1, <1>2, OrderAlways, TypeAlways, PTL DEF Spec

-----------------------------------------------------------------------------
(* The hub and the handlers *)

(* A connection is in the hub exactly while its handler runs: the deferred *)
(* unregister is the only way out but a restart.  ClosedIsForgotten is     *)
(* this and that the handler of a closed tab ends.                         *)
HubIsHandlers == \A s \in Sessions : s \in conns <=> pc[s] \notin {"none", "gone"}

(* A session sends and asks only once it is connected. *)
AskerInv == \A s \in Sessions : pc[s] = "none" => frames[s] = <<>> /\ question[s] = "none"

LEMMA HubStep ==
    ASSUME TypeOK, HubIsHandlers, [Next]_vars
    PROVE  HubIsHandlers'
<1> USE DEF tabVars, handler, sentVars, relayVars, bounds, relayFrame, WorkerVars, HubIsHandlers
<1>0. pc \in [Sessions -> HandlerState]
    BY DEF TypeOK
<1>1. CASE UNCHANGED <<conns, pc>>
    BY <1>1
<1>2. ASSUME NEW s \in Sessions, Accept(s) PROVE HubIsHandlers'
    BY <1>0, <1>2 DEF Accept, At
<1>3. ASSUME NEW s \in Sessions, ReadClosed(s) PROVE HubIsHandlers'
    BY <1>0, <1>3 DEF ReadClosed, At
<1>4. ASSUME NEW s \in Sessions, Fetch(s) \/ WriteList(s) \/ ReadRefresh(s) \/ FetchFails(s)
      PROVE  HubIsHandlers'
    <2>1. conns' = conns /\ \E from, to \in {"hello", "helloWrite", "read", "fetch", "write"} :
                                At(s, from, to)
        BY <1>4 DEF Fetch, WriteList, ReadRefresh, FetchFails
    <2> QED BY <1>0, <2>1 DEF At
<1>5. CASE Restart
    BY <1>0, <1>5 DEF Restart
<1>6. ASSUME NEW s \in Sessions, Tab(s) \/ ReadChat(s) \/ WorkerStep(s) \/ WorkerEdit(s)
      PROVE  UNCHANGED <<conns, pc>>
    BY <1>6 DEF Tab, Edit, Refresh, Ask, Close, Stall, ReadChat, WorkerStep, StartTurn,
                PublishReply, PublishChanged, WorkerEdit
<1>7. CASE RelayStep \/ RelayFetchFails \/ Drop \/ UNCHANGED vars
    BY <1>1, <1>7 DEF RelayStep, Receive, RelayFetch, Snapshot, BroadcastTo, BroadcastDone, SendTo,
                      RelayFetchFails, Drop, vars
<1> QED BY <1>1, <1>2, <1>3, <1>4, <1>5, <1>6, <1>7 DEF Next, HandlerStep

(* The hub holds no connection without a handler and no handler runs on a  *)
(* connection it does not hold (main.go:96-117, hub.go, register).         *)
THEOREM HubHoldsHandlers == Spec => []HubIsHandlers
<1>1. Init => HubIsHandlers
    BY DEF Init, HubIsHandlers
<1> QED BY <1>1, HubStep, TypeAlways, PTL DEF Spec

-----------------------------------------------------------------------------
(* One reply to each question *)

Only(s) == \A i, j \in 1..Len(channel) : channel[i] = ReplyTo(s) /\ channel[j] = ReplyTo(s) => i = j

(* The reply to s is on its way once at most, and no more once it was      *)
(* written; none is written that was not published.                        *)
AnsweredOnce ==
    \A s \in Sessions :
        /\ Only(s)
        /\ rmsg = ReplyTo(s) => ~Sent(ReplyTo(s))
        /\ s \in answered => ~Coming(s) /\ question[s] \in {"replied", "done"}

LEMMA ComingSent ==
    ASSUME NEW s \in Sessions
    PROVE  Coming(s) <=> rmsg = ReplyTo(s) \/ Sent(ReplyTo(s))
BY DEF Coming, Sent

(* Receive takes the oldest message out of the channel. *)
LEMMA Received ==
    ASSUME TypeOK, Receive
    PROVE  /\ Len(channel) \in Nat /\ 1 \in 1..Len(channel) /\ rmsg' = channel[1]
           /\ \A i \in 1..Len(channel') :
                 channel'[i] = channel[i + 1] /\ i + 1 \in 1..Len(channel) /\ i + 1 # 1 /\ i \in Nat
           /\ \A i \in 1..Len(channel) :
                 i # 1 => i - 1 \in 1..Len(channel') /\ channel'[i - 1] = channel[i]
<1>1. channel \in Seq(Message) /\ channel # <<>> /\ rmsg' = channel[1] /\ channel' = Tail(channel)
    BY DEF Receive, TypeOK
<1> QED BY <1>1

(* What is published goes to the end. *)
LEMMA Published ==
    ASSUME TypeOK, NEW s \in Sessions, NEW type, Publish(s, type)
    PROVE  /\ Len(channel) \in Nat /\ Len(channel') = Len(channel) + 1
           /\ channel'[Len(channel) + 1] = [type |-> type, to |-> s]
           /\ \A i \in 1..Len(channel) : channel'[i] = channel[i] /\ i \in 1..Len(channel')
           /\ \A i \in 1..Len(channel') : i \in 1..Len(channel) \/ i = Len(channel) + 1
BY DEF Publish, TypeOK

LEMMA OnceStep ==
    ASSUME TypeOK, HandInv, ChatInv, OrderInv, AnsweredOnce, [Next]_vars
    PROVE  AnsweredOnce'
<1> USE DEF tabVars, handler, sentVars, relayVars, bounds, relayFrame, WorkerVars
<1>1. ASSUME channel' \in {channel, <<>>}, rmsg' \in {rmsg, NoMsg},
             \A s \in Sessions :
                /\ question[s] \in {"replied", "done"} => question'[s] \in {"replied", "done"}
                /\ s \in answered' => s \in answered \/ (rmsg = ReplyTo(s) /\ rmsg' = NoMsg)
      PROVE  AnsweredOnce'
    <2> SUFFICES ASSUME NEW s \in Sessions
                 PROVE  /\ Only(s)' /\ (rmsg = ReplyTo(s) => ~Sent(ReplyTo(s)))'
                        /\ (s \in answered => ~Coming(s) /\ question[s] \in {"replied", "done"})'
        BY DEF AnsweredOnce
    <2>1. /\ Sent(ReplyTo(s))' => Sent(ReplyTo(s))
          /\ rmsg' = ReplyTo(s) => rmsg = ReplyTo(s)
        BY <1>1, TwoMessages DEF Sent, ReplyTo
    <2>2. Only(s)'
        BY <1>1 DEF AnsweredOnce, Only, ReplyTo
    <2>3. Coming(s)' => rmsg' = ReplyTo(s) \/ Sent(ReplyTo(s))'
        BY DEF Coming, Sent, ReplyTo
    <2>4. ASSUME s \in answered' PROVE ~Coming(s)' /\ question'[s] \in {"replied", "done"}
        <3>1. CASE s \in answered
            <4>1. ~Coming(s) /\ question[s] \in {"replied", "done"}
                BY <3>1 DEF AnsweredOnce
            <4> QED BY <1>1, <2>1, <2>3, <4>1, ComingSent
        <3>2. CASE rmsg = ReplyTo(s) /\ rmsg' = NoMsg
            <4>1. ~Sent(ReplyTo(s)) /\ rmsg' # ReplyTo(s)
                BY <3>2, TwoMessages DEF AnsweredOnce
            <4>2. question[s] \in {"replied", "done"}
                BY <3>2 DEF OrderInv, TypeOK, Question
            <4> QED BY <1>1, <2>1, <2>3, <4>1, <4>2
        <3> QED BY <1>1, <2>4, <3>1, <3>2
    <2>5. (rmsg = ReplyTo(s) => ~Sent(ReplyTo(s)))'
        BY <2>1 DEF AnsweredOnce, ReplyTo, Sent
    <2> QED BY <2>2, <2>4, <2>5
<1>2. ASSUME NEW s \in Sessions, Tab(s) PROVE AnsweredOnce'
    BY <1>1, <1>2 DEF Tab, Edit, Refresh, Ask, Close, Stall
<1>3. ASSUME NEW s \in Sessions,
             \/ Accept(s) \/ Fetch(s) \/ WriteList(s) \/ ReadRefresh(s) \/ ReadClosed(s)
             \/ FetchFails(s) \/ WorkerEdit(s)
      PROVE  AnsweredOnce'
    BY <1>1, <1>3 DEF Accept, Fetch, WriteList, Send, ReadRefresh, ReadClosed, FetchFails, WorkerEdit
<1>4. ASSUME NEW s \in Sessions, ReadChat(s) \/ StartTurn(s) PROVE AnsweredOnce'
    <2>1. question[s] \notin {"replied", "done"}
        <3>1. CASE ReadChat(s)
            <4>1. Len(frames[s]) \in Nat /\ Len(frames[s]) >= 1 /\ frames[s][1] = "chat"
                BY <3>1, FrameTaken DEF ReadChat
            <4> QED BY <4>1 DEF ChatInv
        <3>2. CASE StartTurn(s)
            BY <3>2 DEF StartTurn
        <3> QED BY <1>4, <3>1, <3>2
    <2>2. /\ UNCHANGED <<channel, rmsg, answered>>
          /\ \A t \in Sessions \ {s} : question'[t] = question[t]
        BY <1>4 DEF ReadChat, StartTurn, TypeOK
    <2> QED BY <1>1, <2>1, <2>2
<1>5. ASSUME NEW s \in Sessions, PublishReply(s) PROVE AnsweredOnce'
    <2>1. /\ question[s] = "working" /\ question'[s] = "replied" /\ Publish(s, "reply")
          /\ \A t \in Sessions \ {s} : question'[t] = question[t]
          /\ UNCHANGED <<rmsg, answered>>
        BY <1>5 DEF PublishReply, TypeOK
    <2>2. ~Sent(ReplyTo(s)) /\ rmsg # ReplyTo(s) /\ s \notin answered
        BY <2>1 DEF OrderInv, AnsweredOnce
    <2>3. /\ Len(channel) \in Nat /\ Len(channel') = Len(channel) + 1
          /\ channel'[Len(channel) + 1] = ReplyTo(s)
          /\ \A i \in 1..Len(channel) : channel'[i] = channel[i] /\ i \in 1..Len(channel')
          /\ \A i \in 1..Len(channel') : i \in 1..Len(channel) \/ i = Len(channel) + 1
        BY <2>1, Published DEF ReplyTo
    <2> SUFFICES ASSUME NEW t \in Sessions
                 PROVE  /\ Only(t)' /\ (rmsg = ReplyTo(t) => ~Sent(ReplyTo(t)))'
                        /\ (t \in answered => ~Coming(t) /\ question[t] \in {"replied", "done"})'
        BY DEF AnsweredOnce
    <2>4. Coming(t)' => rmsg' = ReplyTo(t) \/ Sent(ReplyTo(t))'
        BY DEF Coming, Sent, ReplyTo
    <2>5. CASE t = s
        BY <2>1, <2>2, <2>3, <2>5 DEF Only, Sent, ReplyTo
    <2>6. CASE t # s
        <3>1. ReplyTo(t) # ReplyTo(s)
            BY <2>6, TwoMessages
        <3>2. Sent(ReplyTo(t))' => Sent(ReplyTo(t))
            BY <2>3, <3>1 DEF Sent, ReplyTo
        <3>3. Only(t)'
            BY <2>3, <3>1 DEF Only, AnsweredOnce, ReplyTo
        <3>4. Coming(t)' => Coming(t)
            BY <2>1, <2>4, <3>2, ComingSent
        <3>5. (rmsg = ReplyTo(t) => ~Sent(ReplyTo(t)))'
            BY <2>1, <3>2 DEF AnsweredOnce, ReplyTo, Sent
        <3> QED BY <2>1, <2>6, <3>3, <3>4, <3>5 DEF AnsweredOnce
    <2> QED BY <2>5, <2>6
<1>6. ASSUME NEW s \in Sessions, PublishChanged(s) PROVE AnsweredOnce'
    <2>1. /\ question'[s] = "done" /\ Publish(s, "changed")
          /\ \A t \in Sessions \ {s} : question'[t] = question[t]
          /\ UNCHANGED <<rmsg, answered>>
        BY <1>6 DEF PublishChanged, TypeOK
    <2>2. /\ Len(channel) \in Nat /\ Len(channel') = Len(channel) + 1
          /\ channel'[Len(channel) + 1] = NoticeOf(s)
          /\ \A i \in 1..Len(channel) : channel'[i] = channel[i] /\ i \in 1..Len(channel')
          /\ \A i \in 1..Len(channel') : i \in 1..Len(channel) \/ i = Len(channel) + 1
        BY <2>1, Published DEF NoticeOf
    <2> SUFFICES ASSUME NEW t \in Sessions
                 PROVE  /\ Only(t)' /\ (rmsg = ReplyTo(t) => ~Sent(ReplyTo(t)))'
                        /\ (t \in answered => ~Coming(t) /\ question[t] \in {"replied", "done"})'
        BY DEF AnsweredOnce
    <2>3. ReplyTo(t) # NoticeOf(s)
        BY TwoMessages
    <2>4. Sent(ReplyTo(t))' => Sent(ReplyTo(t))
        BY <2>2, <2>3 DEF Sent, ReplyTo
    <2>5. Only(t)'
        BY <2>2, <2>3 DEF Only, AnsweredOnce, ReplyTo
    <2>6. Coming(t)' => rmsg' = ReplyTo(t) \/ Sent(ReplyTo(t))'
        BY DEF Coming, Sent, ReplyTo
    <2>7. (rmsg = ReplyTo(t) => ~Sent(ReplyTo(t)))'
        BY <2>1, <2>4 DEF AnsweredOnce, ReplyTo, Sent
    <2>8. question[t] \in {"replied", "done"} => question'[t] \in {"replied", "done"}
        BY <2>1
    <2> QED BY <2>1, <2>4, <2>5, <2>6, <2>7, <2>8, ComingSent DEF AnsweredOnce
<1>7. CASE Receive
    <2>1. UNCHANGED <<question, answered>>
        BY <1>7 DEF Receive
    <2>2. /\ Len(channel) \in Nat /\ 1 \in 1..Len(channel) /\ rmsg' = channel[1]
          /\ \A i \in 1..Len(channel') :
                channel'[i] = channel[i + 1] /\ i + 1 \in 1..Len(channel) /\ i + 1 # 1 /\ i \in Nat
        BY <1>7, Received
    <2> SUFFICES ASSUME NEW t \in Sessions
                 PROVE  /\ Only(t)' /\ (rmsg = ReplyTo(t) => ~Sent(ReplyTo(t)))'
                        /\ (t \in answered => ~Coming(t) /\ question[t] \in {"replied", "done"})'
        BY DEF AnsweredOnce
    <2>3. Only(t)
        BY DEF AnsweredOnce
    <2>4. Only(t)'
        <3>1. ASSUME NEW i \in 1..Len(channel'), NEW j \in 1..Len(channel'),
                     channel'[i] = ReplyTo(t), channel'[j] = ReplyTo(t)
              PROVE  i = j
            <4>1. /\ i + 1 \in 1..Len(channel) /\ j + 1 \in 1..Len(channel)
                  /\ channel[i + 1] = ReplyTo(t) /\ channel[j + 1] = ReplyTo(t)
                  /\ i \in Nat /\ j \in Nat
                BY <2>2, <3>1
            <4>2. i + 1 = j + 1
                BY <2>3, <4>1 DEF Only
            <4> QED BY <4>1, <4>2
        <3> QED BY <3>1 DEF Only, ReplyTo
    <2>5. Sent(ReplyTo(t))' => Sent(ReplyTo(t))
        BY <2>2 DEF Sent, ReplyTo
    <2>6. rmsg' = ReplyTo(t) => Sent(ReplyTo(t)) /\ ~Sent(ReplyTo(t))'
        BY <2>2, <2>3 DEF Sent, Only, ReplyTo
    <2>7. Coming(t)' => rmsg' = ReplyTo(t) \/ Sent(ReplyTo(t))'
        BY DEF Coming, Sent, ReplyTo
    <2>8. (rmsg = ReplyTo(t) => ~Sent(ReplyTo(t)))'
        BY <2>6 DEF ReplyTo, Sent
    <2> QED BY <2>1, <2>4, <2>5, <2>6, <2>7, <2>8, ComingSent DEF AnsweredOnce
<1>8. CASE SendTo
    <2> DEFINE s == rmsg.to
    <2>1. /\ answered' \in {answered, answered \cup {s}} /\ rmsg' = NoMsg
          /\ UNCHANGED <<question, channel>>
        BY <1>8 DEF SendTo
    <2>2. rmsg = ReplyTo(s)
        BY <1>8 DEF SendTo, HandInv, Message, ReplyTo
    <2> HIDE DEF s
    <2>3. \A t \in Sessions : t \in answered' => t \in answered \/ (rmsg = ReplyTo(t) /\ rmsg' = NoMsg)
        BY <2>1, <2>2
    <2> QED BY <1>1, <2>1, <2>3
<1>9. CASE \/ RelayFetch \/ Snapshot \/ BroadcastDone \/ RelayFetchFails
           \/ \E s \in Sessions : BroadcastTo(s)
    BY <1>1, <1>9 DEF RelayFetch, Snapshot, BroadcastDone, RelayFetchFails, BroadcastTo, Send
<1>10. CASE Drop \/ Restart \/ UNCHANGED vars
    BY <1>1, <1>10 DEF Drop, Restart, vars
<1> QED BY <1>2, <1>3, <1>4, <1>5, <1>6, <1>7, <1>8, <1>9, <1>10
        DEF Next, HandlerStep, WorkerStep, RelayStep

LEMMA ChatOrderAlways == Spec => [](ChatInv /\ OrderInv)
<1>1. Init => ChatInv
    BY DEF Init, ChatInv
<1> QED BY <1>1, ChatStep, OrderAlways, TypeAlways, PTL DEF Spec

(* A question is answered at most once on its socket, and only after its   *)
(* turn has replied (main.go:145-163).                                     *)
THEOREM OneReplyEach == Spec => []AnsweredOnce
<1>1. Init => AnsweredOnce
    <2> SUFFICES ASSUME Init, NEW s \in Sessions
                 PROVE  Only(s) /\ rmsg # ReplyTo(s) /\ s \notin answered
        BY DEF AnsweredOnce
    <2>1. channel = <<>> /\ rmsg = NoMsg /\ answered = {} /\ NoMsg # ReplyTo(s)
        BY TwoMessages DEF Init
    <2> QED BY <2>1 DEF Only
<1>2. TypeOK /\ HandInv /\ ChatInv /\ OrderInv /\ AnsweredOnce /\ [Next]_vars => AnsweredOnce'
    BY OnceStep
<1> QED BY <1>1, <1>2, ChatOrderAlways, TypeAlways, PTL DEF Spec

-----------------------------------------------------------------------------
(* No reply is lost in silence *)

(* Of the ways a reply may leave the gateway there are three: it is        *)
(* written, its tab has gone, or the subscription was lost.  ReplyArrives  *)
(* is this and that it does leave.                                         *)
ReplyStays ==
    [][\A s \in Sessions : Coming(s) =>
          Coming(s)' \/ s \in answered' \/ s \notin open' \/ drops' > drops]_vars

(* Of every reply published, it can be told what has become of it. *)
ReplySomewhere ==
    \A s \in Sessions : question[s] \in {"replied", "done"} =>
        s \in answered \/ Coming(s) \/ s \notin open \/ drops > 0

Leaves(s) == s \in answered' \/ s \notin open' \/ drops' > drops

LEMMA StaysStep ==
    ASSUME TypeOK, HandInv, HubInv, [Next]_vars, NEW s \in Sessions, Coming(s)
    PROVE  Coming(s)' \/ Leaves(s)
<1> USE DEF tabVars, handler, sentVars, relayVars, bounds, relayFrame, WorkerVars
<1>1. CASE UNCHANGED <<channel, rmsg>>
    BY <1>1 DEF Coming, ReplyTo
<1>2. ASSUME NEW t \in Sessions, PublishReply(t) \/ PublishChanged(t) PROVE Coming(s)'
    <2>1. PICK type \in {"reply", "changed"} : Publish(t, type) /\ rmsg' = rmsg
        BY <1>2 DEF PublishReply, PublishChanged
    <2>2. \A i \in 1..Len(channel) : channel'[i] = channel[i] /\ i \in 1..Len(channel')
        BY <2>1, Published
    <2> QED BY <2>1, <2>2 DEF Coming, ReplyTo
<1>3. CASE Receive
    <2>1. /\ rmsg' = channel[1]
          /\ \A i \in 1..Len(channel) :
                i # 1 => i - 1 \in 1..Len(channel') /\ channel'[i - 1] = channel[i]
        BY <1>3, Received
    <2>2. rmsg = NoMsg /\ NoMsg # ReplyTo(s)
        BY <1>3, TwoMessages DEF Receive, HandInv
    <2>3. PICK i \in 1..Len(channel) : channel[i] = ReplyTo(s)
        BY <2>2 DEF Coming
    <2>4. CASE i = 1
        BY <2>1, <2>3, <2>4 DEF Coming, ReplyTo
    <2>5. CASE i # 1
        BY <2>1, <2>3, <2>5 DEF Coming, ReplyTo
    <2> QED BY <2>4, <2>5
<1>4. CASE SendTo
    <2>1. /\ answered' = IF rmsg.to \in conns \cap open THEN answered \cup {rmsg.to} ELSE answered
          /\ UNCHANGED <<channel, open>>
        BY <1>4 DEF SendTo
    <2>2. CASE rmsg = ReplyTo(s)
        <3>1. rmsg.to = s
            BY <2>2 DEF ReplyTo
        <3> QED BY <2>1, <3>1 DEF HubInv, Leaves
    <2>3. CASE rmsg # ReplyTo(s)
        BY <2>1, <2>3 DEF Coming, ReplyTo
    <2> QED BY <2>2, <2>3
<1>5. CASE BroadcastDone \/ RelayFetchFails
    <2>1. channel' = channel /\ rmsg.type = "changed"
        BY <1>5 DEF BroadcastDone, RelayFetchFails, HandInv
    <2>2. rmsg # ReplyTo(s)
        BY <2>1 DEF ReplyTo
    <2> QED BY <2>1, <2>2 DEF Coming, ReplyTo
<1>6. CASE Drop
    BY <1>6 DEF Drop, TypeOK, Leaves
<1>7. CASE Restart
    BY <1>7 DEF Restart, Leaves
<1>8. ASSUME NEW t \in Sessions, Tab(t) \/ Accept(t) \/ HandlerStep(t) \/ FetchFails(t)
                                 \/ StartTurn(t) \/ WorkerEdit(t)
      PROVE  UNCHANGED <<channel, rmsg>>
    BY <1>8 DEF Tab, Edit, Refresh, Ask, Close, Stall, Accept, HandlerStep, Fetch, WriteList, Send,
                ReadChat, ReadRefresh, ReadClosed, FetchFails, StartTurn, WorkerEdit
<1>9. CASE RelayFetch \/ Snapshot \/ (\E t \in Sessions : BroadcastTo(t)) \/ UNCHANGED vars
    BY <1>1, <1>9 DEF RelayFetch, Snapshot, BroadcastTo, vars
<1> QED BY <1>1, <1>2, <1>3, <1>4, <1>5, <1>6, <1>7, <1>8, <1>9 DEF Next, WorkerStep, RelayStep

(* A published reply leaves subscribeUpdates only by being written, with   *)
(* its tab, or with the subscription (main.go:145-163, hub.go, sendTo).    *)
THEOREM RepliesStay == Spec => ReplyStays
<1> DEFINE Stays == \A s \in Sessions : Coming(s) =>
                       Coming(s)' \/ s \in answered' \/ s \notin open' \/ drops' > drops
<1>1. TypeOK /\ HandInv /\ GInv /\ [Next]_vars => [Stays]_vars
    BY StaysStep DEF GInv, Leaves
<1>2. [][Stays]_vars <=> ReplyStays
    BY DEF ReplyStays
<1> HIDE DEF Stays
<1> QED BY <1>1, <1>2, GInductive, TypeAlways, PTL DEF Spec

LEMMA AskerStep ==
    ASSUME TypeOK, HubInv, AskerInv, [Next]_vars
    PROVE  AskerInv'
<1> USE DEF tabVars, handler, sentVars, relayVars, bounds, relayFrame, WorkerVars
<1>0. /\ pc \in [Sessions -> HandlerState] /\ question \in [Sessions -> Question]
      /\ frames \in [Sessions -> Seq({"chat", "refresh"})]
      /\ \A s \in Sessions : pc[s] = "none" => s \notin open
    BY DEF TypeOK, HubInv
<1>1. CASE UNCHANGED <<pc, frames, question>>
    BY <1>1 DEF AskerInv
<1>2. ASSUME NEW s \in Sessions, Tab(s) PROVE AskerInv'
    <2>1. /\ UNCHANGED <<pc, question>>
          /\ \A t \in Sessions : frames'[t] = frames[t] \/ (t = s /\ s \in open)
        BY <1>0, <1>2 DEF Tab, Edit, Refresh, Ask, Close, Stall
    <2> QED BY <1>0, <2>1 DEF AskerInv
<1>3. ASSUME NEW s \in Sessions,
             \/ Accept(s) \/ Fetch(s) \/ WriteList(s) \/ ReadRefresh(s) \/ ReadClosed(s)
             \/ FetchFails(s)
      PROVE  AskerInv'
    <2>1. /\ question' = question /\ \A t \in Sessions \ {s} : frames'[t] = frames[t]
          /\ pc' \in {[pc EXCEPT ![s] = to] : to \in HandlerState \ {"none"}}
        BY <1>0, <1>3 DEF Accept, Fetch, WriteList, ReadRefresh, ReadClosed, FetchFails, At,
                          NextFrame, HandlerState
    <2> QED BY <1>0, <2>1 DEF AskerInv
<1>4. ASSUME NEW s \in Sessions, ReadChat(s) \/ WorkerStep(s) \/ WorkerEdit(s) PROVE AskerInv'
    <2>1. /\ pc' = pc
          /\ \A t \in Sessions \ {s} : question'[t] = question[t] /\ frames'[t] = frames[t]
        BY <1>0, <1>4 DEF ReadChat, NextFrame, WorkerStep, StartTurn, PublishReply, PublishChanged,
                          WorkerEdit
    <2>2. CASE ReadChat(s)
        <3>1. pc[s] = "read"
            BY <2>2 DEF ReadChat
        <3> QED BY <2>1, <3>1 DEF AskerInv
    <2>3. CASE WorkerStep(s)
        <3>1. question[s] # "none"
            BY <2>3 DEF WorkerStep, StartTurn, PublishReply, PublishChanged
        <3> QED BY <2>1, <3>1 DEF AskerInv
    <2>4. CASE WorkerEdit(s)
        BY <1>1, <2>4 DEF WorkerEdit
    <2> QED BY <1>4, <2>2, <2>3, <2>4
<1>5. CASE Restart
    <2>1. \A s \in Sessions : frames'[s] = <<>> /\ (pc'[s] = "none" => pc[s] = "none")
        BY <1>5 DEF Restart
    <2> QED BY <1>5, <2>1 DEF Restart, AskerInv
<1>6. CASE RelayStep \/ RelayFetchFails \/ Drop \/ UNCHANGED vars
    BY <1>1, <1>6 DEF RelayStep, Receive, RelayFetch, Snapshot, BroadcastTo, BroadcastDone, SendTo,
                      RelayFetchFails, Drop, vars
<1> QED BY <1>2, <1>3, <1>4, <1>5, <1>6 DEF Next, HandlerStep

(* What can happen to one reply in a step: it is published, it stays, or   *)
(* it leaves; and a tab that is closed opens only for the first time.      *)
LEMMA SomewhereStep ==
    ASSUME TypeOK, HandInv, HubInv, AskerInv, ReplySomewhere, [Next]_vars
    PROVE  ReplySomewhere'
<1> USE DEF tabVars, handler, sentVars, relayVars, bounds, relayFrame, WorkerVars
<1> SUFFICES ASSUME NEW s \in Sessions, question'[s] \in {"replied", "done"}
             PROVE  (s \in answered \/ Coming(s) \/ s \notin open \/ drops > 0)'
    BY DEF ReplySomewhere
<1>0. drops \in Nat /\ drops' \in Nat /\ drops' >= drops
    BY DEF TypeOK, Next, Tab, Edit, Refresh, Ask, Close, Stall, Accept, HandlerStep, Fetch,
           WriteList, Send, ReadChat, ReadRefresh, ReadClosed, FetchFails, WorkerStep, StartTurn,
           PublishReply, PublishChanged, WorkerEdit, RelayStep, Receive, RelayFetch, Snapshot,
           BroadcastTo, BroadcastDone, SendTo, RelayFetchFails, Drop, Restart, vars
<1>1. CASE question[s] \in {"replied", "done"}
    <2>1. s \in answered => s \in answered'
        BY DEF Next, Tab, Edit, Refresh, Ask, Close, Stall, Accept, HandlerStep, Fetch,
               WriteList, Send, ReadChat, ReadRefresh, ReadClosed, FetchFails, WorkerStep, StartTurn,
               PublishReply, PublishChanged, WorkerEdit, RelayStep, Receive, RelayFetch, Snapshot,
               BroadcastTo, BroadcastDone, SendTo, RelayFetchFails, Drop, Restart, vars
    <2>2. s \notin open => s \notin open'
        <3>1. pc[s] # "none"
            BY <1>1 DEF AskerInv
        <3>2. ASSUME NEW t \in Sessions, Accept(t) PROVE s \notin open => s \notin open'
            BY <3>1, <3>2 DEF Accept, At
        <3>3. CASE \A t \in Sessions : ~Accept(t)
            BY <3>3 DEF Next, Tab, Edit, Refresh, Ask, Close, Stall, HandlerStep, Fetch,
               WriteList, Send, ReadChat, ReadRefresh, ReadClosed, FetchFails, WorkerStep, StartTurn,
               PublishReply, PublishChanged, WorkerEdit, RelayStep, Receive, RelayFetch, Snapshot,
               BroadcastTo, BroadcastDone, SendTo, RelayFetchFails, Drop, Restart, vars
        <3> QED BY <3>2, <3>3
    <2>3. s \in answered \/ Coming(s) \/ s \notin open \/ drops > 0
        BY <1>1 DEF ReplySomewhere
    <2>4. Coming(s) => Coming(s)' \/ Leaves(s)
        BY StaysStep
    <2> QED BY <1>0, <2>1, <2>2, <2>3, <2>4 DEF Leaves
<1>2. CASE question[s] \notin {"replied", "done"}
    <2>1. PublishReply(s)
        <3>1. ASSUME NEW t \in Sessions, ReadChat(t) \/ StartTurn(t) PROVE FALSE
            BY <1>2, <3>1 DEF ReadChat, StartTurn, TypeOK
        <3>2. ASSUME NEW t \in Sessions, PublishReply(t) \/ PublishChanged(t) PROVE PublishReply(s)
            BY <1>2, <3>2 DEF PublishReply, PublishChanged, TypeOK
        <3> QED BY <1>2, <3>1, <3>2
            DEF Next, Tab, Edit, Refresh, Ask, Close, Stall, Accept, HandlerStep, Fetch,
               WriteList, ReadRefresh, ReadClosed, FetchFails, WorkerStep,
               WorkerEdit, RelayStep, Receive, RelayFetch, Snapshot,
               BroadcastTo, BroadcastDone, SendTo, RelayFetchFails, Drop, Restart, vars
    <2>2. /\ Len(channel) \in Nat /\ Len(channel') = Len(channel) + 1
          /\ channel'[Len(channel) + 1] = ReplyTo(s)
        BY <2>1, Published DEF PublishReply, ReplyTo
    <2>3. Len(channel) + 1 \in 1..Len(channel')
        BY <2>2
    <2> QED BY <2>2, <2>3 DEF Coming, ReplyTo
<1> QED BY <1>1, <1>2

(* Every reply published was written, is still on its way, or has lost its *)
(* tab or its subscription.                                                *)
THEOREM RepliesSomewhere == Spec => []ReplySomewhere
<1>1. Init => AskerInv /\ ReplySomewhere
    BY DEF Init, AskerInv, ReplySomewhere
<1>2. TypeOK /\ GInv /\ AskerInv /\ [Next]_vars => AskerInv'
    BY AskerStep DEF GInv
<1>3. TypeOK /\ HandInv /\ GInv /\ AskerInv /\ ReplySomewhere /\ [Next]_vars => ReplySomewhere'
    BY SomewhereStep DEF GInv
<1> QED BY <1>1, <1>2, <1>3, GInductive, TypeAlways, PTL DEF Spec
=============================================================================
