# TaskDone and klyde-agent, formally

This directory holds TLA+ models of the programs in this repository, TLC
configurations that check them on small instances, and proofs, checked by
TLAPS, that their main invariants hold on every instance. `PROJECT.json` lists
the runs, what each checks, which lines of the source each definition models,
the hazards the properties are aimed at and the disagreements found between
the code and its documents.

## The system

Three programs share the repository.

* **The todo demo** (`src/api`, `src/site`): a Go service over one MySQL table.
* **TaskDone** (`src/keda`): a chat that edits that todo list. A browser talks to
  `websocket-gateway`; the gateway queues chats in the Redis stream
  `agent:tasks`; `agent-worker` pods, which KEDA starts when the stream has a
  backlog and stops when it has none, answer them with a language model that
  calls the tools of `mcp-server`; the tools change todos through `api` and
  priorities in the Redis hash `todo:priority`; the worker publishes its reply
  and a "todos changed" notice through Redis Pub/Sub, and the gateway relays
  both to the browsers.
* **klyde-agent** (`src/agent`): a store of chat sessions (Go, bbolt) and an MCP
  server that reads a Kubernetes cluster.

```
 browser --ws--> websocket-gateway --XADD--> agent:tasks --XREADGROUP--> agent-worker pods
    |  ^               ^   |                      ^                        |      |
    |  |   lists,      |   | list_todos           | lag                    |      | tools/call
    |  +---replies-----+   v                     KEDA                      |      v
    |                 mcp-server <-----------------------------------------|--mcp-server
    |                  |      |                                            |
    +--- api ----------+      +--- todo:priority (Redis)        PUBLISH chat:<id>, todos:changed
          |                                                                |
        MySQL                             gateway's subscribeUpdates <-----+
```

### Inventory

| Component | State it keeps | Operations | What is hard | What makes it correct |
|---|---|---|---|---|
| agent-worker (`keda/agent-worker/main.py`) | the entry in hand | boot, read one entry, run a turn, publish twice, acknowledge | killed between any two steps; nothing re-delivers; commands sent again | an entry has one turn at most; acknowledged means answered and announced |
| stream, group, scaler (`keda/manifests`) | stream, last-delivered id, pending entries, replicas | XADD, XGROUP CREATE, XREADGROUP, XACK; scale up, down, to zero; Redis loses everything on restart | the group may be missing; lag ignores what a pod is working on; go-redis may execute an XADD twice | a queued entry is answered in the end |
| a turn (`run_agent_turn`, `mcp_client.py`) | conversation, results, iteration | ask the model, call tools, give up after 15 s | a call answered with an error, or given up, may still take effect | conversation acceptable to the API, what succeeded took effect once and in order, changes announced |
| websocket-gateway (`main.go`, `hub.go`) | map of connections, one handler per connection, one relay goroutine | accept, greet with a list, read a frame, refresh, queue a chat; relay a reply, broadcast a list | register/fetch/snapshot races; stale lists; one slow socket blocks all; lossy Pub/Sub | every tab gets every list, its own edits and its own reply; closed connections are forgotten |
| web page (`keda/web/index.html`) | last list shown, lines of the chat log, `pendingReplyEl` | edit through api then refresh, ask, show a reply, close, reconnect | several chats in flight; the element outlives its connection | a published reply is shown once, stays, and stands in another chat's line only if that chat was asked before it on the same connection |
| api (`api/main.go`) | table `todos` | list, insert + read back, update + look again + read back, delete | statements of other calls in between; time-outs with late effects | 200 means marked, 204 is said once |
| keda mcp-server (`tools.go`) | hash `todo:priority` | the five tools: one to two statements in two stores | partial failure, orphan priorities, ids deleted meanwhile | the two stores look like one list of todos |
| klyde-agent backend (`store.go`, `handlers.go`) | buckets `sessions`, `messages` | create, append, delete, list; get in two transactions | sequence number by counting; order by strings | an append-only log per session; nothing acknowledged is lost |
| klyde-agent mcp-server (`k8s.go`) | none | `k8s_get`, `k8s_describe`: one or two reads of the cluster | the cluster changes between the reads; one filter for kinds with and without a namespace | the events shown are the object's, and none of them is missing |
| server start and stop (the five `main()`) | the client or file it opened, requests in their handlers | wait for a dependency, serve, drain on SIGTERM, close; be probed, restarted, replaced | a signal before `Notify`, `ListenAndServe` returning early, deadlines, hijacked websockets that `Shutdown` does not wait for, the lock on the bbolt file | no tracked request taken before the signal is lost, nothing is closed under its handler, the process ends, an update is carried through |
| site (`site/index.html`) | none | lists and edits through `api` | | (not modelled) |
| demos, manifests, images, workflows | none | | | (not modelled) |

## Modules

| Module | Models | Composes / implements |
|---|---|---|
| `ChatService` | what the queue promises an entry: it is answered by one turn, or lost, for good; its reply may be published again | abstract |
| `AgentQueue` | stream, group, pods, scaler, Job, gateway's XADD | implements `ChatService` (checked and proved) |
| `AgentTurn` | `run_agent_turn`, `call_tool`, `process_entry` | detail of `AgentQueue`'s steps turn, reply, notify |
| `Gateway` | `websocket-gateway`, with tabs, a worker and Pub/Sub around it | |
| `ChatTab` | the chat half of the page, over broken connections | composes pages, the relay and `ChatService` |
| `TodoBoard` | one list of todos, whose priorities are those asked for | abstract |
| `TodoTools` | `api`'s handlers and the tools of `keda/mcp-server`, over MySQL and Redis | implements `TodoBoard` (checked and proved) |
| `ChatLog` | append-only logs that open and are discarded | abstract |
| `SessionStore` | klyde-agent's bbolt store and its handlers | implements `ChatLog` (checked and proved) |
| `Encoding` | message keys and RFC 3339 stamps as byte strings | used by `SessionStore` |
| `KeyOrder` | what the store relies on of its keys | extends `SessionStore` |
| `K8sTools` | klyde-agent's `k8s_get` and `k8s_describe`, over a cluster that changes | |
| `ServerLifecycle` | start and stop of the five servers, with probes, kubelet and a rolling update | |
| `*Proofs` | theorems of the module they extend | |
| `MC*` | instances for TLC | |

### How state and actions correspond to the code

**AgentQueue.** `stream` is `agent:tasks`, which is never trimmed; `last` is the
position of the group's last-delivered id; `pending` its pending entries;
`group` says whether XGROUP CREATE has happened. What is queued is an entry, not
a chat: go-redis sends an XADD again when its connection fails after the send, so
that one chat may be two entries (`websocket-gateway/main.go:123`), which nothing
in the stream relates; `Enqueue` puts in one of them, at once or late. redis-py
sends commands again as well, whence `ReadLost`, a delivery that no pod learns
of, and `RepeatReply`, a reply published twice. `pc[p]` is where pod `p` is in
`main()`: `boot` (`ensure_group`), `mcp` (`wait_for_mcp`), `read`, `turn`, then
`reply`, `notify` and `ack`, one step for each Redis command, so that a pod may
die between any two. `Crash` is a container exit and restart in place;
`ScaleUp`, `ScaleDown` and `ScaleToZero` are KEDA's: the desired number of
replicas is the lag, at least one and at most `maxReplicaCount`, and zero once
the lag is zero. Time is abstracted, so `ScaleToZero` may come at any moment
with no lag, as it may in the code when a turn outlasts `cooldownPeriod`.
`RedisRestart` empties stream and group. A pod that finds no group (NOGROUP)
exits and is restarted.

**AgentTurn.** `messages` is the list sent to the model, `results` is
`tool_results`, `iteration` the loop's counter. The model's answers are
arbitrary: tools (one to `MaxBlocks` blocks), a final text (which may still
hold blocks that are not run), or an exception. `CallSucceeds` is a call that
came back with success and took effect. `CallUnsure` is one that came back and
may have taken effect, may yet (`late`), or never will: with `is_error`, after
mcp-server's 10 s for api or api's 5 s for MySQL, or with success after go-redis
has sent its command twice; the loop goes on. `CallFails` is one that raised in
`_call`, after the worker's own 15 s for instance; it is as unsure and ends the
turn. `unsure` and `raised` are histories of the two.

**Gateway.** `pc[s]` is where `handleWS` of connection `s` is; `rpc` where
`subscribeUpdates` is. A todo list is abstracted to its version, the number of
edits in it, which is all the properties tell apart. `Fetch` reads the version
at the moment `list_todos` answers and `WriteList` writes it later: between the
two, everything else may happen. `Snapshot` is `broadcast`'s copy of the
connections, `BroadcastTo` its writes, one by one; a write to a tab in `stalled`
does not return. `channel` is the subscription's queue; `Drop` loses what is in
it.

**ChatTab.** `log[t]` has one line for each "thinking..." line and each reply;
the user's own lines are left out. `asked` is the chat a line was put up for,
`shows` the reply in it, whose chat is `ChatOf`: the page does not know either, for
`pending[t]`, which is `pendingReplyEl`, is all it remembers. `Break` is
`onclose`, `Connect` the reconnection two seconds later with a new session id;
neither touches `pendingReplyEl`. Between `XADD` and the publication of the
reply stand the actions of `ChatService`, which `AgentQueue` implements: replies
come in any order, or never. A chat may have several: `Replies` has one for each
time its XADD, or the worker's PUBLISH, may be executed. `Relay` writes to the
connection a chat was asked on and to no other. `Stall` is a page that stops
reading its socket.

**ServerLifecycle.** One module stands for the five `main()` functions, which
differ in what they reach first: `kind` is `database` (api), `redis` (keda's
mcp-server), `sockets` (websocket-gateway: Redis too), `file` (klyde-agent's
backend) or `nothing` (klyde-agent's mcp-server). In the gateway `Hijack` is
`websocket.Accept`, which takes a connection away from the HTTP server: from then
on `Shutdown` does not count it (`Tracked`), `rdb.Close` comes under its
`handleWS`, and the end of `main` cuts it. `main[p]` is the main goroutine,
`sig[p]` the one that waits for SIGTERM and calls `Shutdown`; each deadline is an
action that may happen whenever what it bounds is still going on. `Listen` returns
when `Shutdown` begins, also if it had not been called yet. `klyde-agent`'s
mcp-server never calls `signal.Notify`, so that SIGTERM ends it at once. `Probe`,
`Restart`, `Update` and `Replace` are the kubelet and the Deployment. `lost` is
the status of a request that `main`'s return cut off with no deadline passed;
`early`, `late` and `crash` are the other ways to be cut off.

**TodoTools.** Each SQL statement and each Redis command is one action.
`call[c].at` is what the call of `c` does next: `Recheck` and `ReadBack` are
`update`'s second and third statement, `SetPriority` and `StorePriority` are
`set_priority` before and at its HSET, `ClearPriority` is `delete_todo`'s HDEL,
`MergeWithPriority` is `list_todos`'s HGETALL after the GET. A statement may
fail: its caller gets an error at once, and the statement has not happened, has
happened, or is in `late` and will (`TakeEffect`). AUTO_INCREMENT never gives an
id twice. Callers use only ids they can have been shown (`Known`), plus
`Guesses`. `TodoBoard` has the requests under way in `asked`, which is `Asked`
here: the set_priority calls before their HSET and the copies of HSETs that are
late. It changes a priority to one of them, or all priorities to 0 (`Forget`), and
in no other way, so that a late HDEL on a todo that exists is not one of its
steps.

**SessionStore.** A bbolt transaction is an action; `messages[s]` maps sequence
numbers to the values under the keys with the session's prefix. `Count` is the
cursor loop of `AppendMessage`. `GetSession` and `ListMessages` are the two
transactions of one GET. `ListSessions` sorts by `Stamp(updated)` compared as
bytes; `sort.Slice` is not stable, so any order of equals is allowed.

**K8sTools.** The server keeps no state, so one call at a time is modelled
(`at`, `request`) while the cluster (`objects`, `events`) changes around it.
`FetchOne` is the Get of either tool, `FetchList` the List, `RelatedEvents` the
second read of `k8s_describe`, which lists a namespace's events and filters them
(`Related`). Pods, services and nodes stand for the fifteen kinds: two that may
share a name, and one without a namespace. An object has a `uid`, which the code
never looks at, so that the model can tell an object from its successor of the
same name. `owed` is a history variable: the events the object had when it was
fetched, less those that have expired since.

## What the runs check

| Run | Question | Instance |
|---|---|---|
| `queue` | Has an entry one turn at most, is an acknowledged one answered, is every queued one answered unless its pod, its delivery or Redis went away, does the queue implement `ChatService`? | 3 entries, 2 pods, 1 fault (a crash, a lost delivery or a repeated reply), 1 Redis restart |
| `queue_scale_in` | Does the scaler wait until the messages are processed, as the README says? **No.** | 2 entries, 2 pods, no failures |
| `gateway_safety` | Does every broadcast reach every tab, does a tab see its own edits, does the reply come before the notice? | 2 connections, 1 edit, 1 failure, 1 lost subscription, one tab that may stall |
| `gateway_liveness` | Does every published reply arrive, unless its tab goes, the subscription is lost on the way or some tab has stopped reading; is every closed connection forgotten? | 2 connections, 1 failure, 1 lost subscription, 1 gateway restart, one tab that may stall |
| `chat_tab` | Is each published reply shown once at most, where it was asked, for good; is it in another's line only if its chat was asked before in the same session; is every one that is not lost shown in the end, while no page has stopped reading? | 2 pages, 2 chats with up to 2 replies each, 1 broken connection, 1 lost subscription |
| `session` | Numbering without gaps, survival of what was acknowledged, detail not behind its session, order of keys, refinement of `ChatLog` | 2 sessions, 1 reader, 3 instants, 2 messages each; numbers up to 80 |
| `session_order` | Is the list of sessions most recently updated first? **No.** | the same, smaller fraction |
| `tools` | Do the two stores implement one board, priorities only as asked for; is a delete acknowledged once; is a marked todo one that was there; is what is listed of living todos true? | 2 callers, 2 ids, 1 failure, 1 Redis restart |
| `lifecycle` | Is no request lost and nothing closed under a handler, save the gateway's hijacked ones; does a pod told to stop end; is an update carried through once the dependency stays up? | 5 kinds of server, 2 pods, 2 requests, 1 outage, 1 crash |
| `turn` | Is the conversation well formed, did what succeeded take effect once and in order, are changes announced, is the limit message true? | 4 iterations, 1 or 2 blocks each, 2 unsure calls that are answered |
| `k8s` | Are the events shown with an object its own, and all of them? | 2 objects, of 3 kinds, in 2 namespaces or none; 2 events; 1 failure |
| `k8s_nodes` | Is that so for any object, as for `kubectl describe`? **No**, a node described with a namespace has none. | the same |

### Bounds, and why they are enough

* *Queue*: two pods race for a third entry while a fault and a restart fall
  between any of their steps; two of the entries may be of one chat. `MaxReplicas`
  is 2 instead of 3: the pods are alike and no property relates three of them.
* *Gateway*: the races involve a tab that is written to and one that connects,
  edits or stalls meanwhile: two connections, and one edit in flight against one
  relay. Each tab asks once, so two replies and two notices may be on their way
  when the subscription is lost; every bound is a guard on an action of the
  environment (tabs, failures), never on the gateway's own steps.
* *Page*: two chats, on one page or on two, in one session or before and after a
  break, with two replies each: a second reply may meet the line of the next
  chat, and a late one of the first session must not cross into the second.
* *Lifecycle*: an update has two pods. Two requests let one be answered while
  another holds up the shutdown; the one outage may come during a boot, while
  serving or during the update, and so may the crash.
* *Session store*: two sessions tell prefixes apart and two messages show an
  overwrite; the keys, whose interesting cases need many digits, are
  checked over all numbers up to 80 in base 3, which crosses three changes of
  the number of digits.
* *Todo tools*: two ids, so that a todo can follow a deleted one; two callers,
  because each hazard is one call coming between two statements of another; one
  failure, which may leave one statement to take effect at any later time; one
  Redis restart. Priorities are 0, 1 and the rejected 2.
* *Turn*: a limit of 4 rounds instead of 8, with which the loop only compares its
  counter, so that two unsure calls fit between calls that succeed and may be
  overtaken by several of them; the theorems hold for any limit. Two blocks in a
  response are enough for a failure before, between and after them.
* *Kubernetes tools*: two objects, so that one may replace the other under its
  name or share it across kinds or namespaces; two events, so that one passes the
  filter and one does not, or both do in either order of their stamps.

`CHECK_DEADLOCK FALSE` is set where the system does stop: a gateway whose
connections are used up, pages with nothing left to ask or that have stopped
reading, a turn that is over, and servers once the update is done. Symmetry is
used for runs without liveness properties (tools: callers; session: ids).

### Fairness

* *Queue*: a pod that runs makes progress, for its loop over the model is
  bounded and each call has a time-out; KEDA polls for ever; the Job is retried
  (`backoffLimit`). Nothing obliges browsers to ask, operators to re-apply or
  pods to crash, and nothing obliges the scaler to scale in.
* *Gateway*: each goroutine that can step does. A write to a stalled tab cannot
  (it is disabled), which is why `ReplyArrives` excepts stalled tabs. That a fetch
  ends is an assumption: `http.DefaultClient` has no time-out, but
  `mcp-server`'s own calls to `api` have one of 10 s.
* *Page*: the browser delivers what it receives, and the relay goes on while no
  page is stalled: its goroutine writes to one connection after the other. No
  fairness says that a chat is asked, queued or answered, for `AgentQueue` has
  cases in which it never is (`Gone`, `Wedged`); `AnsweredIsShown` starts from the
  publication of the reply. No connection has to come back.
* *Lifecycle*: goroutines that can step do, timers fire, the kubelet restarts
  what has died and the Deployment goes on with its update. Handlers need not
  end, and a dependency that went away need not come back; `UpdateFinishes` is
  about behaviours in which it stays up from some time on.

The other models (turn, todo tools, session store, Kubernetes tools) check safety
only and assume no fairness.

## Findings

1. `queue_scale_in`: KEDA's trigger is lag, which does not count the entry a pod
   is working on. A turn longer than the cool-down is cut off, and since only
   new entries are read, that chat is never answered
   (`scaledobject-agent-worker.yaml:24`; `keda/README.md:128-129`).
2. `session_order`: sessions are sorted by RFC 3339 strings whose trailing zeros
   are dropped, so the order is wrong when one fraction is a prefix of another
   (`agent/backend/store.go:174`, against the comment at line 156).
3. `k8s_nodes`: `k8s_describe` looks for events in the namespace it was passed
   and requires them to be about an object in it. Events about nodes and
   namespaces are about objects without one, so with a namespace, which the
   tool's schema requires (`server.go:103`), it shows none
   (`agent/mcp-server/k8s.go:267`; `agent/PLAN.md:9`).

What else came up while modelling has no run of its own:

* A list fetched before an edit may be written after the list that has it, and
  the tab goes on showing the older one (`websocket-gateway/main.go:156`;
  `keda/README.md:72-75` says a tab stays in sync). `ReadYourEdits` and
  `BroadcastReachesAll` are what holds.
* One goroutine writes to all tabs without a deadline: a tab that stops reading
  keeps everybody's replies back (`hub.go:55`; the comment at
  `websocket-gateway/main.go:142` speaks of each message alone). `ReplyArrives`
  excepts it.
* A chat whose XADD go-redis sends again is two entries: two pods may carry it out
  at the same time, and the page gets two replies, of which the second may land
  in the line of the next chat (`websocket-gateway/main.go:123`). No document
  promises a chat a single answer.
* A tool call answered with `is_error` may take effect after calls made later, and
  after `todos:changed` (`agent-worker/main.py:91`; `keda/mcp-server/main.go:34`,
  `api/store.go:32-34`): `EffectsInOrder` and `AnnouncedUnlessLate` except it.
* `websocket-gateway`'s `Shutdown` does not wait for `handleWS`: `rdb.Close` and the
  end of the process come under it (`websocket-gateway/main.go:40, 93`).
  `NoneLost` and `OpenWhileBusy` name it.
* A late copy of an HSET may undo a newer priority (`keda/mcp-server/tools.go:149`);
  `TodoBoard` admits it, since the request is one that was made.
* With two chats in flight on one page, the first reply goes into the second's
  line and the second is appended below, while the first line thinks for ever
  (`keda/web/index.html:147`). `MisplacedOnlyIfOverlapping` says it takes two chats
  asked in one session.
* `agent/manifests/backend-deployment.yaml` names no update strategy, so the new
  pod of klyde-agent's backend is started while the old one holds the lock on
  the bbolt file; it exits after five seconds, again and again, and the old one
  is kept until the new one is ready (`agent/backend/store.go:73`).
  `UpdateFinishes` excepts it.
* `api`'s health handler, which is its liveness probe as well, asks the database:
  an outage restarts a healthy server and cuts short the three minutes
  `waitReady` would wait (`api/main.go:93`). The update is carried through all
  the same.
* `list_todos` reads todos and priorities one after the other and may show a
  todo, deleted in between, with priority 0 (`keda/mcp-server/tools.go:88`):
  `ListedStillTrue` is what does hold.
* `MAX_TOOL_ITERATIONS` bounds rounds, not tool calls (`agent-worker/main.py:88`),
  of which `keda/README.md:135` speaks; in `AgentTurn` a turn makes up to
  `MaxBlocks` calls in each round.
* `k8s_describe` matches events by name and not by UID, so it shows those of a
  predecessor of the same name too.

## What is proved

Every theorem holds for all values of the constants that satisfy the named
assumptions of the modules: any number of entries, pods, tabs, sessions, ids,
callers, and any bound on failures.

Every invariant, action property and refinement that the passing runs check is
proved; of what they check only the six liveness properties are not. A theorem
marked with a star is about a formula that no run checks, defined beside it in
the module of its proof: most say, of every step, what those liveness properties
say of the end, or what does hold where a property has to make an exception.

**AgentQueueProofs** (`TypeCorrect`, `OneTurnEach`, `AckedOnlyAnswered`,
`QueueIsChatService`; `FateFinal`\*, `LostOnlyWithHolder`\*,
`AbandonedForGood`\*, `WedgeHolds`\*).
The invariant is `IInv = TInv /\ QInv`. `OneTurnPerEntry` is not inductive: that an
entry is handed out once rests on the stream holding it once (`StreamInv`) and on
everything beyond the group's position never having been delivered
(`CursorInv`), while pods hold only delivered entries, each its own (`PodInv`).
That none in its turn has been answered rests on the pod's place telling what was
published for its entry (`ReplyInv`). From the same invariant `QueueIsChatService`
maps every step of the queue to one of `ChatService`: a step that answers nothing,
repeats nothing and opens no entry loses a set of them, possibly empty; only
XADD, the PUBLISH of a reply and its repetition do anything else. `FateFinal`
takes from the same steps that neither an answer nor a loss is taken back, and
that no pod replies to an entry again: what is published again is a PUBLISH that
was sent again. `LostOnlyWithHolder` says how an entry is lost at all: with the
container that holds it, on its way to one, or with Redis. An entry left pending
by such a container stays pending and nobody's (`AbandonedForGood`, with
`PendingDelivered`: what is pending was delivered, so that no pod reads it again),
and after Redis was wiped without a pod or a Job nothing is delivered, and no
entry gets its first reply, until the Job is applied again (`WedgeHolds`). These
are what `QueuedIsAnswered` excepts, step by step.

**GatewayProofs** (`EveryTabReached`, `GatewayTypeCorrect`, `OwnEditsSeen`,
`ReplyComesFirst`; `HubHoldsHandlers`\*, `OneReplyEach`\*, `RepliesStay`\*,
`RepliesSomewhere`\*). `GInv = NumInv /\ HubInv /\ RelayInv`. An
open socket is in the hub from before its first list is fetched (`HubInv`). A tab
counts as reached by a list if it was sent one as new, or its handler holds one
as new, or its handler has yet to fetch its first; every open tab is reached by
the last list relayed, and every one that a broadcast has passed, or does not
have in its copy of the hub, by the list being relayed (`RelayInv`). The case that
needs it is a tab that connects in the middle of a broadcast. A tab that has not
been sent its last edit has a refresh in its frames, or its handler is fetching,
or has fetched and will write a list with it (`OwnInv`). A session's reply and its
notice pass through the channel and the relay's hand in the order of
publication (`OrderInv`), and there is one of each, since a tab has one chat at
most on its way to a handler (`ChatInv`). The hub holds exactly the connections
whose handler runs (`HubHoldsHandlers`), so what `ClosedIsForgotten` adds is only
that the handler of a closed connection ends. A reply is once at most in channel
or hand, and nowhere once written (`OneReplyEach`); it leaves them by being
written, with its tab, or with the subscription (`RepliesStay`,
`RepliesSomewhere`), so what `ReplyArrives` adds is only that the relay goes on.

**AgentTurnProofs** (`TurnTypeCorrect`, `ConversationWellFormed`, `ToolsInOrder`,
`ChangesAnnounced`, `LimitMessageTrue`; `ReplyMeansCarriedOut`\*). While the loop
runs, each of the calls answered so far took effect or is unsure, and nothing
else took effect or is late (`RunInv`); iteration, blocks asked, results
and length of the conversation are tied together by where the loop is
(`ModelInv`, `ToolInv`); what is late is of an unsure call, and of none after one
that raised, for that one ends the loop (`LateInv`). `ReplyMeansCarriedOut`
gathers what a reply other than an error tells: no call raised, and all blocks
but those of the last response took effect or came back as possibly failed.

**ChatTabProofs** (`ChatTabTypeCorrect`, `ReplyShownOnce`, `MisplacedOverlap`,
`ShownRepliesKept`; `RepliesAccounted`\*, `MissedOnlyAfterBreak`\*). `CInv` says
that a reply, one of perhaps several to its chat, is in one place at most: the
channel, an inbox, a line, or missed; and that `pendingReplyEl` is the latest
chat's line, and one of this connection as soon as anything was asked on it. A
reply that fills another chat's line is therefore to one asked earlier and on the
same connection. `SocketInv` bounds the session numbers by the breaks.
`RepliesAccounted` is the converse of "one place at most": a published reply is
in one of those places, and `MissedOnlyAfterBreak` says that "missed" takes a
broken connection or a lost subscription; what `AnsweredIsShown` adds is that the
other places are left in the end.

**ServerLifecycleProofs** (`LifecycleTypeCorrect`, `NothingLost`,
`NeverClosedUnderHandler`; `TermAlwaysHandled`\*, `ExitedForGood`\*,
`FileNeverHandedOver`\*, `CutShortOnlyExcused`\*). `LInv` ties the two goroutines
of a process: main closes only when the signal goroutine is done (`SigInv`), which
is done with tracked requests left only after its deadline (`DrainInv`); only the
gateway's handlers are ever untracked (`HijackInv`); handlers run only in a
process that listens or has listened (`BusyInv`), and such a process has its
client (`ConnInv`). From it: a pod told to stop has exited or is on its way out
(`TermAlwaysHandled`), and does not come back (`ExitedForGood`). With the bbolt
file the new pod does not get past its boot while the old process holds it, and
the old pod is told to stop only when its process has died
(`FileNeverHandedOver`): the update that `UpdateFinishes` excepts is stuck in
every behaviour, fair or not, unless the old process dies by itself. `NoneLost`
says which request may be cut short, and `CutShortOnlyExcused` by what, hijacked
ones included: a kill, a stop, or api's own probe once the database has gone.

**SessionStoreProofs** (`StoreTypeCorrect`, `LogAlwaysWellFormed`,
`AckedNeverLost`, `StoreImplementsLog`, `DetailNeverBehind`, `KeysAlwaysInOrder`;
`MessagesStay`\*, `DetailAlwaysPrefix`\*, `KeysSortAsNumbers`\*,
`FirstLongKeyStrays`\*, `ListedBySecond`\*). `SInv` says that the numbers in use
are `0..Count-1`, that the last message sets `updated`, that an ended session
has neither row nor messages, and that what was acknowledged is there. From
`Cardinality(0..n-1) = n` the number that `Count` returns is free, hence no
append overwrites. The refinement maps each step to a step of `ChatLog` or a
stutter under `Logs`. `DInv` says of a GET between its two transactions that the
message that set the `updated` it has read is there, unless its session was
deleted, and then the session does not come back. Both rest on `GrowsNext`: no
step changes or drops a message of a session that stays (`MessagesStay`), so
what a GET shows is a prefix of the log (`DetailAlwaysPrefix`).

The keys are strings of digits. `KeysSortAsNumbers` proves, for every base and
every width, that below `Base^KeyWidth` they sort as the numbers they stand for:
of two different numbers, the first digits that differ are those of the least
quotient by a power of `Base` that differs, and they differ the right way.
`FirstLongKeyStrays` shows that the bound is exact. The powers are a recursive
function (`Power`), and the induction over them is not the library's, whose
theorem takes an operator, but `NaturalInduction`: a set of naturals with 0 and
with each number's successor is all of `Nat`, for otherwise adding 1 would map a
finite set one to one into a proper part of itself. `ListedBySecond` says
how far the order of sessions can be wrong (run `session_order`): within one
second.

**TodoToolsProofs** (`ToolsTypeCorrect`, `TodoDeletedOnce`, `ListedIsTrue`,
`MarkedOnlyIfThere`, `TwoStoresOneBoard`; `GoneForGood`\*, `PriorityOnlySet`\*).
`TInv` adds to the types that an HDEL to come, of a call or of a late statement,
is for a todo that was issued and is gone (`InFlight`), that a todo deleted with a
204 is gone for good (`GoneOnce`), and that the priority of each todo is one it
has had (`Shown`). It gives the steps, too: what is gone stays gone, whatever
takes effect late (`GoneForGood`), and the priority of a todo that stays changes
only to one that a set_priority under way, or a late copy of its HSET, asks for,
or to 0 with the loss of Redis (`PriorityOnlySet`). `MarkedOnlyIfThere` and
`TwoStoresOneBoard` assume `Guesses = {}`: no caller passes an id it cannot have
seen. `KInv` then says that no priority is stored, or on its way, for an id not
yet issued (`HashInv`, `SentInv`), so a new todo starts at 0 and what deleted
todos leave behind is never seen again; and that a todo an `UPDATE` did not find
was issued and is gone, so that no later read finds it (`FoundInv`).
`TwoStoresOneBoard` shows that each statement is one step of `TodoBoard` or
changes nothing that can be seen of the two stores: an HSET carries out a request
in `Asked`, and an HDEL, which comes for a todo that is gone, is no step at all.

**K8sToolsProofs** (`K8sTypeCorrect`, `DescribedAreTheirs`, `DescribedComplete`;
`AnswersAsAsked`\*).
`KInv` adds to the two properties what Get says of the object found (`FoundFor`):
its name and kind are those asked for, and its namespace too if it has one. That
stays true while the events are read, whatever becomes of the object. The filter
then passes only its events (`RelatedAreTheirs`), and all of them unless a
namespace was passed for an object that has none (`TheirsAreRelated`), which is
exactly where `SameAsKubectl` fails. `SequenceOfSet` says that a sequence of
distinct elements as long as a finite set holds all of it. `AnswersAsAsked` says of
all the answers what `FoundFor` says of a description, and of a list how much of
it is shown.

**Only model-checked.** Liveness, which the prover does not reach: that a queued
entry is answered (`QueuedIsAnswered`), that a reply arrives (`ReplyArrives`),
that a closed connection is forgotten (`ClosedIsForgotten`), that a published
reply is shown (`AnsweredIsShown`), that a stopped pod ends (`TermEnds`) and that
an update is carried through (`UpdateFinishes`). What each needs besides fairness
is proved, as said above: that nothing gets lost on the way except by what the
property excepts.

## What is not modelled

* What the Kubernetes tools show of an object besides its identity.
* The cancel of the gateway's relay before `Shutdown`; to a tab it is part of
  `Gateway`'s `Restart`.
* In `Gateway`, a second reply to a chat whose XADD or PUBLISH was sent again:
  `ReplyBeforeNotice` is about the one reply of a turn. `ChatTab` has several.
* Which entries of the stream are of the same chat: the queue cannot tell, and
  `ChatTab` has what becomes of their replies.
* The page's layout, its list of todos beyond the version it shows, and `src/site`.
* The JSON-RPC envelope, argument checks, texts and titles, HTTP statuses other
  than those a property tells apart.
* The language model: its answers are arbitrary.
* Rollouts, Kyverno and Tekton demos, images and workflows: configuration of
  other programs.

## Plan

Written in this order, because the chat queue is where a user's message can be
lost: the queue, the gateway, the session store, the todo tools, the turn, the
Kubernetes tools, the page, the life of the servers; then the proofs of each.
Then, beyond the properties of the runs, what each step does to what the six
liveness properties are about. What is left:

1. *Composition.* `ChatTab` stands on `ChatService` and on a relay of its own;
   with `Gateway` in place of that relay, one module would cover a chat from the
   page to the stream and back.
2. *Conversions.* The summaries of `k8s.go` and the argument checks of the tool
   servers, should a property ever be about them.
