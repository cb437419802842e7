--------------------------- MODULE ServerLifecycle ---------------------------
(***************************************************************************)
(* Start and stop of the servers: api, keda's mcp-server and               *)
(* websocket-gateway, klyde-agent's backend and mcp-server, whose main()   *)
(* functions have one shape: reach what the server depends on or die,      *)
(* serve, and on SIGTERM drain for at most ten seconds.  The Deployment    *)
(* around them replaces pod Old by pod New, starting New first.            *)
(*                                                                         *)
(* websocket-gateway ("sockets") differs in one thing: its handler takes   *)
(* the connection over from the HTTP server, which then neither waits for  *)
(* it nor closes it, so main returns while handleWS is running.            *)
(*                                                                         *)
(* Time is abstracted: a deadline may pass whenever what it bounds is      *)
(* still going on.                                                         *)
(***************************************************************************)
EXTENDS Naturals, FiniteSets

CONSTANTS Old, New,     \* the pod before the update and the one after it
          Requests,     \* requests that may be sent
          Kinds,        \* servers: what each of them has to reach first
          MaxOutages,   \* bound: times the database or Redis goes away
          MaxCrashes    \* bound: processes killed without a signal

ASSUME LifecycleAssumption ==
    /\ Old # New
    /\ Kinds \subseteq {"database", "redis", "sockets", "file", "nothing"}
    /\ MaxOutages \in Nat /\ MaxCrashes \in Nat

Pods == {Old, New}

VARIABLES kind,     \* what this server depends on; never changes
          up,       \* whether the database or Redis answers
          main,     \* main[p]: where the main goroutine of p is
          sig,      \* sig[p]: where its signal goroutine is
          tried,    \* pods whose process has waited for its dependency
          conn,     \* pods with an open client or file
          late,     \* pods whose Shutdown ran into its deadline
          status,   \* status[r]: what has become of request r
          by,       \* by[r]: the pod that took it
          hijacked, \* requests whose handler has taken over the connection
          deleted,  \* pods the Deployment has told to stop
          outages, crashes

process == <<main, sig, tried, conn, late>>
requests == <<status, by, hijacked>>
vars == <<kind, up, process, requests, deleted, outages, crashes>>

Networked == kind \in {"database", "redis", "sockets"}

TypeOK ==
    /\ kind \in Kinds /\ up \in BOOLEAN
    /\ main \in [Pods -> {"absent", "open", "schema", "start", "serve", "drain",
                          "close", "crashed", "exited"}]
    /\ sig \in [Pods -> {"none", "armed", "shutting", "drained"}]
    /\ tried \in SUBSET Pods /\ conn \in SUBSET Pods
    /\ late \in SUBSET Pods /\ deleted \in SUBSET Pods
    /\ status \in [Requests -> {"new", "active", "answered", "early", "late",
                                "crash", "lost"}]
    /\ by \in [Requests -> Pods] /\ hijacked \in SUBSET Requests
    /\ outages \in 0..MaxOutages /\ crashes \in 0..MaxCrashes

Init ==
    /\ kind \in Kinds
    /\ up \in BOOLEAN
    /\ main = [p \in Pods |-> IF p = Old THEN "open" ELSE "absent"]
    /\ sig = [p \in Pods |-> "none"]
    /\ tried = {} /\ conn = {} /\ late = {} /\ deleted = {}
    /\ status = [r \in Requests |-> "new"]
    /\ by = [r \in Requests |-> Old] /\ hijacked = {}
    /\ outages = 0 /\ crashes = 0

MainAt(p, from, to) == main[p] = from /\ main' = [main EXCEPT ![p] = to]

-----------------------------------------------------------------------------
(* Boot *)

bootFrame == <<kind, up, sig, late, requests, deleted, outages, crashes>>

(* waitReady pings until it gets an answer ... *)
Ping(p) ==
    /\ Networked /\ main[p] = "open"
    /\ IF up THEN /\ main' = [main EXCEPT ![p] = IF kind = "database" THEN "schema"
                                                                      ELSE "start"]
                  /\ conn' = conn \cup {p}
                  /\ UNCHANGED tried
             ELSE /\ p \notin tried
                  /\ tried' = tried \cup {p}
                  /\ UNCHANGED <<main, conn>>
    /\ UNCHANGED bootFrame

(* ... or its deadline ends a wait between two pings. *)
BootDeadline(p) ==
    /\ Networked /\ p \in tried
    /\ MainAt(p, "open", "crashed")
    /\ UNCHANGED <<tried, conn, bootFrame>>

ApplySchema(p) ==
    /\ up
    /\ MainAt(p, "schema", "start")
    /\ UNCHANGED <<tried, conn, bootFrame>>

(* Mutant: the error is logged, and the server starts anyway. *)
SchemaFailsLogged(p) ==
    /\ ~up \/ p \in tried
    /\ MainAt(p, "schema", "unprepared")
    /\ UNCHANGED <<tried, conn, bootFrame>>

(* The database has gone again, or the deadline of the boot has passed. *)
SchemaFails(p) ==
    /\ ~up \/ p \in tried
    /\ MainAt(p, "schema", "crashed")
    /\ conn' = conn \ {p}
    /\ UNCHANGED <<tried, bootFrame>>

(* bolt.Open waits up to five seconds for the lock on the file. *)
OpenFile(p) ==
    /\ kind = "file" /\ conn = {}
    /\ MainAt(p, "open", "start")
    /\ conn' = {p}
    /\ UNCHANGED <<tried, bootFrame>>

OpenTimesOut(p) ==
    /\ kind = "file" /\ conn # {}
    /\ MainAt(p, "open", "crashed")
    /\ UNCHANGED <<tried, conn, bootFrame>>

OpenNothing(p) ==
    /\ kind = "nothing"
    /\ MainAt(p, "open", "start")
    /\ conn' = conn \cup {p}
    /\ UNCHANGED <<tried, bootFrame>>

(* The signal goroutine gets as far as signal.Notify. *)
Arm(p) ==
    /\ kind # "nothing"
    /\ main[p] \in {"start", "serve"} /\ sig[p] = "none"
    /\ sig' = [sig EXCEPT ![p] = "armed"]
    /\ UNCHANGED <<kind, up, main, tried, conn, late, requests, deleted, outages, crashes>>

ShuttingDown(p) == sig[p] \in {"shutting", "drained"}

(* Mutant: the wait for drained comes before ListenAndServe. *)
ListenLast(p) ==
    /\ \/ /\ main[p] = "start" /\ sig[p] = "drained"
          /\ main' = [main EXCEPT ![p] = "serve"]
       \/ ShuttingDown(p) /\ MainAt(p, "serve", "drain")
    /\ UNCHANGED <<tried, conn, bootFrame>>

(* ListenAndServe; it returns ErrServerClosed once Shutdown has begun, also *)
(* if that was before it was called.                                        *)
Listen(p) ==
    /\ \/ ~ShuttingDown(p) /\ MainAt(p, "start", "serve")
       \/ ShuttingDown(p) /\ (MainAt(p, "start", "drain") \/ MainAt(p, "serve", "drain"))
    /\ UNCHANGED <<tried, conn, bootFrame>>

Boot(p) ==
    \/ Ping(p) \/ BootDeadline(p) \/ ApplySchema(p) \/ SchemaFails(p)
    \/ OpenFile(p) \/ OpenTimesOut(p) \/ OpenNothing(p)
    \/ Arm(p) \/ Listen(p)

-----------------------------------------------------------------------------
(* Requests *)

Serving(p) == main[p] = "serve" /\ ~ShuttingDown(p)
Busy(p) == {r \in Requests : status[r] = "active" /\ by[r] = p}

(* Those of them the HTTP server knows of. *)
Tracked(p) == Busy(p) \ hijacked

Accept(p, r) ==
    /\ Serving(p) /\ status[r] = "new"
    /\ status' = [status EXCEPT ![r] = "active"]
    /\ by' = [by EXCEPT ![r] = p]
    /\ UNCHANGED <<kind, up, process, hijacked, deleted, outages, crashes>>

(* websocket.Accept takes the connection over; handleWS then reads, queues *)
(* and fetches on it until the browser leaves or the process ends.         *)
Hijack(p, r) ==
    /\ kind = "sockets" /\ r \in Tracked(p)
    /\ hijacked' = hijacked \cup {r}
    /\ UNCHANGED <<kind, up, process, status, by, deleted, outages, crashes>>

(* A handler ends, with an error if its dependency is away. *)
Answer(p, r) ==
    /\ r \in Busy(p)
    /\ status' = [status EXCEPT ![r] = "answered"]
    /\ UNCHANGED <<kind, up, process, by, hijacked, deleted, outages, crashes>>

-----------------------------------------------------------------------------
(* Stop *)

(* The process of p is gone, and with it what it was working on. *)
Ends(p, why) ==
    /\ main' = [main EXCEPT ![p] = IF p \in deleted' THEN "exited" ELSE "crashed"]
    /\ sig' = [sig EXCEPT ![p] = "none"]
    /\ conn' = conn \ {p}
    /\ status' = [r \in Requests |-> IF r \in Busy(p) THEN why ELSE status[r]]
    /\ UNCHANGED <<kind, up, tried, late, by, hijacked, outages>>

(* Mutant: the deferred Close is called by the signal goroutine. *)
SigtermCloses(p) ==
    IF sig[p] = "none" THEN Ends(p, "early")
    ELSE /\ sig' = [sig EXCEPT ![p] = IF @ = "armed" THEN "shutting" ELSE @]
         /\ conn' = conn \ {p}
         /\ UNCHANGED <<kind, up, main, tried, late, requests, outages>>

(* SIGTERM: Go's own handling ends the process until Notify is called;     *)
(* then Shutdown closes the listener.  A second signal is not read.        *)
Sigterm(p) ==
    IF sig[p] = "none" THEN Ends(p, "early")
    ELSE /\ sig' = [sig EXCEPT ![p] = IF @ = "armed" THEN "shutting" ELSE @]
         /\ UNCHANGED <<kind, up, main, tried, conn, late, requests, outages>>

stopFrame == <<kind, up, tried, requests, deleted, outages, crashes>>

(* Shutdown returns when no request it knows of is left ... *)
Drained(p) ==
    /\ sig[p] = "shutting" /\ Tracked(p) = {}
    /\ sig' = [sig EXCEPT ![p] = "drained"]
    /\ UNCHANGED <<main, conn, late, stopFrame>>

(* Mutant: Shutdown is given a context without a deadline. *)
ShutdownWaits(p) == Drained(p)

(* ... or after ten seconds. *)
ShutdownDeadline(p) ==
    /\ sig[p] = "shutting" /\ Tracked(p) # {}
    /\ sig' = [sig EXCEPT ![p] = "drained"]
    /\ late' = late \cup {p}
    /\ UNCHANGED <<main, conn, stopFrame>>

(* Mutant: main returns when ListenAndServe does. *)
CloseAtOnce(p) ==
    /\ MainAt(p, "drain", "close")
    /\ conn' = conn \ {p}
    /\ UNCHANGED <<sig, late, stopFrame>>

(* main has waited for drained: its deferred Close ... *)
Close(p) ==
    /\ sig[p] = "drained"
    /\ MainAt(p, "drain", "close")
    /\ conn' = conn \ {p}
    /\ UNCHANGED <<sig, late, stopFrame>>

(* ... and the end of the process. *)
Return(p) ==
    /\ main[p] = "close"
    /\ UNCHANGED <<deleted, crashes>>
    /\ Ends(p, IF p \in late THEN "late" ELSE "lost")

Stop(p) == Drained(p) \/ ShutdownDeadline(p) \/ Close(p) \/ Return(p)

-----------------------------------------------------------------------------
(* The cluster around the server *)

Running(p) == main[p] \notin {"absent", "crashed", "exited"}

Crash(p) ==
    /\ crashes < MaxCrashes /\ Running(p)
    /\ crashes' = crashes + 1
    /\ UNCHANGED deleted
    /\ Ends(p, "crash")

Restart(p) ==
    /\ p \notin deleted
    /\ MainAt(p, "crashed", "open")
    /\ tried' = tried \ {p} /\ late' = late \ {p}
    /\ UNCHANGED <<kind, up, sig, conn, requests, deleted, outages, crashes>>

(* The liveness probe: nobody listens yet, or, for api alone, its handler  *)
(* finds the database away.                                                *)
LivenessFails(p) ==
    \/ main[p] \in {"open", "schema"} /\ p \in tried
    \/ kind = "database" /\ ~up /\ main[p] = "serve"

Probe(p) ==
    /\ LivenessFails(p) /\ ~ShuttingDown(p)
    /\ UNCHANGED <<deleted, crashes>>
    /\ Sigterm(p)

(* The readiness probe of every server asks its dependency. *)
Ready(p) == Serving(p) /\ (Networked => up)

Update ==
    /\ MainAt(New, "absent", "open")
    /\ UNCHANGED <<kind, up, sig, tried, conn, late, requests, deleted, outages, crashes>>

(* A rolling update of one replica: Old goes once New is ready. *)
Replace ==
    /\ Ready(New) /\ Old \notin deleted
    /\ deleted' = deleted \cup {Old}
    /\ Sigterm(Old)
    /\ UNCHANGED crashes

Outage ==
    /\ up /\ outages < MaxOutages
    /\ up' = FALSE /\ outages' = outages + 1
    /\ UNCHANGED <<kind, process, requests, deleted, crashes>>

Recover ==
    /\ ~up
    /\ up' = TRUE
    /\ UNCHANGED <<kind, process, requests, deleted, outages, crashes>>

Next ==
    \/ \E p \in Pods :
          \/ Boot(p) \/ Stop(p) \/ Crash(p) \/ Restart(p) \/ Probe(p)
          \/ \E r \in Requests : Accept(p, r) \/ Hijack(p, r) \/ Answer(p, r)
    \/ Update \/ Replace
    \/ Outage \/ Recover

Spec == Init /\ [][Next]_vars

(* Goroutines that can step do, timers fire, the kubelet restarts what has *)
(* died and the Deployment goes on with its update.  A handler need not    *)
(* end, and the database and Redis need not come back.                     *)
FairSpec ==
    /\ Spec
    /\ \A p \in Pods : WF_vars(Boot(p)) /\ WF_vars(Stop(p)) /\ WF_vars(Restart(p))
    /\ WF_vars(Replace)

-----------------------------------------------------------------------------
(* Properties *)

(* A request taken before SIGTERM is answered before the process ends:     *)
(* ListenAndServe returns at once when Shutdown begins, so main must wait  *)
(* for the signal goroutine.  What is lost otherwise is named: a signal    *)
(* before Notify, a handler longer than the ten seconds, a kill, and in    *)
(* websocket-gateway every handleWS, wherever it is: Shutdown does not     *)
(* wait for hijacked connections, and the end of main cuts them.           *)
NoneLost ==
    \A r \in Requests : status[r] = "lost" => kind = "sockets" /\ r \in hijacked

(* No handler finds its client or its bbolt file closed under it, unless   *)
(* it has outlasted the shutdown: the deferred Close comes after drained.  *)
(* Hijacked handlers do, in websocket-gateway: rdb.Close is called while   *)
(* they may be in their XADD.                                              *)
OpenWhileBusy ==
    \A p \in Pods : Tracked(p) # {} => p \in conn \/ p \in late

(* A pod told to stop does, whatever its handlers wait for. *)
TermEnds == \A p \in Pods : p \in deleted ~> main[p] = "exited"

(* An update is carried through once the dependency stays up, whatever     *)
(* deadlines, probes and crashes do on the way.  Not so for a server that  *)
(* opens a file: New waits for the lock of Old, and Old for New's probe.   *)
UpdateFinishes ==
    <>[]up => (main[New] # "absent" ~> \/ main[Old] = "exited"
                                       \/ kind = "file" /\ Old \in conn)
=============================================================================
