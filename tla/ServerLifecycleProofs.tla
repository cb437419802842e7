------------------------ MODULE ServerLifecycleProofs ------------------------
(***************************************************************************)
(* Proofs about ServerLifecycle, for any number of requests, outages and   *)
(* crashes: that a server stops without losing a request it knows of or    *)
(* closing a client under one, that only websocket-gateway loses others,   *)
(* why a handler may be cut short all the same, and what the end of a pod  *)
(* and the hand-over of the file mean step by step.                        *)
(*                                                                         *)
(* NoneLost speaks of processes that have ended. The invariant ties the    *)
(* two goroutines of one that has not: main closes only after the signal   *)
(* goroutine is done, which is done with requests left only if late or     *)
(* hijacked.                                                               *)
(***************************************************************************)
EXTENDS ServerLifecycle, TLAPS

(* A handler runs only in a process that listens or has listened. *)
BusyInv == \A p \in Pods : Busy(p) # {} => main[p] \in {"serve", "drain", "close"}

(* The signal goroutine belongs to a process past its boot. *)
SigInv ==
    \A p \in Pods :
        /\ sig[p] # "none" => main[p] \in {"start", "serve", "drain", "close"}
        /\ main[p] = "close" => sig[p] = "drained"

(* Once it is done, no tracked request is left unless the deadline passed. *)
DrainInv == \A p \in Pods : sig[p] = "drained" /\ p \notin late => Tracked(p) = {}

(* Only websocket-gateway takes connections over. *)
HijackInv == hijacked # {} => kind = "sockets"

(* A client is open from when the dependency was reached to the end. *)
ConnInv ==
    \A p \in Pods : main[p] \in {"schema", "start", "serve", "drain"} => p \in conn

LInv ==
    TypeOK /\ NoneLost /\ BusyInv /\ SigInv /\ DrainInv /\ ConnInv /\ HijackInv

USE LifecycleAssumption

-----------------------------------------------------------------------------
LEMMA LInit == Init => LInv
BY DEF Init, LInv, TypeOK, NoneLost, BusyInv, SigInv, DrainInv, HijackInv, ConnInv, Busy, Tracked, Pods

(* A step of the boot: p is not serving yet, and touches its own client. *)
LEMMA MoveKeeps ==
    ASSUME LInv, NEW p \in Pods, bootFrame' = bootFrame,
           NEW to \in {"open", "schema", "start", "crashed"},
           main[p] \in {"open", "schema"}, main' = [main EXCEPT ![p] = to],
           tried' \in SUBSET Pods, conn' \in SUBSET Pods,
           conn \ {p} \subseteq conn', to \in {"schema", "start"} => p \in conn'
    PROVE  LInv'
BY DEF LInv, TypeOK, NoneLost, BusyInv, SigInv, DrainInv, HijackInv, ConnInv, Busy, Tracked, bootFrame,
       requests

LEMMA ArmKeeps ==
    ASSUME LInv, NEW p \in Pods, Arm(p) PROVE LInv'
BY DEF Arm, LInv, TypeOK, NoneLost, BusyInv, SigInv, DrainInv, HijackInv, ConnInv, Busy, Tracked, requests

LEMMA ListenKeeps ==
    ASSUME LInv, NEW p \in Pods, Listen(p) PROVE LInv'
<1>1. PICK to \in {"serve", "drain"} :
          /\ main[p] \in {"start", "serve"} /\ main' = [main EXCEPT ![p] = to]
          /\ UNCHANGED <<tried, conn, bootFrame>>
    BY DEF Listen, MainAt
<1> QED BY <1>1 DEF LInv, TypeOK, NoneLost, BusyInv, SigInv, DrainInv, HijackInv, ConnInv, Busy, Tracked,
            bootFrame, requests

LEMMA BootKeeps ==
    ASSUME LInv, NEW p \in Pods, Boot(p)
    PROVE  LInv'
<1>1. ASSUME bootFrame' = bootFrame,
             \E to \in {"open", "schema", "start", "crashed"} :
                 /\ main[p] \in {"open", "schema"} /\ main' = [main EXCEPT ![p] = to]
                 /\ tried' \in SUBSET Pods /\ conn' \in SUBSET Pods
                 /\ conn \ {p} \subseteq conn' /\ (to \in {"schema", "start"} => p \in conn')
      PROVE  LInv'
    BY <1>1, MoveKeeps
<1>0. main \in [Pods -> {"absent", "open", "schema", "start", "serve", "drain",
                         "close", "crashed", "exited"}]
      /\ tried \in SUBSET Pods /\ conn \in SUBSET Pods
      /\ (main[p] \in {"open", "schema"} => main = [main EXCEPT ![p] = main[p]])
    BY DEF LInv, TypeOK
<1>2. CASE Ping(p)         BY <1>1, <1>2, <1>0 DEF Ping
<1>3. CASE BootDeadline(p) BY <1>1, <1>3, <1>0 DEF BootDeadline, MainAt
<1>4. CASE ApplySchema(p)
    <2>1. p \in conn
        BY <1>4 DEF ApplySchema, MainAt, LInv, ConnInv
    <2> QED BY <1>1, <1>4, <1>0, <2>1 DEF ApplySchema, MainAt
<1>5. CASE SchemaFails(p)  BY <1>1, <1>5, <1>0 DEF SchemaFails, MainAt
<1>6. CASE OpenFile(p)     BY <1>1, <1>6, <1>0 DEF OpenFile, MainAt
<1>7. CASE OpenTimesOut(p) BY <1>1, <1>7, <1>0 DEF OpenTimesOut, MainAt
<1>8. CASE OpenNothing(p)  BY <1>1, <1>8, <1>0 DEF OpenNothing, MainAt
<1> QED BY <1>2, <1>3, <1>4, <1>5, <1>6, <1>7, <1>8, ArmKeeps, ListenKeeps DEF Boot

(* The end of a process; the name "lost" is for hijacked requests alone. *)
LEMMA EndsKeeps ==
    ASSUME LInv, NEW p \in Pods, NEW why \in {"early", "late", "crash", "lost"},
           why = "lost" => Busy(p) \subseteq hijacked,
           Ends(p, why), deleted' \in SUBSET Pods, crashes' \in 0..MaxCrashes
    PROVE  LInv'
<1>1. /\ main' = [main EXCEPT ![p] = IF p \in deleted' THEN "exited" ELSE "crashed"]
      /\ sig' = [sig EXCEPT ![p] = "none"] /\ conn' = conn \ {p}
      /\ status' = [r \in Requests |-> IF r \in Busy(p) THEN why ELSE status[r]]
      /\ UNCHANGED <<kind, up, tried, late, by, hijacked, outages>>
    BY DEF Ends
<1>2. NoneLost'
    BY <1>1 DEF LInv, NoneLost, HijackInv
<1>3. TypeOK'
    BY <1>1 DEF LInv, TypeOK
<1>4. \A q \in Pods : Busy(q)' \subseteq Busy(q) /\ Busy(p)' = {}
    BY <1>1 DEF Busy
<1>5. (BusyInv /\ SigInv /\ DrainInv /\ ConnInv /\ HijackInv)'
    BY <1>1, <1>4 DEF LInv, TypeOK, BusyInv, SigInv, DrainInv, ConnInv, HijackInv, Tracked
<1> QED BY <1>2, <1>3, <1>5 DEF LInv

LEMMA SigtermKeeps ==
    ASSUME LInv, NEW p \in Pods, Sigterm(p), deleted' \in SUBSET Pods,
           crashes' \in 0..MaxCrashes
    PROVE  LInv'
<1>1. CASE sig[p] = "none"
    <2>1. Ends(p, "early")
        BY <1>1 DEF Sigterm
    <2> QED BY <2>1, EndsKeeps
<1>2. CASE sig[p] # "none"
    BY <1>2 DEF Sigterm, LInv, TypeOK, NoneLost, BusyInv, SigInv, DrainInv, HijackInv, ConnInv,
                Busy, Tracked, requests
<1> QED BY <1>1, <1>2

LEMMA StopKeeps ==
    ASSUME LInv, NEW p \in Pods, Stop(p)
    PROVE  LInv'
<1> USE DEF LInv, TypeOK, NoneLost, BusyInv, SigInv, DrainInv, HijackInv, ConnInv, Busy, Tracked,
            stopFrame, requests, MainAt
<1>1. CASE Drained(p)          BY <1>1 DEF Drained
<1>2. CASE ShutdownDeadline(p) BY <1>2 DEF ShutdownDeadline
<1>3. CASE Close(p)            BY <1>3 DEF Close
<1>4. CASE Return(p)
    <2>1. CASE p \in late
        <3>1. Ends(p, "late")
            BY <1>4, <2>1 DEF Return
        <3> QED BY <3>1, <1>4, EndsKeeps DEF Return
    <2>2. CASE p \notin late
        <3>1. Busy(p) \subseteq hijacked
            BY <1>4, <2>2 DEF Return
        <3>2. Ends(p, "lost")
            BY <1>4, <2>2 DEF Return
        <3> QED BY <3>1, <3>2, <1>4, EndsKeeps DEF Return
    <2> QED BY <2>1, <2>2
<1> QED BY <1>1, <1>2, <1>3, <1>4 DEF Stop

LEMMA RequestsKeep ==
    ASSUME LInv, NEW p \in Pods, NEW r \in Requests, Accept(p, r) \/ Hijack(p, r) \/ Answer(p, r)
    PROVE  LInv'
<1> USE DEF LInv, TypeOK, NoneLost, BusyInv, SigInv, DrainInv, HijackInv, ConnInv, Busy, Tracked,
            process
<1>1. CASE Accept(p, r) BY <1>1 DEF Accept, Serving, ShuttingDown
<1>2. CASE Hijack(p, r) BY <1>2 DEF Hijack
<1>3. CASE Answer(p, r) BY <1>3 DEF Answer
<1> QED BY <1>1, <1>2, <1>3

LEMMA LStep == LInv /\ [Next]_vars => LInv'
<1> SUFFICES ASSUME LInv, [Next]_vars PROVE LInv'
    OBVIOUS
<1>1. CASE UNCHANGED vars
    BY <1>1 DEF vars, process, requests, LInv, TypeOK, NoneLost, BusyInv, SigInv,
                DrainInv, HijackInv, ConnInv, Busy, Tracked
<1>2. ASSUME NEW p \in Pods, Boot(p) PROVE LInv'
    BY <1>2, BootKeeps
<1>3. ASSUME NEW p \in Pods, Stop(p) PROVE LInv'
    BY <1>3, StopKeeps
<1>4. ASSUME NEW p \in Pods, Crash(p) PROVE LInv'
    <2>1. crashes' \in 0..MaxCrashes /\ deleted' \in SUBSET Pods
        BY <1>4 DEF Crash, LInv, TypeOK
    <2>2. Ends(p, "crash")
        BY <1>4 DEF Crash
    <2> QED BY <2>1, <2>2, EndsKeeps
<1>5. ASSUME NEW p \in Pods, Restart(p) PROVE LInv'
    BY <1>5 DEF Restart, MainAt, requests, LInv, TypeOK, NoneLost, BusyInv, SigInv,
                DrainInv, HijackInv, ConnInv, Busy, Tracked
<1>6. ASSUME NEW p \in Pods, Probe(p) PROVE LInv'
    <2>1. Sigterm(p) /\ crashes' \in 0..MaxCrashes /\ deleted' \in SUBSET Pods
        BY <1>6 DEF Probe, LInv, TypeOK
    <2> QED BY <2>1, SigtermKeeps
<1>7. ASSUME NEW p \in Pods, NEW r \in Requests, Accept(p, r) \/ Hijack(p, r) \/ Answer(p, r)
      PROVE  LInv'
    BY <1>7, RequestsKeep
<1>8. CASE Update
    <2>1. New \in Pods
        BY DEF Pods
    <2> QED BY <1>8, <2>1 DEF Update, MainAt, requests, LInv, TypeOK, NoneLost,
                BusyInv, SigInv, DrainInv, HijackInv, ConnInv, Busy, Tracked
<1>9. CASE Replace
    <2>1. Old \in Pods
        BY DEF Pods
    <2>2. Sigterm(Old) /\ crashes' \in 0..MaxCrashes /\ deleted' \in SUBSET Pods
        BY <1>9, <2>1 DEF Replace, LInv, TypeOK
    <2> QED BY <2>1, <2>2, SigtermKeeps
<1>10. CASE Outage \/ Recover
    <2>1. up' \in BOOLEAN /\ UNCHANGED <<kind, process, requests, deleted, crashes>>
        BY <1>10 DEF Outage, Recover
    <2>2. outages' \in 0..MaxOutages
        BY <1>10 DEF Outage, Recover, LInv, TypeOK
    <2> QED BY <2>1, <2>2 DEF process, requests, LInv, TypeOK, NoneLost, BusyInv,
                SigInv, DrainInv, HijackInv, ConnInv, Busy, Tracked
<1> QED BY <1>1, <1>2, <1>3, <1>4, <1>5, <1>6, <1>7, <1>8, <1>9, <1>10 DEF Next

LEMMA LAlways == Spec => []LInv
BY LInit, LStep, PTL DEF Spec

-----------------------------------------------------------------------------
(* Every variable keeps its type. *)
THEOREM LifecycleTypeCorrect == Spec => []TypeOK
<1>1. LInv => TypeOK BY DEF LInv
<1> QED BY <1>1, LAlways, PTL

(* No request taken before SIGTERM is lost to main's return, but for those *)
(* websocket-gateway has hijacked: main waits for Shutdown.                *)
THEOREM NothingLost == Spec => []NoneLost
<1>1. LInv => NoneLost BY DEF LInv
<1> QED BY <1>1, LAlways, PTL

(* No tracked handler's client or file is closed before Shutdown's         *)
(* deadline.                                                               *)
THEOREM NeverClosedUnderHandler == Spec => []OpenWhileBusy
<1>1. LInv => OpenWhileBusy
    BY DEF LInv, BusyInv, ConnInv, SigInv, DrainInv, OpenWhileBusy, Tracked
<1> QED BY <1>1, LAlways, PTL

-----------------------------------------------------------------------------
(* SIGTERM is heeded *)

(* A pod told to stop has done so or is shutting down: no signal goes      *)
(* unheard.  TermEnds is this and that a shutdown comes to its end.        *)
TermHandled == \A p \in deleted : main[p] = "exited" \/ ShuttingDown(p)

TermInv == TermHandled /\ \A p \in Pods : main[p] = "exited" => p \in deleted

LEMMA TermStep ==
    ASSUME LInv, TermInv, [Next]_vars
    PROVE  TermInv' /\ \A p \in Pods : main[p] = "exited" => main'[p] = "exited"
<1> DEFINE Kept == TermInv' /\ \A p \in Pods : main[p] = "exited" => main'[p] = "exited"
<1> USE DEF TermInv, TermHandled, ShuttingDown
<1>0. /\ deleted \in SUBSET Pods
      /\ main \in [Pods -> {"absent", "open", "schema", "start", "serve", "drain",
                            "close", "crashed", "exited"}]
      /\ sig \in [Pods -> {"none", "armed", "shutting", "drained"}]
      /\ \A p \in Pods : sig[p] # "none" => main[p] \in {"start", "serve", "drain", "close"}
    BY DEF LInv, TypeOK, SigInv
<1>1. CASE UNCHANGED <<main, sig, deleted>>
    BY <1>1
<1>2. ASSUME NEW p \in Pods, Boot(p) PROVE Kept
    <2>1. deleted' = deleted
        BY <1>2 DEF Boot, Ping, BootDeadline, ApplySchema, SchemaFails, OpenFile, OpenTimesOut,
                    OpenNothing, Arm, Listen, bootFrame
    <2>2. CASE Arm(p)
        BY <1>0, <2>1, <2>2 DEF Arm
    <2>3. CASE ~Arm(p)
        <3>1. /\ sig' = sig
              /\ \/ main' = main
                 \/ \E to \in {"schema", "start", "crashed", "serve", "drain"} :
                       main[p] # "exited" /\ main' = [main EXCEPT ![p] = to]
            BY <1>2, <2>3 DEF Boot, Ping, BootDeadline, ApplySchema, SchemaFails, OpenFile,
                              OpenTimesOut, OpenNothing, Listen, MainAt, bootFrame
        <3> QED BY <1>0, <2>1, <3>1
    <2> QED BY <2>2, <2>3
<1>3. ASSUME NEW p \in Pods, NEW why, Ends(p, why), deleted' \in {deleted, deleted \cup {p}},
             main[p] # "exited"
      PROVE  Kept
    BY <1>0, <1>3 DEF Ends
<1>4. ASSUME NEW p \in Pods, Sigterm(p), deleted' \in {deleted, deleted \cup {p}},
             p \notin deleted
      PROVE  Kept
    <2>1. CASE sig[p] = "none"
        <3>1. Ends(p, "early") /\ main[p] # "exited"
            BY <1>4, <2>1 DEF Sigterm
        <3> QED BY <1>3, <1>4, <3>1
    <2>2. CASE sig[p] # "none"
        <3>1. /\ main' = main /\ sig'[p] \in {"shutting", "drained"}
              /\ \A q \in Pods \ {p} : sig'[q] = sig[q]
            BY <1>0, <1>4, <2>2 DEF Sigterm
        <3>2. main[p] # "exited"
            BY <1>0, <2>2
        <3> QED BY <1>0, <1>4, <3>1, <3>2
    <2> QED BY <2>1, <2>2
<1>5. ASSUME NEW p \in Pods, Stop(p) PROVE Kept
    <2>1. CASE Drained(p) \/ ShutdownDeadline(p)
        BY <1>0, <2>1 DEF Drained, ShutdownDeadline, stopFrame
    <2>2. CASE Close(p)
        BY <1>0, <2>2 DEF Close, MainAt, stopFrame
    <2>3. CASE Return(p)
        BY <1>3, <2>3 DEF Return
    <2> QED BY <1>5, <2>1, <2>2, <2>3 DEF Stop
<1>6. ASSUME NEW p \in Pods, Crash(p) PROVE Kept
    BY <1>3, <1>6 DEF Crash, Running
<1>7. ASSUME NEW p \in Pods, Restart(p) PROVE Kept
    BY <1>0, <1>7 DEF Restart, MainAt
<1>8. ASSUME NEW p \in Pods, Probe(p) PROVE Kept
    <2>1. p \notin deleted
        BY <1>8 DEF Probe, LivenessFails
    <2> QED BY <1>4, <1>8, <2>1 DEF Probe
<1>9. ASSUME NEW p \in Pods, NEW r \in Requests, Accept(p, r) \/ Hijack(p, r) \/ Answer(p, r) PROVE Kept
    BY <1>1, <1>9 DEF Accept, Hijack, Answer, process
<1>10. CASE Update
    BY <1>0, <1>10 DEF Update, MainAt, Pods
<1>11. CASE Replace
    <2>1. Old \in Pods
        BY DEF Pods
    <2> QED BY <1>4, <1>11, <2>1 DEF Replace
<1>12. CASE Outage \/ Recover \/ UNCHANGED vars
    BY <1>1, <1>12 DEF Outage, Recover, process, vars
<1> QED BY <1>2, <1>5, <1>6, <1>7, <1>8, <1>9, <1>10, <1>11, <1>12 DEF Next

(* SIGTERM always finds a goroutine that shuts down, or ends the process:  *)
(* even one that comes before signal.Notify (api/main.go:72-89).           *)
THEOREM TermAlwaysHandled == Spec => []TermHandled
<1>1. Init => TermInv
    BY DEF Init, TermInv, TermHandled
<1>2. LInv /\ TermInv /\ [Next]_vars => TermInv'
    BY TermStep
<1>3. TermInv => TermHandled
    BY DEF TermInv
<1> QED BY <1>1, <1>2, <1>3, LAlways, PTL DEF Spec

(* The process of a pod that has been stopped does not come back.          *)
ExitIsFinal == [][\A p \in Pods : main[p] = "exited" => main'[p] = "exited"]_vars

(* "exited" is an end: the kubelet restarts no pod that was told to stop.  *)
THEOREM ExitedForGood == Spec => ExitIsFinal
<1> DEFINE Final == \A p \in Pods : main[p] = "exited" => main'[p] = "exited"
<1>1. Init => TermInv
    BY DEF Init, TermInv, TermHandled
<1>2. LInv /\ TermInv /\ [Next]_vars => TermInv' /\ [Final]_vars
    BY TermStep
<1>3. [][Final]_vars <=> ExitIsFinal
    BY DEF ExitIsFinal
<1> HIDE DEF Final
<1> QED BY <1>1, <1>2, <1>3, LAlways, PTL DEF Spec

-----------------------------------------------------------------------------
(* The file is never handed over *)

(* With a file, one process has it open, and only a serving process; no    *)
(* probe ever asks it to stop.                                             *)
HeldInv ==
    kind = "file" =>
        /\ \A p, q \in conn : p = q
        /\ \A p \in Pods : /\ sig[p] \in {"none", "armed"}
                           /\ main[p] \notin {"schema", "drain", "close"}
        /\ tried = {}
        /\ main[Old] # "absent" /\ (deleted # {} => main[Old] = "exited")

(* The new process of klyde-agent's backend gets past its boot only over a *)
(* dead one, and the old pod is told to stop only when nothing runs in it. *)
HandedOverDead ==
    kind = "file" =>
        /\ New \in conn => main[Old] \in {"open", "crashed", "exited"}
        /\ Old \in deleted => main[Old] = "exited"

LEMMA HeldStep ==
    ASSUME LInv, HeldInv, [Next]_vars
    PROVE  HeldInv'
<1>0. /\ conn \in SUBSET Pods /\ deleted \in SUBSET Pods
      /\ main \in [Pods -> {"absent", "open", "schema", "start", "serve", "drain",
                            "close", "crashed", "exited"}]
      /\ sig \in [Pods -> {"none", "armed", "shutting", "drained"}]
      /\ \A p \in Pods : main[p] \in {"schema", "start", "serve", "drain"} => p \in conn
      /\ kind' = kind
    <2>1. kind' = kind
        BY DEF Next, Boot, Ping, BootDeadline, ApplySchema, SchemaFails, OpenFile, OpenTimesOut,
               OpenNothing, Arm, Listen, bootFrame, Stop, Drained, ShutdownDeadline, Close, Return,
               stopFrame, Crash, Restart, Probe, Replace, Sigterm, Ends, Accept, Hijack, Answer, Update,
               Outage, Recover, vars
    <2> QED BY <2>1 DEF LInv, TypeOK, ConnInv
<1> SUFFICES ASSUME kind = "file" PROVE HeldInv'
    BY <1>0 DEF HeldInv
<1> USE DEF HeldInv
<1>1. CASE UNCHANGED <<main, sig, tried, conn, deleted>>
    BY <1>1
<1>2. ASSUME NEW p \in Pods, NEW why, Ends(p, why), tried' = tried,
             deleted' = deleted \/ p = Old, deleted' \in {deleted, deleted \cup {Old}},
             p = Old /\ deleted # {} => main[p] # "exited"
      PROVE  HeldInv'
    <2>1. /\ main' = [main EXCEPT ![p] = IF p \in deleted' THEN "exited" ELSE "crashed"]
          /\ sig' = [sig EXCEPT ![p] = "none"] /\ conn' = conn \ {p}
        BY <1>2 DEF Ends
    <2>2. CASE p = Old
        BY <1>0, <1>2, <2>1, <2>2 DEF Pods
    <2>3. CASE p # Old
        BY <1>0, <1>2, <2>1, <2>3 DEF Pods
    <2> QED BY <2>2, <2>3
<1>3. ASSUME NEW p \in Pods, Boot(p) PROVE HeldInv'
    <2>1. CASE OpenFile(p)
        BY <1>0, <2>1 DEF OpenFile, MainAt, bootFrame, Pods
    <2>2. CASE OpenTimesOut(p)
        BY <1>0, <2>2 DEF OpenTimesOut, MainAt, bootFrame, Pods
    <2>3. CASE Arm(p)
        BY <1>0, <2>3 DEF Arm
    <2>4. CASE Listen(p)
        <3>1. ~ShuttingDown(p)
            BY DEF ShuttingDown
        <3> QED BY <1>0, <2>4, <3>1 DEF Listen, MainAt, bootFrame, Pods
    <2>5. CASE Ping(p) \/ BootDeadline(p) \/ OpenNothing(p)
        BY <2>5 DEF Ping, BootDeadline, OpenNothing, Networked
    <2>6. CASE ApplySchema(p) \/ SchemaFails(p)
        BY <2>6 DEF ApplySchema, SchemaFails, MainAt
    <2> QED BY <1>3, <2>1, <2>2, <2>3, <2>4, <2>5, <2>6 DEF Boot
<1>4. ASSUME NEW p \in Pods, Stop(p) PROVE HeldInv'
    BY <1>4 DEF Stop, Drained, ShutdownDeadline, Close, MainAt, Return
<1>5. ASSUME NEW p \in Pods, Crash(p) PROVE HeldInv'
    BY <1>2, <1>5 DEF Crash, Running, Ends
<1>6. ASSUME NEW p \in Pods, Restart(p) PROVE HeldInv'
    BY <1>0, <1>6 DEF Restart, MainAt, Pods
<1>7. ASSUME NEW p \in Pods, Probe(p) PROVE FALSE
    BY <1>7 DEF Probe, LivenessFails
<1>8. ASSUME NEW p \in Pods, NEW r \in Requests, Accept(p, r) \/ Hijack(p, r) \/ Answer(p, r) PROVE HeldInv'
    BY <1>1, <1>8 DEF Accept, Hijack, Answer, process
<1>9. CASE Update
    BY <1>0, <1>9 DEF Update, MainAt, Pods
<1>10. CASE Replace
    <2>1. Old \in Pods /\ New \in Pods
        BY DEF Pods
    <2>2. New \in conn /\ Old \notin deleted
        BY <1>0, <1>10, <2>1 DEF Replace, Ready, Serving
    <2>3. Old \notin conn
        BY <2>2
    <2>4. sig[Old] = "none"
        <3>1. main[Old] \notin {"start", "serve", "drain", "close"}
            BY <1>0, <2>1, <2>3
        <3> QED BY <2>1, <3>1 DEF LInv, SigInv
    <2>5. Ends(Old, "early") /\ deleted' = deleted \cup {Old}
        BY <1>10, <2>4 DEF Replace, Sigterm
    <2>6. /\ main'[Old] = "exited" /\ \A p \in Pods \ {Old} : main'[p] = main[p]
          /\ sig' = [sig EXCEPT ![Old] = "none"] /\ conn' = conn \ {Old} /\ tried' = tried
        BY <1>0, <2>1, <2>5 DEF Ends
    <2> QED BY <1>0, <2>1, <2>6
<1>11. CASE Outage \/ Recover \/ UNCHANGED vars
    BY <1>1, <1>11 DEF Outage, Recover, process, vars
<1> QED BY <1>3, <1>4, <1>5, <1>6, <1>7, <1>8, <1>9, <1>10, <1>11 DEF Next

(* klyde-agent's backend under its default rolling update: bbolt's lock    *)
(* keeps the new pod in its boot while the old process lives               *)
(* (agent/backend/store.go:73, backend-deployment.yaml), so the old pod is *)
(* never told to stop while it serves.                                     *)
THEOREM FileNeverHandedOver == Spec => []HandedOverDead
<1>1. Init => HeldInv
    BY DEF Init, HeldInv, Pods
<1>2. LInv /\ HeldInv /\ [Next]_vars => HeldInv'
    BY HeldStep
<1>3. LInv /\ HeldInv => HandedOverDead
    <2> SUFFICES ASSUME LInv, HeldInv, kind = "file" PROVE HandedOverDead
        BY DEF HandedOverDead
    <2>1. Old \in Pods /\ New \in Pods
        BY DEF Pods
    <2>3. New \in conn => main[Old] \in {"open", "crashed", "exited"}
        BY <2>1 DEF LInv, TypeOK, ConnInv, HeldInv
    <2> QED BY <2>3 DEF HandedOverDead, HeldInv
<1> QED BY <1>1, <1>2, <1>3, LAlways, PTL DEF Spec

-----------------------------------------------------------------------------
(* Every excuse is a true one *)

(* What may cut a handler of p short: its pod was told to stop, or api's   *)
(* liveness probe found the database away.                                 *)
Excuse(p) == p \in deleted \/ (kind = "database" /\ outages > 0)

AllExcused ==
    \A r \in Requests :
        /\ status[r] = "crash" => crashes > 0
        /\ status[r] \in {"early", "late", "lost"} => Excuse(by[r])

(* Nothing serves before its dependency was there once. *)
AwayInv ==
    Networked /\ ~up /\ outages = 0 =>
        \A p \in Pods : main[p] \in {"absent", "open", "crashed", "exited"}

ExcuseInv == AllExcused /\ AwayInv /\ \A p \in Pods : ShuttingDown(p) => Excuse(p)

LEMMA EndsExcused ==
    ASSUME LInv, ExcuseInv, NEW p \in Pods, NEW why \in {"early", "late", "crash", "lost"},
           Ends(p, why), deleted \subseteq deleted', crashes' >= crashes,
           deleted' \in SUBSET Pods, crashes' \in Nat,
           Busy(p) # {} => IF why = "crash" THEN crashes' > 0 ELSE Excuse(p)'
    PROVE  ExcuseInv'
<1>1. /\ main' = [main EXCEPT ![p] = IF p \in deleted' THEN "exited" ELSE "crashed"]
      /\ sig' = [sig EXCEPT ![p] = "none"]
      /\ status' = [r \in Requests |-> IF r \in Busy(p) THEN why ELSE status[r]]
      /\ UNCHANGED <<kind, up, by, outages>>
    BY DEF Ends
<1>2. AwayInv'
    BY <1>1 DEF LInv, TypeOK, ExcuseInv, AwayInv, Networked
<1>3. ASSUME NEW q \in Pods, ShuttingDown(q)' PROVE Excuse(q)'
    BY <1>1, <1>3 DEF LInv, TypeOK, ExcuseInv, ShuttingDown, Excuse
<1>4. ASSUME NEW r \in Requests
      PROVE  /\ status'[r] = "crash" => crashes' > 0
             /\ status'[r] \in {"early", "late", "lost"} => Excuse(by[r])'
    <2>1. CASE r \in Busy(p)
        BY <1>1, <2>1 DEF Busy, Excuse
    <2>2. CASE r \notin Busy(p)
        BY <1>1, <2>2 DEF LInv, TypeOK, ExcuseInv, AllExcused, Excuse
    <2> QED BY <2>1, <2>2
<1>5. AllExcused'
    BY <1>1, <1>4 DEF AllExcused, Excuse
<1> QED BY <1>2, <1>3, <1>5 DEF ExcuseInv

LEMMA ExcuseStep ==
    ASSUME LInv, ExcuseInv, [Next]_vars
    PROVE  ExcuseInv'
<1>0. /\ outages \in Nat /\ crashes \in Nat /\ deleted \in SUBSET Pods
      /\ main \in [Pods -> {"absent", "open", "schema", "start", "serve", "drain",
                            "close", "crashed", "exited"}]
      /\ sig \in [Pods -> {"none", "armed", "shutting", "drained"}]
      /\ up \in BOOLEAN
    BY DEF LInv, TypeOK
<1>1. CASE UNCHANGED <<kind, up, main, sig, status, by, deleted, outages, crashes>>
    BY <1>1 DEF ExcuseInv, AllExcused, AwayInv, ShuttingDown, Excuse, Networked
<1>2. ASSUME NEW p \in Pods, Boot(p) PROVE ExcuseInv'
    <2>1. /\ UNCHANGED <<kind, up, status, by, deleted, outages, crashes>>
          /\ sig' \in {sig, [sig EXCEPT ![p] = "armed"]}
        BY <1>2 DEF Boot, Ping, BootDeadline, ApplySchema, SchemaFails, OpenFile, OpenTimesOut,
                    OpenNothing, Arm, Listen, bootFrame, requests
    <2>2. AllExcused' /\ \A q \in Pods : ShuttingDown(q)' => Excuse(q)'
        BY <1>0, <2>1 DEF ExcuseInv, AllExcused, ShuttingDown, Excuse
    <2>3. AwayInv'
        <3>1. SUFFICES ASSUME Networked, ~up, outages = 0 PROVE main'[p] \in {main[p], "crashed"}
                                                                /\ \A q \in Pods \ {p} : main'[q] = main[q]
            BY <2>1 DEF ExcuseInv, AwayInv, Networked
        <3>2. main[p] \in {"absent", "open", "crashed", "exited"}
            BY <3>1 DEF ExcuseInv, AwayInv
        <3> QED BY <1>0, <1>2, <3>1, <3>2
                DEF Boot, Ping, BootDeadline, ApplySchema, SchemaFails, OpenFile, OpenTimesOut,
                    OpenNothing, Arm, Listen, MainAt, Networked
    <2> QED BY <2>2, <2>3 DEF ExcuseInv
<1>3. ASSUME NEW p \in Pods, Sigterm(p), Excuse(p)' \/ (Busy(p) = {} /\ sig[p] = "none"),
             deleted \subseteq deleted', deleted' \in SUBSET Pods, crashes' = crashes
      PROVE  ExcuseInv'
    <2>1. CASE sig[p] = "none"
        <3>1. Ends(p, "early")
            BY <2>1, <1>3 DEF Sigterm
        <3> QED BY <1>0, <1>3, <3>1, EndsExcused
    <2>2. CASE sig[p] # "none"
        <3>1. /\ Excuse(p)' /\ UNCHANGED <<kind, up, main, status, by, outages>>
              /\ \A q \in Pods \ {p} : sig'[q] = sig[q]
            BY <1>0, <1>3, <2>2 DEF Sigterm, requests
        <3> QED BY <1>0, <1>3, <3>1
                DEF ExcuseInv, AllExcused, AwayInv, ShuttingDown, Excuse, Networked
    <2> QED BY <2>1, <2>2
<1>4. ASSUME NEW p \in Pods, Stop(p) PROVE ExcuseInv'
    <2>1. CASE Drained(p) \/ ShutdownDeadline(p)
        <3>1. /\ sig[p] = "shutting" /\ sig' = [sig EXCEPT ![p] = "drained"]
              /\ UNCHANGED <<kind, up, main, status, by, deleted, outages, crashes>>
            BY <2>1 DEF Drained, ShutdownDeadline, stopFrame, requests
        <3> QED BY <1>0, <3>1 DEF ExcuseInv, AllExcused, AwayInv, ShuttingDown, Excuse, Networked
    <2>2. CASE Close(p)
        <3>1. /\ main[p] = "drain" /\ main' = [main EXCEPT ![p] = "close"]
              /\ UNCHANGED <<kind, up, sig, status, by, deleted, outages, crashes>>
            BY <2>2 DEF Close, MainAt, stopFrame, requests
        <3> QED BY <1>0, <3>1 DEF ExcuseInv, AllExcused, AwayInv, ShuttingDown, Excuse, Networked
    <2>3. CASE Return(p)
        <3>1. Excuse(p) /\ Excuse(p)'
            <4>1. ShuttingDown(p)
                BY <2>3 DEF Return, LInv, SigInv, ShuttingDown
            <4>2. Excuse(p)
                BY <4>1 DEF ExcuseInv
            <4>3. UNCHANGED <<kind, outages, deleted>>
                BY <2>3 DEF Return, Ends
            <4> QED BY <4>2, <4>3 DEF Excuse
        <3>2. CASE p \in late
            <4>1. Ends(p, "late") /\ UNCHANGED <<deleted, crashes>>
                BY <2>3, <3>2 DEF Return
            <4> QED BY <1>0, <3>1, <4>1, EndsExcused
        <3>3. CASE p \notin late
            <4>1. Ends(p, "lost") /\ UNCHANGED <<deleted, crashes>>
                BY <2>3, <3>3 DEF Return
            <4> QED BY <1>0, <3>1, <4>1, EndsExcused
        <3> QED BY <3>2, <3>3
    <2> QED BY <1>4, <2>1, <2>2, <2>3 DEF Stop
<1>5. ASSUME NEW p \in Pods, Crash(p) PROVE ExcuseInv'
    <2>1. Ends(p, "crash") /\ crashes' = crashes + 1 /\ deleted' = deleted
        BY <1>5 DEF Crash
    <2> QED BY <1>0, <2>1, EndsExcused
<1>6. ASSUME NEW p \in Pods, Restart(p) PROVE ExcuseInv'
    <2>1. /\ main' = [main EXCEPT ![p] = "open"]
          /\ UNCHANGED <<kind, up, sig, status, by, deleted, outages, crashes>>
        BY <1>6 DEF Restart, MainAt, requests
    <2> QED BY <1>0, <2>1 DEF ExcuseInv, AllExcused, AwayInv, ShuttingDown, Excuse, Networked
<1>7. ASSUME NEW p \in Pods, Probe(p) PROVE ExcuseInv'
    <2>1. Sigterm(p) /\ LivenessFails(p) /\ UNCHANGED <<deleted, crashes>>
        BY <1>7 DEF Probe
    <2>2. UNCHANGED <<kind, outages>>
        BY <2>1 DEF Sigterm, Ends
    <2>3. CASE main[p] \in {"open", "schema"}
        <3>1. Busy(p) = {} /\ sig[p] = "none"
            BY <2>3 DEF LInv, BusyInv, SigInv
        <3> QED BY <1>0, <1>3, <2>1, <3>1
    <2>4. CASE kind = "database" /\ ~up /\ main[p] = "serve"
        <3>1. outages # 0
            BY <2>4 DEF ExcuseInv, AwayInv, Networked
        <3>2. Excuse(p)'
            BY <1>0, <2>2, <2>4, <3>1 DEF Excuse
        <3> QED BY <1>0, <1>3, <2>1, <3>2
    <2> QED BY <2>1, <2>3, <2>4 DEF LivenessFails
<1>8. ASSUME NEW p \in Pods, NEW r \in Requests, Accept(p, r) \/ Hijack(p, r) \/ Answer(p, r)
      PROVE  ExcuseInv'
    <2>1. CASE Hijack(p, r)
        BY <1>1, <2>1 DEF Hijack, process
    <2>2. CASE Accept(p, r) \/ Answer(p, r)
        <3>1. /\ status' \in {[status EXCEPT ![r] = "active"], [status EXCEPT ![r] = "answered"]}
              /\ \A q \in Requests \ {r} : by'[q] = by[q]
              /\ UNCHANGED <<kind, up, main, sig, deleted, outages, crashes>>
            BY <2>2 DEF Accept, Answer, process, LInv, TypeOK
        <3>2. AllExcused'
            BY <3>1 DEF LInv, TypeOK, ExcuseInv, AllExcused, Excuse
        <3> QED BY <3>1, <3>2 DEF ExcuseInv, AwayInv, ShuttingDown, Excuse, Networked
    <2> QED BY <1>8, <2>1, <2>2
<1>9. CASE Update
    <2>1. /\ main' = [main EXCEPT ![New] = "open"]
          /\ UNCHANGED <<kind, up, sig, status, by, deleted, outages, crashes>>
        BY <1>9 DEF Update, MainAt, requests
    <2> QED BY <1>0, <2>1 DEF ExcuseInv, AllExcused, AwayInv, ShuttingDown, Excuse, Networked
<1>10. CASE Replace
    <2>1. Old \in Pods
        BY DEF Pods
    <2>2. Sigterm(Old) /\ deleted' = deleted \cup {Old} /\ crashes' = crashes
        BY <1>10 DEF Replace
    <2>3. Excuse(Old)'
        BY <2>2 DEF Excuse
    <2> QED BY <1>0, <1>3, <2>1, <2>2, <2>3
<1>11. CASE Outage
    <2>1. /\ outages' = outages + 1
          /\ UNCHANGED <<kind, main, sig, status, by, deleted, crashes>>
        BY <1>11 DEF Outage, process, requests
    <2> QED BY <1>0, <2>1 DEF ExcuseInv, AllExcused, AwayInv, ShuttingDown, Excuse, Networked
<1>12. CASE Recover
    <2>1. /\ up' = TRUE
          /\ UNCHANGED <<kind, main, sig, status, by, deleted, outages, crashes>>
        BY <1>12 DEF Recover, process, requests
    <2> QED BY <1>0, <2>1 DEF ExcuseInv, AllExcused, AwayInv, ShuttingDown, Excuse, Networked
<1>13. CASE UNCHANGED vars
    BY <1>1, <1>13 DEF vars, process, requests
<1> QED BY <1>2, <1>4, <1>5, <1>6, <1>7, <1>8, <1>9, <1>10, <1>11, <1>12, <1>13 DEF Next

(* A handler is cut short only for a reason outside the servers: a kill, a *)
(* rolling update, or, in api alone, its liveness probe after the database *)
(* has gone (api/main.go:93, 72-83); so is a hijacked one that the end     *)
(* of main cuts.                                                           *)
THEOREM CutShortOnlyExcused == Spec => []AllExcused
<1>1. Init => ExcuseInv
    BY DEF Init, ExcuseInv, AllExcused, AwayInv, ShuttingDown, Excuse, Pods
<1>2. LInv /\ ExcuseInv /\ [Next]_vars => ExcuseInv'
    BY ExcuseStep
<1>3. ExcuseInv => AllExcused
    BY DEF ExcuseInv
<1> QED BY <1>1, <1>2, <1>3, LAlways, PTL DEF Spec
=============================================================================
