----------------------------- MODULE TodoTools -----------------------------
(***************************************************************************)
(* The todos of TaskDone and their two stores: api keeps them in MySQL,    *)
(* keda/mcp-server keeps their priorities in the Redis hash todo:priority  *)
(* and offers both as MCP tools.  A caller is a browser, which uses api    *)
(* alone, or a client of the tools: an agent-worker pod or the gateway.    *)
(*                                                                         *)
(* Each SQL statement and each Redis command is one step; a handler that   *)
(* makes several of them is interleaved with the others between them.  The *)
(* text of a todo is left out: a row is done or not.                       *)
(*                                                                         *)
(* A statement may fail or time out: api waits 5 s for MySQL, mcp-server   *)
(* 10 s for api, and then the caller is told of an error while the         *)
(* statement may still take effect later (late).                           *)
(***************************************************************************)
EXTENDS Integers, FiniteSets

CONSTANTS Callers,
          MaxId,        \* bound: rows inserted
          Top,          \* the highest priority, 100
          Guesses,      \* ids the model may pass to a tool without having seen
          MaxFailures,  \* bound: statements that fail
          MaxRestarts,  \* bound: restarts of Redis, which has no volume
          Unset         \* no field in the hash

ASSUME ToolsAssumption ==
    /\ MaxId \in Nat /\ Top \in Nat
    /\ Guesses \subseteq 1..MaxId
    /\ MaxFailures \in Nat /\ MaxRestarts \in Nat
    /\ Unset \notin 0..Top

Ids        == 0..MaxId
Priorities == 0..Top

VARIABLES rows,     \* ids in the table todos
          done,     \* those that are done
          issued,   \* AUTO_INCREMENT: the last id given
          prio,     \* the hash todo:priority
          late,     \* statements given up by their caller
          call,     \* call[c]: the call c is making, or its last one
          failures, restarts,
          \* History variables: no action looks at them.
          had,      \* had[id]: the priorities todo id has had
          misread,  \* todos list_todos gave a priority they had not had
          phantoms, \* todos marked, says the answer, that were not there
          deleted   \* deleted[id]: DELETEs of id that were answered 204

dbVars    == <<rows, done, issued>>
boundVars == <<failures, restarts>>
answers   == <<misread, phantoms, deleted>>
vars == <<dbVars, prio, late, call, boundVars, had, answers>>

Places == {"idle", "recheck", "readback", "hset", "hdel", "merge"}

\* The effects a statement may have.
Statements ==
    [kind : {"insert"}, by : Callers]
      \cup [kind : {"update"}, id : Ids, done : BOOLEAN]
      \cup [kind : {"delete"}, id : Ids]
      \cup [kind : {"hset"}, id : Ids, priority : Priorities]
      \cup [kind : {"hdel"}, id : Ids]

\* A call: where it is in its handler, the todo it is about, the priority it is
\* to set, the ids its GET /api/todos returned, and whether its UPDATE (history)
\* found the todo.
Call   == [at : Places, id : Ids, priority : Priorities, seen : SUBSET Ids,
           found : BOOLEAN]
NoCall == [at |-> "idle", id |-> 0, priority |-> 0, seen |-> {}, found |-> TRUE]

TypeOK ==
    /\ issued \in 0..MaxId
    /\ rows \in SUBSET (1..issued)
    /\ done \in SUBSET rows
    /\ prio \in [Ids -> Priorities \cup {Unset}]
    /\ late \in SUBSET Statements
    /\ call \in [Callers -> Call]
    /\ failures \in 0..MaxFailures /\ restarts \in 0..MaxRestarts
    /\ had \in [Ids -> SUBSET Priorities]
    /\ misread \in SUBSET Ids /\ phantoms \in SUBSET Ids
    /\ deleted \in [Ids -> Nat]

Init ==
    /\ rows = {} /\ done = {} /\ issued = 0
    /\ prio = [id \in Ids |-> Unset]
    /\ late = {}
    /\ call = [c \in Callers |-> NoCall]
    /\ failures = 0 /\ restarts = 0
    /\ had = [id \in Ids |-> {}]
    /\ misread = {} /\ phantoms = {}
    /\ deleted = [id \in Ids |-> 0]

Priority(id) == IF prio[id] = Unset THEN 0 ELSE prio[id]

-----------------------------------------------------------------------------
(* The effects of the statements. *)

\* Mutant: Ids are found as the lowest free one instead of by AUTO_INCREMENT.
InsertLowestFree ==
    /\ \E id \in 1..MaxId \ rows :
         /\ \A i \in 1..(id - 1) : i \in rows
         /\ rows' = rows \cup {id}
         /\ issued' = IF id > issued THEN id ELSE issued
         /\ had' = [had EXCEPT ![id] = {Priority(id)}]
    /\ UNCHANGED <<done, prio>>

\* MySQL does not give an id twice, nor go back when it restarts.
InsertRow ==
    /\ issued < MaxId
    /\ issued' = issued + 1
    /\ rows' = rows \cup {issued'}
    /\ had' = [had EXCEPT ![issued'] = {Priority(issued')}]
    /\ UNCHANGED <<done, prio>>

UpdateRow(id, d) ==
    /\ done' = IF d /\ id \in rows THEN done \cup {id}
               ELSE IF d THEN done ELSE done \ {id}
    /\ UNCHANGED <<rows, issued, prio, had>>

DeleteRow(id) ==
    /\ rows' = rows \ {id}
    /\ done' = done \ {id}
    /\ UNCHANGED <<issued, prio, had>>

SetField(id, p) ==
    /\ prio' = [prio EXCEPT ![id] = p]
    /\ had' = IF id \in rows THEN [had EXCEPT ![id] = @ \cup {p}] ELSE had
    /\ UNCHANGED dbVars

ClearField(id) ==
    /\ prio' = [prio EXCEPT ![id] = Unset]
    /\ had' = IF id \in rows THEN [had EXCEPT ![id] = @ \cup {0}] ELSE had
    /\ UNCHANGED dbVars

Effect(st) ==
    \/ st.kind = "insert" /\ InsertRow
    \/ st.kind = "update" /\ UpdateRow(st.id, st.done)
    \/ st.kind = "delete" /\ DeleteRow(st.id)
    \/ st.kind = "hset"   /\ SetField(st.id, st.priority)
    \/ st.kind = "hdel"   /\ ClearField(st.id)

-----------------------------------------------------------------------------
(* The calls. *)

\* The ids a caller may pass: those it can have been shown, and guesses.  What
\* it does to a number that is never an id can be seen nowhere.
Known == 1..issued \cup Guesses

At(c, place)   == call[c].at = place
Goto(c, place) == call' = [call EXCEPT ![c].at = place]
Start(c, id, place) ==
    call' = [call EXCEPT ![c] = [NoCall EXCEPT !.id = id, !.at = place]]
End(c)         == call' = [call EXCEPT ![c] = NoCall]

\* POST /api/todos and add_todo.
Insert(c) ==
    /\ At(c, "idle")
    /\ InsertRow
    /\ Start(c, issued', "readback")
    /\ UNCHANGED <<late, boundVars, answers>>

\* PATCH /api/todos/{id} and complete_todo.  MySQL counts the rows changed; the
\* text of a todo that is there may have changed and its done not.
Update(c, id, d) ==
    /\ At(c, "idle")
    /\ UpdateRow(id, d)
    /\ \E place \in {"readback", "recheck"} :
          /\ place = "readback" => id \in rows
          /\ place = "recheck"  => done' = done
          /\ call' = [call EXCEPT ![c] = [NoCall EXCEPT !.id = id, !.at = place,
                                            !.found = id \in rows]]
    /\ UNCHANGED <<late, boundVars, answers>>

\* Mutant: update takes the row to be there when nothing says it is not.
RecheckNothing(c) ==
    /\ At(c, "recheck")
    /\ phantoms' = IF ~call[c].found THEN phantoms \cup {call[c].id} ELSE phantoms
    /\ End(c)
    /\ UNCHANGED <<dbVars, prio, late, boundVars, had, misread, deleted>>

\* No row changed: is there one?
Recheck(c) ==
    /\ At(c, "recheck")
    /\ IF call[c].id \in rows THEN Goto(c, "readback") ELSE End(c)
    /\ UNCHANGED <<dbVars, prio, late, boundVars, had, answers>>

\* The row as it is now is the answer.
ReadBack(c) ==
    /\ At(c, "readback")
    /\ phantoms' = IF call[c].id \in rows /\ ~call[c].found
                   THEN phantoms \cup {call[c].id} ELSE phantoms
    /\ End(c)
    /\ UNCHANGED <<dbVars, prio, late, boundVars, had, misread, deleted>>

\* Mutant: remove does not look at RowsAffected.
DeleteUnchecked(c, id, tool) ==
    /\ At(c, "idle")
    /\ DeleteRow(id)
    /\ deleted' = [deleted EXCEPT ![id] = @ + 1]
    /\ IF tool THEN Start(c, id, "hdel") ELSE End(c)
    /\ UNCHANGED <<late, boundVars, misread, phantoms>>

\* DELETE /api/todos/{id}; delete_todo goes on to clear the priority.
Delete(c, id, tool) ==
    /\ At(c, "idle")
    /\ DeleteRow(id)
    /\ IF id \in rows
       THEN /\ deleted' = [deleted EXCEPT ![id] = @ + 1]
            /\ IF tool THEN Start(c, id, "hdel") ELSE End(c)
       ELSE UNCHANGED deleted /\ End(c)
    /\ UNCHANGED <<late, boundVars, misread, phantoms>>

\* go-redis sends a command again when it hears nothing, so a copy may be late.
Sent(st) ==
    \/ UNCHANGED <<late, boundVars>>
    \/ /\ failures < MaxFailures
       /\ failures' = failures + 1
       /\ late' = late \cup {st}
       /\ UNCHANGED restarts

ClearPriority(c) ==
    /\ At(c, "hdel")
    /\ ClearField(call[c].id)
    /\ Sent([kind |-> "hdel", id |-> call[c].id])
    /\ End(c)
    /\ UNCHANGED answers

\* Mutant: set_priority does not check the range.
SetPriorityUnchecked(c, id, p) ==
    /\ At(c, "idle")
    /\ call' = [call EXCEPT ![c] = [NoCall EXCEPT !.id = id, !.priority = p, !.at = "hset"]]
    /\ UNCHANGED <<dbVars, prio, late, boundVars, had, answers>>

\* set_priority does not ask api whether there is such a todo.
SetPriority(c, id, p) ==
    /\ At(c, "idle") /\ p <= Top
    /\ call' = [call EXCEPT ![c] = [NoCall EXCEPT !.id = id, !.priority = p, !.at = "hset"]]
    /\ UNCHANGED <<dbVars, prio, late, boundVars, had, answers>>

SetOf(c) == [kind |-> "hset", id |-> call[c].id, priority |-> call[c].priority]

StorePriority(c) ==
    /\ At(c, "hset")
    /\ SetField(call[c].id, call[c].priority)
    /\ Sent(SetOf(c))
    /\ End(c)
    /\ UNCHANGED answers

\* list_todos: GET /api/todos, then HGETALL.
FetchTodos(c) ==
    /\ At(c, "idle")
    /\ call' = [call EXCEPT ![c] = [NoCall EXCEPT !.at = "merge", !.seen = rows]]
    /\ UNCHANGED <<dbVars, prio, late, boundVars, had, answers>>

\* Mutant: `priority := 0' stands before the loop, so a todo without a priority gets
\* that of the todo before it.
MergeCarriedOver(c) ==
    /\ At(c, "merge")
    /\ LET before(id) == {i \in call[c].seen : i <= id /\ prio[i] # Unset}
           last(id)   == CHOOSE i \in before(id) : \A j \in before(id) : j <= i
           merged(id) == IF before(id) = {} THEN 0 ELSE prio[last(id)]
       IN  misread' = misread \cup {id \in call[c].seen : merged(id) \notin had[id]}
    /\ End(c)
    /\ UNCHANGED <<dbVars, prio, late, boundVars, had, phantoms, deleted>>

MergeWithPriority(c) ==
    /\ At(c, "merge")
    /\ misread' = misread \cup {id \in call[c].seen : Priority(id) \notin had[id]}
    /\ End(c)
    /\ UNCHANGED <<dbVars, prio, late, boundVars, had, phantoms, deleted>>

-----------------------------------------------------------------------------
(* Failures. *)

\* st did not take effect, did and its answer was lost, or will later.
GiveUp(st) ==
    /\ failures < MaxFailures
    /\ failures' = failures + 1
    /\ late' \in {late, late \cup {st}}
    /\ UNCHANGED <<dbVars, prio, restarts, had, answers>>

\* Mutant: delete_todo clears the priority whatever api has answered.
FailFirstDropped(c, st) ==
    /\ At(c, "idle") /\ st.kind \in {"insert", "update", "delete"}
    /\ IF st.kind = "insert" THEN st.by = c ELSE st.id \in Known
    /\ GiveUp(st)
    /\ IF st.kind = "delete" THEN Start(c, st.id, "hdel") ELSE End(c)

\* The first statement of a call to api fails.
FailFirst(c, st) ==
    /\ At(c, "idle") /\ st.kind \in {"insert", "update", "delete"}
    /\ IF st.kind = "insert" THEN st.by = c ELSE st.id \in Known
    /\ GiveUp(st)
    /\ End(c)

\* "storing priority" failed; "todo deleted but clearing priority failed"; or
\* mcp-server died.
FailField(c) ==
    /\ \/ At(c, "hset") /\ GiveUp(SetOf(c))
       \/ At(c, "hdel") /\ GiveUp([kind |-> "hdel", id |-> call[c].id])
    /\ End(c)

\* A read fails.  update drops the error of its first one.
FailRead(c) ==
    /\ call[c].at \in {"recheck", "readback", "merge"}
    /\ failures < MaxFailures
    /\ failures' = failures + 1
    /\ IF At(c, "recheck") THEN Goto(c, "readback") ELSE End(c)
    /\ UNCHANGED <<dbVars, prio, late, restarts, had, answers>>

TakeEffect(st) ==
    /\ Effect(st)
    /\ late' = late \ {st}
    /\ UNCHANGED <<call, boundVars, answers>>

RedisRestart ==
    /\ restarts < MaxRestarts
    /\ restarts' = restarts + 1
    /\ prio' = [id \in Ids |-> Unset]
    /\ had' = [id \in Ids |-> IF id \in rows THEN had[id] \cup {0} ELSE had[id]]
    /\ UNCHANGED <<dbVars, late, call, failures, answers>>

-----------------------------------------------------------------------------
Next ==
    \/ \E c \in Callers :
         \/ Insert(c)
         \/ \E id \in Known :
              \/ \E d \in BOOLEAN : Update(c, id, d)
              \/ \E tool \in BOOLEAN : Delete(c, id, tool)
              \/ \E p \in 0..(Top + 1) : SetPriority(c, id, p)
         \/ Recheck(c) \/ ReadBack(c)
         \/ StorePriority(c) \/ ClearPriority(c)
         \/ FetchTodos(c) \/ MergeWithPriority(c)
         \/ \E st \in Statements : FailFirst(c, st)
         \/ FailField(c) \/ FailRead(c)
    \/ \E st \in late : TakeEffect(st)
    \/ RedisRestart

Spec == Init /\ [][Next]_vars

-----------------------------------------------------------------------------
(* Properties. *)

\* set_priority calls that may still store, and copies of theirs on the way.
Asked ==
    {<<call[c].id, call[c].priority>> : c \in {d \in Callers : At(d, "hset")}}
      \cup {<<st.id, st.priority>> : st \in {s \in late : s.kind = "hset"}}

\* MySQL and Redis together look like one list of todos: a new one starts at
\* priority 0 (server.go:91), and the priority of a todo that exists becomes
\* that of a set_priority under way, or 0 when Redis is lost, and no other --
\* neither what is left in the hash after a browser has deleted a todo changes
\* it, nor an HDEL that comes late or behind a DELETE that failed.  A copy of
\* an HSET that comes late does, and may undo a newer one.  This needs callers
\* to pass only ids they have been shown.
Board == INSTANCE TodoBoard
           WITH Ids   <- 1..MaxId,
                board <- [id \in rows |-> [done     |-> id \in done,
                                           priority |-> Priority(id)]],
                used  <- 1..issued,
                asked <- Asked

ImplementsBoard == Board!Spec

\* Of the calls that delete the same todo one at most is told it did, and then
\* the todo is gone for good.
DeletedOnce ==
    \A id \in Ids : deleted[id] \in {0, 1} /\ (deleted[id] = 1 => id \notin rows)

\* complete_todo says "marked done", and PATCH answers 200, only if the todo
\* was there when the UPDATE ran: not because one appeared before the read.
MarkedWasThere == phantoms = {}

\* A todo that list_todos shows with a priority it has not had no longer
\* exists: what is shown of the others is, or was, true.
ListedStillTrue == misread \cap rows = {}
=============================================================================
