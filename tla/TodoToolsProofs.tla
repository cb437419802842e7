-------------------------- MODULE TodoToolsProofs --------------------------
(***************************************************************************)
(* Proofs about TodoTools: type correctness, that a todo is deleted once   *)
(* and for good, that a todo that still exists is listed with a priority   *)
(* it has had and keeps it until set_priority changes it, and that the two *)
(* stores implement TodoBoard when callers pass only ids they have been    *)
(* shown, for any number of callers, todos and failures.                   *)
(*                                                                         *)
(* The argument for the last: AUTO_INCREMENT does not give an id twice, so *)
(* what is in the hash, or on its way there, belongs to ids up to `issued' *)
(* and the next todo finds nothing under its own. An HDEL is only sent for *)
(* a todo that is gone, and an HSET for a call of set_priority.            *)
(***************************************************************************)
EXTENDS TodoTools, TLAPS

Issued == 1..issued

(* What a call or a late statement has in hand was issued. *)
InFlight ==
    /\ \A c \in Callers : call[c].seen \subseteq Issued
    /\ \A c \in Callers : At(c, "hdel") => call[c].id \in Issued \ rows
    /\ \A st \in late : st.kind = "hdel" => st.id \in Issued \ rows

(* A todo deleted with a 204 is gone, and its id is not to come. *)
GoneOnce ==
    \A id \in Ids :
        \/ deleted[id] = 0
        \/ deleted[id] = 1 /\ id \in Issued \ rows

(* What list_todos is about to show, and has shown wrongly. *)
Shown ==
    /\ \A id \in rows : Priority(id) \in had[id]
    /\ misread \in SUBSET (Issued \ rows)

TInv == TypeOK /\ InFlight /\ GoneOnce /\ Shown

-----------------------------------------------------------------------------
LEMMA TInit == Init => TInv
<1> SUFFICES ASSUME Init PROVE TInv
  OBVIOUS
<1> USE ToolsAssumption DEF ToolsAssumption, Init, NoCall
<1>1. TypeOK
  BY DEF TypeOK, Call, Places, Ids, Priorities, Statements
<1>2. InFlight /\ GoneOnce /\ Shown
  BY DEF InFlight, GoneOnce, Shown, At, Ids
<1> QED
  BY <1>1, <1>2 DEF TInv

(* The two stores, and what any step leaves true of them. *)
DbInv ==
    /\ issued \in 0..MaxId
    /\ rows \in SUBSET Issued /\ done \in SUBSET rows
    /\ prio \in [Ids -> Priorities \cup {Unset}]
    /\ had \in [Ids -> SUBSET Priorities]
    /\ \A id \in rows : Priority(id) \in had[id]

GoneStays == Issued \subseteq Issued' /\ (Issued \ rows) \subseteq (Issued \ rows)'

LEMMA TInvDb == TInv => DbInv
BY DEF TInv, TypeOK, DbInv, Issued, Shown

LEMMA PriorityInRange ==
    ASSUME DbInv, NEW id \in Ids
    PROVE  Priority(id) \in Priorities
BY ToolsAssumption DEF ToolsAssumption, DbInv, Priority, Priorities

LEMMA InsertKeeps == ASSUME DbInv, InsertRow PROVE DbInv' /\ GoneStays
<1> USE ToolsAssumption DEF ToolsAssumption, DbInv, InsertRow, Issued, Ids
<1>1. issued' \in 1..MaxId /\ issued' \in Ids
  OBVIOUS
<1>2. Issued' = Issued \cup {issued'} /\ issued' \notin Issued
  OBVIOUS
<1>3. \A id \in Ids : Priority(id)' = Priority(id)
  BY DEF Priority
<1>4. had' \in [Ids -> SUBSET Priorities]
  BY <1>1, PriorityInRange
<1>5. \A id \in rows' : Priority(id)' \in had'[id]
  <2> TAKE id \in rows'
  <2>1. CASE id = issued'
    BY <2>1, <1>1, <1>3
  <2>2. CASE id \in rows
    BY <2>2, <1>2, <1>3
  <2> QED
    BY <2>1, <2>2
<1> QED
  BY <1>1, <1>2, <1>4, <1>5 DEF GoneStays

LEMMA UpdateKeeps ==
    ASSUME DbInv, NEW id \in Ids, NEW d \in BOOLEAN, UpdateRow(id, d)
    PROVE  DbInv' /\ GoneStays
BY DEF DbInv, UpdateRow, Issued, GoneStays, Priority

LEMMA DeleteKeeps ==
    ASSUME DbInv, NEW id \in Ids, DeleteRow(id)
    PROVE  DbInv' /\ GoneStays
BY DEF DbInv, DeleteRow, Issued, GoneStays, Priority

LEMMA SetKeeps ==
    ASSUME DbInv, NEW id \in Ids, NEW p \in Priorities, SetField(id, p)
    PROVE  DbInv' /\ GoneStays
<1> USE DEF DbInv, SetField, dbVars
<1>1. Issued' = Issued /\ rows' = rows
  BY DEF Issued
<1>2. had' \in [Ids -> SUBSET Priorities] /\ prio' \in [Ids -> Priorities \cup {Unset}]
  OBVIOUS
<1>3. rows \subseteq Ids
  BY ToolsAssumption DEF Issued, Ids, ToolsAssumption
<1>4. \A i \in rows : Priority(i)' \in had'[i]
  BY <1>3, ToolsAssumption DEF Priority, Priorities, ToolsAssumption
<1> QED
  BY <1>1, <1>2, <1>4 DEF GoneStays

LEMMA ClearKeeps ==
    ASSUME DbInv, NEW id \in Ids, ClearField(id)
    PROVE  DbInv' /\ GoneStays
<1> USE DEF DbInv, ClearField, dbVars
<1>1. Issued' = Issued /\ rows' = rows
  BY DEF Issued
<1>2. had' \in [Ids -> SUBSET Priorities] /\ prio' \in [Ids -> Priorities \cup {Unset}]
  BY ToolsAssumption DEF Priorities, ToolsAssumption
<1>3. rows \subseteq Ids
  BY ToolsAssumption DEF Issued, Ids, ToolsAssumption
<1>4. \A i \in rows : Priority(i)' \in had'[i]
  BY <1>3, ToolsAssumption DEF Priority, Priorities, ToolsAssumption
<1> QED
  BY <1>1, <1>2, <1>4 DEF GoneStays

LEMMA IdleKeeps == ASSUME DbInv, UNCHANGED <<dbVars, prio, had>> PROVE DbInv' /\ GoneStays
BY DEF DbInv, dbVars, Issued, GoneStays, Priority

LEMMA EffectKeeps ==
    ASSUME DbInv, NEW st \in Statements, Effect(st)
    PROVE  DbInv' /\ GoneStays
<1>1. CASE st.kind = "insert" /\ InsertRow
  BY <1>1, InsertKeeps
<1>2. CASE st.kind = "update" /\ UpdateRow(st.id, st.done)
  BY <1>2, UpdateKeeps DEF Statements
<1>3. CASE st.kind = "delete" /\ DeleteRow(st.id)
  BY <1>3, DeleteKeeps DEF Statements
<1>4. CASE st.kind = "hset" /\ SetField(st.id, st.priority)
  BY <1>4, SetKeeps DEF Statements
<1>5. CASE st.kind = "hdel" /\ ClearField(st.id)
  BY <1>5, ClearKeeps DEF Statements
<1> QED
  BY <1>1, <1>2, <1>3, <1>4, <1>5 DEF Effect

-----------------------------------------------------------------------------
(* What is in flight, and what was answered. *)
CallInv ==
    /\ call \in [Callers -> Call]
    /\ \A c \in Callers : call[c].seen \subseteq Issued
    /\ \A c \in Callers : At(c, "hdel") => call[c].id \in Issued \ rows

LateInv ==
    /\ late \in SUBSET Statements
    /\ \A st \in late : st.kind = "hdel" => st.id \in Issued \ rows

AnswerInv ==
    /\ misread \in SUBSET (Issued \ rows) /\ phantoms \in SUBSET Ids
    /\ deleted \in [Ids -> Nat] /\ GoneOnce

BoundInv == failures \in 0..MaxFailures /\ restarts \in 0..MaxRestarts

LEMMA IssuedIds == DbInv => Issued \subseteq Ids
BY ToolsAssumption DEF DbInv, Issued, Ids, ToolsAssumption

LEMMA TInvParts == TInv <=> DbInv /\ CallInv /\ LateInv /\ AnswerInv /\ BoundInv
<1>1. TInv => DbInv /\ CallInv /\ LateInv /\ AnswerInv /\ BoundInv
  BY TInvDb DEF TInv, TypeOK, InFlight, Shown, CallInv, LateInv, AnswerInv, BoundInv
<1>2. ASSUME DbInv, CallInv, LateInv, AnswerInv, BoundInv PROVE TInv
  BY <1>2, IssuedIds
     DEF TInv, TypeOK, InFlight, Shown, CallInv, LateInv, AnswerInv, BoundInv, DbInv, Issued
<1> QED
  BY <1>1, <1>2

LEMMA TInvPartsNext ==
    TInv' <=> DbInv' /\ CallInv' /\ LateInv' /\ AnswerInv' /\ BoundInv'
BY TInvParts, PTL

LEMMA NoCallIsCall == NoCall \in Call /\ NoCall.seen = {} /\ NoCall.at # "hdel"
BY ToolsAssumption DEF NoCall, Call, Places, Ids, Priorities, ToolsAssumption

(* A call moves on; what it has in hand was issued. *)
LEMMA CallMoves ==
    ASSUME CallInv, GoneStays, NEW c \in Callers, NEW r \in Call,
           call' = [call EXCEPT ![c] = r],
           r.seen \subseteq Issued',
           r.at = "hdel" => r.id \in (Issued \ rows)'
    PROVE  CallInv'
<1>1. \A d \in Callers : call'[d] = IF d = c THEN r ELSE call[d]
  BY DEF CallInv
<1>2. call' \in [Callers -> Call]
  BY DEF CallInv
<1>3. \A d \in Callers : call'[d].seen \subseteq Issued'
  BY <1>1 DEF CallInv, GoneStays
<1>4. \A d \in Callers : call'[d].at = "hdel" => call'[d].id \in (Issued \ rows)'
  BY <1>1 DEF CallInv, GoneStays, At
<1> QED
  BY <1>2, <1>3, <1>4 DEF CallInv, At

LEMMA CallEnds ==
    ASSUME CallInv, GoneStays, NEW c \in Callers, End(c)
    PROVE  CallInv'
BY CallMoves, NoCallIsCall DEF End

LEMMA CallsStay == ASSUME CallInv, GoneStays, UNCHANGED call PROVE CallInv'
BY DEF CallInv, GoneStays, At

LEMMA LateStays ==
    ASSUME LateInv, GoneStays, late' \subseteq late PROVE LateInv'
BY DEF LateInv, GoneStays

LEMMA LateGrows ==
    ASSUME LateInv, GoneStays, NEW st \in Statements,
           late' \in {late, late \cup {st}},
           st.kind = "hdel" => st.id \in (Issued \ rows)'
    PROVE  LateInv'
BY DEF LateInv, GoneStays

LEMMA AnswersStay ==
    ASSUME AnswerInv, GoneStays, UNCHANGED answers PROVE AnswerInv'
BY DEF AnswerInv, GoneStays, answers, GoneOnce

LEMMA KnownIds == ASSUME DbInv PROVE Known \subseteq Ids
BY ToolsAssumption DEF Known, Ids, DbInv, ToolsAssumption

-----------------------------------------------------------------------------
(* One lemma for each action. *)
LEMMA StepInsert ==
    ASSUME TInv, NEW c \in Callers, Insert(c) PROVE TInv'
<1> USE TInvParts
<1>1. DbInv' /\ GoneStays
  BY InsertKeeps DEF Insert
<1>2. CallInv'
  <2> DEFINE r == [NoCall EXCEPT !.id = issued', !.at = "readback"]
  <2>1. issued' \in Ids
    BY <1>1, ToolsAssumption DEF DbInv, Ids, ToolsAssumption
  <2>2. r \in Call /\ r.seen = {} /\ r.at # "hdel"
    BY <2>1, NoCallIsCall DEF Call, NoCall, Places
  <2> QED
    BY <1>1, <2>2, CallMoves DEF Insert, Start
<1>3. LateInv' /\ AnswerInv' /\ BoundInv'
  BY <1>1, LateStays, AnswersStay DEF Insert, BoundInv, boundVars
<1> QED
  BY <1>1, <1>2, <1>3, TInvPartsNext

LEMMA StepUpdate ==
    ASSUME TInv, NEW c \in Callers, NEW id \in Known, NEW d \in BOOLEAN, Update(c, id, d)
    PROVE  TInv'
<1> USE TInvParts
<1>1. id \in Ids
  BY KnownIds
<1>2. DbInv' /\ GoneStays
  BY <1>1, UpdateKeeps DEF Update
<1>3. CallInv'
  <2> DEFINE found == id \in rows
             r(at) == [NoCall EXCEPT !.id = id, !.at = at, !.found = found]
  <2>0. PICK place \in {"readback", "recheck"} : call' = [call EXCEPT ![c] = r(place)]
    BY DEF Update
  <2>2. found \in BOOLEAN /\ place \in Places \ {"hdel"}
    BY DEF Places
  <2> HIDE DEF found
  <2>3. r(place) \in Call /\ r(place).seen = {} /\ r(place).at # "hdel"
    BY <1>1, <2>2, NoCallIsCall DEF Call, NoCall, Places
  <2>4. r(place).seen \subseteq Issued'
    BY <2>3
  <2> HIDE DEF r
  <2> QED
    BY <1>2, <2>0, <2>3, <2>4, CallMoves
<1>4. LateInv' /\ AnswerInv' /\ BoundInv'
  BY <1>2, LateStays, AnswersStay DEF Update, BoundInv, boundVars
<1> QED
  BY <1>2, <1>3, <1>4, TInvPartsNext

LEMMA StepRecheck ==
    ASSUME TInv, NEW c \in Callers, Recheck(c) PROVE TInv'
<1> USE TInvParts
<1>1. DbInv' /\ GoneStays
  BY IdleKeeps DEF Recheck
<1>2. CallInv'
  <2>1. CASE Goto(c, "readback")
    <3> DEFINE r == [call[c] EXCEPT !.at = "readback"]
    <3>1. r \in Call /\ r.seen \subseteq Issued' /\ r.at # "hdel"
      BY <1>1 DEF CallInv, Call, Places, GoneStays
    <3>2. call' = [call EXCEPT ![c] = r]
      BY <2>1 DEF Goto
    <3> QED
      BY <1>1, <3>1, <3>2, CallMoves
  <2> QED
    BY <1>1, <2>1, CallEnds DEF Recheck
<1>3. LateInv' /\ AnswerInv' /\ BoundInv'
  BY <1>1, LateStays, AnswersStay DEF Recheck, BoundInv, boundVars
<1> QED
  BY <1>1, <1>2, <1>3, TInvPartsNext

LEMMA StepReadBack ==
    ASSUME TInv, NEW c \in Callers, ReadBack(c) PROVE TInv'
<1> USE TInvParts
<1>1. DbInv' /\ GoneStays
  BY IdleKeeps DEF ReadBack
<1>2. CallInv' /\ LateInv' /\ BoundInv'
  BY <1>1, CallEnds, LateStays DEF ReadBack, BoundInv, boundVars
<1>3. AnswerInv'
  BY <1>1 DEF AnswerInv, GoneStays, GoneOnce, ReadBack, CallInv, Call
<1> QED
  BY <1>1, <1>2, <1>3, TInvPartsNext

LEMMA StepDelete ==
    ASSUME TInv, NEW c \in Callers, NEW id \in Known, NEW tool \in BOOLEAN,
           Delete(c, id, tool)
    PROVE  TInv'
<1> USE TInvParts
<1>1. id \in Ids
  BY KnownIds
<1>2. DbInv' /\ GoneStays
  BY <1>1, DeleteKeeps DEF Delete
<1>3. id \in rows => id \in (Issued \ rows)'
  BY DEF Delete, DeleteRow, Issued, DbInv
<1>4. CallInv'
  <2>1. CASE id \in rows /\ Start(c, id, "hdel")
    <3> DEFINE r == [NoCall EXCEPT !.id = id, !.at = "hdel"]
    <3>1. r \in Call /\ r.seen = {} /\ r.id = id
      BY <1>1, NoCallIsCall DEF Call, NoCall, Places
    <3>2. call' = [call EXCEPT ![c] = r]
      BY <2>1 DEF Start
    <3> HIDE DEF r
    <3> QED
      BY <1>2, <1>3, <2>1, <3>1, <3>2, CallMoves
  <2> QED
    BY <1>2, <2>1, CallEnds DEF Delete
<1>5. AnswerInv'
  <2>1. CASE id \in rows
    <3>1. deleted[id] = 0 /\ deleted' = [deleted EXCEPT ![id] = 1]
      BY <1>1, <2>1 DEF Delete, AnswerInv, GoneOnce
    <3> QED
      BY <1>1, <1>2, <1>3, <2>1, <3>1 DEF Delete, AnswerInv, GoneOnce, GoneStays
  <2>2. CASE id \notin rows
    BY <1>2, <2>2, AnswersStay DEF Delete, answers
  <2> QED
    BY <2>1, <2>2
<1>6. LateInv' /\ BoundInv'
  BY <1>2, LateStays DEF Delete, BoundInv, boundVars
<1> QED
  BY <1>2, <1>4, <1>5, <1>6, TInvPartsNext

LEMMA SentKeeps ==
    ASSUME TInv, GoneStays, NEW st \in Statements, Sent(st),
           st.kind = "hdel" => st.id \in (Issued \ rows)'
    PROVE  LateInv' /\ BoundInv'
<1> USE TInvParts
<1>1. LateInv'
  BY LateGrows DEF Sent
<1>2. BoundInv'
  BY ToolsAssumption DEF Sent, BoundInv, boundVars, ToolsAssumption
<1> QED
  BY <1>1, <1>2

LEMMA StepClearPriority ==
    ASSUME TInv, NEW c \in Callers, ClearPriority(c) PROVE TInv'
<1> USE TInvParts
<1> DEFINE st == [kind |-> "hdel", id |-> call[c].id]
<1>1. call[c].id \in Ids /\ call[c].id \in Issued \ rows
  BY DEF ClearPriority, CallInv, Call
<1>2. DbInv' /\ GoneStays
  BY <1>1, ClearKeeps DEF ClearPriority
<1>3. CallInv' /\ AnswerInv'
  BY <1>2, CallEnds, AnswersStay DEF ClearPriority
<1>4. st \in Statements /\ st.id \in (Issued \ rows)'
  BY <1>1, <1>2 DEF Statements, GoneStays
<1>5. LateInv' /\ BoundInv'
  BY <1>2, <1>4, SentKeeps DEF ClearPriority
<1> QED
  BY <1>2, <1>3, <1>5, TInvPartsNext

LEMMA StepSetPriority ==
    ASSUME TInv, NEW c \in Callers, NEW id \in Known, NEW p \in 0..(Top + 1),
           SetPriority(c, id, p)
    PROVE  TInv'
<1> USE TInvParts
<1> DEFINE r == [NoCall EXCEPT !.id = id, !.priority = p, !.at = "hset"]
<1>1. id \in Ids /\ p \in Priorities
  BY KnownIds, ToolsAssumption DEF SetPriority, Priorities, ToolsAssumption
<1>2. DbInv' /\ GoneStays
  BY IdleKeeps DEF SetPriority
<1>3. r \in Call /\ r.seen = {} /\ r.at # "hdel"
  BY <1>1 DEF Call, NoCall, Places
<1>4. call' = [call EXCEPT ![c] = r]
  BY DEF SetPriority
<1> HIDE DEF r
<1>5. CallInv'
  BY <1>2, <1>3, <1>4, CallMoves
<1>6. LateInv' /\ AnswerInv' /\ BoundInv'
  BY <1>2, LateStays, AnswersStay DEF SetPriority, BoundInv, boundVars
<1> QED
  BY <1>2, <1>5, <1>6, TInvPartsNext

LEMMA SetOfIsStatement ==
    ASSUME CallInv, NEW c \in Callers
    PROVE  SetOf(c) \in Statements /\ SetOf(c).kind = "hset"
BY DEF CallInv, Call, SetOf, Statements

LEMMA StepStorePriority ==
    ASSUME TInv, NEW c \in Callers, StorePriority(c) PROVE TInv'
<1> USE TInvParts
<1>1. call[c].id \in Ids /\ call[c].priority \in Priorities
  BY DEF CallInv, Call
<1>2. DbInv' /\ GoneStays
  BY <1>1, SetKeeps DEF StorePriority
<1>3. CallInv' /\ AnswerInv'
  BY <1>2, CallEnds, AnswersStay DEF StorePriority
<1>4. LateInv' /\ BoundInv'
  BY <1>2, SetOfIsStatement, SentKeeps DEF StorePriority
<1> QED
  BY <1>2, <1>3, <1>4, TInvPartsNext

LEMMA StepFetchTodos ==
    ASSUME TInv, NEW c \in Callers, FetchTodos(c) PROVE TInv'
<1> USE TInvParts
<1> DEFINE r == [NoCall EXCEPT !.at = "merge", !.seen = rows]
<1>1. DbInv' /\ GoneStays
  BY IdleKeeps DEF FetchTodos
<1>2. r \in Call /\ r.seen = rows /\ r.at = "merge"
  BY NoCallIsCall, IssuedIds DEF Call, NoCall, Places, DbInv
<1>3. r.seen \subseteq Issued' /\ r.at # "hdel"
  BY <1>1, <1>2 DEF GoneStays, DbInv
<1>4. call' = [call EXCEPT ![c] = r]
  BY DEF FetchTodos
<1> HIDE DEF r
<1>5. CallInv'
  BY <1>1, <1>2, <1>3, <1>4, CallMoves
<1>6. LateInv' /\ AnswerInv' /\ BoundInv'
  BY <1>1, LateStays, AnswersStay DEF FetchTodos, BoundInv, boundVars
<1> QED
  BY <1>1, <1>5, <1>6, TInvPartsNext

LEMMA StepMerge ==
    ASSUME TInv, NEW c \in Callers, MergeWithPriority(c) PROVE TInv'
<1> USE TInvParts
<1>1. DbInv' /\ GoneStays
  BY IdleKeeps DEF MergeWithPriority
<1>2. CallInv' /\ LateInv' /\ BoundInv'
  BY <1>1, CallEnds, LateStays DEF MergeWithPriority, BoundInv, boundVars
<1>3. misread' \subseteq (Issued \ rows)
  BY DEF MergeWithPriority, AnswerInv, CallInv, DbInv
<1>4. AnswerInv'
  BY <1>1, <1>3 DEF MergeWithPriority, AnswerInv, GoneStays, GoneOnce
<1> QED
  BY <1>1, <1>2, <1>4, TInvPartsNext

LEMMA GiveUpKeeps ==
    ASSUME TInv, NEW st \in Statements, GiveUp(st),
           st.kind = "hdel" => st.id \in Issued \ rows
    PROVE  DbInv' /\ GoneStays /\ LateInv' /\ BoundInv' /\ AnswerInv'
<1> USE TInvParts
<1>1. DbInv' /\ GoneStays
  BY IdleKeeps DEF GiveUp
<1>2. st.kind = "hdel" => st.id \in (Issued \ rows)'
  BY <1>1 DEF GoneStays
<1>3. LateInv'
  BY <1>1, <1>2, LateGrows DEF GiveUp
<1>4. BoundInv' /\ AnswerInv'
  BY <1>1, AnswersStay, ToolsAssumption DEF GiveUp, BoundInv, ToolsAssumption
<1> QED
  BY <1>1, <1>3, <1>4

LEMMA StepFailFirst ==
    ASSUME TInv, NEW c \in Callers, NEW st \in Statements, FailFirst(c, st)
    PROVE  TInv'
BY TInvParts, GiveUpKeeps, CallEnds, TInvPartsNext DEF FailFirst

LEMMA StepFailField ==
    ASSUME TInv, NEW c \in Callers, FailField(c) PROVE TInv'
<1> USE TInvParts
<1> DEFINE st == [kind |-> "hdel", id |-> call[c].id]
<1>1. CASE At(c, "hset") /\ GiveUp(SetOf(c))
  BY <1>1, SetOfIsStatement, GiveUpKeeps, CallEnds, TInvPartsNext DEF FailField
<1>2. CASE At(c, "hdel") /\ GiveUp(st)
  <2>1. st \in Statements /\ st.id \in Issued \ rows
    BY <1>2 DEF Statements, CallInv, Call
  <2> HIDE DEF st
  <2> QED
    BY <1>2, <2>1, GiveUpKeeps, CallEnds, TInvPartsNext DEF FailField
<1> QED
  BY <1>1, <1>2 DEF FailField

LEMMA StepFailRead ==
    ASSUME TInv, NEW c \in Callers, FailRead(c) PROVE TInv'
<1> USE TInvParts
<1>1. DbInv' /\ GoneStays
  BY IdleKeeps DEF FailRead
<1>2. CallInv'
  <2>1. CASE Goto(c, "readback")
    <3> DEFINE r == [call[c] EXCEPT !.at = "readback"]
    <3>1. r \in Call /\ r.seen \subseteq Issued' /\ r.at # "hdel"
      BY <1>1 DEF CallInv, Call, Places, GoneStays
    <3>2. call' = [call EXCEPT ![c] = r]
      BY <2>1 DEF Goto
    <3> QED
      BY <1>1, <3>1, <3>2, CallMoves
  <2> QED
    BY <1>1, <2>1, CallEnds DEF FailRead
<1>3. LateInv' /\ AnswerInv' /\ BoundInv'
  BY <1>1, LateStays, AnswersStay, ToolsAssumption DEF FailRead, BoundInv, ToolsAssumption
<1> QED
  BY <1>1, <1>2, <1>3, TInvPartsNext

LEMMA StepTakeEffect ==
    ASSUME TInv, NEW st \in late, TakeEffect(st) PROVE TInv'
<1> USE TInvParts
<1>1. DbInv' /\ GoneStays
  BY EffectKeeps DEF TakeEffect, LateInv
<1> QED
  BY <1>1, CallsStay, LateStays, AnswersStay, TInvPartsNext
     DEF TakeEffect, BoundInv, boundVars

LEMMA StepRedisRestart == ASSUME TInv, RedisRestart PROVE TInv'
<1> USE TInvParts
<1>1. rows \subseteq Ids /\ Issued' = Issued /\ rows' = rows
  BY IssuedIds DEF RedisRestart, dbVars, Issued, DbInv
<1>2. DbInv'
  BY <1>1, ToolsAssumption
     DEF RedisRestart, dbVars, DbInv, Priority, Priorities, ToolsAssumption
<1>3. GoneStays
  BY <1>1 DEF GoneStays
<1> QED
  BY <1>2, <1>3, CallsStay, LateStays, AnswersStay, TInvPartsNext, ToolsAssumption
     DEF RedisRestart, BoundInv, ToolsAssumption

LEMMA TNext == TInv /\ [Next]_vars => TInv'
<1> SUFFICES ASSUME TInv, [Next]_vars PROVE TInv'
  OBVIOUS
<1>1. ASSUME NEW c \in Callers, Insert(c) PROVE TInv'
  BY <1>1, StepInsert
<1>2. ASSUME NEW c \in Callers, NEW id \in Known, NEW d \in BOOLEAN, Update(c, id, d)
      PROVE  TInv'
  BY <1>2, StepUpdate
<1>3. ASSUME NEW c \in Callers, NEW id \in Known, NEW tool \in BOOLEAN, Delete(c, id, tool)
      PROVE  TInv'
  BY <1>3, StepDelete
<1>4. ASSUME NEW c \in Callers, NEW id \in Known, NEW p \in 0..(Top + 1), SetPriority(c, id, p)
      PROVE  TInv'
  BY <1>4, StepSetPriority
<1>5. ASSUME NEW c \in Callers, Recheck(c) \/ ReadBack(c) PROVE TInv'
  BY <1>5, StepRecheck, StepReadBack
<1>6. ASSUME NEW c \in Callers, StorePriority(c) \/ ClearPriority(c) \/ FailField(c) PROVE TInv'
  BY <1>6, StepStorePriority, StepClearPriority, StepFailField
<1>7. ASSUME NEW c \in Callers, FetchTodos(c) \/ MergeWithPriority(c) PROVE TInv'
  BY <1>7, StepFetchTodos, StepMerge
<1>8. ASSUME NEW c \in Callers, NEW st \in Statements, FailFirst(c, st) PROVE TInv'
  BY <1>8, StepFailFirst
<1>9. ASSUME NEW c \in Callers, FailRead(c) PROVE TInv'
  BY <1>9, StepFailRead
<1>10. ASSUME NEW st \in late, TakeEffect(st) PROVE TInv'
  BY <1>10, StepTakeEffect
<1>11. CASE RedisRestart
  BY <1>11, StepRedisRestart
<1>12. CASE UNCHANGED vars
  <2>1. UNCHANGED <<dbVars, prio, had>> /\ UNCHANGED <<call, late, answers, boundVars>>
    BY <1>12 DEF vars
  <2>2. DbInv' /\ GoneStays
    BY <2>1, TInvParts, IdleKeeps
  <2> QED
    BY <2>1, <2>2, TInvParts, CallsStay, LateStays, AnswersStay, TInvPartsNext
       DEF BoundInv, boundVars
<1> QED
  BY <1>1, <1>2, <1>3, <1>4, <1>5, <1>6, <1>7, <1>8, <1>9, <1>10, <1>11, <1>12 DEF Next

LEMMA TInvAlways == Spec => []TInv
BY TInit, TNext, PTL DEF Spec

(* Every variable of the tools keeps its type. *)
THEOREM ToolsTypeCorrect == Spec => []TypeOK
BY TInvAlways, PTL DEF TInv

(* Of the DELETEs of a todo one at most is answered 204 (api/main.go:216-236), *)
(* and the todo does not come back.                                            *)
THEOREM TodoDeletedOnce == Spec => []DeletedOnce
<1>1. TInv => DeletedOnce
  BY DEF TInv, GoneOnce, DeletedOnce
<1> QED
  BY <1>1, TInvAlways, PTL

(* list_todos (tools.go:57-100) reads the priorities after the todos, and a    *)
(* todo that still exists is shown with a priority it has had.                 *)
THEOREM ListedIsTrue == Spec => []ListedStillTrue
<1>1. TInv => ListedStillTrue
  BY DEF TInv, Shown, ListedStillTrue
<1> QED
  BY <1>1, TInvAlways, PTL

-----------------------------------------------------------------------------
(* When callers pass only ids they have been shown, the hash and the calls *)
(* are about todos that were created.                                      *)
HashInv == \A id \in Ids : prio[id] # Unset => id <= issued

SentInv ==
    /\ \A c \in Callers : At(c, "hset") => call[c].id \in Issued
    /\ \A st \in late : st.kind = "hset" => st.id \in Issued

FoundInv ==
    /\ \A c \in Callers : ~call[c].found => call[c].id \in Issued \ rows
    /\ phantoms = {}

LEMMA KnownIssued ==
    ASSUME Guesses = {}, DbInv, NEW id \in Known
    PROVE  id \in Ids /\ id <= issued /\ id \in Issued
BY ToolsAssumption DEF Known, Issued, Ids, DbInv, ToolsAssumption

LEMMA GoneStaysNext == TInv /\ [Next]_vars => GoneStays
<1> SUFFICES ASSUME TInv, [Next]_vars PROVE GoneStays
  OBVIOUS
<1> USE TInvParts
<1>1. CASE UNCHANGED <<dbVars, prio, had>>
  BY <1>1, IdleKeeps
<1>2. CASE InsertRow
  BY <1>2, InsertKeeps
<1>3. ASSUME NEW c \in Callers, NEW id \in Known, NEW d \in BOOLEAN, Update(c, id, d)
      PROVE  GoneStays
  BY <1>3, UpdateKeeps, KnownIds DEF Update
<1>4. ASSUME NEW c \in Callers, NEW id \in Known, NEW tool \in BOOLEAN, Delete(c, id, tool)
      PROVE  GoneStays
  BY <1>4, DeleteKeeps, KnownIds DEF Delete
<1>5. CASE UNCHANGED dbVars
  BY <1>5 DEF GoneStays, Issued, dbVars
<1>6. ASSUME NEW st \in late, TakeEffect(st) PROVE GoneStays
  BY <1>6, EffectKeeps DEF TakeEffect, LateInv
<1>7. ASSUME NEW c \in Callers, Insert(c) PROVE GoneStays
  BY <1>7, <1>2 DEF Insert
<1>8. ASSUME NEW c \in Callers, NEW id \in Known, NEW p \in 0..(Top + 1), SetPriority(c, id, p)
      PROVE  GoneStays
  BY <1>8, <1>5 DEF SetPriority
<1>9. ASSUME NEW c \in Callers, Recheck(c) \/ ReadBack(c) \/ FetchTodos(c)
                                \/ MergeWithPriority(c) \/ FailRead(c)
      PROVE  GoneStays
  BY <1>9, <1>1 DEF Recheck, ReadBack, FetchTodos, MergeWithPriority, FailRead
<1>10. ASSUME NEW c \in Callers, StorePriority(c) \/ ClearPriority(c) \/ FailField(c)
       PROVE  GoneStays
  BY <1>10, <1>5 DEF StorePriority, SetField, ClearPriority, ClearField, FailField, GiveUp
<1>11. ASSUME NEW c \in Callers, NEW st \in Statements, FailFirst(c, st) PROVE GoneStays
  BY <1>11, <1>1 DEF FailFirst, GiveUp
<1>12. CASE RedisRestart \/ UNCHANGED vars
  BY <1>12, <1>5 DEF RedisRestart, vars
<1> QED
  BY <1>3, <1>4, <1>6, <1>7, <1>8, <1>9, <1>10, <1>11, <1>12 DEF Next

LEMMA IssuedGrows ==
    ASSUME TInv, [Next]_vars
    PROVE  issued \in Nat /\ issued' \in Nat /\ issued <= issued'
<1>1. DbInv /\ DbInv'
  BY TNext, TInvParts, TInvPartsNext
<1>2. Issued \subseteq Issued'
  BY GoneStaysNext DEF GoneStays
<1> QED
  BY <1>1, <1>2, ToolsAssumption DEF DbInv, Issued, ToolsAssumption

(* The effect of a statement on the hash. *)
LEMMA HashEffect ==
    ASSUME DbInv, HashInv, issued' \in Nat, issued <= issued',
           \/ prio' = prio
           \/ \E id \in Ids, p \in Priorities : id <= issued /\ SetField(id, p)
           \/ \E id \in Ids : ClearField(id)
           \/ prio' = [id \in Ids |-> Unset]
    PROVE  HashInv'
<1> USE ToolsAssumption DEF ToolsAssumption, DbInv, HashInv, Ids, SetField, ClearField
<1>1. CASE prio' = prio
  BY <1>1
<1>2. ASSUME NEW id \in Ids, NEW p \in Priorities, id <= issued, SetField(id, p)
      PROVE  HashInv'
  <2>1. \A i \in Ids : prio'[i] = IF i = id THEN p ELSE prio[i]
    BY <1>2
  <2> QED
    BY <2>1, <1>2
<1>3. ASSUME NEW id \in Ids, ClearField(id) PROVE HashInv'
  <2>1. \A i \in Ids : prio'[i] = IF i = id THEN Unset ELSE prio[i]
    BY <1>3
  <2> QED
    BY <2>1
<1>4. CASE prio' = [id \in Ids |-> Unset]
  BY <1>4
<1> QED
  BY <1>1, <1>2, <1>3, <1>4

(* What a step may do to the calls and to the statements on their way. *)
LEMMA SentGrows ==
    ASSUME LateInv, SentInv, GoneStays,
           \A d \in Callers : At(d, "hset")' =>
               \/ At(d, "hset") /\ call'[d].id = call[d].id
               \/ call'[d].id \in Issued,
           \A st \in late' \ late : st.kind = "hset" => st.id \in Issued
    PROVE  SentInv'
BY DEF SentInv, GoneStays

LEMMA HashNext ==
    ASSUME TInv, HashInv, SentInv, Guesses = {}, [Next]_vars
    PROVE  HashInv' /\ SentInv'
<1> USE TInvParts
<1>1. issued \in Nat /\ issued' \in Nat /\ issued <= issued'
  BY IssuedGrows
<1>2. GoneStays
  BY GoneStaysNext
<1> DEFINE CallsKept == \A d \in Callers : At(d, "hset")' =>
                             At(d, "hset") /\ call'[d].id = call[d].id
<1>3. CASE prio' = prio /\ late' \subseteq late /\ CallsKept
  BY <1>1, <1>2, <1>3, HashEffect, SentGrows
<1>4. ASSUME NEW c \in Callers, End(c) PROVE CallsKept
  BY <1>4 DEF End, NoCall, At, CallInv
<1>5. ASSUME NEW c \in Callers, Goto(c, "readback") PROVE CallsKept
  BY <1>5 DEF Goto, At, CallInv, Call
<1>6. ASSUME NEW c \in Callers, NEW id \in Known, NEW p \in 0..(Top + 1), SetPriority(c, id, p)
      PROVE  HashInv' /\ SentInv'
  <2>1. prio' = prio /\ late' = late /\ id \in Issued
    BY <1>6, KnownIssued DEF SetPriority
  <2>2. call'[c].id = id /\ \A d \in Callers \ {c} : call'[d] = call[d]
    BY <1>6 DEF SetPriority, CallInv, NoCall
  <2>3. SentInv'
    BY <1>2, <2>1, <2>2, SentGrows DEF At
  <2> QED
    BY <1>1, <2>1, <2>3, HashEffect
<1>7. ASSUME NEW c \in Callers, StorePriority(c) PROVE HashInv' /\ SentInv'
  <2>1. /\ call[c].id \in Ids /\ call[c].id \in Issued /\ call[c].priority \in Priorities
        /\ SetField(call[c].id, call[c].priority)
    BY <1>7 DEF StorePriority, SentInv, CallInv, Call
  <2>2. call[c].id <= issued
    BY <1>1, <2>1 DEF Issued
  <2>3. late' \subseteq late \cup {SetOf(c)} /\ SetOf(c).id \in Issued
    BY <1>7, <2>1 DEF StorePriority, Sent, SetOf
  <2>4. SentInv'
    BY <1>2, <1>4, <1>7, <2>3, SentGrows DEF StorePriority
  <2> QED
    BY <1>1, <2>1, <2>2, <2>4, HashEffect
<1>8. ASSUME NEW c \in Callers, ClearPriority(c) PROVE HashInv' /\ SentInv'
  <2> DEFINE st == [kind |-> "hdel", id |-> call[c].id]
  <2>1. call[c].id \in Ids /\ ClearField(call[c].id)
    BY <1>8 DEF ClearPriority, CallInv, Call
  <2>2. st.kind = "hdel" /\ late' \subseteq late \cup {st}
    BY <1>8 DEF ClearPriority, Sent
  <2> HIDE DEF st
  <2>3. SentInv'
    BY <1>2, <1>4, <1>8, <2>2, SentGrows DEF ClearPriority
  <2> QED
    BY <1>1, <2>1, <2>3, HashEffect
<1>9. ASSUME NEW c \in Callers, NEW st \in Statements, FailFirst(c, st)
      PROVE  HashInv' /\ SentInv'
  <2>1. prio' = prio /\ late' \subseteq late \cup {st} /\ st.kind # "hset" /\ End(c)
    BY <1>9 DEF FailFirst, GiveUp
  <2>2. SentInv'
    BY <1>2, <1>4, <2>1, SentGrows
  <2> QED
    BY <1>1, <2>1, <2>2, HashEffect
<1>10. ASSUME NEW c \in Callers, FailField(c) PROVE HashInv' /\ SentInv'
  <2>1. PICK st : /\ st \in {SetOf(c), [kind |-> "hdel", id |-> call[c].id]}
                  /\ st.kind = "hset" => At(c, "hset") /\ st.id = call[c].id
                  /\ GiveUp(st)
    BY <1>10 DEF FailField, SetOf
  <2>2. prio' = prio /\ late' \subseteq late \cup {st} /\ End(c)
    BY <1>10, <2>1 DEF FailField, GiveUp
  <2>3. SentInv'
    BY <1>2, <1>4, <2>1, <2>2, SentGrows DEF SentInv
  <2> QED
    BY <1>1, <2>2, <2>3, HashEffect
<1>11. ASSUME NEW st \in late, TakeEffect(st) PROVE HashInv' /\ SentInv'
  <2>1. SentInv'
    BY <1>2, <1>11, SentGrows DEF TakeEffect, At
  <2>2. st \in Statements /\ (st.kind = "hset" => st.id <= issued)
    BY <1>1, <1>11 DEF LateInv, SentInv, Issued
  <2>3. \/ prio' = prio
        \/ \E id \in Ids, p \in Priorities : id <= issued /\ SetField(id, p)
        \/ \E id \in Ids : ClearField(id)
    BY <1>11, <2>2 DEF TakeEffect, Effect, InsertRow, UpdateRow, DeleteRow, Statements
  <2> QED
    BY <1>1, <2>1, <2>3, HashEffect
<1>12. CASE RedisRestart
  <2>1. SentInv'
    BY <1>2, <1>12, SentGrows DEF RedisRestart, At
  <2> QED
    BY <1>1, <1>12, <2>1, HashEffect DEF RedisRestart
<1>13. ASSUME NEW c \in Callers, NEW id \in Known,
              \/ \E d \in BOOLEAN : Update(c, id, d)
              \/ \E tool \in BOOLEAN : Delete(c, id, tool)
       PROVE  HashInv' /\ SentInv'
  <2>1. CallsKept
    BY <1>4, <1>13 DEF Update, Delete, Start, NoCall, At, CallInv
  <2> QED
    BY <1>3, <1>13, <2>1 DEF Update, UpdateRow, Delete, DeleteRow
<1>14. ASSUME NEW c \in Callers, Insert(c) \/ FetchTodos(c) PROVE HashInv' /\ SentInv'
  <2>1. CallsKept
    BY <1>14 DEF Insert, FetchTodos, Start, NoCall, At, CallInv
  <2> QED
    BY <1>3, <1>14, <2>1 DEF Insert, InsertRow, FetchTodos
<1>15. ASSUME NEW c \in Callers,
              Recheck(c) \/ ReadBack(c) \/ MergeWithPriority(c) \/ FailRead(c)
       PROVE  HashInv' /\ SentInv'
  <2>1. CallsKept
    BY <1>4, <1>5, <1>15 DEF Recheck, ReadBack, MergeWithPriority, FailRead
  <2> QED
    BY <1>3, <1>15, <2>1 DEF Recheck, ReadBack, MergeWithPriority, FailRead
<1>16. CASE UNCHANGED vars
  BY <1>3, <1>16 DEF vars, At
<1> QED
  BY <1>6, <1>7, <1>8, <1>9, <1>10, <1>11, <1>12, <1>13, <1>14, <1>15, <1>16 DEF Next

LEMMA FoundNext ==
    ASSUME TInv, FoundInv, Guesses = {}, [Next]_vars
    PROVE  FoundInv'
<1> USE TInvParts
<1>1. GoneStays
  BY GoneStaysNext
<1>2. CASE /\ UNCHANGED phantoms
           /\ \A c \in Callers : ~call'[c].found => ~call[c].found /\ call'[c].id = call[c].id
  BY <1>1, <1>2 DEF FoundInv, GoneStays
<1>3. CASE UNCHANGED <<call, phantoms>>
  BY <1>2, <1>3
<1>4. ASSUME NEW c \in Callers, End(c) \/ Goto(c, "readback")
      PROVE  \A d \in Callers :
                ~call'[d].found => ~call[d].found /\ call'[d].id = call[d].id
  BY <1>4 DEF End, Goto, NoCall, CallInv, Call
<1>5. ASSUME NEW c \in Callers, NEW id \in Known, NEW d \in BOOLEAN, Update(c, id, d)
      PROVE  FoundInv'
  <2>1. id \in Issued
    BY <1>5, KnownIssued DEF Update
  <2>2. ~call'[c].found => call'[c].id = id /\ id \notin rows
    BY <1>5 DEF Update, NoCall, CallInv
  <2>3. \A e \in Callers : e # c => call'[e] = call[e]
    BY <1>5 DEF Update, CallInv
  <2>4. UNCHANGED phantoms
    BY <1>5 DEF Update, answers
  <2> QED
    BY <1>1, <2>1, <2>2, <2>3, <2>4 DEF FoundInv, GoneStays
<1>6. ASSUME NEW c \in Callers, NEW id \in Known, NEW tool \in BOOLEAN, Delete(c, id, tool)
      PROVE  FoundInv'
  <2>1. \A d \in Callers : ~call'[d].found => ~call[d].found /\ call'[d].id = call[d].id
    BY <1>4, <1>6 DEF Delete, Start, NoCall, CallInv
  <2> QED
    BY <1>2, <1>6, <2>1 DEF Delete
<1>7. ASSUME NEW c \in Callers,
             \/ Insert(c) \/ FetchTodos(c)
             \/ \E id \in Known, p \in 0..(Top + 1) : SetPriority(c, id, p)
      PROVE  FoundInv'
  <2>1. \A d \in Callers : ~call'[d].found => ~call[d].found /\ call'[d].id = call[d].id
    BY <1>7 DEF Insert, FetchTodos, SetPriority, Start, NoCall, CallInv
  <2> QED
    BY <1>2, <1>7, <2>1 DEF Insert, FetchTodos, SetPriority, answers
<1>8. ASSUME NEW c \in Callers, Recheck(c) \/ FailRead(c) PROVE FoundInv'
  BY <1>2, <1>4, <1>8 DEF Recheck, FailRead, answers
<1>9. ASSUME NEW c \in Callers, ReadBack(c) PROVE FoundInv'
  <2>1. UNCHANGED phantoms
    BY <1>9 DEF ReadBack, FoundInv
  <2> QED
    BY <1>2, <1>4, <1>9, <2>1 DEF ReadBack
<1>10. ASSUME NEW c \in Callers,
              \/ MergeWithPriority(c) \/ StorePriority(c) \/ ClearPriority(c) \/ FailField(c)
              \/ \E st \in Statements : FailFirst(c, st)
       PROVE  FoundInv'
  <2>1. End(c) /\ UNCHANGED phantoms
    BY <1>10 DEF MergeWithPriority, StorePriority, ClearPriority, FailField, FailFirst,
                 GiveUp, answers
  <2> QED
    BY <1>2, <1>4, <2>1
<1>11. ASSUME NEW st \in late, TakeEffect(st) PROVE FoundInv'
  BY <1>3, <1>11 DEF TakeEffect, answers
<1>12. CASE RedisRestart \/ UNCHANGED vars
  BY <1>3, <1>12 DEF RedisRestart, vars, answers
<1> QED
  BY <1>5, <1>6, <1>7, <1>8, <1>9, <1>10, <1>11, <1>12 DEF Next

(* The invariant of a system whose callers do not guess ids. *)
KInv == TInv /\ HashInv /\ SentInv /\ FoundInv

LEMMA KInvAlways == Guesses = {} => (Spec => []KInv)
<1> SUFFICES ASSUME Guesses = {} PROVE Spec => []KInv
  OBVIOUS
<1>1. Init => KInv
  BY TInit DEF Init, KInv, HashInv, SentInv, FoundInv, NoCall, At
<1>2. KInv /\ [Next]_vars => KInv'
  BY TNext, HashNext, FoundNext DEF KInv
<1> QED
  BY <1>1, <1>2, PTL DEF Spec

(* PATCH /api/todos/{id} (api/main.go:158-214) reads the row back after the    *)
(* UPDATE, up to twice, and does not answer 200 for a todo that was not there  *)
(* when the UPDATE ran: an id is not given again, so none can appear.          *)
THEOREM MarkedOnlyIfThere == Guesses = {} => (Spec => []MarkedWasThere)
<1> SUFFICES ASSUME Guesses = {} PROVE Spec => []MarkedWasThere
  OBVIOUS
<1>1. KInv => MarkedWasThere
  BY DEF KInv, FoundInv, MarkedWasThere
<1> QED
  BY <1>1, KInvAlways, PTL

-----------------------------------------------------------------------------
(* The two stores as one board. *)
Entry(id) == [done |-> id \in done, priority |-> Priority(id)]
TheBoard  == [id \in rows |-> Entry(id)]

(* What is asked of the board is read off the calls and the statements on  *)
(* their way.                                                              *)
LEMMA AskedIs ==
    ASSUME NEW id, NEW q
    PROVE  <<id, q>> \in Asked <=>
             \/ \E c \in Callers : At(c, "hset") /\ call[c].id = id /\ call[c].priority = q
             \/ \E st \in late : st.kind = "hset" /\ st.id = id /\ st.priority = q
BY DEF Asked

LEMMA AskedIsNext ==
    ASSUME NEW id, NEW q
    PROVE  <<id, q>> \in Asked' <=>
             \/ \E c \in Callers : At(c, "hset")' /\ call'[c].id = id /\ call'[c].priority = q
             \/ \E st \in late' : st.kind = "hset" /\ st.id = id /\ st.priority = q
BY DEF Asked

LEMMA AskedArePairs ==
    /\ \A a \in Asked : a = <<a[1], a[2]>>
    /\ \A a \in Asked' : a = <<a[1], a[2]>>
BY DEF Asked

SameCall(c) == (At(c, "hset")' <=> At(c, "hset")) /\ (At(c, "hset") => call'[c] = call[c])
SameSent(st) == st.kind = "hset" => (st \in late' <=> st \in late)

LEMMA AskedSame ==
    ASSUME \A c \in Callers : SameCall(c), \A st \in late \cup late' : SameSent(st)
    PROVE  Asked' = Asked
<1>1. ASSUME NEW id, NEW q PROVE <<id, q>> \in Asked' <=> <<id, q>> \in Asked
  <2>1. (\E c \in Callers : At(c, "hset")' /\ call'[c].id = id /\ call'[c].priority = q)
        <=> \E c \in Callers : At(c, "hset") /\ call[c].id = id /\ call[c].priority = q
    BY DEF SameCall
  <2>2. (\E st \in late' : st.kind = "hset" /\ st.id = id /\ st.priority = q)
        <=> \E st \in late : st.kind = "hset" /\ st.id = id /\ st.priority = q
    BY DEF SameSent
  <2> QED
    BY <2>1, <2>2, AskedIs, AskedIsNext
<1> QED
  BY <1>1, AskedArePairs

(* A call of set_priority begins. *)
LEMMA AskedMore ==
    ASSUME CallInv, NEW c \in Callers, NEW id \in Known, NEW p \in 0..(Top + 1),
           SetPriority(c, id, p)
    PROVE  Asked' = Asked \cup {<<id, p>>}
<1>1. /\ call'[c].at = "hset" /\ call'[c].id = id /\ call'[c].priority = p
      /\ call[c].at = "idle" /\ late' = late
      /\ \A d \in Callers \ {c} : call'[d] = call[d]
  BY DEF SetPriority, CallInv, At, NoCall
<1>2. ASSUME NEW i, NEW q
      PROVE  <<i, q>> \in Asked' <=> <<i, q>> \in Asked \/ (i = id /\ q = p)
  <2>1. (\E d \in Callers : At(d, "hset")' /\ call'[d].id = i /\ call'[d].priority = q)
        <=> \/ \E d \in Callers : At(d, "hset") /\ call[d].id = i /\ call[d].priority = q
            \/ i = id /\ q = p
    BY <1>1 DEF At
  <2> QED
    BY <1>1, <2>1, AskedIs, AskedIsNext
<1> QED
  BY <1>2, AskedArePairs

(* One ends, or a copy of it does: the others ask what they asked. *)
LEMMA AskedLess ==
    ASSUME NEW id, NEW p,
           \A c \in Callers : \/ SameCall(c)
                              \/ /\ At(c, "hset") /\ call[c].id = id /\ call[c].priority = p
                                 /\ ~At(c, "hset")',
           \A st \in late \cup late' : \/ SameSent(st)
                                       \/ st.kind = "hset" /\ st.id = id /\ st.priority = p,
           <<id, p>> \in Asked
    PROVE  Asked' \in {Asked, Asked \ {<<id, p>>}}
<1>1. ASSUME NEW i, NEW q, <<i, q>> # <<id, p>>
      PROVE  <<i, q>> \in Asked' <=> <<i, q>> \in Asked
  <2>0. i # id \/ q # p
    BY <1>1
  <2>1. (\E c \in Callers : At(c, "hset")' /\ call'[c].id = i /\ call'[c].priority = q)
        <=> \E c \in Callers : At(c, "hset") /\ call[c].id = i /\ call[c].priority = q
    BY <2>0 DEF SameCall
  <2>2. (\E st \in late' : st.kind = "hset" /\ st.id = i /\ st.priority = q)
        <=> \E st \in late : st.kind = "hset" /\ st.id = i /\ st.priority = q
    BY <2>0 DEF SameSent
  <2> QED
    BY <2>1, <2>2, AskedIs, AskedIsNext
<1>2. CASE <<id, p>> \in Asked'
  <2>1. \A a : a \in Asked' <=> a \in Asked
    BY <1>1, <1>2, AskedArePairs
  <2> QED
    BY <2>1
<1>3. CASE <<id, p>> \notin Asked'
  <2>1. \A a : a \in Asked' <=> a \in Asked /\ a # <<id, p>>
    BY <1>1, <1>3, AskedArePairs
  <2> QED
    BY <2>1
<1> QED
  BY <1>2, <1>3

(* An HSET a call makes or gives up, and one that was on its way. *)
LEMMA StoreAsked ==
    ASSUME CallInv, NEW c \in Callers, At(c, "hset"), End(c), late' \subseteq late \cup {SetOf(c)},
           late \subseteq late'
    PROVE  /\ <<call[c].id, call[c].priority>> \in Asked
           /\ Asked' \in {Asked, Asked \ {<<call[c].id, call[c].priority>>}}
<1>1. <<call[c].id, call[c].priority>> \in Asked
  BY AskedIs
<1>2. \A d \in Callers : \/ SameCall(d)
                         \/ d = c /\ ~At(c, "hset")'
  BY DEF SameCall, At, End, NoCall, CallInv
<1>3. \A st \in late \cup late' : SameSent(st) \/ st = SetOf(c)
  BY DEF SameSent
<1>4. /\ SetOf(c).kind = "hset" /\ SetOf(c).id = call[c].id
      /\ SetOf(c).priority = call[c].priority
  BY DEF SetOf
<1> QED
  BY <1>1, <1>2, <1>3, <1>4, AskedLess

LEMMA LateAsked ==
    ASSUME NEW st \in late, st.kind = "hset", late' = late \ {st}, call' = call
    PROVE  /\ <<st.id, st.priority>> \in Asked
           /\ Asked' \in {Asked, Asked \ {<<st.id, st.priority>>}}
<1>1. <<st.id, st.priority>> \in Asked
  BY AskedIs
<1>2. \A c \in Callers : SameCall(c)
  BY DEF SameCall, At
<1>3. \A s \in late \cup late' : SameSent(s) \/ s = st
  BY DEF SameSent
<1> QED
  BY <1>1, <1>2, <1>3, AskedLess

(* Every other step leaves what is asked as it is. *)
LEMMA CallEndsAsked ==
    ASSUME CallInv, NEW c \in Callers, ~At(c, "hset"), NEW r, r.at # "hset",
           call' = [call EXCEPT ![c] = r]
    PROVE  \A d \in Callers : SameCall(d)
BY DEF SameCall, At, CallInv

LEMMA NothingAsked ==
    ASSUME TInv, [Next]_vars,
           \A c \in Callers : /\ ~StorePriority(c)
                              /\ ~(At(c, "hset") /\ FailField(c))
                              /\ \A id \in Known, p \in 0..(Top + 1) : ~SetPriority(c, id, p),
           \A st \in late : st.kind = "hset" => ~TakeEffect(st)
    PROVE  Asked' = Asked
<1> USE TInvParts
<1>1. ASSUME NEW c \in Callers, ~At(c, "hset"), NEW r, r.at # "hset",
             call' = [call EXCEPT ![c] = r],
             \A st \in late \cup late' : SameSent(st)
      PROVE  Asked' = Asked
  BY <1>1, CallEndsAsked, AskedSame
<1>2. ASSUME NEW c \in Callers, ~At(c, "hset"), End(c), \A st \in late \cup late' : SameSent(st)
      PROVE  Asked' = Asked
  <2>1. NoCall.at # "hset"
    BY DEF NoCall
  <2> QED
    BY <1>1, <1>2, <2>1 DEF End
<1>3. ASSUME NEW c \in Callers, ~At(c, "hset"), Goto(c, "readback"),
             \A st \in late \cup late' : SameSent(st)
      PROVE  Asked' = Asked
  <2>1. call' = [call EXCEPT ![c] = [call[c] EXCEPT !.at = "readback"]]
    BY <1>3 DEF Goto
  <2>2. [call[c] EXCEPT !.at = "readback"].at # "hset"
    BY DEF CallInv, Call
  <2> QED
    BY <1>1, <1>3, <2>1, <2>2
<1>4. CASE late' = late
  <2>0. \A st \in late \cup late' : SameSent(st)
    BY <1>4 DEF SameSent
  <2>1. ASSUME NEW c \in Callers, Insert(c) PROVE Asked' = Asked
    BY <1>1, <2>0, <2>1 DEF Insert, At, Start, NoCall
  <2>2. ASSUME NEW c \in Callers, NEW id \in Known, NEW d \in BOOLEAN, Update(c, id, d)
        PROVE  Asked' = Asked
    <3>1. PICK place \in {"readback", "recheck"} :
              call' = [call EXCEPT ![c] = [NoCall EXCEPT !.id = id, !.at = place,
                                             !.found = id \in rows]]
      BY <2>2 DEF Update
    <3>2. [NoCall EXCEPT !.id = id, !.at = place, !.found = id \in rows].at # "hset"
      BY DEF NoCall
    <3>3. ~At(c, "hset")
      BY <2>2 DEF Update, At
    <3> QED
      BY <1>1, <2>0, <3>1, <3>2, <3>3
  <2>3. ASSUME NEW c \in Callers, NEW id \in Known, NEW tool \in BOOLEAN, Delete(c, id, tool)
        PROVE  Asked' = Asked
    <3>1. ~At(c, "hset") /\ (End(c) \/ Start(c, id, "hdel"))
      BY <2>3 DEF Delete, At
    <3> QED
      BY <1>1, <1>2, <2>0, <3>1 DEF Start, NoCall
  <2>4. ASSUME NEW c \in Callers, Recheck(c) \/ ReadBack(c) \/ MergeWithPriority(c) \/ FailRead(c)
        PROVE  Asked' = Asked
    <3>1. ~At(c, "hset") /\ (End(c) \/ Goto(c, "readback"))
      BY <2>4 DEF Recheck, ReadBack, MergeWithPriority, FailRead, At
    <3> QED
      BY <1>2, <1>3, <2>0, <3>1
  <2>5. ASSUME NEW c \in Callers, FetchTodos(c) PROVE Asked' = Asked
    <3>1. ~At(c, "hset") /\ [NoCall EXCEPT !.at = "merge", !.seen = rows].at # "hset"
      BY <2>5 DEF FetchTodos, At, NoCall
    <3> QED
      BY <1>1, <2>0, <2>5, <3>1 DEF FetchTodos
  <2>6. CASE UNCHANGED call
    BY <2>0, <2>6, AskedSame DEF SameCall, At
  <2>7. ASSUME NEW c \in Callers,
               \/ ClearPriority(c) \/ FailField(c)
               \/ \E st \in Statements : FailFirst(c, st)
        PROVE  Asked' = Asked
    <3>1. ~At(c, "hset") /\ End(c)
      BY <2>7 DEF ClearPriority, FailField, FailFirst, At
    <3> QED
      BY <1>2, <2>0, <3>1
  <2>8. ASSUME NEW st \in late, TakeEffect(st) PROVE Asked' = Asked
    BY <2>6, <2>8 DEF TakeEffect
  <2>9. CASE RedisRestart \/ UNCHANGED vars
    BY <2>6, <2>9 DEF RedisRestart, vars
  <2> QED
    BY <2>1, <2>2, <2>3, <2>4, <2>5, <2>7, <2>8, <2>9 DEF Next
<1>5. ASSUME NEW c \in Callers, ClearPriority(c) \/ FailField(c) PROVE Asked' = Asked
  <2>1. /\ ~At(c, "hset") /\ End(c)
        /\ late' \in {late, late \cup {[kind |-> "hdel", id |-> call[c].id]}}
    BY <1>5 DEF ClearPriority, FailField, Sent, GiveUp, At
  <2>2. \A st \in late \cup late' : SameSent(st)
    BY <2>1 DEF SameSent
  <2> QED
    BY <1>2, <2>1, <2>2
<1>6. ASSUME NEW c \in Callers, NEW st \in Statements, FailFirst(c, st) PROVE Asked' = Asked
  <2>1. ~At(c, "hset") /\ End(c) /\ st.kind # "hset" /\ late' \in {late, late \cup {st}}
    BY <1>6 DEF FailFirst, GiveUp, At
  <2>2. \A s \in late \cup late' : SameSent(s)
    BY <2>1 DEF SameSent
  <2> QED
    BY <1>2, <2>1, <2>2
<1>7. ASSUME NEW st \in late, TakeEffect(st) PROVE Asked' = Asked
  <2>1. st.kind # "hset" /\ late' = late \ {st} /\ call' = call
    BY <1>7 DEF TakeEffect
  <2>2. \A s \in late \cup late' : SameSent(s)
    BY <2>1 DEF SameSent
  <2>3. \A c \in Callers : SameCall(c)
    BY <2>1 DEF SameCall, At
  <2> QED
    BY <2>2, <2>3, AskedSame
<1>8. CASE late' # late
  BY <1>5, <1>6, <1>7, <1>8 DEF Next, Insert, Update, Delete, Recheck, ReadBack, FetchTodos,
     MergeWithPriority, FailRead, RedisRestart, vars
<1> QED
  BY <1>4, <1>8

(* The board changes at one id at most. *)
LEMMA BoardWith ==
    ASSUME NEW n, NEW t, rows' = rows \cup {n}, Entry(n)' = t,
           \A i \in rows : i # n => Entry(i)' = Entry(i)
    PROVE  TheBoard' = [i \in rows \cup {n} |-> IF i = n THEN t ELSE TheBoard[i]]
<1>1. \A i \in rows \cup {n} : Entry(i)' = IF i = n THEN t ELSE TheBoard[i]
  BY DEF TheBoard
<1> QED
  BY <1>1 DEF TheBoard

LEMMA BoardSame ==
    ASSUME rows' = rows, \A i \in rows : Entry(i)' = Entry(i)
    PROVE  TheBoard' = TheBoard
BY DEF TheBoard

LEMMA BoardAdd ==
    ASSUME KInv, InsertRow, Asked' = Asked, NEW n, n = issued'
    PROVE  n \in 1..MaxId /\ Board!Add(n)
<1> DEFINE t == [done |-> FALSE, priority |-> 0]
<1>1. DbInv /\ n = issued + 1 /\ n \in 1..MaxId /\ n \in Ids
  BY TInvParts, ToolsAssumption DEF KInv, DbInv, InsertRow, Ids, ToolsAssumption
<1>2. n \notin Issued /\ Issued' = Issued \cup {n}
  BY <1>1 DEF Issued, DbInv
<1>3. n \notin rows /\ n \notin done
  BY <1>1, <1>2 DEF DbInv
<1>4. Priority(n) = 0
  BY <1>1 DEF KInv, HashInv, Priority, DbInv
<1>5. done' = done /\ prio' = prio /\ rows' = rows \cup {n}
  BY DEF InsertRow
<1>6. Entry(n)' = t
  <2>1. (n \in done') = FALSE /\ Priority(n)' = 0
    BY <1>3, <1>4, <1>5 DEF Priority
  <2> QED
    BY <2>1 DEF Entry
<1>7. \A i \in rows : Entry(i)' = Entry(i)
  BY <1>5 DEF Entry, Priority
<1>8. TheBoard' = [i \in rows \cup {n} |-> IF i = n THEN t ELSE TheBoard[i]]
  <2> HIDE DEF t
  <2>1. \A i \in rows : TheBoard[i] = Entry(i)
    BY DEF TheBoard
  <2>2. \A i \in rows \cup {n} : Entry(i)' = IF i = n THEN t ELSE TheBoard[i]
    BY <1>6, <1>7, <2>1
  <2> QED
    BY <1>5, <2>2 DEF TheBoard
<1> QED
  BY <1>1, <1>2, <1>8 DEF Board!Add, Board!With, TheBoard, Entry, Issued

LEMMA BoardMark ==
    ASSUME KInv, NEW id \in Ids, NEW d \in BOOLEAN, UpdateRow(id, d), Asked' = Asked
    PROVE  Board!Mark(id, d) \/ UNCHANGED Board!vars
<1>1. rows' = rows /\ issued' = issued /\ prio' = prio
  BY DEF UpdateRow
<1>2. done \subseteq rows
  BY TInvParts DEF KInv, DbInv
<1>3. \A i : i # id => Entry(i)' = Entry(i)
  <2>1. \A i : i # id => (i \in done') = (i \in done)
    BY DEF UpdateRow
  <2> QED
    BY <1>1, <2>1 DEF Entry, Priority
<1>4. CASE id \in rows
  <2> DEFINE t == [TheBoard[id] EXCEPT !.done = d]
  <2>1. (id \in done') = d
    BY <1>4 DEF UpdateRow
  <2>2. Entry(id)' = t
    BY <1>1, <1>4, <2>1 DEF Entry, Priority, TheBoard
  <2>3. TheBoard' = [i \in rows \cup {id} |-> IF i = id THEN t ELSE TheBoard[i]]
    BY <1>1, <1>3, <1>4, <2>2, BoardWith
  <2> QED
    BY <1>1, <1>4, <2>3 DEF Board!Mark, Board!With, TheBoard, Entry
<1>5. CASE id \notin rows
  <2>1. done' = done
    BY <1>2, <1>5 DEF UpdateRow
  <2> QED
    BY <1>1, <2>1 DEF Board!vars, Priority
<1> QED
  BY <1>4, <1>5

LEMMA BoardPrioritise ==
    ASSUME NEW id \in Ids, NEW p \in Priorities, SetField(id, p), DbInv,
           <<id, p>> \in Asked, Asked' \in {Asked, Asked \ {<<id, p>>}}
    PROVE  Board!Prioritise(id, p) \/ Board!Drop(id, p) \/ UNCHANGED Board!vars
<1>1. rows' = rows /\ issued' = issued /\ done' = done
  BY DEF SetField, dbVars
<1>2. \A i \in Ids : prio'[i] = IF i = id THEN p ELSE prio[i]
  BY DEF SetField, DbInv
<1>3. rows \subseteq Ids
  BY IssuedIds DEF DbInv
<1>4. \A i \in rows : i # id => Entry(i)' = Entry(i)
  BY <1>1, <1>2, <1>3 DEF Entry, Priority
<1>5. CASE id \in rows
  <2> DEFINE t == [TheBoard[id] EXCEPT !.priority = p]
  <2>1. Priority(id)' = p
    BY <1>2, ToolsAssumption DEF Priority, Priorities, ToolsAssumption
  <2>2. Entry(id)' = t
    BY <1>1, <1>5, <2>1 DEF Entry, TheBoard
  <2>3. TheBoard' = [i \in rows \cup {id} |-> IF i = id THEN t ELSE TheBoard[i]]
    <3> HIDE DEF t
    <3> QED
      BY <1>1, <1>4, <1>5, <2>2, BoardWith, SMTT(40)
  <2> QED
    BY <1>1, <1>5, <2>3 DEF Board!Prioritise, Board!With, TheBoard, Entry
<1>6. CASE id \notin rows
  <2>1. TheBoard' = TheBoard
    BY <1>1, <1>4, <1>6, BoardSame
  <2> QED
    BY <1>1, <2>1 DEF Board!vars, Board!Drop, TheBoard, Entry
<1> QED
  BY <1>5, <1>6

LEMMA BoardRemove ==
    ASSUME NEW id \in Ids, DeleteRow(id), DbInv, Asked' = Asked
    PROVE  Board!Remove(id) \/ UNCHANGED Board!vars
<1>1. rows' = rows \ {id} /\ issued' = issued /\ prio' = prio /\ done' = done \ {id}
  BY DEF DeleteRow
<1>2. \A i : i # id => Entry(i)' = Entry(i)
  <2>1. \A i : i # id => (i \in done') = (i \in done)
    BY <1>1
  <2> QED
    BY <1>1, <2>1 DEF Entry, Priority
<1>3. TheBoard' = [i \in rows \ {id} |-> TheBoard[i]]
  <2>1. \A i \in rows \ {id} : Entry(i)' = TheBoard[i]
    BY <1>2 DEF TheBoard
  <2> QED
    BY <1>1, <2>1 DEF TheBoard
<1>4. CASE id \in rows
  BY <1>1, <1>3, <1>4 DEF Board!Remove, TheBoard, Entry
<1>5. CASE id \notin rows
  <2>1. rows' = rows /\ TheBoard' = TheBoard
    BY <1>1, <1>2, <1>5, BoardSame
  <2> QED
    BY <1>1, <2>1 DEF Board!vars, TheBoard, Entry
<1> QED
  BY <1>4, <1>5

(* The HDEL of a todo that is gone is not seen. *)
LEMMA BoardClear ==
    ASSUME NEW id \in Ids, ClearField(id), DbInv, id \notin rows, Asked' = Asked
    PROVE  UNCHANGED Board!vars
<1>1. rows' = rows /\ issued' = issued /\ done' = done
  BY DEF ClearField, dbVars
<1>2. \A i \in rows : prio'[i] = prio[i]
  BY IssuedIds DEF ClearField, DbInv
<1>3. TheBoard' = TheBoard
  BY <1>1, <1>2, BoardSame DEF Entry, Priority
<1> QED
  BY <1>1, <1>3 DEF Board!vars, TheBoard, Entry

LEMMA BoardForget == ASSUME RedisRestart, DbInv, Asked' = Asked PROVE Board!Forget
<1>1. rows' = rows /\ issued' = issued /\ done' = done
  BY DEF RedisRestart, dbVars
<1>2. \A i \in rows : Priority(i)' = 0
  BY IssuedIds DEF RedisRestart, Priority, DbInv
<1>3. \A i \in rows : Entry(i)' = [TheBoard[i] EXCEPT !.priority = 0]
  BY <1>1, <1>2 DEF Entry, TheBoard
<1>4. TheBoard' = [i \in rows |-> [TheBoard[i] EXCEPT !.priority = 0]]
  BY <1>1, <1>3 DEF TheBoard
<1> QED
  BY <1>1, <1>4 DEF Board!Forget, TheBoard, Entry

(* A step of the board at a todo, as one of its Next. *)
LEMMA BoardNext ==
    ASSUME DbInv, NEW id
    PROVE  /\ \A d \in BOOLEAN : Board!Mark(id, d) => Board!Next
           /\ Board!Remove(id) => Board!Next
<1>1. id \in rows => id \in 1..MaxId
  BY ToolsAssumption DEF DbInv, Issued, ToolsAssumption
<1>2. ASSUME NEW d \in BOOLEAN, Board!Mark(id, d) PROVE Board!Next
  <2>1. id \in rows
    BY <1>2 DEF Board!Mark
  <2> QED
    BY <1>1, <1>2, <2>1 DEF Board!Next
<1>3. ASSUME Board!Remove(id) PROVE Board!Next
  <2>1. id \in rows
    BY <1>3 DEF Board!Remove
  <2> QED
    BY <1>1, <1>3, <2>1 DEF Board!Next
<1> QED
  BY <1>2, <1>3

LEMMA BoardInsert == ASSUME KInv, InsertRow, Asked' = Asked PROVE Board!Next
<1> PICK n : n = issued'
  OBVIOUS
<1>1. n \in 1..MaxId /\ Board!Add(n)
  BY BoardAdd
<1> QED
  BY <1>1 DEF Board!Next

LEMMA BoardIdle ==
    ASSUME UNCHANGED <<dbVars, prio>>, Asked' = Asked PROVE UNCHANGED Board!vars
BY DEF Board!vars, dbVars, Priority

(* A step that only tells what is asked. *)
LEMMA BoardAsked ==
    ASSUME KInv, UNCHANGED <<dbVars, prio>>, NEW id \in Issued, NEW p \in Priorities,
           Asked' \in {Asked, Asked \cup {<<id, p>>}, Asked \ {<<id, p>>}}
    PROVE  Board!Next \/ UNCHANGED Board!vars
<1>1. id \in 1..MaxId
  BY TInvParts, ToolsAssumption DEF KInv, DbInv, Issued, ToolsAssumption
<1>2. CASE Asked' = Asked
  BY <1>2, BoardIdle
<1>3. CASE Asked' = Asked \cup {<<id, p>>}
  <2>1. Board!Ask(id, p)
    BY <1>3 DEF Board!Ask, dbVars, Priority
  <2> QED
    BY <1>1, <2>1 DEF Board!Next
<1>4. CASE Asked' = Asked \ {<<id, p>>}
  <2>1. Board!Drop(id, p)
    BY <1>4 DEF Board!Drop, dbVars, Priority
  <2> QED
    BY <1>1, <2>1 DEF Board!Next
<1> QED
  BY <1>2, <1>3, <1>4

(* One that stores a priority that is asked for. *)
LEMMA BoardStore ==
    ASSUME KInv, NEW id \in Issued, NEW p \in Priorities, SetField(id, p),
           <<id, p>> \in Asked, Asked' \in {Asked, Asked \ {<<id, p>>}}
    PROVE  Board!Next \/ UNCHANGED Board!vars
<1>1. id \in 1..MaxId /\ id \in Ids /\ DbInv
  BY TInvParts, ToolsAssumption DEF KInv, DbInv, Issued, Ids, ToolsAssumption
<1>2. Board!Prioritise(id, p) \/ Board!Drop(id, p) \/ UNCHANGED Board!vars
  BY <1>1, BoardPrioritise
<1> QED
  BY <1>1, <1>2 DEF Board!Next

LEMMA BoardEffect ==
    ASSUME KInv, NEW st \in late, TakeEffect(st),
           st.kind # "hset" => Asked' = Asked
    PROVE  Board!Next \/ UNCHANGED Board!vars
<1>1. /\ st \in Statements /\ DbInv /\ (st.kind = "hdel" => st.id \notin rows)
      /\ Effect(st)
  BY TInvParts DEF KInv, LateInv, TakeEffect
<1>2. CASE st.kind = "insert" /\ InsertRow
  BY <1>2, BoardInsert
<1>3. CASE st.kind = "update" /\ UpdateRow(st.id, st.done)
  BY <1>1, <1>3, BoardMark, BoardNext DEF Statements
<1>4. CASE st.kind = "delete" /\ DeleteRow(st.id)
  BY <1>1, <1>4, BoardRemove, BoardNext DEF Statements
<1>5. CASE st.kind = "hset" /\ SetField(st.id, st.priority)
  <2>1. st.id \in Issued /\ st.priority \in Priorities
    BY <1>1, <1>5 DEF KInv, SentInv, Statements
  <2>2. /\ <<st.id, st.priority>> \in Asked
        /\ Asked' \in {Asked, Asked \ {<<st.id, st.priority>>}}
    BY <1>5, LateAsked DEF TakeEffect
  <2> QED
    BY <1>5, <2>1, <2>2, BoardStore
<1>6. CASE st.kind = "hdel" /\ ClearField(st.id)
  BY <1>1, <1>6, BoardClear DEF Statements
<1> QED
  BY <1>1, <1>2, <1>3, <1>4, <1>5, <1>6 DEF Effect

LEMMA BoardInit == Init => Board!Init
BY DEF Init, Board!Init, Issued, Asked, At, NoCall

LEMMA BoardStep ==
    ASSUME KInv, Guesses = {}, [Next]_vars
    PROVE  Board!Next \/ UNCHANGED Board!vars
<1> USE TInvParts DEF KInv
<1>1. ASSUME NEW c \in Callers, NEW id \in Known, NEW p \in 0..(Top + 1), SetPriority(c, id, p)
      PROVE  Board!Next \/ UNCHANGED Board!vars
  <2>1. id \in Issued /\ p \in Priorities /\ UNCHANGED <<dbVars, prio>>
    BY <1>1, KnownIssued, ToolsAssumption DEF SetPriority, Priorities, ToolsAssumption
  <2> QED
    BY <1>1, <2>1, AskedMore, BoardAsked
<1>2. ASSUME NEW c \in Callers, At(c, "hset") PROVE call[c].id \in Issued /\ call[c].priority \in Priorities
  BY <1>2 DEF SentInv, CallInv, Call
<1>3. ASSUME NEW c \in Callers, StorePriority(c) PROVE Board!Next \/ UNCHANGED Board!vars
  <2>1. late' \subseteq late \cup {SetOf(c)} /\ late \subseteq late'
    BY <1>3 DEF StorePriority, Sent
  <2> QED
    BY <1>2, <1>3, <2>1, StoreAsked, BoardStore DEF StorePriority
<1>4. ASSUME NEW c \in Callers, At(c, "hset"), FailField(c) PROVE Board!Next \/ UNCHANGED Board!vars
  <2>1. /\ UNCHANGED <<dbVars, prio>> /\ End(c)
        /\ late' \subseteq late \cup {SetOf(c)} /\ late \subseteq late'
    BY <1>4 DEF FailField, GiveUp, At
  <2> QED
    BY <1>2, <1>4, <2>1, StoreAsked, BoardAsked
<1>5. CASE /\ \A c \in Callers : /\ ~StorePriority(c)
                                /\ ~(At(c, "hset") /\ FailField(c))
                                /\ \A id \in Known, p \in 0..(Top + 1) : ~SetPriority(c, id, p)
           /\ \A st \in late : st.kind = "hset" => ~TakeEffect(st)
  <2>0. Asked' = Asked
    BY <1>5, NothingAsked
  <2>1. ASSUME NEW c \in Callers, Insert(c) PROVE Board!Next
    BY <2>0, <2>1, BoardInsert DEF Insert
  <2>2. ASSUME NEW c \in Callers, NEW id \in Known, NEW d \in BOOLEAN, Update(c, id, d)
        PROVE  Board!Next \/ UNCHANGED Board!vars
    BY <2>0, <2>2, KnownIds, BoardMark, BoardNext DEF Update
  <2>3. ASSUME NEW c \in Callers, NEW id \in Known, NEW tool \in BOOLEAN, Delete(c, id, tool)
        PROVE  Board!Next \/ UNCHANGED Board!vars
    BY <2>0, <2>3, KnownIds, BoardRemove, BoardNext DEF Delete
  <2>4. ASSUME NEW c \in Callers, ClearPriority(c) PROVE UNCHANGED Board!vars
    <3>1. call[c].id \in Ids \ rows /\ ClearField(call[c].id)
      BY <2>4 DEF ClearPriority, CallInv, Call
    <3> QED
      BY <2>0, <3>1, BoardClear
  <2>5. ASSUME NEW c \in Callers,
               \/ Recheck(c) \/ ReadBack(c) \/ FetchTodos(c) \/ MergeWithPriority(c)
               \/ FailRead(c) \/ FailField(c)
               \/ \E st \in Statements : FailFirst(c, st)
        PROVE  UNCHANGED Board!vars
    BY <2>0, <2>5, BoardIdle DEF Recheck, ReadBack, FetchTodos, MergeWithPriority, FailRead,
                                 FailField, FailFirst, GiveUp
  <2>6. ASSUME NEW st \in late, TakeEffect(st) PROVE Board!Next \/ UNCHANGED Board!vars
    BY <2>0, <2>6, BoardEffect
  <2>7. CASE RedisRestart
    BY <2>0, <2>7, BoardForget DEF Board!Next
  <2>8. CASE UNCHANGED vars
    BY <2>0, <2>8, BoardIdle DEF vars
  <2> QED
    BY <1>5, <2>1, <2>2, <2>3, <2>4, <2>5, <2>6, <2>7, <2>8 DEF Next
<1>6. ASSUME NEW st \in late, st.kind = "hset", TakeEffect(st) PROVE Board!Next \/ UNCHANGED Board!vars
  BY <1>6, BoardEffect
<1> QED
  BY <1>1, <1>3, <1>4, <1>5, <1>6

(* MySQL and the Redis hash behave as one list of todos (TodoBoard), whatever  *)
(* handlers interleave, fail, or take effect late: a new todo starts at        *)
(* priority 0 (server.go:91), and the priority of a todo that exists becomes   *)
(* one a set_priority under way asks for, or 0 when Redis is lost.             *)
THEOREM TwoStoresOneBoard == Guesses = {} => (Spec => ImplementsBoard)
<1> SUFFICES ASSUME Guesses = {} PROVE Spec => ImplementsBoard
  OBVIOUS
<1>1. KInv /\ [Next]_vars => [Board!Next]_Board!vars
  BY BoardStep
<1> QED
  BY <1>1, BoardInit, KInvAlways, PTL DEF Spec, ImplementsBoard, Board!Spec

-----------------------------------------------------------------------------
(* A todo that was deleted does not come back, whatever statement comes    *)
(* late: MySQL gives no id twice, and only an INSERT adds a row            *)
(* (api/main.go:126-236).                                                  *)
THEOREM GoneForGood == Spec => [][GoneStays]_vars
<1>1. TInv /\ [Next]_vars => [GoneStays]_vars
  BY GoneStaysNext
<1> QED
  BY <1>1, TInvAlways, PTL DEF Spec

(* The priority of a todo that stays becomes none but what a set_priority  *)
(* under way, or a copy of one, asks for that todo, or 0 when Redis is     *)
(* lost: an HDEL, however late, is of a todo that is gone.                 *)
PriorityKept ==
    \A id \in rows \cap rows' :
        \/ Priority(id)' = Priority(id)
        \/ <<id, Priority(id)'>> \in Asked
        \/ restarts' # restarts /\ Priority(id)' = 0

LEMMA ClearedIsGone ==
    ASSUME DbInv, NEW id \in Ids \ rows, ClearField(id)
    PROVE  \A i \in rows : Priority(i)' = Priority(i)
BY IssuedIds DEF ClearField, DbInv, Priority

LEMMA PriorityKeptNext == TInv /\ [Next]_vars => PriorityKept
<1> SUFFICES ASSUME TInv, [Next]_vars PROVE PriorityKept
  OBVIOUS
<1> USE TInvParts
<1>1. CASE UNCHANGED prio
  BY <1>1 DEF PriorityKept, Priority
<1>2. ASSUME NEW p \in Priorities, NEW id \in Ids, SetField(id, p), <<id, p>> \in Asked
      PROVE  PriorityKept
  <2>1. \A i \in Ids \ {id} : Priority(i)' = Priority(i)
    BY <1>2 DEF SetField, DbInv, Priority
  <2>2. Priority(id)' = p
    BY <1>2, ToolsAssumption DEF SetField, DbInv, Priority, Priorities, ToolsAssumption
  <2> QED
    BY <1>2, <2>1, <2>2, IssuedIds DEF PriorityKept, DbInv
<1>3. ASSUME NEW id \in Ids \ rows, ClearField(id) PROVE PriorityKept
  BY <1>3, ClearedIsGone DEF PriorityKept
<1>4. ASSUME NEW c \in Callers, StorePriority(c) PROVE PriorityKept
  <2>1. /\ call[c].priority \in Priorities /\ call[c].id \in Ids
        /\ SetField(call[c].id, call[c].priority)
    BY <1>4 DEF StorePriority, CallInv, Call
  <2>2. <<call[c].id, call[c].priority>> \in Asked
    BY <1>4, AskedIs DEF StorePriority
  <2> QED
    BY <1>2, <2>1, <2>2
<1>5. ASSUME NEW c \in Callers, ClearPriority(c) PROVE PriorityKept
  <2>1. call[c].id \in Ids \ rows
    BY <1>5 DEF ClearPriority, CallInv, Call
  <2> QED
    BY <1>3, <1>5, <2>1 DEF ClearPriority
<1>6. ASSUME NEW c \in Callers,
             \/ Insert(c) \/ \E id \in Known, d \in BOOLEAN : Update(c, id, d)
             \/ \E id \in Known, tool \in BOOLEAN : Delete(c, id, tool)
             \/ \E id \in Known, p \in 0..(Top + 1) : SetPriority(c, id, p)
      PROVE  PriorityKept
  BY <1>1, <1>6 DEF Insert, InsertRow, Update, UpdateRow, Delete, DeleteRow, SetPriority
<1>7. ASSUME NEW c \in Callers,
             \/ Recheck(c) \/ ReadBack(c) \/ FetchTodos(c) \/ MergeWithPriority(c)
             \/ FailRead(c) \/ FailField(c)
             \/ \E st \in Statements : FailFirst(c, st)
      PROVE  PriorityKept
  BY <1>1, <1>7 DEF Recheck, ReadBack, FetchTodos, MergeWithPriority, FailRead, FailField,
                    FailFirst, GiveUp
<1>8. ASSUME NEW st \in late, TakeEffect(st) PROVE PriorityKept
  <2>1. st \in Statements /\ Effect(st) /\ (st.kind = "hdel" => st.id \notin rows)
    BY <1>8 DEF TakeEffect, LateInv
  <2>2. CASE st.kind \in {"insert", "update", "delete"}
    BY <1>1, <2>1, <2>2 DEF Effect, InsertRow, UpdateRow, DeleteRow
  <2>3. CASE st.kind = "hset" /\ SetField(st.id, st.priority)
    <3>1. <<st.id, st.priority>> \in Asked
      BY <2>3, AskedIs
    <3> QED
      BY <1>2, <2>1, <2>3, <3>1 DEF Statements
  <2>4. CASE st.kind = "hdel" /\ ClearField(st.id)
    <3>1. st.id \in Ids
      BY <2>1, <2>4 DEF Statements
    <3> QED
      BY <1>3, <2>1, <2>4, <3>1
  <2> QED
    BY <2>1, <2>2, <2>3, <2>4 DEF Effect
<1>9. CASE RedisRestart
  <2>1. restarts' = restarts + 1 /\ restarts \in Int
    BY <1>9, ToolsAssumption DEF RedisRestart, BoundInv, ToolsAssumption
  <2>2. \A id \in rows : Priority(id)' = 0
    BY <1>9, IssuedIds DEF RedisRestart, Priority, DbInv
  <2> QED
    BY <2>1, <2>2 DEF PriorityKept
<1>10. CASE UNCHANGED vars
  BY <1>1, <1>10 DEF vars
<1> QED
  BY <1>4, <1>5, <1>6, <1>7, <1>8, <1>9, <1>10 DEF Next

(* The hash is never changed under a todo that is there but by             *)
(* set_priority or the loss of Redis (tools.go:136-190), whatever ids the  *)
(* callers pass: TwoStoresOneBoard needs them to pass only ids they have   *)
(* been shown, so that a todo does not find a priority when it is added.   *)
THEOREM PriorityOnlySet == Spec => [][PriorityKept]_vars
<1>1. TInv /\ [Next]_vars => [PriorityKept]_vars
  BY PriorityKeptNext
<1> QED
  BY <1>1, TInvAlways, PTL DEF Spec
=============================================================================
