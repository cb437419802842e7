------------------------- MODULE SessionStoreProofs -------------------------
(***************************************************************************)
(* Proofs about SessionStore: type correctness, that the messages of a     *)
(* session are numbered without a gap and stay as written, that the        *)
(* buckets implement ChatLog and that a detail is a prefix of its session  *)
(* and not behind it, for any number of sessions, clients and messages;    *)
(* and about the strings of Encoding, for any base and width: that keys    *)
(* sort as numbers up to the padding, and which is the first that does     *)
(* not, and that stamps sort as times up to a second.                      *)
(*                                                                         *)
(* That counting the keys gives a free number is the whole point: it does  *)
(* because the numbers in use are always 0..n-1, which is part of the      *)
(* invariant, and n is then both their count and the next number.          *)
(***************************************************************************)
EXTENDS KeyOrder, FiniteSetTheorems, SequenceTheorems, TLAPS

Numbered == \A s \in Sids : Count(s) \in Nat /\ Seqs(s) = 0..(Count(s) - 1)

Touched ==
    \A s \in Sids :
        /\ s \notin Living => Seqs(s) = {}
        /\ s \in Living =>
              sessions[s].updated =
                  IF Seqs(s) = {} THEN sessions[s].created
                  ELSE messages[s][Count(s) - 1].created

(* A session that has acknowledged messages is living or was deleted, and  *)
(* a deleted session is never created again.                               *)
Kept ==
    \A a \in acked :
        /\ a[1] \in Sids /\ (a[1] \in Living \/ a[1] \in ended)
        /\ a[1] \in Living => a[2] \in Seqs(a[1]) /\ messages[a[1]][a[2]] = a[3]

(* Nor is it still there. *)
EndedGone == \A s \in ended : s \notin Living

SInv == TypeOK /\ Numbered /\ Touched /\ EndedGone /\ Kept

-----------------------------------------------------------------------------
(* A session whose numbers are 0..n-1 counts n messages. *)
LEMMA CountOfNumbers ==
    \A n \in Nat : Cardinality(0..(n - 1)) = n
BY FS_Interval

LEMMA NoMessagesNumbered == DOMAIN NoMessages = {} /\ Cardinality({}) = 0 /\ {} = 0..(0 - 1)
BY FS_EmptySet DEF NoMessages

LEMMA NotAbsent == Absent \notin Session
BY StoreAssumption DEF StoreAssumption, Session, Time

LEMMA SInit == Init => SInv
<1> SUFFICES ASSUME Init PROVE SInv
  OBVIOUS
<1> USE NoMessagesNumbered DEF Init, Seqs, Count, Living
<1>1. TypeOK
  BY StoreAssumption DEF StoreAssumption, TypeOK, Time
<1>2. Numbered /\ Touched /\ EndedGone /\ Kept
  BY DEF Numbered, Touched, EndedGone, Kept
<1> QED
  BY <1>1, <1>2 DEF SInv

(* Putting message m of s under the next number. *)
LEMMA PutNext ==
    ASSUME SInv, NEW s \in Sids, NEW m, Put(s, Count(s), m)
    PROVE  /\ \A t \in Sids : t # s => messages'[t] = messages[t]
           /\ Count(s) \in Nat /\ Count(s)' = Count(s) + 1
           /\ Seqs(s)' = Seqs(s) \cup {Count(s)}
           /\ Count(s) \notin Seqs(s)
           /\ Seqs(s)' = 0..(Count(s)' - 1)
           /\ messages'[s][Count(s)] = m
           /\ \A i \in Seqs(s) : messages'[s][i] = messages[s][i]
           /\ DOMAIN messages' = Sids
<1> DEFINE n == Count(s)
<1>1. n \in Nat /\ Seqs(s) = 0..(n - 1) /\ n \notin Seqs(s)
  BY DEF SInv, Numbered
<1>2. Seqs(s)' = Seqs(s) \cup {n} /\ DOMAIN messages' = DOMAIN messages
  BY DEF Put, Seqs, SInv, TypeOK
<1>3. Seqs(s)' = 0..((n + 1) - 1)
  BY <1>1, <1>2
<1>4. Count(s)' = n + 1
  BY <1>1, <1>3, CountOfNumbers DEF Count
<1> QED
  BY <1>1, <1>2, <1>3, <1>4 DEF Put, Seqs, SInv, TypeOK

(* Every action preserves the invariant. *)
LEMMA SStep == SInv /\ [Next]_vars => SInv'
<1> SUFFICES ASSUME SInv, [Next]_vars PROVE SInv'
  OBVIOUS
<1> USE DEF storeVars, httpVars
<1>1. ASSUME UNCHANGED <<storeVars, acked>>, clock' \in Time PROVE SInv'
  BY <1>1 DEF SInv, TypeOK, Numbered, Touched, EndedGone, Kept, Living, Seqs, Count
<1>c. clock \in Time
  BY DEF SInv, TypeOK
<1>2. CASE Tick
  BY <1>1, <1>2, <1>c, StoreAssumption DEF Tick, Time, StoreAssumption
<1>3. ASSUME NEW s \in Sids, CreateSession(s) PROVE SInv'
  <2>1. s \notin Living /\ s \notin ended /\ Seqs(s) = {}
    BY <1>3 DEF CreateSession, SInv, Touched
  <2>2. Living' = Living \cup {s}
    BY <1>3, <1>c, NotAbsent DEF CreateSession, Living, Session, SInv, TypeOK
  <2>3. TypeOK'
    BY <1>3, <1>c DEF CreateSession, SInv, TypeOK, Session, Seqs
  <2>4. Numbered'
    BY <1>3 DEF CreateSession, SInv, Numbered, Count, Seqs
  <2>5. Touched'
    BY <1>3, <2>1, <2>2 DEF CreateSession, SInv, TypeOK, Touched, Count, Seqs
  <2>6. EndedGone' /\ Kept'
    BY <1>3, <2>1, <2>2 DEF CreateSession, SInv, EndedGone, Kept, Seqs
  <2> QED
    BY <2>3, <2>4, <2>5, <2>6 DEF SInv
<1>4. ASSUME NEW s \in Sids, NEW role \in Roles, AppendMessage(s, role) PROVE SInv'
  <2> DEFINE m == [role |-> role, created |-> clock]
             n == Count(s)
  <2>1. /\ \A t \in Sids : t # s => messages'[t] = messages[t]
        /\ n \in Nat /\ Count(s)' = n + 1
        /\ Seqs(s)' = Seqs(s) \cup {n} /\ n \notin Seqs(s)
        /\ Seqs(s)' = 0..(Count(s)' - 1)
        /\ messages'[s][n] = m
        /\ \A i \in Seqs(s) : messages'[s][i] = messages[s][i]
        /\ DOMAIN messages' = Sids
    BY <1>4, PutNext DEF AppendMessage
  <2>2. /\ s \in Living
        /\ sessions' = [sessions EXCEPT ![s].updated = clock]
        /\ acked' \subseteq acked \cup {<<s, n, m>>}
        /\ ended' = ended /\ clock' = clock
    BY <1>4 DEF AppendMessage
  <2>3. sessions[s] \in Session /\ sessions'[s] \in Session /\ sessions'[s].updated = clock
    BY <1>c, <2>2 DEF Living, SInv, TypeOK, Session
  <2>4. \A t \in Sids : t # s => sessions'[t] = sessions[t]
    BY <2>2 DEF SInv, TypeOK
  <2>5. Living' = Living
    BY <2>2, <2>3, <2>4, NotAbsent DEF Living
  <2>6. \A t \in Sids : t # s => Seqs(t)' = Seqs(t) /\ Count(t)' = Count(t)
    BY <2>1 DEF Seqs, Count
  <2>7. TypeOK'
    <3>1. sessions' \in [Sids -> Session \cup {Absent}]
      BY <2>2, <2>3, <2>4 DEF SInv, TypeOK
    <3>2. m \in Message
      BY <1>c DEF Message
    <3>3. \A t \in Sids : /\ Seqs(t)' \subseteq Nat
                          /\ \A i \in Seqs(t)' : messages'[t][i] \in Message
      <4>1. \A i \in Seqs(s)' : i \in Nat /\ messages'[s][i] \in Message
        BY <2>1, <3>2 DEF SInv, TypeOK
      <4> QED
        BY <2>1, <2>6, <4>1 DEF SInv, TypeOK
    <3> QED
      BY <1>c, <2>1, <2>2, <3>1, <3>3 DEF SInv, TypeOK
  <2>8. Numbered'
    BY <2>1, <2>6 DEF SInv, Numbered
  <2>9. Touched'
    <3>1. ASSUME NEW t \in Sids, t # s
          PROVE  /\ t \notin Living => Seqs(t)' = {}
                 /\ t \in Living =>
                       sessions'[t].updated =
                           IF Seqs(t)' = {} THEN sessions'[t].created
                           ELSE messages'[t][Count(t)' - 1].created
      BY <2>1, <2>4, <2>6, <3>1 DEF SInv, Touched
    <3>2. Seqs(s)' # {} /\ messages'[s][Count(s)' - 1].created = clock
      BY <2>1
    <3> QED
      BY <2>2, <2>3, <2>5, <3>1, <3>2 DEF Touched
  <2>10. EndedGone'
    BY <2>2, <2>5 DEF SInv, EndedGone
  <2>11. Kept'
    <3>1. ASSUME NEW a \in acked
          PROVE  a[1] \in Living =>
                   a[2] \in Seqs(a[1])' /\ messages'[a[1]][a[2]] = a[3]
      BY <2>1, <2>6, <3>1 DEF SInv, Kept
    <3> QED
      BY <2>1, <2>2, <2>5, <3>1 DEF SInv, Kept
  <2> QED
    BY <2>7, <2>8, <2>9, <2>10, <2>11 DEF SInv
<1>5. ASSUME NEW s \in Sids, DeleteSession(s) PROVE SInv'
  <2>1. /\ Seqs(s)' = {} /\ Count(s)' = 0
        /\ \A t \in Sids : t # s => Seqs(t)' = Seqs(t) /\ Count(t)' = Count(t)
    BY <1>5, NoMessagesNumbered DEF DeleteSession, Seqs, Count, SInv, TypeOK
  <2>2. Living' = Living \ {s}
    BY <1>5 DEF DeleteSession, Living, SInv, TypeOK
  <2>3. \A t \in Sids : t # s => sessions'[t] = sessions[t] /\ messages'[t] = messages[t]
    BY <1>5 DEF DeleteSession, SInv, TypeOK
  <2>4. TypeOK'
    BY <1>5, <2>1, <2>3 DEF DeleteSession, SInv, TypeOK
  <2>5. Numbered'
    BY <2>1, NoMessagesNumbered DEF SInv, Numbered
  <2>6. Touched'
    BY <2>1, <2>2, <2>3 DEF SInv, Touched
  <2>7. EndedGone' /\ Kept'
    BY <1>5, <2>1, <2>2, <2>3 DEF DeleteSession, SInv, EndedGone, Kept
  <2> QED
    BY <2>4, <2>5, <2>6, <2>7 DEF SInv
<1>6. CASE ListSessions
  BY <1>1, <1>6, <1>c DEF ListSessions
<1>7. ASSUME NEW c \in Clients, ListMessages(c) \/ \E s \in Sids : GetSession(c, s)
      PROVE  SInv'
  BY <1>1, <1>7, <1>c DEF ListMessages, GetSession
<1>8. CASE Restart
  BY <1>1, <1>8, <1>c DEF Restart
<1>9. CASE UNCHANGED vars
  BY <1>1, <1>9, <1>c DEF vars
<1> QED
  BY <1>2, <1>3, <1>4, <1>5, <1>6, <1>7, <1>8, <1>9 DEF Next

LEMMA SInductive == Spec => []SInv
  BY SInit, SStep, PTL DEF Spec

(* The buckets and the clock keep their types. *)
THEOREM StoreTypeCorrect == Spec => []TypeOK
<1>1. SInv => TypeOK
  BY DEF SInv
<1> QED
  BY <1>1, SInductive, PTL

(* Messages are numbered without gaps, go with their session, and the last *)
(* of them sets Updated.                                                   *)
THEOREM LogAlwaysWellFormed == Spec => []LogWellFormed
<1>1. SInv => LogWellFormed
  BY DEF SInv, Numbered, Touched, LogWellFormed
<1> QED
  BY <1>1, SInductive, PTL

(* What was answered with 201 is there until its session is deleted. *)
THEOREM AckedNeverLost == Spec => []AckedAppendsSurvive
<1>1. SInv => AckedAppendsSurvive
  BY DEF SInv, Kept, AckedAppendsSurvive
<1> QED
  BY <1>1, SInductive, PTL

-----------------------------------------------------------------------------
(* The store implements ChatLog *)

LEMMA LogIsSeq ==
    ASSUME SInv, NEW s \in Sids
    PROVE  LogOf(s) \in Seq(Message) /\ Len(LogOf(s)) = Count(s)
<1>1. Count(s) \in Nat /\ \A i \in 1..Count(s) : messages[s][i - 1] \in Message
  BY DEF SInv, Numbered, TypeOK
<1>2. LogOf(s) \in [1..Count(s) -> Message]
  BY <1>1 DEF LogOf
<1> QED
  BY <1>1, <1>2

(* A message put under the next number is appended to the log. *)
LEMMA PutAppends ==
    ASSUME SInv, SInv', NEW s \in Sids, NEW m \in Message, Put(s, Count(s), m)
    PROVE  LogOf(s)' = Append(LogOf(s), m)
<1>1. /\ LogOf(s) \in Seq(Message) /\ Len(LogOf(s)) = Count(s)
      /\ Count(s) \in Nat /\ Count(s)' = Count(s) + 1
  BY LogIsSeq, PutNext
<1>2. LogOf(s)' \in Seq(Message) /\ Len(LogOf(s)') = Count(s) + 1
  <2>1. /\ Count(s)' \in Nat
        /\ \A i \in 1..Count(s)' : messages'[s][i - 1] \in Message
    BY DEF SInv, Numbered, TypeOK
  <2>2. LogOf(s)' \in [1..Count(s)' -> Message]
    BY <2>1 DEF LogOf
  <2> QED
    BY <1>1, <2>1, <2>2
<1>3. /\ Append(LogOf(s), m) \in Seq(Message)
      /\ Len(Append(LogOf(s), m)) = Count(s) + 1
  BY <1>1, AppendProperties
<1>4. ASSUME NEW i \in 1..(Count(s) + 1) PROVE LogOf(s)'[i] = Append(LogOf(s), m)[i]
  <2>1. LogOf(s)'[i] = messages'[s][i - 1]
    BY <1>1 DEF LogOf
  <2>2. CASE i = Count(s) + 1
    <3>1. messages'[s][i - 1] = m
      BY <1>1, <2>2, PutNext
    <3> QED
      BY <1>1, <2>1, <2>2, <3>1, AppendProperties
  <2>3. CASE i \in 1..Count(s)
    <3>1. i - 1 \in Seqs(s)
      BY <1>1, <2>3 DEF SInv, Numbered
    <3>2. messages'[s][i - 1] = messages[s][i - 1]
      BY <3>1, PutNext
    <3>3. Append(LogOf(s), m)[i] = LogOf(s)[i]
      BY <1>1, <2>3, AppendProperties
    <3> QED
      BY <2>1, <2>3, <3>2, <3>3 DEF LogOf
  <2> QED
    BY <1>1, <2>2, <2>3
<1> QED
  BY <1>2, <1>3, <1>4, SeqEqual

LEMMA NoLog == ASSUME SInv, NEW s \in Sids, Seqs(s) = {} PROVE LogOf(s) = <<>>
<1>1. Count(s) = 0
  BY NoMessagesNumbered DEF Count
<1>2. LogOf(s) \in Seq(Message) /\ Len(LogOf(s)) = 0
  BY <1>1, LogIsSeq
<1> QED
  BY <1>2, EmptySeq

LEMMA RefInit == Init => Log!LogInit
<1> SUFFICES ASSUME Init PROVE Log!LogInit
  OBVIOUS
<1>1. SInv
  BY SInit
<1>2. \A s \in Sids : LogOf(s) = <<>>
  BY <1>1, NoLog, NoMessagesNumbered DEF Init, Seqs
<1> QED
  BY <1>2 DEF Init, Log!LogInit, Living, Logs

(* Every step of the store is a step of the log or leaves it alone. *)
LEMMA RefStep == SInv /\ SInv' /\ [Next]_vars => [Log!LogNext]_Log!logVars
<1> SUFFICES ASSUME SInv, SInv', [Next]_vars PROVE [Log!LogNext]_Log!logVars
  OBVIOUS
<1> USE DEF storeVars, httpVars
<1>1. ASSUME UNCHANGED storeVars PROVE UNCHANGED Log!logVars
  BY <1>1 DEF Log!logVars, Living, Logs, LogOf, Count, Seqs
<1>2. ASSUME NEW s \in Sids, \A t \in Sids : t # s => messages'[t] = messages[t]
      PROVE  Logs' = [Logs EXCEPT ![s] = LogOf(s)']
  BY <1>2 DEF Logs, LogOf, Count, Seqs
<1>3. ASSUME NEW s \in Sids, CreateSession(s) PROVE Log!Open(s)
  <2>1. Living' = Living \cup {s}
    BY <1>3, NotAbsent DEF CreateSession, Living, Session, SInv, TypeOK
  <2> QED
    BY <1>3, <2>1 DEF CreateSession, Log!Open, Logs, LogOf, Count, Seqs
<1>4. ASSUME NEW s \in Sids, NEW role \in Roles, AppendMessage(s, role)
      PROVE  \E m \in Message : Log!Say(s, m)
  <2> DEFINE m == [role |-> role, created |-> clock]
  <2>1. m \in Message /\ Put(s, Count(s), m) /\ s \in Living /\ ended' = ended
    BY <1>4 DEF AppendMessage, Message, SInv, TypeOK
  <2>2. Logs' = [Logs EXCEPT ![s] = Append(LogOf(s), m)]
    BY <1>2, <2>1, PutNext, PutAppends
  <2>3. Living' = Living
    BY <1>4, <2>1, NotAbsent DEF AppendMessage, Living, Session, SInv, TypeOK
  <2> QED
    BY <2>1, <2>2, <2>3 DEF Log!Say, Logs
<1>5. ASSUME NEW s \in Sids, DeleteSession(s) PROVE Log!Discard(s)
  <2>1. Living' = Living \ {s} /\ ended' = ended \cup {s} /\ s \in Living
    BY <1>5 DEF DeleteSession, Living, SInv, TypeOK
  <2>2. Seqs(s)' = {}
    BY <1>5, NoMessagesNumbered DEF DeleteSession, Seqs, SInv, TypeOK
  <2>3. LogOf(s)' = <<>>
    <3>1. Count(s)' = 0
      BY <2>2, NoMessagesNumbered DEF Count
    <3> QED
      BY <3>1 DEF LogOf
  <2>4. Logs' = [Logs EXCEPT ![s] = <<>>]
    BY <1>2, <1>5, <2>3 DEF DeleteSession
  <2> QED
    BY <2>1, <2>4 DEF Log!Discard
<1>6. CASE Tick \/ ListSessions \/ Restart \/ UNCHANGED vars
  BY <1>1, <1>6 DEF Tick, ListSessions, Restart, vars
<1>7. ASSUME NEW c \in Clients, ListMessages(c) \/ \E s \in Sids : GetSession(c, s)
      PROVE  UNCHANGED Log!logVars
  BY <1>1, <1>7 DEF ListMessages, GetSession
<1> QED
  BY <1>3, <1>4, <1>5, <1>6, <1>7 DEF Next, Log!LogNext

(* The two buckets behave like the append-only logs of ChatLog. *)
THEOREM StoreImplementsLog == Spec => ImplementsLog
<1>1. Spec => []SInv
  BY SInductive
<1>2. Spec => Log!LogInit /\ [][Log!LogNext]_Log!logVars
  BY <1>1, RefInit, RefStep, PTL DEF Spec
<1> QED
  BY <1>2 DEF ImplementsLog, Log!LogSpec

-----------------------------------------------------------------------------
(* A detail is not behind its session *)

(* What a detail has to show of a session is in these messages. *)
Shown(session, log) ==
    \/ session.updated = session.created
    \/ \E seq \in DOMAIN log : log[seq].created = session.updated

(* Between the two transactions, and after them, the session is there with *)
(* at least the messages it had, or it was deleted and does not come back. *)
DInv ==
    /\ reading = [c \in Clients |-> reading[c]]
    /\ detail = [c \in Clients |-> detail[c]]
    /\ \A c \in Clients : reading[c] # Absent =>
          /\ reading[c].id \in Sids /\ reading[c].id \in Living \cup ended
          /\ reading[c].id \in Living => Shown(reading[c].session, messages[reading[c].id])
    /\ \A c \in Clients : detail[c] # Absent =>
          /\ detail[c].id \in Living \cup ended
          /\ detail[c].id \in Living => Shown(detail[c].session, detail[c].messages)

(* Messages are only added to a session that stays. *)
Grows ==
    /\ Living \cup ended \subseteq Living' \cup ended'
    /\ \A s \in Living \cup ended : s \in Living' =>
          /\ s \in Living
          /\ \A i \in Seqs(s) : i \in Seqs(s)' /\ messages'[s][i] = messages[s][i]

LEMMA StoreGrows ==
    ASSUME DInv, Grows, UNCHANGED <<reading, detail>>
    PROVE  DInv'
<1>1. ASSUME NEW c \in Clients, reading[c] # Absent
      PROVE  /\ reading[c].id \in Sids /\ reading[c].id \in Living' \cup ended'
             /\ reading[c].id \in Living' => Shown(reading[c].session, messages'[reading[c].id])
    <2> DEFINE s == reading[c].id
    <2>1. s \in Sids /\ s \in Living \cup ended
          /\ (s \in Living => Shown(reading[c].session, messages[s]))
        BY <1>1 DEF DInv
    <2>2. ASSUME s \in Living' PROVE Shown(reading[c].session, messages'[s])
        BY <2>1, <2>2 DEF Grows, Shown, Seqs
    <2> QED BY <2>1, <2>2 DEF Grows
<1>2. ASSUME NEW c \in Clients, detail[c] # Absent
      PROVE  /\ detail[c].id \in Living' \cup ended'
             /\ detail[c].id \in Living' => Shown(detail[c].session, detail[c].messages)
    BY <1>2 DEF DInv, Grows
<1>3. reading' = [c \in Clients |-> reading'[c]] /\ detail' = [c \in Clients |-> detail'[c]]
    BY DEF DInv
<1>4. /\ \A c \in Clients : reading'[c] # Absent =>
            /\ reading'[c].id \in Sids /\ reading'[c].id \in Living' \cup ended'
            /\ reading'[c].id \in Living' =>
                  Shown(reading'[c].session, messages'[reading'[c].id])
      /\ \A c \in Clients : detail'[c] # Absent =>
            /\ detail'[c].id \in Living' \cup ended'
            /\ detail'[c].id \in Living' => Shown(detail'[c].session, detail'[c].messages)
    BY <1>1, <1>2
<1> QED BY <1>3, <1>4 DEF DInv, Shown

LEMMA GetSessionReads ==
    ASSUME SInv, DInv, NEW c \in Clients, NEW s \in Sids, GetSession(c, s)
    PROVE  DInv'
<1> USE DEF storeVars
<1>1. /\ s \in Living /\ UNCHANGED <<storeVars, detail>> /\ Living' = Living
      /\ reading' = [reading EXCEPT ![c] = [id |-> s, session |-> sessions[s]]]
    BY DEF GetSession, Living
<1>2. Shown(sessions[s], messages[s])
    <2>1. CASE Seqs(s) = {}
        BY <1>1, <2>1 DEF SInv, Touched, Shown
    <2>2. CASE Seqs(s) # {}
        <3>1. Count(s) - 1 \in Seqs(s)
            BY <2>2 DEF SInv, Numbered
        <3> QED BY <1>1, <2>2, <3>1 DEF SInv, Touched, Shown, Seqs
    <2> QED BY <2>1, <2>2
<1>3. /\ reading'[c].id = s /\ reading'[c].session = sessions[s]
      /\ \A d \in Clients \ {c} : reading'[d] = reading[d]
      /\ reading' = [d \in Clients |-> reading'[d]]
    BY <1>1 DEF DInv
<1>4. ASSUME NEW d \in Clients, reading'[d] # Absent
      PROVE  /\ reading'[d].id \in Sids /\ reading'[d].id \in Living \cup ended
             /\ reading'[d].id \in Living => Shown(reading'[d].session, messages[reading'[d].id])
    <2>1. CASE d = c
        BY <1>1, <1>2, <1>3, <2>1
    <2>2. CASE d # c
        BY <1>3, <1>4, <2>2 DEF DInv
    <2> QED BY <2>1, <2>2
<1>5. messages' = messages /\ ended' = ended
    BY <1>1
<1>6. (\A d \in Clients : reading[d] # Absent =>
          /\ reading[d].id \in Sids /\ reading[d].id \in Living \cup ended
          /\ reading[d].id \in Living => Shown(reading[d].session, messages[reading[d].id]))'
    BY <1>1, <1>4, <1>5 DEF Shown
<1>7. (\A d \in Clients : detail[d] # Absent =>
          /\ detail[d].id \in Living \cup ended
          /\ detail[d].id \in Living => Shown(detail[d].session, detail[d].messages))'
    BY <1>1, <1>5 DEF DInv, Shown
<1>8. detail' = [d \in Clients |-> detail'[d]]
    BY <1>1 DEF DInv
<1> QED BY <1>3, <1>6, <1>7, <1>8 DEF DInv

LEMMA ListMessagesShows ==
    ASSUME SInv, DInv, NEW c \in Clients, ListMessages(c)
    PROVE  DInv'
<1> USE DEF storeVars
<1> DEFINE r == reading[c]
           d == [id |-> r.id, session |-> r.session, messages |-> messages[r.id]]
<1>1. /\ UNCHANGED storeVars /\ Living' = Living
      /\ reading' = [reading EXCEPT ![c] = Absent] /\ detail' = [detail EXCEPT ![c] = d]
      /\ r.id \in Living \cup ended /\ (r.id \in Living => Shown(r.session, messages[r.id]))
    BY DEF ListMessages, Living, DInv
<1>2. d.id = r.id /\ d.session = r.session /\ d.messages = messages[r.id]
    OBVIOUS
<1> HIDE DEF d, r
<1>3. /\ \A e \in Clients \ {c} : reading'[e] = reading[e] /\ detail'[e] = detail[e]
      /\ reading'[c] = Absent /\ detail'[c] = d
      /\ reading' = [e \in Clients |-> reading'[e]] /\ detail' = [e \in Clients |-> detail'[e]]
    BY <1>1 DEF DInv
<1>4. ASSUME NEW e \in Clients, detail'[e] # Absent
      PROVE  /\ detail'[e].id \in Living \cup ended
             /\ detail'[e].id \in Living => Shown(detail'[e].session, detail'[e].messages)
    <2>1. CASE e = c
        BY <1>1, <1>2, <1>3, <2>1
    <2>2. CASE e # c
        BY <1>3, <1>4, <2>2 DEF DInv
    <2> QED BY <2>1, <2>2
<1>5. ASSUME NEW e \in Clients, reading'[e] # Absent
      PROVE  /\ reading'[e].id \in Sids /\ reading'[e].id \in Living \cup ended
             /\ reading'[e].id \in Living => Shown(reading'[e].session, messages[reading'[e].id])
    BY <1>3, <1>5 DEF DInv
<1> QED BY <1>1, <1>3, <1>4, <1>5 DEF DInv, Shown

(* Whatever a step does, a session that stays keeps its messages, and one  *)
(* that has ended does not come back.                                      *)
LEMMA GrowsNext == SInv /\ [Next]_vars => Grows
<1> SUFFICES ASSUME SInv, [Next]_vars PROVE Grows
    OBVIOUS
<1> USE DEF storeVars, httpVars
<1>1. CASE UNCHANGED storeVars
    BY <1>1 DEF Grows, Living, Seqs
<1>2. CASE Tick \/ ListSessions \/ Restart \/ UNCHANGED vars
    BY <1>1, <1>2 DEF Tick, ListSessions, Restart, vars
<1>3. ASSUME NEW s \in Sids, CreateSession(s) PROVE Grows
    <2>1. s \notin Living /\ s \notin ended /\ messages' = messages /\ ended' = ended
        BY <1>3 DEF CreateSession
    <2>2. \A t \in Sids \ {s} : sessions'[t] = sessions[t]
        BY <1>3 DEF CreateSession, SInv, TypeOK
    <2>3. \A t \in Sids \ {s} : t \in Living' <=> t \in Living
        BY <2>2 DEF Living
    <2>4. ended \subseteq Sids /\ Living \subseteq Sids
        BY DEF Living, SInv, TypeOK
    <2> QED BY <2>1, <2>3, <2>4 DEF Grows, Seqs
<1>4. ASSUME NEW s \in Sids, NEW role \in Roles, AppendMessage(s, role) PROVE Grows
    <2>1. PICK m : Put(s, Count(s), m)
        BY <1>4 DEF AppendMessage
    <2>2. /\ \A t \in Sids : t # s => messages'[t] = messages[t]
          /\ Seqs(s)' = Seqs(s) \cup {Count(s)}
          /\ \A i \in Seqs(s) : messages'[s][i] = messages[s][i]
        BY <2>1, PutNext
    <2>3. s \in Living /\ ended' = ended
          /\ \A t \in Sids \ {s} : sessions'[t] = sessions[t]
        BY <1>4 DEF AppendMessage, SInv, TypeOK
    <2>3a. sessions'[s] # Absent
        <3>1. sessions'[s] \in Session
            BY <1>4, <2>3 DEF AppendMessage, Living, SInv, TypeOK, Session
        <3> QED BY <3>1, NotAbsent
    <2>4. Living' = Living /\ Living \subseteq Sids /\ ended \subseteq Sids
        BY <2>3, <2>3a DEF Living, SInv, TypeOK
    <2>5. \A t \in Sids : \A i \in Seqs(t) : i \in Seqs(t)' /\ messages'[t][i] = messages[t][i]
        BY <2>2 DEF Seqs
    <2> QED BY <2>3, <2>4, <2>5 DEF Grows, SInv, EndedGone
<1>5. ASSUME NEW s \in Sids, DeleteSession(s) PROVE Grows
    <2>1. /\ sessions'[s] = Absent /\ ended' = ended \cup {s}
          /\ \A t \in Sids \ {s} : sessions'[t] = sessions[t] /\ messages'[t] = messages[t]
        BY <1>5 DEF DeleteSession, SInv, TypeOK
    <2>2. Living' = Living \ {s} /\ Living \subseteq Sids
        BY <2>1 DEF Living
    <2> QED BY <2>1, <2>2 DEF Grows, Seqs, SInv, EndedGone
<1>6. ASSUME NEW c \in Clients, NEW s \in Sids, GetSession(c, s) PROVE Grows
    BY <1>1, <1>6 DEF GetSession
<1>7. ASSUME NEW c \in Clients, ListMessages(c) PROVE Grows
    BY <1>1, <1>7 DEF ListMessages
<1> QED BY <1>2, <1>3, <1>4, <1>5, <1>6, <1>7 DEF Next

LEMMA DStep == SInv /\ DInv /\ [Next]_vars => DInv'
<1> SUFFICES ASSUME SInv, DInv, [Next]_vars PROVE DInv'
    OBVIOUS
<1> USE DEF storeVars, httpVars
<1>1. Grows
    BY GrowsNext
<1>2. CASE Tick \/ ListSessions \/ UNCHANGED vars
    BY <1>1, <1>2, StoreGrows DEF Tick, ListSessions, vars
<1>3. ASSUME NEW s \in Sids, NEW role \in Roles, AppendMessage(s, role) PROVE DInv'
    BY <1>1, <1>3, StoreGrows DEF AppendMessage
<1>4. ASSUME NEW s \in Sids, CreateSession(s) \/ DeleteSession(s) PROVE DInv'
    BY <1>1, <1>4, StoreGrows DEF CreateSession, DeleteSession
<1>5. ASSUME NEW c \in Clients, NEW s \in Sids, GetSession(c, s) PROVE DInv'
    BY <1>5, GetSessionReads
<1>6. ASSUME NEW c \in Clients, ListMessages(c) PROVE DInv'
    BY <1>6, ListMessagesShows
<1>7. CASE Restart
    <2>1. /\ UNCHANGED storeVars /\ detail' = detail /\ Living' = Living
          /\ reading' = [c \in Clients |-> Absent]
        BY <1>7 DEF Restart, Living
    <2>2. \A c \in Clients : reading'[c] = Absent
        BY <2>1
    <2>3. reading' = [c \in Clients |-> reading'[c]]
        BY <2>1
    <2> QED BY <2>1, <2>2, <2>3 DEF DInv, Shown
<1> QED BY <1>2, <1>3, <1>4, <1>5, <1>6, <1>7 DEF Next

(* A session's detail is never behind the Updated it shows: it is read     *)
(* first, and messages are only ever added to a session that stays         *)
(* (handlers.go:81-104, store.go:221-267).                                 *)
THEOREM DetailNeverBehind == Spec => []DetailNotBehind
<1>1. Init => DInv
    BY DEF Init, DInv
<1>2. DInv => DetailNotBehind
    BY DEF DInv, Shown, DetailNotBehind
<1> QED BY <1>1, <1>2, DStep, SInductive, PTL DEF Spec

(* A message, acknowledged or not, stays as it was written until its       *)
(* session is deleted, and a deleted session does not come back: every     *)
(* step of the store only adds (store.go:221-267).                         *)
THEOREM MessagesStay == Spec => [][Grows]_vars
<1>1. SInv /\ [Next]_vars => [Grows]_vars
    BY GrowsNext
<1> QED BY <1>1, SInductive, PTL DEF Spec

(* The messages of a detail, numbered from 0 without a gap, are the first  *)
(* of its session's.                                                       *)
DetailIsPrefix ==
    \A c \in Clients :
        LET d == detail[c] IN
        d # Absent =>
            /\ DOMAIN d.messages = 0..(Cardinality(DOMAIN d.messages) - 1)
            /\ d.id \in Living => \A i \in DOMAIN d.messages :
                                     i \in Seqs(d.id) /\ messages[d.id][i] = d.messages[i]

LEMMA PrefixStays ==
    ASSUME DInv, DetailIsPrefix, Grows, UNCHANGED detail
    PROVE  DetailIsPrefix'
<1>1. ASSUME NEW c \in Clients, detail[c] # Absent, detail[c].id \in Living'
      PROVE  /\ detail[c].id \in Living
             /\ \A i \in Seqs(detail[c].id) :
                   /\ i \in Seqs(detail[c].id)'
                   /\ messages'[detail[c].id][i] = messages[detail[c].id][i]
    BY <1>1 DEF DInv, Grows
<1> QED BY <1>1 DEF DetailIsPrefix

LEMMA PrefixStep == SInv /\ DInv /\ DetailIsPrefix /\ [Next]_vars => DetailIsPrefix'
<1> SUFFICES ASSUME SInv, DInv, DetailIsPrefix, [Next]_vars PROVE DetailIsPrefix'
    OBVIOUS
<1>1. ASSUME UNCHANGED detail PROVE DetailIsPrefix'
    BY <1>1, GrowsNext, PrefixStays
<1>2. ASSUME NEW c \in Clients, ListMessages(c) PROVE DetailIsPrefix'
    <2> DEFINE r == reading[c]
               d == [id |-> r.id, session |-> r.session, messages |-> messages[r.id]]
    <2>1. /\ messages' = messages /\ Living' = Living
          /\ detail' = [detail EXCEPT ![c] = d]
        BY <1>2 DEF ListMessages, Living, storeVars
    <2>2. DOMAIN messages[r.id] = 0..(Cardinality(DOMAIN messages[r.id]) - 1)
        <3>1. r.id \in Sids
            BY <1>2 DEF ListMessages, DInv
        <3>2. Seqs(r.id) = 0..(Count(r.id) - 1)
            BY <3>1 DEF SInv, Numbered
        <3> QED BY <3>2 DEF Seqs, Count
    <2>3. d.id = r.id /\ d.messages = messages[r.id]
        OBVIOUS
    <2> HIDE DEF d
    <2>4. detail'[c] = d /\ \A e \in Clients \ {c} : detail'[e] = detail[e]
        BY <2>1 DEF DInv
    <2>5. ASSUME NEW e \in Clients, detail'[e] # Absent
          PROVE  /\ DOMAIN detail'[e].messages = 0..(Cardinality(DOMAIN detail'[e].messages) - 1)
                 /\ detail'[e].id \in Living => \A i \in DOMAIN detail'[e].messages :
                        /\ i \in Seqs(detail'[e].id)
                        /\ messages[detail'[e].id][i] = detail'[e].messages[i]
        <3>1. CASE e = c
            BY <2>2, <2>3, <2>4, <3>1 DEF Seqs
        <3>2. CASE e # c
            BY <2>4, <2>5, <3>2 DEF DetailIsPrefix
        <3> QED BY <3>1, <3>2
    <2> QED BY <2>1, <2>5 DEF DetailIsPrefix, Seqs
<1>3. CASE Tick \/ ListSessions \/ Restart \/ UNCHANGED vars
    BY <1>1, <1>3 DEF Tick, ListSessions, Restart, vars, httpVars
<1>4. ASSUME NEW s \in Sids, NEW role \in Roles, AppendMessage(s, role) PROVE DetailIsPrefix'
    BY <1>1, <1>4 DEF AppendMessage
<1>5. ASSUME NEW c \in Clients, NEW s \in Sids, GetSession(c, s) PROVE DetailIsPrefix'
    BY <1>1, <1>5 DEF GetSession
<1>6. ASSUME NEW s \in Sids, CreateSession(s) \/ DeleteSession(s) PROVE DetailIsPrefix'
    BY <1>1, <1>6 DEF CreateSession, DeleteSession, httpVars
<1> QED BY <1>2, <1>3, <1>4, <1>5, <1>6 DEF Next

(* GET /api/sessions/{id} shows a prefix of the log, though it reads the   *)
(* messages in a transaction of their own (handlers.go:81-104).            *)
THEOREM DetailAlwaysPrefix == Spec => []DetailIsPrefix
<1>1. Init => DInv /\ DetailIsPrefix
    BY DEF Init, DInv, DetailIsPrefix
<1> QED BY <1>1, DStep, PrefixStep, SInductive, PTL DEF Spec

-----------------------------------------------------------------------------
(* Induction over the naturals and over the powers of Base *)

(* A set of naturals that has 0 and with every number the next has them    *)
(* all: were x missing, adding 1 would map what it has of 0..x one to one  *)
(* into the same set without 0.                                            *)
LEMMA NaturalInduction ==
    ASSUME NEW S \in SUBSET Nat, 0 \in S, \A n \in S : n + 1 \in S
    PROVE  S = Nat
<1> SUFFICES ASSUME NEW x \in Nat, x \notin S PROVE FALSE
    OBVIOUS
<1> DEFINE T    == S \cap (0..x)
           next == [i \in T |-> i + 1]
<1>1. T \in SUBSET (0..x) /\ 0 \in T
    OBVIOUS
<1>2. \A i \in T : i \in Nat /\ i + 1 \in T \ {0}
    OBVIOUS
<1> HIDE DEF T
<1>3. IsFiniteSet(T)
    <2>1. IsFiniteSet(0..x)
        BY FS_Interval
    <2> QED BY <1>1, <2>1, FS_Subset
<1>4. Cardinality(T) \in Nat
    BY <1>3, FS_CardinalityType
<1>5. IsFiniteSet(T \ {0}) /\ Cardinality(T \ {0}) = Cardinality(T) - 1
    BY <1>1, <1>3, FS_RemoveElement
<1>6. next \in Injection(T, T \ {0})
    BY <1>2 DEF Injection, IsInjective
<1>7. Cardinality(T) <= Cardinality(T \ {0})
    <2> HIDE DEF next
    <2> QED BY <1>5, <1>6, FS_Injection
<1> QED BY <1>4, <1>5, <1>7

LEMMA LeastNatural ==
    ASSUME NEW S \in SUBSET Nat, NEW x \in S
    PROVE  \E m \in S : \A n \in S : m <= n
<1> SUFFICES ASSUME \A m \in S : \E n \in S : n < m PROVE FALSE
    OBVIOUS
<1> DEFINE Below == {k \in Nat : \A n \in S : k <= n}
<1>1. 0 \in Below
    OBVIOUS
<1>2. ASSUME NEW k \in Below PROVE k + 1 \in Below
    OBVIOUS
<1>3. Below = Nat
    <2> HIDE DEF Below
    <2>1. Below \in SUBSET Nat
        BY DEF Below
    <2> QED BY <1>1, <1>2, <2>1, NaturalInduction
<1>4. x + 1 \in Below
    <2> HIDE DEF Below
    <2> QED BY <1>3
<1> QED BY <1>4

(* The powers of Base up to the n-th. *)
PowersTo(n) ==
    {g \in [0..n -> Nat] : g[0] = 1 /\ \A i \in 1..n : g[i] = Base * g[i - 1]}

LEMMA PowersExist == \A n \in Nat : PowersTo(n) # {}
<1> DEFINE S == {n \in Nat : PowersTo(n) # {}}
<1>1. 0 \in S
    <2>1. [i \in 0..0 |-> 1] \in PowersTo(0)
        BY DEF PowersTo
    <2> QED BY <2>1
<1>2. ASSUME NEW n \in S PROVE n + 1 \in S
    <2>1. PICK g \in PowersTo(n) : TRUE
        OBVIOUS
    <2> DEFINE h == [i \in 0..(n + 1) |-> IF i = n + 1 THEN Base * g[n] ELSE g[i]]
    <2>2. /\ g \in [0..n -> Nat] /\ g[0] = 1
          /\ \A i \in 1..n : g[i] = Base * g[i - 1]
        BY <2>1 DEF PowersTo
    <2>3. h \in [0..(n + 1) -> Nat] /\ h[0] = 1 /\ h[n + 1] = Base * h[n]
        BY <2>2, EncodingAssumption DEF EncodingAssumption
    <2>4. ASSUME NEW i \in 1..n PROVE h[i] = Base * h[i - 1]
        BY <2>2
    <2> HIDE DEF h
    <2>5. ASSUME NEW i \in 1..(n + 1) PROVE h[i] = Base * h[i - 1]
        <3>1. CASE i = n + 1
            <4>1. i - 1 = n
                BY <3>1
            <4> QED BY <2>3, <3>1, <4>1
        <3>2. CASE i # n + 1
            <4>1. i \in 1..n
                BY <3>2
            <4> QED BY <2>4, <4>1
        <3> QED BY <3>1, <3>2
    <2>6. h \in PowersTo(n + 1)
        BY <2>3, <2>5 DEF PowersTo
    <2> QED BY <2>6
<1>3. S = Nat
    <2>1. S \in SUBSET Nat
        OBVIOUS
    <2> HIDE DEF S
    <2> QED BY <1>1, <1>2, <2>1, NaturalInduction
<1> QED BY <1>3

LEMMA PowersAgree ==
    ASSUME NEW n \in Nat, NEW m \in Nat, n <= m, NEW g \in PowersTo(n), NEW h \in PowersTo(m)
    PROVE  \A i \in 0..n : g[i] = h[i]
<1> DEFINE S == {i \in Nat : i <= n => g[i] = h[i]}
<1>0. /\ g[0] = 1 /\ \A i \in 1..n : g[i] = Base * g[i - 1]
      /\ h[0] = 1 /\ \A i \in 1..m : h[i] = Base * h[i - 1]
    BY DEF PowersTo
<1>1. 0 \in S
    BY <1>0
<1>2. ASSUME NEW i \in S PROVE i + 1 \in S
    <2> SUFFICES ASSUME i + 1 <= n PROVE g[i + 1] = h[i + 1]
        OBVIOUS
    <2>1. i \in Nat /\ g[i] = h[i] /\ i + 1 \in 1..n /\ i + 1 \in 1..m /\ (i + 1) - 1 = i
        OBVIOUS
    <2> QED BY <1>0, <2>1
<1>3. S = Nat
    <2>1. S \in SUBSET Nat
        OBVIOUS
    <2> HIDE DEF S
    <2> QED BY <1>1, <1>2, <2>1, NaturalInduction
<1> QED BY <1>3

(* Power is what its recursive definition says. *)
LEMMA PowerDef == Power = [m \in Nat |-> IF m = 0 THEN 1 ELSE Base * Power[m - 1]]
<1> DEFINE g(m) == CHOOSE g \in PowersTo(m) : TRUE
           F    == [m \in Nat |-> g(m)[m]]
<1>1. \A m \in Nat : g(m) \in PowersTo(m)
    BY PowersExist
<1>2. F[0] = 1
    BY <1>1 DEF PowersTo
<1>3. ASSUME NEW m \in Nat \ {0} PROVE F[m] = Base * F[m - 1]
    <2>0. m - 1 \in Nat /\ m - 1 <= m /\ m \in 1..m /\ m - 1 \in 0..(m - 1)
        OBVIOUS
    <2>1. g(m) \in PowersTo(m) /\ g(m - 1) \in PowersTo(m - 1)
        BY <1>1, <2>0
    <2>2. g(m)[m] = Base * g(m)[m - 1]
        BY <2>0, <2>1 DEF PowersTo
    <2> HIDE DEF g
    <2>3. g(m - 1)[m - 1] = g(m)[m - 1]
        BY <2>0, <2>1, PowersAgree
    <2> QED BY <2>0, <2>2, <2>3
<1>4. F = [m \in Nat |-> IF m = 0 THEN 1 ELSE Base * F[m - 1]]
    <2> DEFINE G == [m \in Nat |-> IF m = 0 THEN 1 ELSE Base * F[m - 1]]
    <2>1. \A m \in Nat : F[m] = G[m]
        <3> HIDE DEF F
        <3> QED BY <1>2, <1>3
    <2>2. F = [m \in Nat |-> F[m]] /\ G = [m \in Nat |-> G[m]]
        OBVIOUS
    <2> HIDE DEF F, G
    <2>3. F = G
        BY <2>1, <2>2
    <2> QED BY <2>3 DEF G
<1>5. \E H : H = [m \in Nat |-> IF m = 0 THEN 1 ELSE Base * H[m - 1]]
    <2> HIDE DEF F
    <2> QED BY <1>4
<1> QED BY <1>5 DEF Power

LEMMA PowerFacts ==
    /\ Power \in [Nat -> Nat \ {0}]
    /\ Power[0] = 1
    /\ \A m \in Nat : Power[m + 1] = Base * Power[m]
<1>1. Power[0] = 1
    BY PowerDef
<1>2. ASSUME NEW m \in Nat PROVE Power[m + 1] = Base * Power[m]
    <2>1. m + 1 \in Nat /\ m + 1 # 0 /\ (m + 1) - 1 = m
        OBVIOUS
    <2> QED BY <2>1, PowerDef
<1> DEFINE S == {m \in Nat : Power[m] \in Nat \ {0}}
<1>3. 0 \in S
    BY <1>1
<1>4. ASSUME NEW m \in S PROVE m + 1 \in S
    <2>1. Power[m + 1] = Base * Power[m]
        BY <1>2
    <2>2. Power[m] \in Nat \ {0}
        OBVIOUS
    <2>3. Base * Power[m] \in Nat \ {0}
        BY <2>2, EncodingAssumption DEF EncodingAssumption
    <2> QED BY <2>1, <2>3
<1>5. S = Nat
    <2>1. S \in SUBSET Nat
        OBVIOUS
    <2> HIDE DEF S
    <2> QED BY <1>3, <1>4, <2>1, NaturalInduction
<1>6. \A m \in Nat : Power[m] \in Nat \ {0}
    BY <1>5
<1>7. Power = [m \in Nat |-> Power[m]]
    BY PowerDef
<1> QED BY <1>1, <1>2, <1>6, <1>7

LEMMA PowerGrows == \A n \in Nat : n < Power[n]
<1> DEFINE S == {n \in Nat : n < Power[n]}
<1>1. 0 \in S
    BY PowerFacts
<1>2. ASSUME NEW n \in S PROVE n + 1 \in S
    <2>1. n \in Nat /\ n < Power[n] /\ Power[n] \in Nat /\ Power[n + 1] = Base * Power[n]
        BY PowerFacts
    <2>2. Base * Power[n] >= 2 * Power[n]
        BY <2>1, EncodingAssumption DEF EncodingAssumption
    <2>3. Base * Power[n] \in Nat
        BY <2>1, EncodingAssumption DEF EncodingAssumption
    <2> QED BY <2>1, <2>2, <2>3
<1>3. S = Nat
    <2>1. S \in SUBSET Nat
        OBVIOUS
    <2> HIDE DEF S
    <2> QED BY <1>1, <1>2, <2>1, NaturalInduction
<1> QED BY <1>3

LEMMA PowerMonotone == \A n, m \in Nat : n <= m => Power[n] <= Power[m]
<1> SUFFICES ASSUME NEW n \in Nat PROVE \A m \in Nat : n <= m => Power[n] <= Power[m]
    OBVIOUS
<1> DEFINE S == {m \in Nat : n <= m => Power[n] <= Power[m]}
<1>0. \A m \in Nat : Power[m] \in Nat \ {0}
    BY PowerFacts
<1>1. 0 \in S
    BY <1>0
<1>2. ASSUME NEW m \in S PROVE m + 1 \in S
    <2>1. m \in Nat /\ Power[m] \in Nat \ {0} /\ Power[m + 1] = Base * Power[m]
        BY PowerFacts
    <2>2. Base * Power[m] >= Power[m] /\ Base * Power[m] \in Nat
        BY <2>1, EncodingAssumption DEF EncodingAssumption
    <2>3. CASE n = m + 1
        BY <2>1, <2>2, <2>3, <1>0
    <2>4. CASE n <= m
        BY <2>1, <2>2, <2>4, <1>0
    <2>5. CASE n > m + 1
        BY <2>1, <2>5
    <2> QED BY <2>1, <2>3, <2>4, <2>5
<1>3. S = Nat
    <2>1. S \in SUBSET Nat
        OBVIOUS
    <2> HIDE DEF S
    <2> QED BY <1>1, <1>2, <2>1, NaturalInduction
<1> QED BY <1>3

-----------------------------------------------------------------------------
(* The order of the keys *)

(* The number of places is the least that n fits in. *)
LEMMA PlacesLeast ==
    ASSUME NEW n \in Nat
    PROVE  /\ Places(n) \in Nat \ {0}
           /\ n < Power[Places(n)]
           /\ Places(n) = 1 \/ n >= Power[Places(n) - 1]
<1> DEFINE Fits == {w \in Nat \ {0} : n < Power[w]}
<1>0. \A m \in Nat : Power[m] \in Nat \ {0}
    BY PowerFacts
<1>1. n + 1 \in Fits
    BY <1>0, PowerGrows
<1>2. PICK w \in Fits : \A v \in Fits : w <= v
    <2>1. Fits \in SUBSET Nat
        OBVIOUS
    <2> HIDE DEF Fits
    <2> QED BY <1>1, <2>1, LeastNatural
<1>3. w \in 1..(n + 1) /\ n < Power[w]
    BY <1>1, <1>2
<1>4. w = 1 \/ n >= Power[w - 1]
    <2> SUFFICES ASSUME w # 1, n < Power[w - 1] PROVE FALSE
        BY <1>0, <1>3
    <2>1. w - 1 \in Fits
        BY <1>3
    <2> QED BY <1>2, <1>3, <2>1
<1> QED BY <1>3, <1>4 DEF Places

(* A number that fits in KeyWidth places is written with just those. *)
LEMMA KeyOfSmall ==
    ASSUME NEW n \in Nat, n < Power[KeyWidth]
    PROVE  MessageKey(n) = Digits(n, KeyWidth)
<1> USE EncodingAssumption DEF EncodingAssumption
<1>1. ASSUME Places(n) > KeyWidth PROVE FALSE
    <2>1. Places(n) \in Nat /\ Places(n) - 1 \in Nat /\ KeyWidth <= Places(n) - 1
        BY <1>1, PlacesLeast
    <2>2. n >= Power[Places(n) - 1]
        BY <1>1, <2>1, PlacesLeast
    <2>3. Power[KeyWidth] <= Power[Places(n) - 1]
        BY <2>1, PowerMonotone
    <2>4. Power[KeyWidth] \in Nat /\ Power[Places(n) - 1] \in Nat
        BY <2>1, PowerFacts
    <2> QED BY <2>2, <2>3, <2>4
<1> QED BY <1>1 DEF MessageKey

(* Division, as the keys use it. *)
LEMMA DivMod ==
    ASSUME NEW n \in Nat, NEW c \in Nat \ {0}
    PROVE  /\ n \div c \in Nat /\ n % c \in 0..(c - 1)
           /\ n = c * (n \div c) + (n % c)
<1>1. n \div c \in Nat
    OBVIOUS
<1>2. n % c \in 0..(c - 1)
    OBVIOUS
<1>3. n = c * (n \div c) + (n % c)
    OBVIOUS
<1> QED BY <1>1, <1>2, <1>3

LEMMA TimesMonotone ==
    ASSUME NEW c \in Nat, NEW p \in Nat, NEW q \in Nat, p < q
    PROVE  c * p \in Nat /\ c * p + c <= c * q
<1>1. PICK d \in Nat : q = p + 1 + d
    <2>1. q - (p + 1) \in Nat /\ q = p + 1 + (q - (p + 1))
        OBVIOUS
    <2> QED BY <2>1
<1>2. c * q = c * p + c + c * d
    BY <1>1
<1>3. c * d \in Nat /\ c * p \in Nat
    OBVIOUS
<1> QED BY <1>2, <1>3

LEMMA DivUnique ==
    ASSUME NEW n \in Nat, NEW c \in Nat \ {0}, NEW q \in Nat, NEW r \in 0..(c - 1),
           n = c * q + r
    PROVE  n \div c = q
<1> DEFINE p == n \div c
           s == n % c
<1>1. p \in Nat /\ s \in 0..(c - 1) /\ n = c * p + s
    BY DivMod
<1> HIDE DEF p, s
<1>2. ASSUME p < q PROVE FALSE
    <2>1. c * p + c <= c * q /\ c * p \in Nat /\ c * q \in Nat
        BY <1>1, <1>2, TimesMonotone
    <2> QED BY <1>1, <2>1
<1>3. ASSUME q < p PROVE FALSE
    <2>1. c * q + c <= c * p /\ c * p \in Nat /\ c * q \in Nat
        BY <1>1, <1>3, TimesMonotone
    <2> QED BY <1>1, <2>1
<1>4. p = q
    BY <1>1, <1>2, <1>3
<1> QED BY <1>4 DEF p

LEMMA DivMonotone ==
    ASSUME NEW n \in Nat, NEW m \in Nat, NEW c \in Nat \ {0}, n <= m
    PROVE  n \div c <= m \div c
<1> DEFINE p == n \div c
           q == m \div c
           r == n % c
           s == m % c
<1>1. p \in Nat /\ q \in Nat /\ r \in 0..(c - 1) /\ s \in 0..(c - 1)
      /\ n = c * p + r /\ m = c * q + s
    BY DivMod
<1> HIDE DEF p, q, r, s
<1>2. ASSUME q < p PROVE FALSE
    <2>1. c * q + c <= c * p /\ c * p \in Nat /\ c * q \in Nat
        BY <1>1, <1>2, TimesMonotone
    <2> QED BY <1>1, <2>1
<1>3. p <= q
    BY <1>1, <1>2
<1> QED BY <1>3 DEF p, q

LEMMA DivTwice ==
    ASSUME NEW n \in Nat, NEW c \in Nat \ {0}, NEW d \in Nat \ {0}
    PROVE  n \div (c * d) = (n \div d) \div c
<1> DEFINE p == n \div d
           r == n % d
           q == p \div c
           t == p % c
<1>1. p \in Nat /\ r \in 0..(d - 1) /\ n = d * p + r
    BY DivMod
<1>2. q \in Nat /\ t \in 0..(c - 1) /\ p = c * q + t
    <2> HIDE DEF p
    <2> QED BY <1>1, DivMod
<1> HIDE DEF p, q, r, t
<1>3. c * d \in Nat \ {0} /\ d * t \in Nat
    BY <1>2
<1>4. d * p = (c * d) * q + d * t
    <2>1. d * p = d * (c * q + t)
        BY <1>2
    <2>2. d * (c * q + t) = (c * d) * q + d * t
        BY <1>2
    <2> QED BY <2>1, <2>2
<1>5. d * t + r \in 0..(c * d - 1)
    <2>1. d * t + d <= d * c
        BY <1>2, TimesMonotone
    <2>2. d * c = c * d
        OBVIOUS
    <2> QED BY <1>1, <1>3, <2>1, <2>2
<1>6. n = (c * d) * q + (d * t + r)
    <2>1. (c * d) * q \in Nat /\ d * p \in Nat
        BY <1>1, <1>2, <1>3
    <2> QED BY <1>1, <1>3, <1>4, <2>1
<1>7. n \div (c * d) = q
    BY <1>2, <1>3, <1>5, <1>6, DivUnique
<1> QED BY <1>7 DEF q, p

(* Of two numbers of w places the smaller has the smaller digit in the     *)
(* first place they differ in.                                             *)
LEMMA FirstDifference ==
    ASSUME NEW w \in Nat \ {0}, NEW a \in Nat, NEW b \in Nat, a < b, b < Power[w]
    PROVE  \E k \in 1..w : /\ \A i \in 1..(k - 1) : Digits(a, w)[i] = Digits(b, w)[i]
                           /\ Digits(a, w)[k] < Digits(b, w)[k]
<1> USE EncodingAssumption DEF EncodingAssumption
<1> DEFINE Q(n, k) == n \div Power[w - k]
           Differ  == {k \in 1..w : Q(a, k) # Q(b, k)}
<1>1. \A k \in 0..w : /\ w - k \in Nat /\ Power[w - k] \in Nat \ {0}
    BY PowerFacts
<1>2. ASSUME NEW k \in 0..w
      PROVE  Q(a, k) \in Nat /\ Q(b, k) \in Nat /\ Q(a, k) <= Q(b, k)
    <2>1. a <= b /\ Power[w - k] \in Nat \ {0}
        BY <1>1
    <2> QED BY <2>1, DivMod, DivMonotone
<1>3. Q(a, 0) = 0 /\ Q(b, 0) = 0
    <2>1. Power[w] \in Nat \ {0} /\ w - 0 = w /\ a < Power[w]
        BY PowerFacts
    <2>2. a = Power[w] * 0 + a /\ b = Power[w] * 0 + b
        BY <2>1
    <2> QED BY <2>1, <2>2, DivUnique
<1>4. \A n \in Nat : \A k \in 1..w : Q(n, k - 1) = Q(n, k) \div Base
    <2> SUFFICES ASSUME NEW n \in Nat, NEW k \in 1..w PROVE Q(n, k - 1) = Q(n, k) \div Base
        OBVIOUS
    <2>1. w - k \in Nat /\ w - (k - 1) = (w - k) + 1
        OBVIOUS
    <2>2. Power[w - (k - 1)] = Base * Power[w - k]
        BY <2>1, PowerFacts
    <2> QED BY <1>1, <2>2, DivTwice
<1>5. w \in Differ
    <2>1. Power[w - w] = 1
        BY PowerFacts
    <2>2. a \div 1 = a /\ b \div 1 = b
        OBVIOUS
    <2> QED BY <2>1, <2>2
<1>6. PICK k \in Differ : \A j \in Differ : k <= j
    <2>1. Differ \in SUBSET Nat
        OBVIOUS
    <2> HIDE DEF Differ
    <2> QED BY <1>5, <2>1, LeastNatural
<1>7. k \in 1..w /\ \A j \in 1..(k - 1) : j \in 1..w /\ Q(a, j) = Q(b, j)
    BY <1>6
<1>8. \A n \in Nat : \A i \in 1..w : Digits(n, w)[i] = 48 + (Q(n, i) % Base)
    BY DEF Digits, Digit
<1>9. \A i \in 1..(k - 1) : Digits(a, w)[i] = Digits(b, w)[i]
    BY <1>7, <1>8
<1>10. Q(a, k) < Q(b, k)
    BY <1>2, <1>6
<1>11. Q(a, k) \div Base = Q(b, k) \div Base
    <2>1. Q(a, k - 1) = Q(b, k - 1)
        BY <1>3, <1>7
    <2> QED BY <1>4, <1>7, <2>1
<1>12. Q(a, k) % Base < Q(b, k) % Base
    <2>1. Q(a, k) \in Nat /\ Q(b, k) \in Nat
        BY <1>2, <1>7
    <2> HIDE DEF Q
    <2> DEFINE x == Q(a, k)
               y == Q(b, k)
    <2>3. x \div Base = y \div Base /\ x < y
        BY <1>10, <1>11
    <2>b. x \in Nat /\ y \in Nat /\ Base \in Nat \ {0}
        BY <2>1
    <2> HIDE DEF x, y
    <2>2. /\ x = Base * (x \div Base) + (x % Base)
          /\ x % Base \in 0..(Base - 1) /\ x \div Base \in Nat
          /\ y = Base * (y \div Base) + (y % Base)
          /\ y % Base \in 0..(Base - 1)
        BY <2>b, DivMod
    <2>4. x % Base \in Nat /\ y % Base \in Nat /\ Base * (x \div Base) \in Nat
        BY <2>b, <2>2
    <2>5. Base * (x \div Base) = Base * (y \div Base)
        BY <2>3
    <2>6. \A p, q, r \in Nat : p + q < p + r => q < r
        OBVIOUS
    <2>7. x % Base < y % Base
        BY <2>1, <2>2, <2>3, <2>4, <2>5, <2>6
    <2> QED BY <2>7 DEF x, y
<1>13. Digits(a, w)[k] < Digits(b, w)[k]
    <2>1. Q(a, k) \in Nat /\ Q(b, k) \in Nat
        BY <1>2, <1>7
    <2> HIDE DEF Q
    <2>2. Base \in Nat \ {0}
        OBVIOUS
    <2>3. Q(a, k) % Base \in 0..(Base - 1) /\ Q(b, k) % Base \in 0..(Base - 1)
        BY <2>1, <2>2, DivMod
    <2> QED BY <1>7, <1>8, <1>12, <2>3
<1> QED BY <1>7, <1>9, <1>13

LEMMA BeforeAt ==
    ASSUME NEW a, NEW b, Len(a) \in Nat, Len(b) \in Nat,
           NEW k \in 1..Len(a), k <= Len(b),
           \A i \in 1..(k - 1) : a[i] = b[i], a[k] < b[k]
    PROVE  Before(a, b)
<1>1. PICK n \in 0..Len(a) : n = k - 1
    OBVIOUS
<1>2. n + 1 = k /\ n < Len(a) /\ n < Len(b)
    BY <1>1
<1>3. a[n + 1] < b[n + 1]
    BY <1>2
<1>4. \A i \in 1..n : a[i] = b[i]
    BY <1>1
<1> QED BY <1>2, <1>3, <1>4 DEF Before

(* Up to the width the code pads to, keys sort as the numbers they encode: *)
(* bbolt lists the first Base^KeyWidth messages of a session, 10^10 in     *)
(* store.go:128-132, in the order they were appended in.                   *)
THEOREM KeysSortAsNumbers ==
    ASSUME NEW n \in Nat, n < Power[KeyWidth], NEW a \in 0..(n - 1)
    PROVE  Before(MessageKey(a), MessageKey(n))
<1> USE EncodingAssumption DEF EncodingAssumption
<1>1. a \in Nat /\ a < n /\ a < Power[KeyWidth] /\ KeyWidth \in Nat \ {0}
    BY PowerFacts
<1>2. MessageKey(a) = Digits(a, KeyWidth) /\ MessageKey(n) = Digits(n, KeyWidth)
    BY <1>1, KeyOfSmall
<1>3. PICK k \in 1..KeyWidth :
          /\ \A i \in 1..(k - 1) : Digits(a, KeyWidth)[i] = Digits(n, KeyWidth)[i]
          /\ Digits(a, KeyWidth)[k] < Digits(n, KeyWidth)[k]
    BY <1>1, FirstDifference
<1>4. Len(Digits(a, KeyWidth)) = KeyWidth /\ Len(Digits(n, KeyWidth)) = KeyWidth
    BY DEF Digits
<1>5. Before(Digits(a, KeyWidth), Digits(n, KeyWidth))
    BY <1>3, <1>4, BeforeAt
<1> QED BY <1>2, <1>5

(* The first number that needs a place more is the first whose key is out  *)
(* of order: it sorts before its predecessor, so MaxN cannot be weakened.  *)
THEOREM FirstLongKeyStrays ==
    ASSUME Base > 2
    PROVE  Before(MessageKey(Power[KeyWidth]), MessageKey(Power[KeyWidth] - 1))
<1> DEFINE K == KeyWidth
           N == Power[K]
           p == Power[K - 1]
<1> USE EncodingAssumption DEF EncodingAssumption
<1>1. /\ K \in Nat \ {0} /\ K + 1 \in Nat \ {0} /\ N \in Nat \ {0} /\ p \in Nat \ {0}
      /\ Power[K] = Base * p /\ Power[0] = 1
    <2>1. K - 1 \in Nat /\ (K - 1) + 1 = K /\ K \in Nat
        OBVIOUS
    <2>2. Power[(K - 1) + 1] = Base * Power[K - 1]
        BY <2>1, PowerFacts
    <2> HIDE DEF K
    <2>3. N \in Nat \ {0} /\ p \in Nat \ {0} /\ Power[0] = 1
        BY <2>1, PowerFacts
    <2> QED BY <2>1, <2>2, <2>3
<1>2. Places(N) > K
    <2> SUFFICES ASSUME Places(N) <= K PROVE FALSE
        BY <1>1, PlacesLeast
    <2>1. Places(N) \in Nat /\ N < Power[Places(N)]
        BY <1>1, PlacesLeast
    <2>2. Power[Places(N)] <= N /\ Power[Places(N)] \in Nat
        BY <1>1, <2>1, PowerMonotone, PowerFacts
    <2> QED BY <1>1, <2>1, <2>2
<1>3. Places(N) = K + 1
    <2>0. Places(N) \in Nat
        BY <1>1, PlacesLeast
    <2> HIDE DEF N, K
    <2> SUFFICES ASSUME Places(N) > K + 1 PROVE FALSE
        BY <1>1, <1>2, <2>0
    <2> DEFINE w == Places(N) - 1
    <2>1. w \in Nat /\ K + 1 <= w /\ N >= Power[w]
        BY <1>1, <2>0, PlacesLeast
    <2> HIDE DEF w
    <2>2. Power[K + 1] <= Power[w] /\ Power[w] \in Nat
        BY <1>1, <2>1, PowerMonotone, PowerFacts
    <2>3. Power[K + 1] = Base * N
        BY <1>1, PowerFacts DEF N
    <2>4. Base * N >= 2 * N /\ Base * N \in Nat
        BY <1>1
    <2> QED BY <1>1, <2>1, <2>2, <2>3, <2>4
<1>4. MessageKey(N) = Digits(N, K + 1) /\ Len(Digits(N, K + 1)) = K + 1
    BY <1>1, <1>2, <1>3 DEF MessageKey, Digits
<1>5. MessageKey(N - 1) = Digits(N - 1, K) /\ Len(Digits(N - 1, K)) = K
    <2>1. N - 1 \in Nat /\ N - 1 < Power[K]
        BY <1>1
    <2> HIDE DEF N
    <2> QED BY <1>1, <2>1, KeyOfSmall DEF Digits
<1>6. Digits(N, K + 1)[1] = 49
    <2>1. N \div N = 1
        <3>1. N = N * 1 + 0 /\ 0 \in 0..(N - 1)
            BY <1>1
        <3> HIDE DEF N
        <3> QED BY <1>1, <3>1, DivUnique
    <2>2. 1 % Base = 1 /\ (K + 1) - 1 = K /\ 1 \in 1..(K + 1)
        BY <1>1
    <2>3. Digits(N, K + 1)[1] = 48 + ((N \div Power[(K + 1) - 1]) % Base)
        BY <2>2 DEF Digits, Digit
    <2> QED BY <2>1, <2>2, <2>3
<1>7. Digits(N - 1, K)[1] = 48 + (Base - 1)
    <2>1. (N - 1) \div p = Base - 1
        <3>1. Base * p = p * (Base - 1) + p
            BY <1>1
        <3>2. p * (Base - 1) \in Nat /\ Base - 1 \in Nat
            BY <1>1
        <3>3. N - 1 = p * (Base - 1) + (p - 1) /\ p - 1 \in 0..(p - 1) /\ N - 1 \in Nat
            BY <1>1, <3>1, <3>2
        <3> HIDE DEF p, N
        <3> QED BY <1>1, <3>2, <3>3, DivUnique
    <2>2. (Base - 1) % Base = Base - 1 /\ 1 \in 1..K
        BY <1>1
    <2>3. Digits(N - 1, K)[1] = 48 + (((N - 1) \div Power[K - 1]) % Base)
        BY <2>2 DEF Digits, Digit
    <2> QED BY <2>1, <2>2, <2>3
<1>8. 1 \in 1..(K + 1) /\ 1 <= K /\ 49 < 48 + (Base - 1) /\ 1..(1 - 1) = {}
    BY <1>1
<1>9. Before(MessageKey(N), MessageKey(N - 1))
    <2> HIDE DEF N, K
    <2>1. Len(Digits(N, K + 1)) \in Nat /\ Len(Digits(N - 1, K)) \in Nat
        BY <1>1, <1>4, <1>5
    <2>2. Before(Digits(N, K + 1), Digits(N - 1, K))
        BY <1>4, <1>5, <1>6, <1>7, <1>8, <2>1, BeforeAt
    <2> QED BY <1>4, <1>5, <2>2
<1> QED BY <1>9

(* bbolt lists the messages of a session in the order of their numbers, as *)
(* long as the numbers fit the padding (store.go:128-132, 201-219).        *)
THEOREM KeysAlwaysInOrder == Spec => []KeysInOrder
<1>1. StrayKeys = {}
    <2> SUFFICES ASSUME NEW n \in 0..MaxN, NEW a \in 0..(n - 1),
                        ~Before(MessageKey(a), MessageKey(n))
                 PROVE  FALSE
        BY DEF StrayKeys
    <2>1. KeyWidth \in Nat /\ MaxN \in Nat /\ MaxN < Power[KeyWidth]
        BY KeyOrderAssumption, EncodingAssumption DEF KeyOrderAssumption, EncodingAssumption
    <2>2. Power[KeyWidth] \in Nat
        BY <2>1, PowerFacts
    <2>3. n \in Nat /\ n < Power[KeyWidth]
        BY <2>1, <2>2
    <2> QED BY <2>3, KeysSortAsNumbers
<1>2. KeysInOrder
    BY <1>1 DEF KeysInOrder
<1> QED BY <1>2, PTL

-----------------------------------------------------------------------------
(* How far the order of ListSessions can be wrong *)

Second(t) == t \div Power[FracWidth]

LEMMA SecondType == \A t \in Nat : Second(t) \in Nat
<1>1. Power[FracWidth] \in Nat \ {0}
    BY PowerFacts, EncodingAssumption DEF EncodingAssumption
<1> QED BY <1>1, DivMod DEF Second

LEMMA BeginsAlike ==
    ASSUME NEW a \in Seq(Int), NEW b \in Seq(Int), NEW c \in Seq(Int)
    PROVE  /\ Len((a \o b) \o c) \in Nat /\ Len((a \o b) \o c) >= Len(a)
           /\ \A i \in 1..Len(a) : ((a \o b) \o c)[i] = a[i]
<1>1. /\ a \o b \in Seq(Int) /\ Len(a \o b) = Len(a) + Len(b)
      /\ \A i \in 1..(Len(a) + Len(b)) :
            (a \o b)[i] = IF i <= Len(a) THEN a[i] ELSE b[i - Len(a)]
    BY ConcatProperties
<1> DEFINE d == a \o b
<1> HIDE DEF d
<1>2. d \in Seq(Int)
    BY <1>1 DEF d
<1>3. /\ d \o c \in Seq(Int) /\ Len(d \o c) = Len(d) + Len(c)
      /\ \A i \in 1..(Len(d) + Len(c)) :
            (d \o c)[i] = IF i <= Len(d) THEN d[i] ELSE c[i - Len(d)]
    BY <1>2, ConcatProperties
<1>4. Len(a) \in Nat /\ Len(b) \in Nat /\ Len(c) \in Nat /\ Len(d) = Len(a) + Len(b)
    BY <1>1 DEF d
<1>5. ASSUME NEW i \in 1..Len(a) PROVE (d \o c)[i] = a[i]
    <2>1. i \in 1..(Len(d) + Len(c)) /\ i <= Len(d) /\ i \in 1..(Len(a) + Len(b)) /\ i <= Len(a)
        BY <1>4
    <2>2. d[i] = a[i]
        BY <1>1, <2>1 DEF d
    <2> QED BY <1>3, <2>1, <2>2
<1>6. Len(d \o c) \in Nat /\ Len(d \o c) >= Len(a)
    BY <1>3, <1>4
<1> QED BY <1>5, <1>6 DEF d

(* A stamp begins with the two places of its second. *)
LEMMA StampBegins ==
    ASSUME NEW t \in Nat
    PROVE  /\ Len(Stamp(t)) \in Nat /\ Len(Stamp(t)) >= 2
           /\ \A i \in 1..2 : Stamp(t)[i] = Digits(Second(t), 2)[i]
<1> DEFINE frac    == Digits(t % Power[FracWidth], FracWidth)
           Trimmed(k) ==
               /\ k = 0 \/ frac[k] # Digit(0)
               /\ \A i \in (k + 1)..FracWidth : frac[i] = Digit(0)
           kept    == CHOOSE k \in 0..FracWidth : Trimmed(k)
           head    == Digits(Second(t), 2)
           point   == IF kept = 0 THEN <<>> ELSE <<Dot>> \o SubSeq(frac, 1, kept)
<1> USE EncodingAssumption DEF EncodingAssumption
<1>1. Power[FracWidth] \in Nat \ {0} /\ t % Power[FracWidth] \in Nat
    <2>1. Power[FracWidth] \in Nat \ {0}
        BY PowerFacts
    <2> QED BY <2>1, DivMod
<1>2. \A n \in Nat : \A w \in Nat : Digits(n, w) \in Seq(Int) /\ Len(Digits(n, w)) = w
    <2> SUFFICES ASSUME NEW n \in Nat, NEW w \in Nat
                 PROVE  Digits(n, w) \in Seq(Int) /\ Len(Digits(n, w)) = w
        OBVIOUS
    <2>1. ASSUME NEW i \in 1..w PROVE Digit((n \div Power[w - i]) % Base) \in Int
        <3>1. w - i \in Nat
            OBVIOUS
        <3>2. Power[w - i] \in Nat \ {0}
            BY <3>1, PowerFacts
        <3>3. (n \div Power[w - i]) \in Nat
            BY <3>2, DivMod
        <3>4. (n \div Power[w - i]) % Base \in Nat
            BY <3>3, DivMod
        <3> QED BY <3>4 DEF Digit
    <2>2. Digits(n, w) \in [1..w -> Int]
        BY <2>1 DEF Digits
    <2> QED BY <2>2
<1>3. \E k \in 0..FracWidth : Trimmed(k)
    <2> DEFINE Rest == {r \in Nat : r <= FracWidth
                            /\ (r = FracWidth \/ frac[FracWidth - r] # Digit(0))}
    <2> HIDE DEF frac
    <2>1. FracWidth \in Rest /\ Rest \in SUBSET Nat
        OBVIOUS
    <2>2. PICK r \in Rest : \A q \in Rest : r <= q
        <3> HIDE DEF Rest
        <3> QED BY <2>1, LeastNatural
    <2>3. FracWidth - r \in 0..FracWidth
        OBVIOUS
    <2>4. FracWidth - r = 0 \/ frac[FracWidth - r] # Digit(0)
        OBVIOUS
    <2>5. ASSUME NEW i \in (FracWidth - r + 1)..FracWidth PROVE frac[i] = Digit(0)
        <3> SUFFICES ASSUME frac[i] # Digit(0) PROVE FALSE
            OBVIOUS
        <3>1. PICK q \in Nat : q = FracWidth - i
            OBVIOUS
        <3>2. q < r /\ q <= FracWidth /\ FracWidth - q = i
            BY <3>1
        <3>3. q \in Rest
            BY <3>2
        <3> QED BY <2>2, <3>2, <3>3
    <2> QED BY <2>3, <2>4, <2>5
<1>4. kept \in 0..FracWidth
    <2> HIDE DEF Trimmed
    <2> QED BY <1>3
<1>5. frac \in Seq(Int) /\ Len(frac) = FracWidth
    BY <1>1, <1>2
<1>6. Second(t) \in Nat
    BY SecondType
<1>7. head \in Seq(Int) /\ Len(head) = 2
    BY <1>2, <1>6
<1>8. point \in Seq(Int)
    <2> HIDE DEF kept, frac
    <2>1. kept # 0 => SubSeq(frac, 1, kept) \in Seq(Int)
        BY <1>4, <1>5
    <2> QED BY <2>1 DEF Dot
<1>9. Stamp(t) = (head \o point) \o <<Zulu>>
    BY DEF Stamp, Second
<1>10. /\ Len((head \o point) \o <<Zulu>>) \in Nat
       /\ Len((head \o point) \o <<Zulu>>) >= 2
       /\ \A i \in 1..2 : ((head \o point) \o <<Zulu>>)[i] = head[i]
    <2>1. <<Zulu>> \in Seq(Int)
        BY DEF Zulu
    <2> HIDE DEF head, point
    <2>2. Len(head) = 2
        BY <1>7
    <2>3. /\ Len((head \o point) \o <<Zulu>>) \in Nat
          /\ Len((head \o point) \o <<Zulu>>) >= Len(head)
          /\ \A i \in 1..Len(head) : ((head \o point) \o <<Zulu>>)[i] = head[i]
        BY <1>7, <1>8, <2>1, BeginsAlike
    <2> QED BY <2>2, <2>3
<1> QED
    <2> HIDE DEF head, point
    <2>1. head = Digits(Second(t), 2)
        BY DEF head
    <2> QED BY <1>9, <1>10, <2>1

LEMMA EarlierSecondBefore ==
    ASSUME NEW t \in Nat, NEW u \in Nat, Second(t) < Second(u), Second(u) < Power[2]
    PROVE  Before(Stamp(t), Stamp(u))
<1>1. Second(t) \in Nat /\ Second(u) \in Nat
    BY SecondType
<1>2. PICK k \in 1..2 :
          /\ \A i \in 1..(k - 1) : Digits(Second(t), 2)[i] = Digits(Second(u), 2)[i]
          /\ Digits(Second(t), 2)[k] < Digits(Second(u), 2)[k]
    BY <1>1, FirstDifference
<1>a. /\ Len(Stamp(t)) \in Nat /\ Len(Stamp(t)) >= 2
      /\ Len(Stamp(u)) \in Nat /\ Len(Stamp(u)) >= 2
    BY StampBegins
<1>3. k \in 1..Len(Stamp(t)) /\ k <= Len(Stamp(u))
    BY <1>a
<1>4. (\A i \in 1..(k - 1) : Stamp(t)[i] = Stamp(u)[i]) /\ Stamp(t)[k] < Stamp(u)[k]
    <2>1. \A i \in 1..(k - 1) : i \in 1..2
        OBVIOUS
    <2> QED BY <1>2, <2>1, StampBegins
<1> QED BY <1>a, <1>3, <1>4, BeforeAt

(* ListSessions never lists a session behind one that was updated in an    *)
(* earlier second.                                                         *)
SecondsInOrder ==
    \A i, j \in DOMAIN listing : i < j => Second(listing[i]) >= Second(listing[j])

LEMMA ListedInit == Init => SecondsInOrder
    BY DEF Init, SecondsInOrder

LEMMA ListedStep ==
    ASSUME Second(MaxTime) < Power[2], SInv, SecondsInOrder, [Next]_vars
    PROVE  SecondsInOrder'
<1> USE DEF storeVars, httpVars
<1>1. ASSUME listing' = listing PROVE SecondsInOrder'
    BY <1>1 DEF SecondsInOrder
<1>2. CASE ListSessions
    <2>1. PICK o \in SetToSeqs(Living) :
              /\ \A i, j \in DOMAIN o : i < j =>
                    ~Before(Stamp(sessions[o[i]].updated), Stamp(sessions[o[j]].updated))
              /\ listing' = [i \in DOMAIN o |-> sessions[o[i]].updated]
        BY <1>2 DEF ListSessions
    <2>2. \A i \in DOMAIN o : o[i] \in Living
        BY DEF SetToSeqs
    <2>3. \A s \in Living : sessions[s].updated \in Time
        BY DEF Living, SInv, TypeOK, Session
    <2>4. Power[2] \in Nat
        BY PowerFacts
    <2>5. ASSUME NEW t \in Time PROVE t \in Nat /\ Second(t) < Power[2]
        <3>1. t \in Nat /\ MaxTime \in Nat /\ t <= MaxTime
            BY StoreAssumption DEF Time, StoreAssumption
        <3>2. Power[FracWidth] \in Nat \ {0}
            BY PowerFacts, EncodingAssumption DEF EncodingAssumption
        <3>3. Second(t) <= Second(MaxTime)
            BY <3>1, <3>2, DivMonotone DEF Second
        <3> QED BY <2>4, <3>1, <3>3, SecondType
    <2>6. ASSUME NEW i \in DOMAIN o, NEW j \in DOMAIN o, i < j
          PROVE  Second(listing'[i]) >= Second(listing'[j])
        <3>1. listing'[i] = sessions[o[i]].updated /\ listing'[j] = sessions[o[j]].updated
            BY <2>1
        <3>2. listing'[i] \in Time /\ listing'[j] \in Time
            BY <2>2, <2>3, <3>1
        <3>3. ~Before(Stamp(listing'[i]), Stamp(listing'[j]))
            BY <2>1, <2>6, <3>1
        <3>4. ~(Second(listing'[i]) < Second(listing'[j]))
            BY <2>5, <3>2, <3>3, EarlierSecondBefore
        <3>5. Second(listing'[i]) \in Nat /\ Second(listing'[j]) \in Nat
            BY <2>5, <3>2, SecondType
        <3> QED BY <3>4, <3>5
    <2>7. DOMAIN listing' = DOMAIN o
        BY <2>1
    <2> QED BY <2>6, <2>7 DEF SecondsInOrder, Second
<1>3. CASE Tick \/ Restart \/ UNCHANGED vars
    BY <1>1, <1>3 DEF Tick, Restart, vars
<1>4. CASE \E s \in Sids : CreateSession(s) \/ DeleteSession(s)
                             \/ \E role \in Roles : AppendMessage(s, role)
    BY <1>1, <1>4 DEF CreateSession, DeleteSession, AppendMessage
<1>5. CASE \E c \in Clients : ListMessages(c) \/ \E s \in Sids : GetSession(c, s)
    BY <1>1, <1>5 DEF ListMessages, GetSession
<1> QED BY <1>2, <1>3, <1>4, <1>5 DEF Next

(* The comparison of stamps is wrong only within a second: sessions whose  *)
(* last updates lie in different seconds are always listed in the order    *)
(* store.go:156 promises, as far as the two places of the model's seconds  *)
(* reach (store.go:116-118, 173-175).                                      *)
THEOREM ListedBySecond ==
    ASSUME Second(MaxTime) < Power[2]
    PROVE  Spec => []SecondsInOrder
<1>1. SInv /\ SecondsInOrder /\ [Next]_vars => SecondsInOrder'
    BY ListedStep
<1>2. Init => SecondsInOrder
    BY ListedInit
<1> QED BY <1>1, <1>2, SInductive, PTL DEF Spec
=============================================================================
