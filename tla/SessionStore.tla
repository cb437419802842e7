---------------------------- MODULE SessionStore ----------------------------
(***************************************************************************)
(* klyde-agent's backend: the session and message buckets in bbolt, and    *)
(* the HTTP handlers that use them.  bbolt runs one read-write transaction *)
(* at a time and gives a read transaction a snapshot, so each transaction  *)
(* is one step; GET /api/sessions/{id} makes two of them.                  *)
(*                                                                         *)
(* The message bucket is messages[s], the values under the keys with the   *)
(* prefix msg:<s>:, by the sequence number in the key.  Encoding has the   *)
(* order of those keys.  newID does not repeat an id.                      *)
(***************************************************************************)
EXTENDS Integers, Sequences, FiniteSets, Encoding, SequencesExt

CONSTANTS Sids,        \* ids newID may return
          Clients,     \* HTTP clients that read
          Roles,       \* roles a message may have
          MaxTime,     \* bound: the clock
          MaxMessages, \* bound: messages of a session
          Absent       \* no session, no request, no answer

ASSUME StoreAssumption ==
    /\ MaxTime \in Nat /\ MaxMessages \in Nat
    /\ Absent \notin [created : 0..MaxTime, updated : 0..MaxTime]

Time    == 0..MaxTime
Session == [created : Time, updated : Time]
Message == [role : Roles, created : Time]

VARIABLES clock,     \* time.Now(); it does not go back
          sessions,  \* the sessions bucket
          messages,  \* the messages bucket
          ended,     \* history: sessions that were deleted
          acked,     \* history: <<s, seq, m>> answered with 201
          reading,   \* reading[c]: the GET of c between its transactions
          detail,    \* detail[c]: the last SessionDetail c was answered
          listing    \* the last answer of GET /api/sessions

storeVars == <<sessions, messages, ended>>
httpVars  == <<acked, reading, detail, listing>>
vars == <<clock, storeVars, httpVars>>

Living == {s \in Sids : sessions[s] # Absent}

NoMessages == [seq \in {} |-> Absent]
Seqs(s)    == DOMAIN messages[s]

TypeOK ==
    /\ clock \in Time
    /\ sessions \in [Sids -> Session \cup {Absent}]
    /\ DOMAIN messages = Sids
    /\ \A s \in Sids : /\ Seqs(s) \subseteq Nat
                       /\ \A seq \in Seqs(s) : messages[s][seq] \in Message
    /\ ended \in SUBSET Sids

Init ==
    /\ clock = 0
    /\ sessions = [s \in Sids |-> Absent]
    /\ messages = [s \in Sids |-> NoMessages]
    /\ ended = {}
    /\ acked = {}
    /\ reading = [c \in Clients |-> Absent]
    /\ detail = [c \in Clients |-> Absent]
    /\ listing = <<>>

Tick ==
    /\ clock < MaxTime
    /\ clock' = clock + 1
    /\ UNCHANGED <<storeVars, httpVars>>

-----------------------------------------------------------------------------
(* The store's read-write transactions, each with its handler. *)

CreateSession(s) ==
    /\ s \notin Living \cup ended
    /\ sessions' = [sessions EXCEPT ![s] = [created |-> clock, updated |-> clock]]
    /\ UNCHANGED <<clock, messages, ended, httpVars>>

(* Mutant: the number of the last key, not of the next. *)
CountFromLast(s) == Cardinality(Seqs(s)) - 1

(* Mutant: the loop counts one key less. *)
CountOneLess(s) == IF Seqs(s) = {} THEN 0 ELSE Cardinality(Seqs(s)) - 1

(* The next sequence number is the number of keys under the prefix. *)
Count(s) == Cardinality(Seqs(s))

(* Mutant: Updated is left alone. *)
AppendNoTouch(s, role) ==
    /\ s \in Living
    /\ Count(s) < MaxMessages
    /\ LET m == [role |-> role, created |-> clock]
       IN  /\ messages' = [messages EXCEPT ![s] =
                              [i \in Seqs(s) \cup {Count(s)} |->
                                 IF i = Count(s) THEN m ELSE messages[s][i]]]
           /\ acked' \in {acked, acked \cup {<<s, Count(s), m>>}}
    /\ UNCHANGED <<clock, sessions, ended, reading, detail, listing>>

Put(s, seq, m) ==
    messages' = [messages EXCEPT ![s] =
                    [i \in Seqs(s) \cup {seq} |-> IF i = seq THEN m ELSE messages[s][i]]]

(* The 201 may be lost on its way, after the commit. *)
AppendMessage(s, role) ==
    /\ s \in Living
    /\ Count(s) < MaxMessages
    /\ LET m == [role |-> role, created |-> clock]
       IN  /\ Put(s, Count(s), m)
           /\ acked' \in {acked, acked \cup {<<s, Count(s), m>>}}
    /\ sessions' = [sessions EXCEPT ![s].updated = clock]
    /\ UNCHANGED <<clock, ended, reading, detail, listing>>

(* Mutant: only the session's own key is deleted. *)
DeleteSessionOnly(s) ==
    /\ s \in Living
    /\ sessions' = [sessions EXCEPT ![s] = Absent]
    /\ ended' = ended \cup {s}
    /\ UNCHANGED <<clock, messages, httpVars>>

DeleteSession(s) ==
    /\ s \in Living
    /\ sessions' = [sessions EXCEPT ![s] = Absent]
    /\ messages' = [messages EXCEPT ![s] = NoMessages]
    /\ ended' = ended \cup {s}
    /\ UNCHANGED <<clock, httpVars>>

-----------------------------------------------------------------------------
(* GET /api/sessions: every session once, sort.Slice by the stamp of       *)
(* Updated, descending; equal stamps come in any order.                    *)

ListSessions ==
    /\ \E o \in SetToSeqs(Living) :
          /\ \A i, j \in DOMAIN o :
                i < j => ~Before(Stamp(sessions[o[i]].updated), Stamp(sessions[o[j]].updated))
          /\ listing' = [i \in DOMAIN o |-> sessions[o[i]].updated]
    /\ UNCHANGED <<clock, storeVars, acked, reading, detail>>

(* GET /api/sessions/{id}: one transaction for the session ... *)
GetSession(c, s) ==
    /\ reading[c] = Absent
    /\ s \in Living
    /\ reading' = [reading EXCEPT ![c] = [id |-> s, session |-> sessions[s]]]
    /\ UNCHANGED <<clock, storeVars, acked, detail, listing>>

(* Mutant: the cursor stops before the last key. *)
ListMessagesButLast(c) ==
    /\ reading[c] # Absent
    /\ LET all == messages[reading[c].id]
       IN  detail' = [detail EXCEPT ![c] =
                     [id |-> reading[c].id, session |-> reading[c].session,
                      messages |-> [i \in {j \in DOMAIN all : j + 1 \in DOMAIN all} |-> all[i]]]]
    /\ reading' = [reading EXCEPT ![c] = Absent]
    /\ UNCHANGED <<clock, storeVars, acked, listing>>

(* ... and another for its messages. *)
ListMessages(c) ==
    /\ reading[c] # Absent
    /\ detail' = [detail EXCEPT ![c] =
                     [id |-> reading[c].id, session |-> reading[c].session,
                      messages |-> messages[reading[c].id]]]
    /\ reading' = [reading EXCEPT ![c] = Absent]
    /\ UNCHANGED <<clock, storeVars, acked, listing>>

(* The process stops and starts again: the file has every committed        *)
(* transaction, the requests in flight are gone.                           *)
Restart ==
    /\ reading' = [c \in Clients |-> Absent]
    /\ UNCHANGED <<clock, storeVars, acked, detail, listing>>

Next ==
    \/ Tick
    \/ \E s \in Sids :
          \/ CreateSession(s)
          \/ \E role \in Roles : AppendMessage(s, role)
          \/ DeleteSession(s)
    \/ ListSessions
    \/ \E c \in Clients : ListMessages(c) \/ \E s \in Sids : GetSession(c, s)
    \/ Restart

Spec == Init /\ [][Next]_vars

-----------------------------------------------------------------------------
(* Properties *)

(* A session's messages are numbered 0, 1, 2, ... without a gap, which is  *)
(* why counting them gives the next free number; a deleted session leaves  *)
(* none behind; and Updated is the time of the last message.               *)
LogWellFormed ==
    \A s \in Sids :
        /\ Seqs(s) = 0..(Count(s) - 1)
        /\ s \notin Living => Seqs(s) = {}
        /\ s \in Living =>
              sessions[s].updated =
                  IF Seqs(s) = {} THEN sessions[s].created
                  ELSE messages[s][Count(s) - 1].created

(* A message that was answered with 201 keeps its number and its content   *)
(* until its session is deleted: no append writes over another.            *)
AckedAppendsSurvive ==
    \A a \in acked :
        a[1] \in Living => a[2] \in Seqs(a[1]) /\ messages[a[1]][a[2]] = a[3]

(* A detail is never behind the session it shows: the message that set     *)
(* Updated is in it, unless the session was deleted between getSession's   *)
(* two transactions.  It reads the session first, the messages second.     *)
DetailNotBehind ==
    \A c \in Clients :
        LET d == detail[c] IN
        d # Absent /\ d.id \in Living =>
            \/ d.session.updated = d.session.created
            \/ \E seq \in DOMAIN d.messages : d.messages[seq].created = d.session.updated

(* What ListSessions says of itself: most recently updated first. *)
MostRecentFirst ==
    \A i, j \in DOMAIN listing : i < j => listing[i] >= listing[j]

-----------------------------------------------------------------------------
LogOf(s) == [i \in 1..Count(s) |-> messages[s][i - 1]]
Logs     == [s \in Sids |-> LogOf(s)]

Log == INSTANCE ChatLog WITH living <- Living, log <- Logs

(* The buckets, read by key order, are the append-only logs of ChatLog. *)
ImplementsLog == Log!LogSpec
=============================================================================
