---------------------------- MODULE ChatTabProofs ----------------------------
(***************************************************************************)
(* Proofs about ChatTab, for any number of tabs, chats, broken connections *)
(* and lost messages: what the page's chat log shows, and what becomes of  *)
(* a reply that it does not show.                                          *)
(*                                                                         *)
(* A reply is in one place at most: on its way in channel, in the inbox of *)
(* the connection it was asked on, in a line, or missed. pendingReplyEl is *)
(* the line of the latest chat, and of one asked on this connection as     *)
(* soon as any was; so a reply that fills another chat's line was asked on *)
(* the same connection, and before.                                        *)
(***************************************************************************)
EXTENDS ChatTab, TLAPS

Shown(t, c)  == \E i \in 1..Len(log[t]) : log[t][i].shows = c
Asked(t, c)  == \E i \in 1..Len(log[t]) : log[t][i].asked = c
Inside(q, c) == \E i \in 1..Len(q) : q[i] = c
Distinct(q)  == \A i, j \in 1..Len(q) : q[i] = q[j] => i = j

(* What is known of a reply, and of its chat, from the queue's side. *)
QueueInv ==
    /\ \A c \in Replies :
          /\ answers[c] = 1 <=> status[c] = "answered"
          /\ owner[ChatOf[c]] = Nobody => status[c] = "new"
    /\ \A a \in Chats : owner[a] # Nobody => owner[a].session <= session[owner[a].tab]

(* Every session of a tab but the first came after a break. *)
SocketInv ==
    \A t \in Tabs : session[t] <= breaks /\ (t \notin online => session[t] < breaks)

(* A reply on its way to the relay. *)
ChannelInv ==
    /\ Distinct(channel)
    /\ \A c \in Replies : Inside(channel, c) =>
          /\ answers[c] = 1 /\ c \notin missed
          /\ \A t \in Tabs : ~Inside(inbox[t], c) /\ ~Shown(t, c)

(* A reply on its way to the page. *)
InboxInv ==
    \A t \in Tabs :
        /\ Distinct(inbox[t])
        /\ \A c \in Replies : Inside(inbox[t], c) =>
              /\ t \in online /\ owner[ChatOf[c]] = Me(t)
              /\ answers[c] = 1 /\ c \notin missed
              /\ \A u \in Tabs : ~Shown(u, c)

MissedInv == \A c \in missed : answers[c] = 1

(* Each chat asked in a tab has one line there. *)
LineInv ==
    \A t \in Tabs :
        /\ \A c \in Chats : owner[c] # Nobody /\ owner[c].tab = t <=> Asked(t, c)
        /\ \A i, j \in 1..Len(log[t]) :
              log[t][i].asked = log[t][j].asked /\ log[t][i].asked # NoChat => i = j

(* pendingReplyEl is the line of the latest chat, which is one of this     *)
(* connection if there is any.                                             *)
PendingInv ==
    \A t \in Tabs :
        LET k == pending[t] IN
        k # 0 =>
            /\ log[t][k].asked # NoChat /\ log[t][k].shows = NoReply
            /\ \A i \in 1..Len(log[t]) : i > k => log[t][i].asked = NoChat
            /\ (\E c \in Chats : owner[c] = Me(t)) => owner[log[t][k].asked] = Me(t)

CInv ==
    /\ TypeOK /\ QueueInv /\ ChannelInv /\ InboxInv /\ MissedInv
    /\ LineInv /\ PendingInv
    /\ ShownOnceWhereAsked /\ MisplacedOnlyIfOverlapping

USE ChatTabAssumption

-----------------------------------------------------------------------------
LEMMA CInit == Init => CInv
<1> SUFFICES ASSUME Init PROVE CInv
    OBVIOUS
<1>1. status = [c \in Replies |-> "new"] /\ answers = [c \in Replies |-> 0]
    BY DEF Init, Service!SvcInit
<1>2. TypeOK
    BY <1>1 DEF Init, TypeOK, Nobody
<1>3. QueueInv /\ ChannelInv /\ InboxInv /\ MissedInv /\ LineInv /\ PendingInv
    BY <1>1 DEF Init, QueueInv, ChannelInv, InboxInv, MissedInv, LineInv, PendingInv,
                Inside, Distinct, Shown, Asked
<1>4. ShownOnceWhereAsked /\ MisplacedOnlyIfOverlapping
    BY DEF Init, ShownOnceWhereAsked, MisplacedOnlyIfOverlapping
<1> QED BY <1>2, <1>3, <1>4 DEF CInv

(* Every part of the invariant but the types reads the log through         *)
(* its lines; these two lemmas say what the page's two ways of writing do. *)
LEMMA Appended ==
    ASSUME TypeOK, NEW t \in Tabs, NEW a \in Chats \cup {NoChat},
           NEW b \in Replies \cup {NoReply}, AppendLine(t, a, b)
    PROVE  /\ log' \in [Tabs -> Seq(Line)]
           /\ Len(log'[t]) = Len(log[t]) + 1
           /\ log'[t][Len(log[t]) + 1] = [asked |-> a, shows |-> b]
           /\ \A i \in 1..Len(log[t]) : log'[t][i] = log[t][i]
           /\ \A u \in Tabs \ {t} : log'[u] = log[u]
<1> DEFINE line == [asked |-> a, shows |-> b]
<1>1. line \in Line
    BY DEF Line
<1>2. log' = [log EXCEPT ![t] = Append(log[t], line)] /\ log \in [Tabs -> Seq(Line)]
    BY DEF AppendLine, TypeOK
<1> HIDE DEF line
<1>3. log'[t] = Append(log[t], line) /\ log[t] \in Seq(Line)
    BY <1>2
<1>4. log' \in [Tabs -> Seq(Line)] /\ \A u \in Tabs \ {t} : log'[u] = log[u]
    BY <1>1, <1>2, <1>3
<1> QED BY <1>1, <1>3, <1>4 DEF line

LEMMA Filled ==
    ASSUME TypeOK, NEW t \in Tabs, pending[t] # 0, NEW c \in Replies, Fill(t, c)
    PROVE  /\ log' \in [Tabs -> Seq(Line)]
           /\ Len(log'[t]) = Len(log[t])
           /\ pending[t] \in 1..Len(log[t])
           /\ log'[t][pending[t]] = [asked |-> log[t][pending[t]].asked, shows |-> c]
           /\ \A i \in 1..Len(log[t]) : i # pending[t] => log'[t][i] = log[t][i]
           /\ \A u \in Tabs \ {t} : log'[u] = log[u]
<1> DEFINE k == pending[t]
           line == [log[t][k] EXCEPT !.shows = c]
<1>1. log \in [Tabs -> Seq(Line)] /\ log[t] \in Seq(Line) /\ k \in 1..Len(log[t])
    BY DEF TypeOK
<1>2. log[t][k] \in Line
    BY <1>1
<1>3. line \in Line /\ line = [asked |-> log[t][k].asked, shows |-> c]
    BY <1>2 DEF Line
<1>4. log' = [log EXCEPT ![t] = [log[t] EXCEPT ![k] = line]]
    BY DEF Fill
<1> HIDE DEF line, k
<1>5. log'[t] = [log[t] EXCEPT ![k] = line] /\ \A u \in Tabs \ {t} : log'[u] = log[u]
    BY <1>1, <1>4
<1>6. log'[t] \in Seq(Line) /\ Len(log'[t]) = Len(log[t]) /\ log'[t][k] = line
      /\ \A i \in 1..Len(log[t]) : i # k => log'[t][i] = log[t][i]
    BY <1>1, <1>3, <1>5
<1>7. log' \in [Tabs -> Seq(Line)]
    BY <1>1, <1>4, <1>5, <1>6
<1> QED BY <1>1, <1>3, <1>5, <1>6, <1>7 DEF k

-----------------------------------------------------------------------------
(* Queues of replies *)

LEMMA TailHolds ==
    ASSUME NEW q \in Seq(Replies), q # <<>>, Distinct(q)
    PROVE  /\ Tail(q) \in Seq(Replies) /\ Head(q) \in Replies /\ Inside(q, Head(q))
           /\ Distinct(Tail(q))
           /\ \A c : Inside(Tail(q), c) <=> Inside(q, c) /\ c # Head(q)
<1>1. /\ Len(q) \in Nat /\ Len(q) >= 1 /\ Head(q) = q[1]
      /\ Len(Tail(q)) = Len(q) - 1 /\ \A i \in 1..(Len(q) - 1) : Tail(q)[i] = q[i + 1]
      /\ Tail(q) \in Seq(Replies) /\ Head(q) \in Replies
    OBVIOUS
<1>2. Distinct(Tail(q)) /\ Inside(q, Head(q))
    BY <1>1 DEF Distinct, Inside
<1>3. ASSUME NEW c, Inside(Tail(q), c) PROVE Inside(q, c) /\ c # Head(q)
    BY <1>1, <1>3 DEF Distinct, Inside
<1>4. ASSUME NEW c, Inside(q, c), c # Head(q) PROVE Inside(Tail(q), c)
    <2>1. PICK i \in 1..Len(q) : q[i] = c
        BY <1>4 DEF Inside
    <2>2. i - 1 \in 1..Len(Tail(q)) /\ Tail(q)[i - 1] = c
        BY <1>1, <1>4, <2>1
    <2> QED BY <2>2 DEF Inside
<1> QED BY <1>1, <1>2, <1>3, <1>4

LEMMA AppendHolds ==
    ASSUME NEW q \in Seq(Replies), NEW c \in Replies, Distinct(q), ~Inside(q, c)
    PROVE  /\ Append(q, c) \in Seq(Replies) /\ Distinct(Append(q, c))
           /\ \A d : Inside(Append(q, c), d) <=> Inside(q, d) \/ d = c
<1>1. /\ Len(q) \in Nat /\ Len(Append(q, c)) = Len(q) + 1
      /\ \A i \in 1..Len(q) : Append(q, c)[i] = q[i]
      /\ Append(q, c)[Len(q) + 1] = c /\ Append(q, c) \in Seq(Replies)
    OBVIOUS
<1> QED BY <1>1 DEF Distinct, Inside

LEMMA EmptyHolds ==
    /\ <<>> \in Seq(Replies) /\ Distinct(<<>>)
    /\ \A c : ~Inside(<<>>, c)
BY DEF Distinct, Inside

LEMMA ElementsHold ==
    ASSUME NEW q \in Seq(Replies)
    PROVE  Elements(q) \subseteq Replies /\ \A c : c \in Elements(q) <=> Inside(q, c)
BY DEF Elements, Inside

-----------------------------------------------------------------------------
(* Steps that leave the page alone *)

LEMMA PageKept ==
    ASSUME CInv, UNCHANGED <<owner, session, page>>,
           \A c \in Replies : answers[c] = 1 => answers'[c] = 1,
           missed \subseteq missed',
           \A t \in Tabs, c \in Replies : Shown(t, c) => c \notin missed'
    PROVE  LineInv' /\ PendingInv' /\ ShownOnceWhereAsked' /\ MisplacedOnlyIfOverlapping'
<1>1. log' = log /\ pending' = pending /\ owner' = owner /\ session' = session
    BY DEF page
<1>2. LineInv' /\ MisplacedOnlyIfOverlapping'
    BY <1>1 DEF CInv, LineInv, Asked, MisplacedOnlyIfOverlapping
<1>3. PendingInv'
    BY <1>1 DEF CInv, PendingInv, Me
<1>4. ShownOnceWhereAsked'
    <2> SUFFICES ASSUME NEW t \in Tabs, NEW i \in 1..Len(log[t]), log[t][i].shows # NoReply
                 PROVE  LET c == log[t][i].shows IN
                            /\ owner[ChatOf[c]].tab = t /\ answers'[c] = 1 /\ c \notin missed'
                            /\ \A j \in 1..Len(log[t]) : log[t][j].shows = c => j = i
        BY <1>1 DEF ShownOnceWhereAsked
    <2> DEFINE c == log[t][i].shows
    <2>1. log[t] \in Seq(Line) /\ log[t][i] \in Line
        BY DEF CInv, TypeOK
    <2>2. c \in Replies /\ Shown(t, c)
        BY <2>1 DEF Line, Shown
    <2>3. /\ owner[ChatOf[c]].tab = t /\ answers[c] = 1
          /\ \A j \in 1..Len(log[t]) : log[t][j].shows = c => j = i
        BY DEF CInv, ShownOnceWhereAsked
    <2> QED BY <2>2, <2>3
<1> QED BY <1>2, <1>3, <1>4

LEMMA EnqueueKeeps ==
    ASSUME CInv, NEW c \in Replies, Enqueue(c) PROVE CInv'
<1>1. /\ status[c] = "new" /\ owner[ChatOf[c]] # Nobody /\ answers' = answers
      /\ status' = [status EXCEPT ![c] = "open"]
      /\ UNCHANGED <<relay, around>>
    BY DEF Enqueue, Service!Accept
<1>2. UNCHANGED <<owner, session, online, stalled, breaks, log, pending, channel, inbox, missed, drops>>
    BY <1>1 DEF around, relay, socket, page
<1>3. TypeOK' /\ QueueInv' /\ ChannelInv' /\ InboxInv' /\ MissedInv'
    <2>1. TypeOK'
        BY <1>1, <1>2 DEF CInv, TypeOK
    <2>2. QueueInv'
        BY <1>1, <1>2 DEF CInv, TypeOK, QueueInv
    <2>3. ChannelInv' /\ InboxInv' /\ MissedInv'
        BY <1>1, <1>2 DEF CInv, ChannelInv, InboxInv, MissedInv, Me, Shown
    <2> QED BY <2>1, <2>2, <2>3
<1>4. \A t \in Tabs, d \in Replies : Shown(t, d) => d \notin missed'
    BY <1>2 DEF CInv, ShownOnceWhereAsked, Shown, NoReply
<1>5. UNCHANGED <<owner, session, page>> /\ missed' = missed
    BY <1>2 DEF page
<1> QED BY <1>1, <1>3, <1>4, <1>5, PageKept DEF CInv

LEMMA LoseKeeps ==
    ASSUME CInv, LoseReplies PROVE CInv'
<1>1. PICK S \in SUBSET {c \in Replies : status[c] = "open"} :
          /\ status' = [c \in Replies |-> IF c \in S THEN "lost" ELSE status[c]]
          /\ answers' = answers
          /\ UNCHANGED <<relay, around>>
    BY DEF LoseReplies, Service!Lose
<1>2. UNCHANGED <<owner, session, online, stalled, breaks, log, pending, channel, inbox, missed, drops>>
    BY <1>1 DEF around, relay, socket, page
<1>3. TypeOK' /\ QueueInv' /\ ChannelInv' /\ InboxInv' /\ MissedInv'
    <2>1. TypeOK'
        BY <1>1, <1>2 DEF CInv, TypeOK
    <2>2. QueueInv'
        BY <1>1, <1>2 DEF CInv, TypeOK, QueueInv
    <2>3. ChannelInv' /\ InboxInv' /\ MissedInv'
        BY <1>1, <1>2 DEF CInv, ChannelInv, InboxInv, MissedInv, Me, Shown
    <2> QED BY <2>1, <2>2, <2>3
<1>4. \A t \in Tabs, d \in Replies : Shown(t, d) => d \notin missed'
    BY <1>2 DEF CInv, ShownOnceWhereAsked, Shown, NoReply
<1>5. UNCHANGED <<owner, session, page>> /\ missed' = missed
    BY <1>2 DEF page
<1> QED BY <1>1, <1>3, <1>4, <1>5, PageKept DEF CInv

LEMMA PublishKeeps ==
    ASSUME CInv, NEW c \in Replies, PublishReply(c) PROVE CInv'
<1>1. /\ status[c] = "open" /\ status' = [status EXCEPT ![c] = "answered"]
      /\ answers' = [answers EXCEPT ![c] = @ + 1]
      /\ channel' = Append(channel, c)
      /\ UNCHANGED <<owner, session, online, stalled, breaks, log, pending, inbox, missed, drops>>
    BY DEF PublishReply, Service!Answer, around, socket, page
<1>2. answers[c] = 0 /\ answers'[c] = 1 /\ \A d \in Replies \ {c} : answers'[d] = answers[d]
    BY <1>1 DEF CInv, TypeOK, QueueInv
<1>3. \A t \in Tabs, d \in Replies : Shown(t, d) => d \notin missed /\ answers[d] = 1
    BY DEF CInv, ShownOnceWhereAsked, Shown, NoReply
<1>4. ~Inside(channel, c) /\ c \notin missed
      /\ \A t \in Tabs : ~Inside(inbox[t], c) /\ ~Shown(t, c)
    BY <1>2, <1>3 DEF CInv, ChannelInv, InboxInv, MissedInv
<1>5. channel' \in Seq(Replies) /\ Distinct(channel')
      /\ \A d : Inside(channel', d) <=> Inside(channel, d) \/ d = c
    BY <1>1, <1>4, AppendHolds DEF CInv, TypeOK, ChannelInv
<1>6. TypeOK'
    BY <1>1, <1>2, <1>5 DEF CInv, TypeOK
<1>7. QueueInv' /\ MissedInv'
    BY <1>1, <1>2 DEF CInv, TypeOK, QueueInv, MissedInv
<1>8. ChannelInv'
    BY <1>1, <1>2, <1>4, <1>5 DEF CInv, ChannelInv, Shown
<1>9. InboxInv'
    BY <1>1, <1>2 DEF CInv, InboxInv, Me, Shown
<1>10. UNCHANGED <<owner, session, page>> /\ missed' = missed
    BY <1>1 DEF page
<1> QED BY <1>2, <1>3, <1>6, <1>7, <1>8, <1>9, <1>10, PageKept DEF CInv

LEMMA RelayKeeps ==
    ASSUME CInv, Relay PROVE CInv'
<1> DEFINE c == Head(channel)
           t == owner[ChatOf[c]].tab
<1>1. /\ channel # <<>> /\ channel' = Tail(channel)
      /\ UNCHANGED <<status, answers, owner, session, online, stalled, breaks, log, pending, drops>>
    BY DEF Relay, queue, around, socket, page
<1>2. /\ channel' \in Seq(Replies) /\ c \in Replies /\ Inside(channel, c) /\ Distinct(channel')
      /\ \A d : Inside(channel', d) <=> Inside(channel, d) /\ d # c
    BY <1>1, TailHolds DEF CInv, TypeOK, ChannelInv
<1>3. answers[c] = 1 /\ c \notin missed
      /\ \A u \in Tabs : ~Inside(inbox[u], c) /\ ~Shown(u, c)
    BY <1>2 DEF CInv, ChannelInv
<1>4. \A u \in Tabs, d \in Replies : Shown(u, d) => d \notin missed
    BY DEF CInv, ShownOnceWhereAsked, Shown, NoReply
<1>5. UNCHANGED <<owner, session, page>>
    BY <1>1 DEF page
<1>6. CASE t \in online /\ owner[ChatOf[c]] = Me(t)
    <2>1. t \in Tabs /\ inbox' = [inbox EXCEPT ![t] = Append(@, c)] /\ missed' = missed
        BY <1>6 DEF Relay, CInv, TypeOK
    <2>2. inbox'[t] = Append(inbox[t], c) /\ \A u \in Tabs \ {t} : inbox'[u] = inbox[u]
        BY <2>1 DEF CInv, TypeOK
    <2>3. /\ inbox'[t] \in Seq(Replies) /\ Distinct(inbox'[t])
          /\ \A d : Inside(inbox'[t], d) <=> Inside(inbox[t], d) \/ d = c
        <3>1. inbox[t] \in Seq(Replies) /\ Distinct(inbox[t])
            BY <2>1 DEF CInv, TypeOK, InboxInv
        <3>2. c \in Replies /\ ~Inside(inbox[t], c) /\ inbox'[t] = Append(inbox[t], c)
            BY <1>2, <1>3, <2>1, <2>2
        <3> HIDE DEF c, t
        <3> QED BY <3>1, <3>2, AppendHolds
    <2>4. TypeOK'
        <3>1. inbox' \in [Tabs -> Seq(Replies)]
            BY <2>1, <2>2, <2>3 DEF CInv, TypeOK
        <3> QED BY <1>1, <1>2, <2>1, <3>1 DEF CInv, TypeOK
    <2>5. QueueInv' /\ MissedInv'
        BY <1>1, <2>1 DEF CInv, QueueInv, MissedInv
    <2>6. ChannelInv'
        BY <1>1, <1>2, <2>1, <2>2, <2>3 DEF CInv, ChannelInv, Shown
    <2>7. InboxInv'
        <3>1. \A u \in Tabs : Me(u)' = Me(u) /\ \A d : Shown(u, d)' <=> Shown(u, d)
            BY <1>1 DEF Me, Shown
        <3>2. \A u \in Tabs : Distinct(inbox'[u])
            BY <2>2, <2>3 DEF CInv, InboxInv
        <3>3. ASSUME NEW u \in Tabs, NEW d \in Replies, Inside(inbox'[u], d)
              PROVE  \/ Inside(inbox[u], d)
                     \/ u = t /\ d = c
            BY <2>2, <2>3, <3>3
        <3>4. ASSUME NEW u \in Tabs, NEW d \in Replies, Inside(inbox'[u], d)
              PROVE  /\ u \in online /\ owner[ChatOf[d]] = Me(u)
                     /\ answers[d] = 1 /\ d \notin missed
                     /\ \A v \in Tabs : ~Shown(v, d)
            <4>1. CASE Inside(inbox[u], d)
                BY <4>1 DEF CInv, InboxInv
            <4>2. CASE u = t /\ d = c
                BY <1>3, <1>6, <4>2
            <4> QED BY <3>3, <3>4, <4>1, <4>2
        <3> QED BY <1>1, <2>1, <3>1, <3>2, <3>4 DEF InboxInv
    <2> QED BY <1>1, <1>4, <1>5, <2>1, <2>4, <2>5, <2>6, <2>7, PageKept DEF CInv
<1>7. CASE ~(t \in online /\ owner[ChatOf[c]] = Me(t))
    <2>1. inbox' = inbox /\ missed' = missed \cup {c}
        BY <1>7 DEF Relay
    <2>2. TypeOK' /\ QueueInv' /\ MissedInv'
        BY <1>1, <1>2, <1>3, <2>1 DEF CInv, TypeOK, QueueInv, MissedInv
    <2>3. ChannelInv'
        BY <1>1, <1>2, <2>1 DEF CInv, ChannelInv, Shown
    <2>4. InboxInv'
        BY <1>1, <1>2, <1>3, <2>1 DEF CInv, InboxInv, Me, Shown
    <2> QED BY <1>1, <1>3, <1>4, <1>5, <2>1, <2>2, <2>3, <2>4, PageKept DEF CInv
<1> QED BY <1>6, <1>7

LEMMA DropKeeps ==
    ASSUME CInv, Drop PROVE CInv'
<1>1. /\ channel' = <<>> /\ missed' = missed \cup Elements(channel)
      /\ drops' = drops + 1 /\ drops < MaxDrops
      /\ UNCHANGED <<status, answers, owner, session, online, stalled, breaks, log, pending, inbox>>
    BY DEF Drop, queue, around, socket, page
<1>2. Elements(channel) \subseteq Replies /\ \A c : c \in Elements(channel) <=> Inside(channel, c)
    BY ElementsHold DEF CInv, TypeOK
<1>3. TypeOK'
    <2>1. drops' \in 0..MaxDrops /\ missed' \in SUBSET Replies
        BY <1>1, <1>2 DEF CInv, TypeOK
    <2> QED BY <1>1, <2>1, EmptyHolds DEF CInv, TypeOK
<1>4. QueueInv' /\ MissedInv'
    BY <1>1, <1>2 DEF CInv, QueueInv, MissedInv, ChannelInv
<1>5. ChannelInv'
    BY <1>1, EmptyHolds DEF ChannelInv
<1>6. InboxInv'
    BY <1>1, <1>2 DEF CInv, InboxInv, ChannelInv, Me, Shown
<1>7. \A u \in Tabs, d \in Replies : Shown(u, d) => d \notin missed'
    BY <1>1, <1>2 DEF CInv, ShownOnceWhereAsked, ChannelInv, Shown, NoReply
<1>8. UNCHANGED <<owner, session, page>> /\ missed \subseteq missed' /\ answers' = answers
    BY <1>1 DEF page
<1> QED BY <1>3, <1>4, <1>5, <1>6, <1>7, <1>8, PageKept DEF CInv

LEMMA BreakKeeps ==
    ASSUME CInv, NEW t \in Tabs, Break(t) PROVE CInv'
<1>1. /\ t \in online /\ breaks < MaxBreaks /\ breaks' = breaks + 1 /\ online' = online \ {t}
      /\ stalled' = stalled \ {t}
      /\ inbox' = [inbox EXCEPT ![t] = <<>>] /\ missed' = missed \cup Elements(inbox[t])
      /\ UNCHANGED <<status, answers, owner, session, channel, drops, log, pending>>
    BY DEF Break, queue, page
<1>2. inbox'[t] = <<>> /\ \A u \in Tabs \ {t} : inbox'[u] = inbox[u]
    BY <1>1 DEF CInv, TypeOK
<1>3. /\ Elements(inbox[t]) \subseteq Replies
      /\ \A c : c \in Elements(inbox[t]) <=> Inside(inbox[t], c)
    BY ElementsHold DEF CInv, TypeOK
<1>4. TypeOK'
    <2>1. inbox' \in [Tabs -> Seq(Replies)]
        BY <1>1, EmptyHolds DEF CInv, TypeOK
    <2>2. breaks' \in 0..MaxBreaks /\ missed' \in SUBSET Replies /\ online' \in SUBSET Tabs
          /\ stalled' \in SUBSET Tabs
        BY <1>1, <1>3 DEF CInv, TypeOK
    <2> QED BY <1>1, <2>1, <2>2 DEF CInv, TypeOK
<1>5. QueueInv' /\ MissedInv'
    BY <1>1, <1>3 DEF CInv, QueueInv, MissedInv, InboxInv
<1>6. ChannelInv'
    BY <1>1, <1>2, <1>3, EmptyHolds DEF CInv, ChannelInv, Shown
<1>7. InboxInv'
    <2> SUFFICES ASSUME NEW u \in Tabs
                 PROVE  /\ Distinct(inbox'[u])
                        /\ \A c \in Replies : Inside(inbox'[u], c) =>
                              /\ u \in online' /\ owner'[ChatOf[c]] = Me(u)'
                              /\ answers'[c] = 1 /\ c \notin missed'
                              /\ \A v \in Tabs : ~Shown(v, c)'
        BY DEF InboxInv
    <2>1. CASE u = t
        BY <1>2, <2>1, EmptyHolds
    <2>2. CASE u # t
        <3>1. \A c \in Replies : Inside(inbox[u], c) => ~Inside(inbox[t], c)
            <4>1. Me(u).tab = u /\ Me(t).tab = t
                BY DEF Me
            <4>2. \A v \in Tabs, c \in Replies : Inside(inbox[v], c) => owner[ChatOf[c]] = Me(v)
                BY DEF CInv, InboxInv
            <4> QED BY <2>2, <4>1, <4>2
        <3>2. Me(u)' = Me(u) /\ \A v, c : Shown(v, c)' <=> Shown(v, c)
            BY <1>1 DEF Me, Shown
        <3>3. inbox'[u] = inbox[u] /\ owner' = owner /\ answers' = answers
              /\ (u \in online => u \in online')
            BY <1>1, <1>2, <2>2
        <3>4. \A c \in Replies : Inside(inbox[u], c) /\ c \notin missed => c \notin missed'
            BY <1>1, <1>3, <3>1
        <3>5. \A c \in Replies : Inside(inbox[u], c) =>
                  /\ u \in online /\ owner[ChatOf[c]] = Me(u) /\ answers[c] = 1 /\ c \notin missed
                  /\ \A v \in Tabs : ~Shown(v, c)
            BY DEF CInv, InboxInv
        <3>6. Distinct(inbox[u])
            BY DEF CInv, InboxInv
        <3> QED BY <3>2, <3>3, <3>4, <3>5, <3>6
    <2> QED BY <2>1, <2>2
<1>8. \A u \in Tabs, d \in Replies : Shown(u, d) => d \notin missed'
    BY <1>1, <1>3 DEF CInv, ShownOnceWhereAsked, InboxInv, Shown, NoReply
<1>9. UNCHANGED <<owner, session, page>> /\ missed \subseteq missed' /\ answers' = answers
    BY <1>1 DEF page
<1> QED BY <1>4, <1>5, <1>6, <1>7, <1>8, <1>9, PageKept DEF CInv

-----------------------------------------------------------------------------
(* Steps of the page *)

(* A new connection, on which nobody has asked yet. *)
LEMMA ConnectKeeps ==
    ASSUME CInv, SocketInv, NEW t \in Tabs, Connect(t) PROVE CInv'
<1>1. /\ t \notin online /\ online' = online \cup {t}
      /\ session' = [session EXCEPT ![t] = @ + 1]
      /\ UNCHANGED <<status, answers, owner, stalled, breaks, channel, inbox, missed, drops,
                      log, pending>>
    BY DEF Connect, queue, relay, page
<1>2. /\ session'[t] = session[t] + 1 /\ \A u \in Tabs \ {t} : session'[u] = session[u]
      /\ \A u \in Tabs : session[u] \in Nat
    BY <1>1 DEF CInv, TypeOK
<1>3. TypeOK'
    <2>1. session' \in [Tabs -> 0..MaxBreaks]
        BY <1>1, <1>2 DEF CInv, TypeOK, SocketInv
    <2> QED BY <1>1, <2>1 DEF CInv, TypeOK
<1>4. \A c \in Chats : owner[c] # Nobody =>
          owner[c].tab \in Tabs /\ owner[c].session \in Nat
          /\ owner[c].session <= session[owner[c].tab]
    BY DEF CInv, TypeOK, QueueInv
<1>5. \A c \in Chats, u \in Tabs : owner[c] = [tab |-> u, session |-> session[u]] =>
          owner[c] # Nobody /\ owner[c].tab = u /\ owner[c].session = session[u]
    BY DEF Nobody
<1>6. \A c \in Chats : owner[c] # Me(t)'
    <2> SUFFICES ASSUME NEW c \in Chats, owner[c] = Me(t)' PROVE FALSE
        OBVIOUS
    <2>1. owner[c].tab = t /\ owner[c].session = session[t] + 1 /\ owner[c] # Nobody
        BY <1>2 DEF Me, Nobody
    <2> QED BY <1>2, <1>4, <2>1
<1>7. \A u \in Tabs \ {t} : Me(u)' = Me(u)
    BY <1>2 DEF Me
<1>8. QueueInv'
    BY <1>1, <1>2, <1>4 DEF CInv, QueueInv
<1>9. ChannelInv' /\ MissedInv'
    BY <1>1 DEF CInv, ChannelInv, MissedInv, Shown
<1>10. InboxInv'
    <2>1. \A c \in Replies : ~Inside(inbox[t], c)
        BY <1>1 DEF CInv, InboxInv
    <2>2. \A u \in Tabs : \A c : Shown(u, c)' <=> Shown(u, c)
        BY <1>1 DEF Shown
    <2> QED BY <1>1, <1>7, <2>1, <2>2 DEF CInv, InboxInv
<1>11. PendingInv'
    BY <1>1, <1>6, <1>7 DEF CInv, PendingInv
<1>12. LineInv' /\ MisplacedOnlyIfOverlapping' /\ ShownOnceWhereAsked'
    BY <1>1 DEF CInv, LineInv, Asked, MisplacedOnlyIfOverlapping, ShownOnceWhereAsked
<1> QED BY <1>3, <1>8, <1>9, <1>10, <1>11, <1>12 DEF CInv

LEMMA AskKeeps ==
    ASSUME CInv, NEW t \in Tabs, NEW c \in Chats, Ask(t, c) PROVE CInv'
<1> DEFINE n == Len(log[t]) + 1
<1>1. /\ t \in online /\ owner[c] = Nobody /\ AppendLine(t, c, NoReply)
      /\ pending' = [pending EXCEPT ![t] = n]
      /\ owner' = [owner EXCEPT ![c] = Me(t)]
      /\ UNCHANGED <<status, answers, session, online, stalled, breaks, channel, inbox, missed, drops>>
    BY DEF Ask, queue, socket, relay
<1>2. /\ TypeOK /\ n \in Nat \ {0} /\ log[t] \in Seq(Line)
      /\ NoChat \notin Chats /\ NoReply \notin Replies
      /\ Len(log[t]) = n - 1 /\ 1..n = (1..(n - 1)) \cup {n} /\ n \notin 1..(n - 1)
    <2>1. TypeOK /\ log[t] \in Seq(Line)
        BY DEF CInv, TypeOK
    <2>2. NoChat \notin Chats /\ NoReply \notin Replies
        BY ChatTabAssumption DEF NoChat, NoReply
    <2> HIDE DEF CInv
    <2>3. Len(log[t]) \in Nat
        BY <2>1
    <2>4. n \in Nat \ {0} /\ Len(log[t]) = n - 1
        BY <2>3
    <2>5. 1..n = (1..(n - 1)) \cup {n} /\ n \notin 1..(n - 1)
        BY <2>4
    <2> QED BY <2>1, <2>2, <2>4, <2>5
<1> HIDE DEF n
<1>3. /\ log' \in [Tabs -> Seq(Line)]
      /\ Len(log'[t]) = n /\ log'[t][n] = [asked |-> c, shows |-> NoReply]
      /\ \A i \in 1..(n - 1) : log'[t][i] = log[t][i]
      /\ \A u \in Tabs \ {t} : log'[u] = log[u]
    <2>1. /\ log' \in [Tabs -> Seq(Line)]
          /\ Len(log'[t]) = Len(log[t]) + 1
          /\ log'[t][Len(log[t]) + 1] = [asked |-> c, shows |-> NoReply]
          /\ \A i \in 1..Len(log[t]) : log'[t][i] = log[t][i]
          /\ \A u \in Tabs \ {t} : log'[u] = log[u]
        BY <1>1, <1>2, Appended
    <2> QED BY <1>2, <2>1 DEF n
<1>4. \A u \in Tabs, d \in Replies : Shown(u, d)' <=> Shown(u, d)
    <2>1. ASSUME NEW d \in Replies PROVE Shown(t, d)' <=> Shown(t, d)
        <3>1. 1..Len(log'[t]) = (1..Len(log[t])) \cup {n}
            BY <1>2, <1>3
        <3>2. log'[t][n].shows # d /\ \A i \in 1..Len(log[t]) : log'[t][i] = log[t][i]
            BY <1>2, <1>3
        <3> QED BY <3>1, <3>2 DEF Shown
    <2>2. \A u \in Tabs \ {t}, d \in Replies : Shown(u, d)' <=> Shown(u, d)
        BY <1>3 DEF Shown
    <2> QED BY <2>1, <2>2
<1>5. \A u \in Tabs, d \in Chats : Asked(u, d)' <=> Asked(u, d) \/ (u = t /\ d = c)
    <2>1. \A d \in Chats : Asked(t, d)' <=> Asked(t, d) \/ d = c
        BY <1>2, <1>3 DEF Asked
    <2>2. \A u \in Tabs \ {t}, d \in Chats : Asked(u, d)' <=> Asked(u, d)
        BY <1>3 DEF Asked
    <2> QED BY <2>1, <2>2
<1>6. /\ owner'[c] = Me(t) /\ \A d \in Chats \ {c} : owner'[d] = owner[d]
      /\ \A u \in Tabs : Me(u)' = Me(u)
    BY <1>1, <1>2 DEF TypeOK, Me
<1>7. Me(t) # Nobody /\ Me(t).tab = t /\ Me(t).session = session[t]
      /\ Me(t) \in [tab : Tabs, session : 0..MaxBreaks]
    BY <1>2 DEF Me, Nobody, TypeOK
<1>8. \A d \in Replies : ChatOf[d] = c => status[d] = "new" /\ answers[d] = 0
    BY <1>1, <1>2 DEF CInv, QueueInv, TypeOK
<1>9. /\ \A u \in Tabs : ~Asked(u, c)
      /\ \A u \in Tabs, d \in Replies : Shown(u, d) => ChatOf[d] # c
    <2>1. \A u \in Tabs : ~Asked(u, c)
        BY <1>1 DEF CInv, LineInv
    <2>2. \A u \in Tabs, d \in Replies : Shown(u, d) => ChatOf[d] # c
        BY <1>2, <1>8 DEF CInv, ShownOnceWhereAsked, Shown
    <2> QED BY <2>1, <2>2
<1>10. TypeOK'
    <2>1. pending'[t] = n /\ \A u \in Tabs \ {t} : pending'[u] = pending[u]
        BY <1>1, <1>2 DEF TypeOK
    <2>2. pending' \in [Tabs -> Nat] /\ \A u \in Tabs : pending'[u] <= Len(log'[u])
        BY <1>1, <1>2, <1>3, <2>1 DEF TypeOK
    <2>3. owner' \in [Chats -> [tab : Tabs, session : 0..MaxBreaks] \cup {Nobody}]
        BY <1>1, <1>2, <1>7 DEF TypeOK
    <2> QED BY <1>1, <1>2, <1>3, <2>2, <2>3 DEF TypeOK
<1>11. QueueInv' /\ MissedInv'
    BY <1>1, <1>2, <1>6, <1>7, <1>8 DEF CInv, QueueInv, MissedInv, TypeOK
<1>12. ChannelInv'
    BY <1>1, <1>4 DEF CInv, ChannelInv
<1>13. InboxInv'
    <2>1. \A u \in Tabs, d \in Replies : Inside(inbox[u], d) => ChatOf[d] # c
        BY <1>8 DEF CInv, InboxInv
    <2>2. \A u \in Tabs, d \in Replies :
              Inside(inbox[u], d) => owner'[ChatOf[d]] = owner[ChatOf[d]]
        BY <1>6, <2>1
    <2> QED BY <1>1, <1>4, <1>6, <2>2 DEF CInv, InboxInv
<1>14. LineInv'
    <2>1. \A u \in Tabs, d \in Chats : owner'[d] # Nobody /\ owner'[d].tab = u <=> Asked(u, d)'
        BY <1>5, <1>6, <1>7, <1>9 DEF CInv, LineInv
    <2>2. \A u \in Tabs : \A i, j \in 1..Len(log'[u]) :
              log'[u][i].asked = log'[u][j].asked /\ log'[u][i].asked # NoChat => i = j
        <3>1. \A i \in 1..(n - 1) : log[t][i].asked # c
            BY <1>2, <1>9 DEF Asked
        <3>2. ASSUME NEW i \in 1..n, NEW j \in 1..n,
                     log'[t][i].asked = log'[t][j].asked, log'[t][i].asked # NoChat
              PROVE  i = j
            <4>1. CASE i \in 1..(n - 1) /\ j \in 1..(n - 1)
                <5>1. log[t][i].asked = log[t][j].asked /\ log[t][i].asked # NoChat
                    BY <1>3, <3>2, <4>1
                <5> QED BY <1>2, <4>1, <5>1 DEF CInv, LineInv
            <4>2. CASE i = n \/ j = n
                BY <1>2, <1>3, <3>1, <3>2, <4>2
            <4> QED BY <1>2, <4>1, <4>2
        <3>3. \A u \in Tabs \ {t} : \A i, j \in 1..Len(log'[u]) :
                  log'[u][i].asked = log'[u][j].asked /\ log'[u][i].asked # NoChat => i = j
            BY <1>3 DEF CInv, LineInv
        <3> QED BY <1>3, <3>2, <3>3
    <2> QED BY <2>1, <2>2 DEF LineInv
<1>15. PendingInv'
    <2> SUFFICES ASSUME NEW u \in Tabs, pending'[u] # 0
                 PROVE  LET k == pending'[u] IN
                        /\ log'[u][k].asked # NoChat /\ log'[u][k].shows = NoReply
                        /\ \A i \in 1..Len(log'[u]) : i > k => log'[u][i].asked = NoChat
                        /\ (\E d \in Chats : owner'[d] = Me(u)) => owner'[log'[u][k].asked] = Me(u)
        BY <1>6 DEF PendingInv
    <2>1. CASE u = t
        <3>1. pending'[u] = n
            BY <1>1, <1>2, <2>1 DEF TypeOK
        <3> QED BY <1>2, <1>3, <1>6, <2>1, <3>1
    <2>2. CASE u # t
        <3>1. pending'[u] = pending[u] /\ log'[u] = log[u] /\ Me(u) # Me(t)
            BY <1>1, <1>2, <1>3, <2>2 DEF TypeOK, Me
        <3>2. log[u] \in Seq(Line) /\ pending[u] \in 1..Len(log[u])
            BY <1>2, <2>2, <3>1 DEF TypeOK
        <3>3. log[u][pending[u]] \in Line
            BY <3>2
        <3>4. log[u][pending[u]].asked # c
            BY <1>9, <3>2 DEF Asked
        <3>5. log[u][pending[u]].asked \in Chats
            BY <3>1, <3>3 DEF CInv, PendingInv, Line
        <3>6. (\E d \in Chats : owner'[d] = Me(u)) => \E d \in Chats : owner[d] = Me(u)
            BY <1>6, <3>1
        <3> QED BY <1>6, <3>1, <3>4, <3>5, <3>6 DEF CInv, PendingInv
    <2> QED BY <2>1, <2>2
<1>16. ShownOnceWhereAsked' /\ MisplacedOnlyIfOverlapping'
    <2>1. ASSUME NEW u \in Tabs, NEW i \in 1..Len(log'[u]), log'[u][i].shows # NoReply
          PROVE  /\ i \in 1..Len(log[u]) /\ log'[u][i] = log[u][i]
                 /\ log[u][i] \in Line /\ log[u][i].asked # c
                 /\ log[u][i].shows \in Replies /\ ChatOf[log[u][i].shows] # c
        <3>1. i \in 1..Len(log[u]) /\ log'[u][i] = log[u][i]
            BY <1>2, <1>3, <2>1
        <3>2. log[u] \in Seq(Line) /\ log[u][i] \in Line
            BY <1>2, <3>1 DEF TypeOK
        <3>3. log[u][i].shows \in Replies /\ Shown(u, log[u][i].shows)
            BY <2>1, <3>1, <3>2 DEF Line, Shown
        <3> QED BY <1>9, <3>1, <3>2, <3>3 DEF Asked
    <2>2. ShownOnceWhereAsked'
        <3> SUFFICES ASSUME NEW u \in Tabs, NEW i \in 1..Len(log'[u]), log'[u][i].shows # NoReply
                     PROVE  LET d == log'[u][i].shows IN
                            /\ owner'[ChatOf[d]].tab = u /\ answers'[d] = 1 /\ d \notin missed'
                            /\ \A j \in 1..Len(log'[u]) : log'[u][j].shows = d => j = i
            BY DEF ShownOnceWhereAsked
        <3> DEFINE d == log'[u][i].shows
        <3>1. /\ i \in 1..Len(log[u]) /\ d = log[u][i].shows
              /\ d \in Replies /\ ChatOf[d] \in Chats \ {c}
            BY <2>1
        <3>2. /\ owner[ChatOf[d]].tab = u /\ answers[d] = 1 /\ d \notin missed
              /\ \A j \in 1..Len(log[u]) : log[u][j].shows = d => j = i
            BY <3>1 DEF CInv, ShownOnceWhereAsked
        <3>3. \A j \in 1..Len(log'[u]) : log'[u][j].shows = d => j = i
            BY <2>1, <3>1, <3>2
        <3> QED BY <1>1, <1>6, <3>1, <3>2, <3>3
    <2>3. MisplacedOnlyIfOverlapping'
        <3> SUFFICES ASSUME NEW u \in Tabs, NEW i \in 1..Len(log'[u]),
                            log'[u][i].asked # NoChat, log'[u][i].shows # NoReply,
                            log'[u][i].asked # ChatOf[log'[u][i].shows]
                     PROVE  /\ owner'[ChatOf[log'[u][i].shows]] = owner'[log'[u][i].asked]
                            /\ \E j \in 1..(i - 1) :
                                  log'[u][j].asked = ChatOf[log'[u][i].shows]
            BY DEF MisplacedOnlyIfOverlapping
        <3>1. /\ i \in 1..Len(log[u]) /\ log'[u][i] = log[u][i] /\ log[u][i] \in Line
              /\ log[u][i].asked # c
              /\ log[u][i].shows \in Replies /\ ChatOf[log[u][i].shows] # c
            BY <2>1
        <3>2. /\ owner[ChatOf[log[u][i].shows]] = owner[log[u][i].asked]
              /\ \E j \in 1..(i - 1) : log[u][j].asked = ChatOf[log[u][i].shows]
            BY <3>1 DEF CInv, MisplacedOnlyIfOverlapping
        <3>3. log[u][i].asked \in Chats /\ ChatOf[log[u][i].shows] \in Chats
            BY <3>1 DEF Line
        <3>4. \A j \in 1..(i - 1) : log'[u][j] = log[u][j]
            <4>1. CASE u = t
                <5>1. i <= n - 1
                    BY <1>2, <3>1, <4>1
                <5>2. \A j \in 1..(i - 1) : j \in 1..(n - 1)
                    BY <1>2, <5>1
                <5> QED BY <1>3, <4>1, <5>2
            <4>2. CASE u # t
                BY <1>3, <4>2
            <4> QED BY <4>1, <4>2
        <3> QED BY <1>6, <3>1, <3>2, <3>3, <3>4
    <2> QED BY <2>2, <2>3
<1> QED BY <1>10, <1>11, <1>12, <1>13, <1>14, <1>15, <1>16 DEF CInv

(* What onmessage does to the log, in either case: one line shows the      *)
(* reply, the line of pendingReplyEl or a new one; no other changes.       *)
LEMMA Written ==
    ASSUME CInv, NEW t \in Tabs, inbox[t] # <<>>, OnReply(t)
    PROVE  \E k \in 1..Len(log'[t]) :
              /\ log' \in [Tabs -> Seq(Line)] /\ Len(log[t]) \in Nat
              /\ 1..Len(log'[t]) = (1..Len(log[t])) \cup {k}
              /\ log'[t][k].shows = Head(inbox[t])
              /\ \A i \in 1..Len(log[t]) :
                    /\ log'[t][i].asked = log[t][i].asked
                    /\ i # k => log'[t][i] = log[t][i]
              /\ \/ k = pending[t] /\ k \in 1..Len(log[t]) /\ log[t][k].shows = NoReply
                 \/ k \notin 1..Len(log[t]) /\ log'[t][k].asked = NoChat
              /\ \A u \in Tabs \ {t} : log'[u] = log[u]
<1> DEFINE c == Head(inbox[t])
<1>1. TypeOK /\ log[t] \in Seq(Line) /\ c \in Replies /\ Len(log[t]) \in Nat
    BY TailHolds DEF CInv, TypeOK, InboxInv
<1>2. CASE pending[t] # 0 /\ Fill(t, c)
    <2>1. /\ log' \in [Tabs -> Seq(Line)]
          /\ Len(log'[t]) = Len(log[t])
          /\ pending[t] \in 1..Len(log[t])
          /\ log'[t][pending[t]] = [asked |-> log[t][pending[t]].asked, shows |-> c]
          /\ \A i \in 1..Len(log[t]) : i # pending[t] => log'[t][i] = log[t][i]
          /\ \A u \in Tabs \ {t} : log'[u] = log[u]
        BY <1>1, <1>2, Filled
    <2>2. log[t][pending[t]].shows = NoReply
        BY <1>2 DEF CInv, PendingInv
    <2>3. \A i \in 1..Len(log[t]) : log'[t][i].asked = log[t][i].asked
        BY <2>1
    <2> WITNESS pending[t] \in 1..Len(log'[t])
    <2> QED BY <1>1, <2>1, <2>2, <2>3
<1>3. CASE pending[t] = 0 /\ AppendLine(t, NoChat, c)
    <2> DEFINE n == Len(log[t]) + 1
    <2>1. /\ log' \in [Tabs -> Seq(Line)]
          /\ Len(log'[t]) = n
          /\ log'[t][n] = [asked |-> NoChat, shows |-> c]
          /\ \A i \in 1..Len(log[t]) : log'[t][i] = log[t][i]
          /\ \A u \in Tabs \ {t} : log'[u] = log[u]
        BY <1>1, <1>3, Appended
    <2>2. n \in 1..n /\ n \notin 1..Len(log[t]) /\ 1..n = (1..Len(log[t])) \cup {n}
        BY <1>1
    <2>3. n \in 1..Len(log'[t])
        BY <2>1, <2>2
    <2> HIDE DEF n
    <2> WITNESS n \in 1..Len(log'[t])
    <2> QED BY <1>1, <2>1, <2>2
<1> QED BY <1>2, <1>3 DEF OnReply

LEMMA OnReplyKeeps ==
    ASSUME CInv, NEW t \in Tabs, OnReply(t) PROVE CInv'
<1> DEFINE c == Head(inbox[t])
<1>1. /\ t \in online /\ inbox[t] # <<>> /\ inbox' = [inbox EXCEPT ![t] = Tail(@)]
      /\ pending' = [pending EXCEPT ![t] = 0]
      /\ UNCHANGED <<status, answers, owner, session, online, stalled, breaks, channel, missed, drops>>
    BY DEF OnReply, Receive, queue, socket
<1>2. /\ inbox'[t] = Tail(inbox[t]) /\ \A u \in Tabs \ {t} : inbox'[u] = inbox[u]
      /\ pending'[t] = 0 /\ \A u \in Tabs \ {t} : pending'[u] = pending[u]
      /\ pending' \in [Tabs -> Nat] /\ NoReply \notin Replies
      /\ NoChat \notin Chats
    BY <1>1 DEF CInv, TypeOK, NoChat, NoReply
<1>3. /\ Tail(inbox[t]) \in Seq(Replies) /\ c \in Replies /\ Inside(inbox[t], c)
      /\ Distinct(Tail(inbox[t]))
      /\ \A d : Inside(Tail(inbox[t]), d) <=> Inside(inbox[t], d) /\ d # c
    BY <1>1, TailHolds DEF CInv, TypeOK, InboxInv
<1>4. /\ owner[ChatOf[c]] = Me(t) /\ answers[c] = 1 /\ c \notin missed
      /\ \A u \in Tabs : ~Shown(u, c)
    BY <1>3 DEF CInv, InboxInv
<1>5. PICK k \in 1..Len(log'[t]) :
          /\ log' \in [Tabs -> Seq(Line)] /\ Len(log[t]) \in Nat
          /\ 1..Len(log'[t]) = (1..Len(log[t])) \cup {k}
          /\ log'[t][k].shows = c
          /\ \A i \in 1..Len(log[t]) :
                /\ log'[t][i].asked = log[t][i].asked
                /\ i # k => log'[t][i] = log[t][i]
          /\ \/ k = pending[t] /\ k \in 1..Len(log[t]) /\ log[t][k].shows = NoReply
             \/ k \notin 1..Len(log[t]) /\ log'[t][k].asked = NoChat
          /\ \A u \in Tabs \ {t} : log'[u] = log[u]
    BY <1>1, Written
<1>6. Me(t).tab = t /\ Me(t) # Nobody /\ \A u \in Tabs : Me(u)' = Me(u)
    BY <1>1 DEF Me, Nobody
<1> HIDE DEF c
<1>7. \A u \in Tabs, d \in Replies : Shown(u, d)' <=> Shown(u, d) \/ (u = t /\ d = c)
    <2>1. \A d \in Replies : Shown(t, d)' <=> Shown(t, d) \/ d = c
        <3>1. ASSUME NEW d \in Replies, Shown(t, d)' PROVE Shown(t, d) \/ d = c
            <4>1. PICK i \in 1..Len(log'[t]) : log'[t][i].shows = d
                BY <3>1 DEF Shown
            <4>2. CASE i = k
                BY <1>5, <4>1, <4>2
            <4>3. CASE i # k
                <5>1. i \in 1..Len(log[t]) /\ log[t][i].shows = d
                    BY <1>5, <4>1, <4>3
                <5> QED BY <5>1 DEF Shown
            <4> QED BY <4>2, <4>3
        <3>2. ASSUME NEW d \in Replies, Shown(t, d) PROVE Shown(t, d)'
            <4>1. PICK i \in 1..Len(log[t]) : log[t][i].shows = d
                BY <3>2 DEF Shown
            <4>2. i # k
                <5>1. d # NoReply
                    BY <1>2
                <5> QED BY <1>5, <4>1, <5>1
            <4>3. i \in 1..Len(log'[t]) /\ log'[t][i].shows = d
                BY <1>5, <4>1, <4>2
            <4> QED BY <4>3 DEF Shown
        <3>3. ASSUME NEW d \in Replies, d = c PROVE Shown(t, d)'
            BY <1>5, <3>3 DEF Shown
        <3> QED BY <3>1, <3>2, <3>3
    <2>2. \A u \in Tabs \ {t}, d \in Replies : Shown(u, d)' <=> Shown(u, d)
        BY <1>5 DEF Shown
    <2> QED BY <2>1, <2>2
<1>8. \A u \in Tabs, d \in Chats : Asked(u, d)' <=> Asked(u, d)
    <2>1. \A d \in Chats : Asked(t, d)' <=> Asked(t, d)
        <3>1. \A d \in Chats : d # NoChat
            BY <1>2
        <3>2. ASSUME NEW d \in Chats, Asked(t, d)' PROVE Asked(t, d)
            <4>1. PICK i \in 1..Len(log'[t]) : log'[t][i].asked = d
                BY <3>2 DEF Asked
            <4>2. i \in 1..Len(log[t]) /\ log[t][i].asked = d
                BY <1>5, <3>1, <4>1
            <4> QED BY <4>2 DEF Asked
        <3>3. ASSUME NEW d \in Chats, Asked(t, d) PROVE Asked(t, d)'
            <4>1. PICK i \in 1..Len(log[t]) : log[t][i].asked = d
                BY <3>3 DEF Asked
            <4>2. i \in 1..Len(log'[t]) /\ log'[t][i].asked = d
                BY <1>5, <4>1
            <4> QED BY <4>2 DEF Asked
        <3> QED BY <3>2, <3>3
    <2>2. \A u \in Tabs \ {t}, d \in Chats : Asked(u, d)' <=> Asked(u, d)
        BY <1>5 DEF Asked
    <2> QED BY <2>1, <2>2
<1>9. TypeOK'
    <2>1. inbox' \in [Tabs -> Seq(Replies)]
        BY <1>1, <1>3 DEF CInv, TypeOK
    <2>2. \A u \in Tabs : pending'[u] <= Len(log'[u])
        <3>1. log'[t] \in Seq(Line)
            BY <1>5
        <3>2. pending'[t] <= Len(log'[t])
            BY <1>2, <3>1
        <3>3. \A u \in Tabs \ {t} : pending'[u] <= Len(log'[u])
            BY <1>2, <1>5 DEF CInv, TypeOK
        <3> QED BY <3>2, <3>3
    <2> QED BY <1>1, <1>2, <1>5, <2>1, <2>2 DEF CInv, TypeOK
<1>10. QueueInv' /\ MissedInv'
    BY <1>1 DEF CInv, QueueInv, MissedInv
<1>11. ChannelInv'
    <2>1. ~Inside(channel, c)
        BY <1>3 DEF CInv, ChannelInv
    <2>2. \A u \in Tabs, d \in Replies : Inside(inbox'[u], d) => Inside(inbox[u], d)
        BY <1>2, <1>3
    <2> QED BY <1>1, <1>7, <2>1, <2>2 DEF CInv, ChannelInv
<1>12. InboxInv'
    <2>1. \A u \in Tabs, d \in Replies : Inside(inbox'[u], d) => Inside(inbox[u], d) /\ d # c
        <3>1. \A u \in Tabs \ {t} : ~Inside(inbox[u], c)
            <4>1. \A u \in Tabs : Me(u).tab = u
                BY DEF Me
            <4>2. \A u \in Tabs : Inside(inbox[u], c) => owner[ChatOf[c]] = Me(u)
                BY <1>3 DEF CInv, InboxInv
            <4> QED BY <1>4, <4>1, <4>2
        <3> QED BY <1>2, <1>3, <3>1
    <2>2. \A u \in Tabs : Distinct(inbox'[u])
        BY <1>2, <1>3 DEF CInv, InboxInv
    <2>3. \A u \in Tabs, d \in Replies : Inside(inbox[u], d) =>
              /\ u \in online /\ owner[ChatOf[d]] = Me(u) /\ answers[d] = 1 /\ d \notin missed
              /\ \A v \in Tabs : ~Shown(v, d)
        BY DEF CInv, InboxInv
    <2> QED BY <1>1, <1>6, <1>7, <2>1, <2>2, <2>3 DEF InboxInv
<1>13. LineInv'
    <2>1. \A u \in Tabs, d \in Chats : owner'[d] # Nobody /\ owner'[d].tab = u <=> Asked(u, d)'
        BY <1>1, <1>8 DEF CInv, LineInv
    <2>2. \A i, j \in 1..Len(log'[t]) :
              log'[t][i].asked = log'[t][j].asked /\ log'[t][i].asked # NoChat => i = j
        <3>1. \A i \in 1..Len(log'[t]) : log'[t][i].asked # NoChat =>
                  i \in 1..Len(log[t]) /\ log'[t][i].asked = log[t][i].asked
            BY <1>5
        <3> QED BY <3>1 DEF CInv, LineInv
    <2>3. \A u \in Tabs \ {t} : \A i, j \in 1..Len(log'[u]) :
              log'[u][i].asked = log'[u][j].asked /\ log'[u][i].asked # NoChat => i = j
        BY <1>5 DEF CInv, LineInv
    <2> QED BY <2>1, <2>2, <2>3 DEF LineInv
<1>14. PendingInv'
    <2> SUFFICES ASSUME NEW u \in Tabs, pending'[u] # 0
                 PROVE  LET m == pending'[u] IN
                        /\ log'[u][m].asked # NoChat /\ log'[u][m].shows = NoReply
                        /\ \A i \in 1..Len(log'[u]) : i > m => log'[u][i].asked = NoChat
                        /\ (\E d \in Chats : owner'[d] = Me(u)) => owner'[log'[u][m].asked] = Me(u)
        BY <1>6 DEF PendingInv
    <2>1. u # t /\ pending'[u] = pending[u] /\ log'[u] = log[u]
        BY <1>2, <1>5
    <2> QED BY <1>1, <2>1 DEF CInv, PendingInv
<1>15. ShownOnceWhereAsked'
    <2> SUFFICES ASSUME NEW u \in Tabs, NEW i \in 1..Len(log'[u]), log'[u][i].shows # NoReply
                 PROVE  LET d == log'[u][i].shows IN
                        /\ owner[ChatOf[d]].tab = u /\ answers[d] = 1 /\ d \notin missed
                        /\ \A j \in 1..Len(log'[u]) : log'[u][j].shows = d => j = i
        BY <1>1 DEF ShownOnceWhereAsked
    <2>1. \A v \in Tabs : \A j \in 1..Len(log[v]) : log[v][j].shows # c
        BY <1>4 DEF Shown
    <2>2. CASE u # t
        <3>1. log'[u] = log[u] /\ ShownOnceWhereAsked
            BY <1>5, <2>2 DEF CInv
        <3> QED BY <3>1 DEF ShownOnceWhereAsked
    <2>3. CASE u = t /\ i = k
        <3>1. \A j \in 1..Len(log'[t]) : log'[t][j].shows = c => j = k
            BY <1>5, <2>1
        <3> QED BY <1>4, <1>5, <1>6, <2>3, <3>1
    <2>4. CASE u = t /\ i # k
        <3>1. i \in 1..Len(log[t]) /\ log'[t][i] = log[t][i]
            BY <1>5, <2>4
        <3>2. /\ owner[ChatOf[log[t][i].shows]].tab = t /\ answers[log[t][i].shows] = 1
              /\ log[t][i].shows \notin missed
              /\ \A j \in 1..Len(log[t]) : log[t][j].shows = log[t][i].shows => j = i
            BY <2>4, <3>1 DEF CInv, ShownOnceWhereAsked
        <3>3. \A j \in 1..Len(log'[t]) : log'[t][j].shows = log[t][i].shows => j = i
            BY <1>5, <2>1, <3>1, <3>2
        <3> QED BY <2>4, <3>1, <3>2, <3>3
    <2> QED BY <2>2, <2>3, <2>4
<1>16. MisplacedOnlyIfOverlapping'
    <2> SUFFICES ASSUME NEW u \in Tabs, NEW i \in 1..Len(log'[u]),
                        log'[u][i].asked # NoChat, log'[u][i].shows # NoReply,
                        log'[u][i].asked # ChatOf[log'[u][i].shows]
                 PROVE  /\ owner[ChatOf[log'[u][i].shows]] = owner[log'[u][i].asked]
                        /\ \E j \in 1..(i - 1) : log'[u][j].asked = ChatOf[log'[u][i].shows]
        BY <1>1 DEF MisplacedOnlyIfOverlapping
    <2>1. CASE u # t
        <3>1. log'[u] = log[u] /\ MisplacedOnlyIfOverlapping
            BY <1>5, <2>1 DEF CInv
        <3> QED BY <3>1 DEF MisplacedOnlyIfOverlapping
    <2>2. CASE u = t /\ i # k
        <3>1. i \in 1..Len(log[t]) /\ log'[t][i] = log[t][i]
            BY <1>5, <2>2
        <3>2. /\ owner[ChatOf[log[t][i].shows]] = owner[log[t][i].asked]
              /\ \E j \in 1..(i - 1) : log[t][j].asked = ChatOf[log[t][i].shows]
            BY <2>2, <3>1 DEF CInv, MisplacedOnlyIfOverlapping
        <3>3. \A j \in 1..(i - 1) : j \in 1..Len(log[t])
            BY <1>5, <3>1
        <3> QED BY <1>5, <2>2, <3>1, <3>2, <3>3
    <2>3. CASE u = t /\ i = k
        <3>1. /\ k = pending[t] /\ k \in 1..Len(log[t]) /\ k # 0
              /\ log'[t][k].asked = log[t][k].asked /\ log'[t][k].shows = c
            BY <1>5, <2>3
        <3>2. /\ owner[log[t][k].asked] = Me(t)
              /\ \A j \in 1..Len(log[t]) : j > k => log[t][j].asked = NoChat
            BY <1>3, <1>4, <3>1 DEF CInv, PendingInv
        <3>3. PICK j \in 1..Len(log[t]) : log[t][j].asked = ChatOf[c]
            <4>1. Asked(t, ChatOf[c])
                BY <1>3, <1>4, <1>6 DEF CInv, LineInv
            <4> QED BY <4>1 DEF Asked
        <3>4. j \in 1..(k - 1)
            <4>1. log[t][j].asked # NoChat
                BY <1>2, <1>3, <3>3
            <4>2. j # k
                BY <2>3, <3>1, <3>3
            <4>3. ~(j > k)
                BY <3>2, <4>1
            <4> QED BY <1>5, <3>1, <4>2, <4>3
        <3>5. log'[t][j].asked = ChatOf[c]
            BY <1>5, <3>3
        <3> QED BY <1>4, <2>3, <3>1, <3>2, <3>4, <3>5
    <2> QED BY <2>1, <2>2, <2>3
<1> QED BY <1>9, <1>10, <1>11, <1>12, <1>13, <1>14, <1>15, <1>16 DEF CInv

-----------------------------------------------------------------------------
(* A tab that stops reading keeps its connection, and what is in its log.  *)
LEMMA StallKeeps ==
    ASSUME CInv, NEW t \in Tabs, Stall(t) PROVE CInv'
<1>1. /\ stalled' = stalled \cup {t}
      /\ UNCHANGED <<status, answers, owner, session, online, breaks, channel, inbox, missed,
                      drops, log, pending>>
    BY DEF Stall, queue, relay, page
<1>2. TypeOK' /\ QueueInv' /\ MissedInv'
    BY <1>1 DEF CInv, TypeOK, QueueInv, MissedInv
<1>3. ChannelInv' /\ InboxInv'
    BY <1>1 DEF CInv, ChannelInv, InboxInv, Me, Shown
<1>4. UNCHANGED <<owner, session, page>> /\ answers' = answers /\ missed' = missed
    BY <1>1 DEF page
<1>5. \A u \in Tabs, c \in Replies : Shown(u, c) => c \notin missed
    BY DEF CInv, ShownOnceWhereAsked, Shown, NoReply
<1> QED BY <1>2, <1>3, <1>4, <1>5, PageKept DEF CInv

LEMMA SocketInit == Init => SocketInv
<1> SUFFICES ASSUME Init PROVE SocketInv
    OBVIOUS
<1>1. breaks = 0 /\ \A t \in Tabs : session[t] = 0 /\ t \in online
    BY Zenon DEF Init
<1>2. 0 <= 0
    OBVIOUS
<1> QED BY <1>1, <1>2, Zenon DEF SocketInv

LEMMA SocketKeeps ==
    ASSUME TypeOK, SocketInv, [Next]_vars PROVE SocketInv'
<1>1. CASE UNCHANGED socket
    BY <1>1 DEF socket, SocketInv
<1>2. ASSUME NEW t \in Tabs, Break(t) PROVE SocketInv'
    BY <1>2 DEF Break, TypeOK, SocketInv
<1>3. ASSUME NEW t \in Tabs, Connect(t) PROVE SocketInv'
    BY <1>3 DEF Connect, TypeOK, SocketInv
<1>9. ASSUME NEW t \in Tabs, Stall(t) PROVE SocketInv'
    BY <1>9 DEF Stall, SocketInv
<1>4. ASSUME NEW t \in Tabs, NEW c \in Chats, Ask(t, c) PROVE SocketInv'
    BY <1>1, <1>4 DEF Ask
<1>5. ASSUME NEW t \in Tabs, OnReply(t) PROVE SocketInv'
    BY <1>1, <1>5 DEF OnReply, Receive
<1>6. ASSUME NEW c \in Replies, Enqueue(c) \/ PublishReply(c) PROVE SocketInv'
    BY <1>1, <1>6 DEF Enqueue, PublishReply, around
<1>7. CASE LoseReplies \/ Relay \/ Drop
    BY <1>1, <1>7 DEF LoseReplies, Relay, Drop, around
<1>8. CASE UNCHANGED vars
    BY <1>1, <1>8 DEF vars
<1> QED BY <1>2, <1>3, <1>4, <1>5, <1>6, <1>7, <1>8, <1>9 DEF Next

LEMMA CStep ==
    ASSUME CInv, SocketInv, [Next]_vars PROVE CInv'
<1>1. CASE UNCHANGED vars
    <2>1. UNCHANGED <<status, answers, owner, session, online, stalled, breaks, channel, inbox, missed,
                      drops, log, pending>>
        BY <1>1 DEF vars, queue, socket, relay, page
    <2>2. TypeOK' /\ QueueInv' /\ MissedInv'
        BY <2>1 DEF CInv, TypeOK, QueueInv, MissedInv
    <2>3. ChannelInv' /\ InboxInv'
        BY <2>1 DEF CInv, ChannelInv, InboxInv, Me, Shown
    <2>4. UNCHANGED <<owner, session, page>> /\ answers' = answers /\ missed' = missed
        BY <2>1 DEF page
    <2>5. \A t \in Tabs, c \in Replies : Shown(t, c) => c \notin missed
        BY DEF CInv, ShownOnceWhereAsked, Shown, NoReply
    <2> QED BY <2>2, <2>3, <2>4, <2>5, PageKept DEF CInv
<1>2. ASSUME NEW t \in Tabs, OnReply(t) \/ Break(t) \/ Stall(t) \/ Connect(t) PROVE CInv'
    BY <1>2, OnReplyKeeps, BreakKeeps, StallKeeps, ConnectKeeps
<1>3. ASSUME NEW t \in Tabs, NEW c \in Chats, Ask(t, c) PROVE CInv'
    BY <1>3, AskKeeps
<1>4. ASSUME NEW c \in Replies, Enqueue(c) \/ PublishReply(c) PROVE CInv'
    BY <1>4, EnqueueKeeps, PublishKeeps
<1>5. CASE LoseReplies \/ Relay \/ Drop
    BY <1>5, LoseKeeps, RelayKeeps, DropKeeps
<1> QED BY <1>1, <1>2, <1>3, <1>4, <1>5 DEF Next

LEMMA CAlways == Spec => [](CInv /\ SocketInv)
<1>1. CInv /\ SocketInv /\ [Next]_vars => CInv' /\ SocketInv'
    BY CStep, SocketKeeps DEF CInv
<1> QED BY <1>1, CInit, SocketInit, PTL DEF Spec

(* Every variable keeps its type; the tabs open as many sessions as their  *)
(* connections break, and one.                                             *)
THEOREM ChatTabTypeCorrect == Spec => []TypeOK
<1>1. CInv => TypeOK BY DEF CInv
<1> QED BY <1>1, CAlways, PTL

(* onmessage shows a published reply once at most, in the tab that asked:  *)
(* replies are routed to a session and not to a tab (main.go:159-161), and *)
(* one line is filled or added for each that is received.  Any number of   *)
(* replies may be published for one chat.                                  *)
THEOREM ReplyShownOnce == Spec => []ShownOnceWhereAsked
<1>1. CInv => ShownOnceWhereAsked BY DEF CInv
<1> QED BY <1>1, CAlways, PTL

(* A reply in the line of another chat was asked on the same connection    *)
(* and before it: pendingReplyEl holds one line, the latest.               *)
THEOREM MisplacedOverlap == Spec => []MisplacedOnlyIfOverlapping
<1>1. CInv => MisplacedOnlyIfOverlapping BY DEF CInv
<1> QED BY <1>1, CAlways, PTL

(* The line pendingReplyEl names is still thinking, so that no reply shown *)
(* is written over.                                                        *)
THEOREM ShownRepliesKept == Spec => RepliesKept
<1> DEFINE Kept == \A t \in Tabs : \A i \in 1..Len(log[t]) :
                       log[t][i].shows # NoReply => log'[t][i] = log[t][i]
<1>1. ASSUME CInv, [Next]_vars PROVE [Kept]_vars
    <2>1. CASE log' = log
        BY <2>1
    <2>2. ASSUME NEW t \in Tabs, OnReply(t) PROVE Kept
        <3> HIDE DEF Kept
        <3>1. CInv /\ inbox[t] # <<>> /\ OnReply(t)
            BY <1>1, <2>2 DEF OnReply, Receive
        <3>2. PICK k \in 1..Len(log'[t]) :
                  /\ \A i \in 1..Len(log[t]) :
                        /\ log'[t][i].asked = log[t][i].asked
                        /\ i # k => log'[t][i] = log[t][i]
                  /\ \/ k = pending[t] /\ k \in 1..Len(log[t]) /\ log[t][k].shows = NoReply
                     \/ k \notin 1..Len(log[t]) /\ log'[t][k].asked = NoChat
                  /\ \A u \in Tabs \ {t} : log'[u] = log[u]
            BY <3>1, Written
        <3> QED BY <3>2 DEF Kept
    <2>3. ASSUME NEW t \in Tabs, NEW c \in Chats, Ask(t, c) PROVE Kept
        <3>1. /\ \A i \in 1..Len(log[t]) : log'[t][i] = log[t][i]
              /\ \A u \in Tabs \ {t} : log'[u] = log[u]
            BY <1>1, <2>3, Appended DEF Ask, CInv
        <3> QED BY <3>1
    <2>4. ASSUME NEW t \in Tabs, Break(t) \/ Stall(t) \/ Connect(t) PROVE log' = log
        BY <2>4 DEF Break, Stall, Connect, page
    <2>5. ASSUME NEW c \in Replies, Enqueue(c) \/ PublishReply(c) PROVE log' = log
        BY <2>5 DEF Enqueue, PublishReply, around, page
    <2>6. CASE LoseReplies \/ Relay \/ Drop
        BY <2>6 DEF LoseReplies, Relay, Drop, around, page
    <2>7. CASE UNCHANGED vars
        BY <2>7 DEF vars, page
    <2> HIDE DEF Kept
    <2> QED BY <1>1, <2>1, <2>2, <2>3, <2>4, <2>5, <2>6, <2>7 DEF Next
<1>2. CInv /\ [Next]_vars => [Kept]_vars
    BY <1>1
<1> HIDE DEF Kept
<1>3. Spec => [][Kept]_vars
    BY <1>2, CAlways, PTL DEF Spec
<1> QED BY <1>3 DEF RepliesKept, Kept

-----------------------------------------------------------------------------
(* Every answer is somewhere *)

(* Of the chat c, from its reply's publication on: it is in the channel,   *)
(* on the connection of the tab that asked, missed, or shown there.        *)
Accounted(c) ==
    \/ Inside(channel, c) \/ Inside(inbox[owner[ChatOf[c]].tab], c)
    \/ c \in missed \/ Shown(owner[ChatOf[c]].tab, c)

NoReplyVanishes ==
    \A c \in Replies : status[c] = "answered" => owner[ChatOf[c]].tab \in Tabs /\ Accounted(c)

LEMMA StillShown ==
    ASSUME CInv, SocketInv, [Next]_vars, NEW t \in Tabs, NEW c \in Replies, Shown(t, c)
    PROVE  Shown(t, c)'
<1>1. CASE log' = log
    BY <1>1 DEF Shown
<1>2. ASSUME NEW u \in Tabs, OnReply(u) PROVE Shown(t, c)'
    <2>1. PICK k \in 1..Len(log'[u]) :
              /\ 1..Len(log'[u]) = (1..Len(log[u])) \cup {k}
              /\ \A i \in 1..Len(log[u]) : i # k => log'[u][i] = log[u][i]
              /\ k \notin 1..Len(log[u]) \/ log[u][k].shows = NoReply
              /\ \A v \in Tabs \ {u} : log'[v] = log[v]
        <3>1. inbox[u] # <<>>
            BY <1>2 DEF OnReply, Receive
        <3>2. PICK k \in 1..Len(log'[u]) :
                  /\ 1..Len(log'[u]) = (1..Len(log[u])) \cup {k}
                  /\ \A i \in 1..Len(log[u]) : i # k => log'[u][i] = log[u][i]
                  /\ \/ k = pending[u] /\ k \in 1..Len(log[u]) /\ log[u][k].shows = NoReply
                     \/ k \notin 1..Len(log[u]) /\ log'[u][k].asked = NoChat
                  /\ \A v \in Tabs \ {u} : log'[v] = log[v]
            BY <1>2, <3>1, Written
        <3> QED BY <3>2
    <2>2. PICK i \in 1..Len(log[t]) : log[t][i].shows = c
        BY DEF Shown
    <2>3. CASE t = u
        <3>1. log[t][i].shows # NoReply
            BY <2>2 DEF NoReply
        <3>2. i # k /\ i \in 1..Len(log'[t])
            BY <2>1, <2>3, <3>1
        <3>3. log'[t][i].shows = c
            BY <2>1, <2>2, <2>3, <3>2
        <3> QED BY <3>2, <3>3 DEF Shown
    <2>4. CASE t # u
        BY <2>1, <2>2, <2>4 DEF Shown
    <2> QED BY <2>3, <2>4
<1>3. ASSUME NEW u \in Tabs, NEW d \in Chats, Ask(u, d) PROVE Shown(t, c)'
    <2>1. /\ \A i \in 1..Len(log[u]) : log'[u][i] = log[u][i]
          /\ Len(log'[u]) = Len(log[u]) + 1 /\ Len(log[u]) \in Nat
          /\ \A v \in Tabs \ {u} : log'[v] = log[v]
        <3>1. TypeOK /\ AppendLine(u, d, NoReply) /\ log[u] \in Seq(Line)
            BY <1>3 DEF Ask, CInv, TypeOK
        <3>2. d \in Chats \cup {NoChat} /\ NoReply \in Replies \cup {NoReply}
            OBVIOUS
        <3>3. Len(log[u]) \in Nat
            BY <3>1
        <3> QED BY <3>1, <3>2, <3>3, Appended
    <2>2. PICK i \in 1..Len(log[t]) : log[t][i].shows = c
        BY DEF Shown
    <2>3. i \in 1..Len(log'[t]) /\ log'[t][i].shows = c
        <3>1. CASE t = u
            BY <2>1, <2>2, <3>1
        <3>2. CASE t # u
            BY <2>1, <2>2, <3>2
        <3> QED BY <3>1, <3>2
    <2> QED BY <2>3 DEF Shown
<1>4. ASSUME NEW u \in Tabs, Break(u) \/ Stall(u) \/ Connect(u) PROVE log' = log
    BY <1>4 DEF Break, Stall, Connect, page
<1>5. ASSUME NEW d \in Replies, Enqueue(d) \/ PublishReply(d) PROVE log' = log
    BY <1>5 DEF Enqueue, PublishReply, around, page
<1>6. CASE LoseReplies \/ Relay \/ Drop \/ UNCHANGED vars
    BY <1>1, <1>6 DEF LoseReplies, Relay, Drop, around, page, vars
<1> QED BY <1>1, <1>2, <1>3, <1>4, <1>5, <1>6 DEF Next

LEMMA VanishStep ==
    ASSUME CInv, SocketInv, CInv', NoReplyVanishes, [Next]_vars
    PROVE  NoReplyVanishes'
<1>0. /\ TypeOK /\ channel \in Seq(Replies) /\ Distinct(channel)
      /\ \A t \in Tabs : inbox[t] \in Seq(Replies) /\ Distinct(inbox[t])
    BY DEF CInv, TypeOK, ChannelInv, InboxInv
<1>1. ASSUME NEW c \in Replies, status[c] = "answered", owner'[ChatOf[c]] = owner[ChatOf[c]]
      PROVE  /\ owner[ChatOf[c]].tab \in Tabs /\ Accounted(c)
             /\ Shown(owner[ChatOf[c]].tab, c) => Shown(owner[ChatOf[c]].tab, c)'
    BY <1>1, StillShown DEF NoReplyVanishes
<1>2. ASSUME UNCHANGED <<status, owner>>,
             \A c \in Replies : owner[ChatOf[c]].tab \in Tabs =>
                /\ Inside(channel, c) => \/ Inside(channel', c) \/ c \in missed'
                                         \/ Inside(inbox'[owner[ChatOf[c]].tab], c)
                /\ Inside(inbox[owner[ChatOf[c]].tab], c) =>
                       \/ Inside(inbox'[owner[ChatOf[c]].tab], c) \/ c \in missed'
                       \/ Shown(owner[ChatOf[c]].tab, c)',
             missed \subseteq missed'
      PROVE  NoReplyVanishes'
    <2> SUFFICES ASSUME NEW c \in Replies, status[c] = "answered"
                 PROVE  owner[ChatOf[c]].tab \in Tabs /\ Accounted(c)'
        BY <1>2 DEF NoReplyVanishes
    <2>1. /\ owner[ChatOf[c]].tab \in Tabs /\ Accounted(c)
          /\ Shown(owner[ChatOf[c]].tab, c) => Shown(owner[ChatOf[c]].tab, c)'
        BY <1>1, <1>2
    <2> QED BY <1>2, <2>1 DEF Accounted, Shown
<1>3. ASSUME NEW t \in Tabs, OnReply(t) PROVE NoReplyVanishes'
    <2>1. /\ inbox[t] # <<>> /\ inbox' = [inbox EXCEPT ![t] = Tail(@)]
          /\ UNCHANGED <<status, owner, channel, missed>>
        BY <1>3 DEF OnReply, Receive, queue
    <2>2. /\ inbox'[t] = Tail(inbox[t])
          /\ \A u \in Tabs \ {t} : inbox'[u] = inbox[u]
          /\ \A d : Inside(Tail(inbox[t]), d) <=> Inside(inbox[t], d) /\ d # Head(inbox[t])
        BY <1>0, <2>1, TailHolds DEF TypeOK
    <2>3. \E k \in 1..Len(log'[t]) : log'[t][k].shows = Head(inbox[t])
        <3>1. PICK k \in 1..Len(log'[t]) :
                  /\ 1..Len(log'[t]) = (1..Len(log[t])) \cup {k}
                  /\ log'[t][k].shows = Head(inbox[t])
            BY <1>3, <2>1, Written
        <3> QED BY <3>1
    <2>4. ASSUME NEW c \in Replies, Inside(inbox[owner[ChatOf[c]].tab], c), owner[ChatOf[c]].tab \in Tabs
          PROVE  Inside(inbox'[owner[ChatOf[c]].tab], c) \/ Shown(owner[ChatOf[c]].tab, c)'
        <3>1. CASE owner[ChatOf[c]].tab = t /\ c = Head(inbox[t])
            BY <2>1, <2>3, <3>1 DEF Shown
        <3>2. CASE owner[ChatOf[c]].tab = t /\ c # Head(inbox[t])
            BY <2>2, <2>4, <3>2
        <3>3. CASE owner[ChatOf[c]].tab # t
            BY <2>2, <2>4, <3>3
        <3> QED BY <3>1, <3>2, <3>3
    <2> QED BY <1>2, <2>1, <2>4
<1>4. ASSUME NEW t \in Tabs, Break(t) PROVE NoReplyVanishes'
    <2>1. /\ inbox' = [inbox EXCEPT ![t] = <<>>] /\ missed' = missed \cup Elements(inbox[t])
          /\ UNCHANGED <<status, owner, channel>>
        BY <1>4 DEF Break, queue
    <2>2. \A c : c \in Elements(inbox[t]) <=> Inside(inbox[t], c)
        BY <1>0, ElementsHold
    <2>3. \A u \in Tabs \ {t} : inbox'[u] = inbox[u]
        BY <2>1 DEF CInv, TypeOK
    <2> QED BY <1>2, <2>1, <2>2, <2>3
<1>5. ASSUME NEW t \in Tabs, Stall(t) \/ Connect(t) PROVE NoReplyVanishes'
    BY <1>2, <1>5 DEF Stall, Connect, queue, relay
<1>6. ASSUME NEW t \in Tabs, NEW a \in Chats, Ask(t, a) PROVE NoReplyVanishes'
    <2>1. /\ owner[a] = Nobody /\ owner' = [owner EXCEPT ![a] = Me(t)]
          /\ UNCHANGED <<status, channel, inbox, missed>>
        BY <1>6 DEF Ask, queue, relay
    <2>2. \A c \in Replies : ChatOf[c] = a => status[c] = "new"
        BY <2>1 DEF CInv, QueueInv
    <2>3. \A c \in Chats \ {a} : owner'[c] = owner[c]
        BY <2>1 DEF CInv, TypeOK
    <2> SUFFICES ASSUME NEW c \in Replies, status[c] = "answered"
                 PROVE  owner'[ChatOf[c]].tab \in Tabs /\ Accounted(c)'
        BY <2>1 DEF NoReplyVanishes
    <2>4. owner'[ChatOf[c]] = owner[ChatOf[c]]
        BY <2>2, <2>3
    <2>5. /\ owner[ChatOf[c]].tab \in Tabs /\ Accounted(c)
          /\ Shown(owner[ChatOf[c]].tab, c) => Shown(owner[ChatOf[c]].tab, c)'
        BY <1>1, <2>4
    <2> QED BY <2>1, <2>4, <2>5 DEF Accounted, Shown
<1>7. ASSUME NEW a \in Replies, Enqueue(a) PROVE NoReplyVanishes'
    <2>1. /\ \A c \in Replies : status'[c] = "answered" => status[c] = "answered"
          /\ UNCHANGED <<owner, channel, inbox, missed, log>>
        BY <1>7 DEF Enqueue, Service!Accept, around, relay, page, CInv, TypeOK
    <2> QED BY <2>1 DEF NoReplyVanishes, Accounted, Shown
<1>8. ASSUME NEW a \in Replies, PublishReply(a) PROVE NoReplyVanishes'
    <2>1. /\ status[a] = "open" /\ status' = [status EXCEPT ![a] = "answered"]
          /\ channel' = Append(channel, a)
          /\ UNCHANGED <<owner, inbox, missed, log>>
        BY <1>8 DEF PublishReply, Service!Answer, around, page
    <2>2. owner[ChatOf[a]] # Nobody /\ owner[ChatOf[a]].tab \in Tabs
        BY <2>1 DEF CInv, QueueInv, TypeOK
    <2>3. ~Inside(channel, a)
        BY <2>1 DEF CInv, ChannelInv, QueueInv
    <2>4. \A d : Inside(channel', d) <=> Inside(channel, d) \/ d = a
        BY <1>0, <2>1, <2>3, AppendHolds
    <2>5. \A c \in Replies \ {a} : status'[c] = status[c]
        BY <2>1 DEF CInv, TypeOK
    <2> QED BY <2>1, <2>2, <2>4, <2>5 DEF NoReplyVanishes, Accounted, Shown
<1>9. CASE LoseReplies
    <2>1. /\ \A c \in Replies : status'[c] = "answered" => status[c] = "answered"
          /\ UNCHANGED <<owner, channel, inbox, missed, log>>
        BY <1>9 DEF LoseReplies, Service!Lose, around, relay, page
    <2> QED BY <2>1 DEF NoReplyVanishes, Accounted, Shown
<1>10. CASE Relay
    <2> DEFINE a == Head(channel)
               t == owner[ChatOf[a]].tab
    <2>1. /\ channel # <<>> /\ channel' = Tail(channel) /\ UNCHANGED <<status, owner>>
          /\ \/ t \in online /\ inbox' = [inbox EXCEPT ![t] = Append(@, a)] /\ missed' = missed
             \/ missed' = missed \cup {a} /\ inbox' = inbox
        BY <1>10 DEF Relay, queue, around
    <2>2. /\ a \in Replies /\ Inside(channel, a)
          /\ \A d : Inside(channel', d) <=> Inside(channel, d) /\ d # a
        BY <1>0, <2>1, TailHolds
    <2>3. \A u \in Tabs : ~Inside(inbox[u], a)
        BY <2>2 DEF CInv, ChannelInv
    <2> HIDE DEF a, t
    <2>4. CASE t \in online /\ inbox' = [inbox EXCEPT ![t] = Append(@, a)] /\ missed' = missed
        <3>1. t \in Tabs
            BY <2>4 DEF CInv, TypeOK
        <3>2. /\ inbox'[t] = Append(inbox[t], a)
              /\ \A u \in Tabs \ {t} : inbox'[u] = inbox[u]
            BY <2>4, <3>1 DEF CInv, TypeOK
        <3>3. \A d : Inside(inbox'[t], d) <=> Inside(inbox[t], d) \/ d = a
            BY <1>0, <2>2, <2>3, <3>1, <3>2, AppendHolds
        <3>4. owner[ChatOf[a]].tab = t
            BY DEF t
        <3> QED BY <1>2, <2>1, <2>2, <2>4, <3>2, <3>3, <3>4
    <2>5. CASE missed' = missed \cup {a} /\ inbox' = inbox
        BY <1>2, <2>1, <2>2, <2>5
    <2> QED BY <2>1, <2>4, <2>5
<1>11. CASE Drop
    <2>1. /\ channel' = <<>> /\ missed' = missed \cup Elements(channel)
          /\ UNCHANGED <<status, owner, inbox>>
        BY <1>11 DEF Drop, queue, around
    <2>2. \A c : c \in Elements(channel) <=> Inside(channel, c)
        BY <1>0, ElementsHold
    <2> QED BY <1>2, <2>1, <2>2
<1>12. CASE UNCHANGED vars
    BY <1>2, <1>12 DEF vars, queue, relay
<1> QED BY <1>3, <1>4, <1>5, <1>6, <1>7, <1>8, <1>9, <1>10, <1>11, <1>12 DEF Next

(* A reply that was published never vanishes between the worker and the    *)
(* page without being counted as missed: it is in the channel, on the one  *)
(* connection it was asked on, or shown.  AnsweredIsShown is this and that *)
(* each of those places is left in the end (main.go:145-163, index.html,   *)
(* onmessage).                                                             *)
THEOREM RepliesAccounted == Spec => []NoReplyVanishes
<1>1. Init => NoReplyVanishes
    BY DEF Init, Service!SvcInit, NoReplyVanishes
<1>2. CInv /\ SocketInv /\ CInv' /\ NoReplyVanishes /\ [Next]_vars => NoReplyVanishes'
    BY VanishStep
<1> QED BY <1>1, <1>2, CAlways, PTL DEF Spec

(* Nothing is missed while every connection holds and the subscription     *)
(* stays: a reply misses its tab only when its session is over.            *)
MissedAfterBreak == missed # {} => breaks > 0 \/ drops > 0

LEMMA MissedStep ==
    ASSUME CInv, SocketInv, MissedAfterBreak, [Next]_vars
    PROVE  MissedAfterBreak'
<1>0. breaks \in Nat /\ drops \in Nat
    BY DEF CInv, TypeOK
<1>1. CASE UNCHANGED <<missed, breaks, drops>>
    BY <1>1 DEF MissedAfterBreak
<1>2. ASSUME NEW t \in Tabs, Break(t) PROVE MissedAfterBreak'
    BY <1>0, <1>2 DEF Break, MissedAfterBreak
<1>3. CASE Drop
    BY <1>0, <1>3 DEF Drop, MissedAfterBreak
<1>4. CASE Relay
    <2> DEFINE a == Head(channel)
               t == owner[ChatOf[a]].tab
    <2>1. CASE t \in online /\ owner[ChatOf[a]] = Me(t)
        BY <1>1, <1>4, <2>1 DEF Relay, around, socket
    <2>2. CASE ~(t \in online /\ owner[ChatOf[a]] = Me(t))
        <3>1. channel # <<>> /\ breaks' = breaks
            BY <1>4 DEF Relay, around, socket
        <3>2. a \in Replies /\ Inside(channel, a)
            BY <3>1, TailHolds DEF CInv, TypeOK, ChannelInv
        <3>3. status[a] = "answered"
            BY <3>2 DEF CInv, ChannelInv, QueueInv
        <3>4. owner[ChatOf[a]] # Nobody /\ owner[ChatOf[a]].session <= session[t]
            BY <3>2, <3>3 DEF CInv, QueueInv
        <3>5. /\ owner[ChatOf[a]] \in [tab : Tabs, session : 0..MaxBreaks]
              /\ t \in Tabs /\ session[t] \in Nat
            BY <3>2, <3>4 DEF CInv, TypeOK
        <3>6. owner[ChatOf[a]] = [tab |-> t, session |-> owner[ChatOf[a]].session]
            BY <3>5
        <3>7. t \notin online \/ owner[ChatOf[a]].session < session[t]
            BY <2>2, <3>4, <3>5, <3>6 DEF Me
        <3>8. breaks > 0
            BY <1>0, <3>5, <3>7 DEF SocketInv
        <3> QED BY <3>1, <3>8 DEF MissedAfterBreak
    <2> QED BY <2>1, <2>2
<1>5. ASSUME NEW t \in Tabs, Stall(t) \/ Connect(t) \/ OnReply(t) PROVE MissedAfterBreak'
    BY <1>1, <1>5 DEF Stall, Connect, OnReply, Receive, relay, socket
<1>6. ASSUME NEW t \in Tabs, NEW c \in Chats, Ask(t, c) PROVE MissedAfterBreak'
    BY <1>1, <1>6 DEF Ask, relay, socket
<1>7. ASSUME NEW c \in Replies, Enqueue(c) \/ PublishReply(c) PROVE MissedAfterBreak'
    BY <1>1, <1>7 DEF Enqueue, PublishReply, relay, around, socket
<1>8. CASE LoseReplies \/ UNCHANGED vars
    BY <1>1, <1>8 DEF LoseReplies, relay, around, socket, vars
<1> QED BY <1>2, <1>3, <1>4, <1>5, <1>6, <1>7, <1>8 DEF Next

(* A reply is missed only in a run in which a connection broke or the      *)
(* subscription was lost: a session has one tab and a tab that stays       *)
(* connected stays in its session (main.go:98-103, 159-161).               *)
THEOREM MissedOnlyAfterBreak == Spec => []MissedAfterBreak
<1>1. Init => MissedAfterBreak
    BY DEF Init, MissedAfterBreak
<1>2. CInv /\ SocketInv /\ MissedAfterBreak /\ [Next]_vars => MissedAfterBreak'
    BY MissedStep
<1> QED BY <1>1, <1>2, CAlways, PTL DEF Spec
=============================================================================
