------------------------------- MODULE ChatTab -------------------------------
(***************************************************************************)
(* The chat half of the page (keda/web/index.html): the lines of its log,  *)
(* the one "thinking..." line it remembers in pendingReplyEl, and its      *)
(* socket, which comes back as a new session after every break.            *)
(*                                                                         *)
(* Between XADD and the reply's publication stands ChatService, which      *)
(* AgentQueue implements: replies may come in any order, or never, and a   *)
(* chat has several if go-redis sent its XADD again, or the worker's       *)
(* client its PUBLISH: Replies has one for each time that either is        *)
(* executed.  Gateway has the detail of the way from there to the socket.  *)
(***************************************************************************)
EXTENDS Naturals, Sequences

CONSTANTS Tabs,        \* pages open in browsers
          Chats,       \* chats that may be asked
          Replies,     \* replies there may be
          ChatOf,      \* ChatOf[r]: the chat that reply r answers
          MaxBreaks,   \* bound: connections that break
          MaxDrops     \* bound: times the subscription to Redis is lost

ASSUME ChatTabAssumption ==
    /\ "nobody" \notin Tabs /\ "nochat" \notin Chats /\ "noreply" \notin Replies
    /\ ChatOf \in [Replies -> Chats]
    /\ MaxBreaks \in Nat /\ MaxDrops \in Nat

VARIABLES status, answers,  \* see ChatService
          stalled,  \* tabs that have stopped reading their socket
          session,  \* session[t]: number of the connection of t
          online,   \* tabs whose socket is open
          owner,    \* owner[c]: tab and session c was asked in, or Nobody
          channel,  \* replies published and not yet relayed
          inbox,    \* inbox[t]: replies written to the socket of t
          log,      \* log[t]: the lines of chat-log
          pending,  \* pending[t]: index of the line of pendingReplyEl, 0 for null
          missed,   \* replies lost on their way
          breaks, drops

queue   == <<status, answers>>
socket  == <<session, online, stalled, breaks>>
relay   == <<channel, inbox, missed, drops>>
page    == <<log, pending>>
vars == <<queue, owner, socket, relay, page>>

Service == INSTANCE ChatService WITH Entries <- Replies

Nobody == [tab |-> "nobody", session |-> 0]
Me(t) == [tab |-> t, session |-> session[t]]

(* A line below the user's own words: the chat it was put up for, if any,  *)
(* and the reply it shows, or NoReply while it says "thinking...".         *)
NoChat == "nochat"
NoReply == "noreply"
Line == [asked : Chats \cup {NoChat}, shows : Replies \cup {NoReply}]

TypeOK ==
    /\ status \in [Replies -> {"new", "open", "answered", "lost"}]
    /\ answers \in [Replies -> 0..1]
    /\ session \in [Tabs -> 0..MaxBreaks]
    /\ online \in SUBSET Tabs /\ stalled \in SUBSET Tabs
    /\ owner \in [Chats -> [tab : Tabs, session : 0..MaxBreaks] \cup {Nobody}]
    /\ channel \in Seq(Replies)
    /\ inbox \in [Tabs -> Seq(Replies)]
    /\ log \in [Tabs -> Seq(Line)]
    /\ pending \in [Tabs -> Nat] /\ \A t \in Tabs : pending[t] <= Len(log[t])
    /\ missed \in SUBSET Replies
    /\ breaks \in 0..MaxBreaks /\ drops \in 0..MaxDrops

Init ==
    /\ Service!SvcInit
    /\ session = [t \in Tabs |-> 0]
    /\ online = Tabs /\ stalled = {}
    /\ owner = [c \in Chats |-> Nobody]
    /\ channel = <<>> /\ inbox = [t \in Tabs |-> <<>>]
    /\ log = [t \in Tabs |-> <<>>]
    /\ pending = [t \in Tabs |-> 0]
    /\ missed = {} /\ breaks = 0 /\ drops = 0

Elements(q) == {q[i] : i \in 1..Len(q)}

-----------------------------------------------------------------------------
(* The page *)

AppendLine(t, asked, shows) ==
    log' = [log EXCEPT ![t] = Append(@, [asked |-> asked, shows |-> shows])]

(* submit: refused while the socket is not open, allowed while a reply is *)
(* pending.                                                                *)
Ask(t, c) ==
    /\ t \in online \ stalled /\ owner[c] = Nobody
    /\ AppendLine(t, c, NoReply)
    /\ pending' = [pending EXCEPT ![t] = Len(log[t]) + 1]
    /\ owner' = [owner EXCEPT ![c] = Me(t)]
    /\ UNCHANGED <<queue, socket, relay>>

Receive(t) ==
    /\ t \in online \ stalled /\ inbox[t] # <<>>
    /\ inbox' = [inbox EXCEPT ![t] = Tail(@)]
    /\ UNCHANGED <<queue, owner, socket, channel, missed, drops>>

Fill(t, reply) == log' = [log EXCEPT ![t][pending[t]].shows = reply]

(* Mutant: pendingReplyEl is not set back to null. *)
OnReplyKeepsElement(t) ==
    /\ Receive(t)
    /\ \/ pending[t] # 0 /\ Fill(t, Head(inbox[t]))
       \/ pending[t] = 0 /\ AppendLine(t, NoChat, Head(inbox[t]))
    /\ UNCHANGED pending

(* Mutant: the reply is appended as well. *)
OnReplyTwice(t) ==
    /\ Receive(t)
    /\ LET line == [asked |-> NoChat, shows |-> Head(inbox[t])] IN
         log' = [log EXCEPT ![t] =
                   IF pending[t] = 0 THEN Append(@, line)
                   ELSE Append([@ EXCEPT ![pending[t]].shows = line.shows], line)]
    /\ pending' = [pending EXCEPT ![t] = 0]

(* Mutant: a reply nobody waits for is not shown. *)
OnReplyPendingOnly(t) ==
    /\ Receive(t)
    /\ \/ pending[t] # 0 /\ Fill(t, Head(inbox[t]))
       \/ pending[t] = 0 /\ UNCHANGED log
    /\ pending' = [pending EXCEPT ![t] = 0]

(* onmessage, chat_reply *)
OnReply(t) ==
    /\ Receive(t)
    /\ \/ pending[t] # 0 /\ Fill(t, Head(inbox[t]))
       \/ pending[t] = 0 /\ AppendLine(t, NoChat, Head(inbox[t]))
    /\ pending' = [pending EXCEPT ![t] = 0]

(* onclose; pendingReplyEl stays as it is. *)
Break(t) ==
    /\ t \in online /\ breaks < MaxBreaks
    /\ breaks' = breaks + 1
    /\ online' = online \ {t} /\ stalled' = stalled \ {t}
    /\ inbox' = [inbox EXCEPT ![t] = <<>>]
    /\ missed' = missed \cup Elements(inbox[t])
    /\ UNCHANGED <<queue, owner, session, channel, drops, page>>

(* The page stops reading, a sleeping laptop, and the connection stays: it *)
(* takes no step until it breaks.  One that wakes up was only slow.        *)
Stall(t) ==
    /\ t \in online \ stalled
    /\ stalled' = stalled \cup {t}
    /\ UNCHANGED <<queue, owner, session, online, breaks, relay, page>>

(* Mutant: connect empties the log, and leaves pendingReplyEl alone. *)
ConnectClears(t) ==
    /\ t \notin online
    /\ online' = online \cup {t}
    /\ session' = [session EXCEPT ![t] = @ + 1]
    /\ log' = [log EXCEPT ![t] = <<>>]
    /\ UNCHANGED <<queue, owner, stalled, breaks, relay, pending>>

(* connect, two seconds later *)
Connect(t) ==
    /\ t \notin online
    /\ online' = online \cup {t}
    /\ session' = [session EXCEPT ![t] = @ + 1]
    /\ UNCHANGED <<queue, owner, stalled, breaks, relay, page>>

-----------------------------------------------------------------------------
(* From the socket to the worker and back *)

around == <<owner, socket, page>>

(* A sending of the XADD that handleWS makes for the chat is executed; it  *)
(* may also fail, or the socket break before the chat is read.             *)
Enqueue(r) ==
    /\ owner[ChatOf[r]] # Nobody
    /\ Service!Accept(r)
    /\ UNCHANGED <<relay, around>>

PublishReply(r) ==
    /\ Service!Answer(r)
    /\ channel' = Append(channel, r)
    /\ UNCHANGED <<inbox, missed, drops, around>>

LoseReplies ==
    /\ \E S \in SUBSET {r \in Replies : status[r] = "open"} : S # {} /\ Service!Lose(S)
    /\ UNCHANGED <<relay, around>>

(* Mutant: replies are routed to the tab, whatever its session. *)
RelayToTab ==
    /\ channel # <<>>
    /\ channel' = Tail(channel)
    /\ LET r == Head(channel)
           t == owner[ChatOf[r]].tab
       IN IF t \in online
            THEN inbox' = [inbox EXCEPT ![t] = Append(@, r)] /\ UNCHANGED missed
            ELSE missed' = missed \cup {r} /\ UNCHANGED inbox
    /\ UNCHANGED <<queue, drops, around>>

(* subscribeUpdates and sendTo: to the connection of that session only.    *)
(* The write has no deadline and may never return while a tab is stalled.  *)
Relay ==
    /\ channel # <<>>
    /\ channel' = Tail(channel)
    /\ LET r == Head(channel)
           t == owner[ChatOf[r]].tab
       IN IF t \in online /\ owner[ChatOf[r]] = Me(t)
            THEN inbox' = [inbox EXCEPT ![t] = Append(@, r)] /\ UNCHANGED missed
            ELSE missed' = missed \cup {r} /\ UNCHANGED inbox
    /\ UNCHANGED <<queue, drops, around>>

(* The subscription breaks, or the gateway is gone for a while. *)
Drop ==
    /\ drops < MaxDrops /\ channel # <<>>
    /\ drops' = drops + 1
    /\ channel' = <<>>
    /\ missed' = missed \cup Elements(channel)
    /\ UNCHANGED <<queue, inbox, around>>

-----------------------------------------------------------------------------
Next ==
    \/ \E t \in Tabs :
          \/ OnReply(t) \/ Break(t) \/ Stall(t) \/ Connect(t)
          \/ \E c \in Chats : Ask(t, c)
    \/ \E r \in Replies : Enqueue(r) \/ PublishReply(r)
    \/ LoseReplies \/ Relay \/ Drop

Spec == Init /\ [][Next]_vars

(* The browser delivers what it receives, and the relay goes on while no   *)
(* tab is stalled: hub.go writes to one connection after the other.  That  *)
(* a chat is asked, queued or answered is not assumed: AgentQueue has the  *)
(* cases in which it never is.                                             *)
FairSpec ==
    /\ Spec
    /\ \A t \in Tabs : WF_vars(OnReply(t))
    /\ WF_vars(stalled = {} /\ Relay)

-----------------------------------------------------------------------------
(* Properties *)

(* A reply on the screen stays there: no later reply takes its line, for   *)
(* onmessage forgets the line it has filled and submit only adds lines.    *)
RepliesKept ==
    [][\A t \in Tabs : \A i \in 1..Len(log[t]) :
          log[t][i].shows # NoReply => log'[t][i] = log[t][i]]_vars

(* A line put up for one chat shows a reply to another only if that other  *)
(* was asked before it, in the same session, and the reply came after: two *)
(* chats in flight at once, or a chat that is answered again.  So whoever  *)
(* waits for a reply before asking again finds every reply in its place,   *)
(* also after a break, as long as no XADD or PUBLISH was sent twice.       *)
MisplacedOnlyIfOverlapping ==
    \A t \in Tabs : \A i \in 1..Len(log[t]) :
        LET line == log[t][i]
            other == ChatOf[line.shows]
        IN  line.asked # NoChat /\ line.shows # NoReply /\ line.asked # other =>
                /\ owner[other] = owner[line.asked]
                /\ \E j \in 1..(i - 1) : log[t][j].asked = other

(* However it was queued, relayed and received, a published reply is shown *)
(* once at most, only in the tab that asked, and not if it was lost: a tab *)
(* shows as many replies to a chat as the workers published for it, which  *)
(* is more than one only where a client has sent a command again.          *)
ShownOnceWhereAsked ==
    \A t \in Tabs : \A i \in 1..Len(log[t]) :
        LET r == log[t][i].shows IN
        r # NoReply =>
            /\ owner[ChatOf[r]].tab = t /\ answers[r] = 1 /\ r \notin missed
            /\ \A j \in 1..Len(log[t]) : log[t][j].shows = r => j = i

(* Every reply that is published is shown in the end, unless it was lost   *)
(* on its way, to a tab whose connection had broken or with the            *)
(* subscription, or some tab has stopped reading, which may hold up the    *)
(* one goroutine that relays to all of them (hub.go, sendTo).              *)
AnsweredIsShown ==
    \A r \in Replies :
        answers[r] = 1 ~>
            \/ r \in missed \/ stalled # {}
            \/ \E t \in Tabs : \E i \in 1..Len(log[t]) : log[t][i].shows = r
=============================================================================
