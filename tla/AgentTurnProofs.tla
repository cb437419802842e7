--------------------------- MODULE AgentTurnProofs ---------------------------
(***************************************************************************)
(* Proof of what a chat's turn does, and of what its reply says of it, for *)
(* any limit of rounds and any number of tool calls in a round.            *)
(*                                                                         *)
(* Sofar counts the calls that have been answered while the loop runs.     *)
(* Each of them took effect or is unsure, nothing else has taken effect or *)
(* is late, and the number of messages follows from the iteration. A call  *)
(* that raises ends the loop, so that no later one is ever sent.           *)
(***************************************************************************)
EXTENDS AgentTurn, TLAPS

USE TurnAssumption

Running == at \in {"entry", "model", "tool"}

Sofar == IF at = "tool" THEN asked - Len(Current) + Len(results) ELSE asked

(* Where the loop is before it asks the model ... *)
ModelInv ==
    at = "model" =>
        /\ iteration >= 1 /\ Len(messages) = 2 * iteration - 1
        /\ iteration - 1 <= asked /\ asked <= (iteration - 1) * MaxBlocks

(* ... and between the blocks of a response. *)
ToolInv ==
    at = "tool" =>
        /\ iteration >= 1 /\ Len(messages) = 2 * iteration
        /\ Len(Current) \in 1..asked
        /\ \A k \in 1..Len(Current) : Current[k] = asked - Len(Current) + k
        /\ Len(results) <= Len(Current)
        /\ \A k \in 1..Len(results) : results[k] = Current[k]
        /\ iteration <= asked /\ asked <= iteration * MaxBlocks

EntryInv == at = "entry" => messages = <<>> /\ asked = 0

(* The calls up to n were run, and no others; none of the history is of a  *)
(* later one.                                                              *)
RunUpTo(n, eff, lat, uns) ==
    /\ \A j \in DOMAIN eff : eff[j] <= n
    /\ \A a \in lat : a <= n
    /\ \A k \in 1..n : k \in uns \/ \E j \in DOMAIN eff : eff[j] = k

RunInv ==
    Running => reply = "none" /\ raised = 0 /\ RunUpTo(Sofar, effects, late, unsure)

(* What may still come is of an unsure call, and not of one after a call   *)
(* that raised.                                                            *)
LateInv ==
    /\ late \subseteq unsure
    /\ \A a \in late : raised # 0 => a <= raised

TurnInv ==
    /\ TypeOK /\ EntryInv /\ ModelInv /\ ToolInv /\ RunInv /\ LateInv
    /\ WellFormed /\ EffectsInOrder /\ AnnouncedUnlessLate /\ LimitIsTrue

-----------------------------------------------------------------------------
LEMMA TurnInit == Init => TurnInv
<1> SUFFICES ASSUME Init PROVE TurnInv
    OBVIOUS
<1>1. TypeOK
    <2>1. MaxToolIterations * MaxBlocks \in Nat
        OBVIOUS
    <2>2. asked = 0 /\ 0 \in 0..(MaxToolIterations * MaxBlocks) /\ iteration \in 0..MaxToolIterations
        BY <2>1 DEF Init
    <2>3. <<>> \in Seq([role : {"user", "assistant"}, ids : Seq(1..asked)])
        OBVIOUS
    <2>4. <<>> \in Seq(1..asked)
        OBVIOUS
    <2> QED BY <2>2, <2>3, <2>4 DEF Init, TypeOK, Places, Replies
<1>2. EntryInv /\ ModelInv /\ ToolInv /\ RunInv /\ LateInv
    BY DEF Init, EntryInv, ModelInv, ToolInv, RunInv, RunUpTo, Sofar, LateInv, Running
<1>3. WellFormed /\ EffectsInOrder /\ AnnouncedUnlessLate /\ LimitIsTrue
    BY DEF Init, WellFormed, EffectsInOrder, AnnouncedUnlessLate, LimitIsTrue
<1> QED BY <1>1, <1>2, <1>3 DEF TurnInv

LEMMA Times ==
    ASSUME NEW a \in Nat, NEW b \in Nat, NEW n \in Nat, a <= b
    PROVE  /\ (a + 1) * n = a * n + n
           /\ a * n <= b * n
           /\ n >= 1 => a <= a * n
OBVIOUS

LEMMA SeqOfMore ==
    ASSUME NEW S, NEW T, S \subseteq T, NEW q \in Seq(S) PROVE q \in Seq(T)
OBVIOUS

LEMMA Appended ==
    ASSUME NEW S, NEW q \in Seq(S), NEW e \in S
    PROVE  /\ Append(q, e) \in Seq(S) /\ Len(q) \in Nat /\ Len(Append(q, e)) = Len(q) + 1
           /\ Append(q, e)[Len(q) + 1] = e
           /\ \A i \in 1..Len(q) : Append(q, e)[i] = q[i]
           /\ DOMAIN q = 1..Len(q) /\ DOMAIN Append(q, e) = 1..(Len(q) + 1)
           /\ Last(Append(q, e)) = e
BY DEF Last

Messages(n) == [role : {"user", "assistant"}, ids : Seq(1..n)]

LEMMA MoreBlocks ==
    ASSUME NEW n \in Nat, NEW m \in Nat, n <= m
    PROVE  /\ \A q \in Seq(1..n) : q \in Seq(1..m)
           /\ \A q \in Seq(Messages(n)) : q \in Seq(Messages(m))
<1>1. 1..n \subseteq 1..m
    OBVIOUS
<1>2. \A q \in Seq(1..n) : q \in Seq(1..m)
    BY <1>1, SeqOfMore
<1>3. Messages(n) \subseteq Messages(m)
    BY <1>2 DEF Messages
<1> QED BY <1>2, <1>3, SeqOfMore

(* The types as the steps below need them. *)
LEMMA Types ==
    ASSUME TypeOK
    PROVE  /\ messages \in Seq(Messages(asked)) /\ asked \in Nat /\ iteration \in Nat
           /\ results \in Seq(1..asked) /\ effects \in Seq(1..asked)
           /\ DOMAIN messages = 1..Len(messages) /\ Len(messages) \in Nat
           /\ DOMAIN effects = 1..Len(effects) /\ Len(effects) \in Nat
           /\ Len(results) \in Nat /\ raised \in 0..asked
           /\ late \in SUBSET (1..asked) /\ unsure \in SUBSET (1..asked)
           /\ unannounced \in SUBSET (1..asked)
<1>1. messages \in Seq(Messages(asked)) /\ results \in Seq(1..asked) /\ effects \in Seq(1..asked)
    BY DEF TypeOK, Messages
<1>2. MaxToolIterations * MaxBlocks \in Nat
    OBVIOUS
<1>3. asked \in Nat /\ iteration \in Nat
    BY <1>2 DEF TypeOK
<1> QED BY <1>1, <1>3 DEF TypeOK

(* The history of a turn keeps its type when blocks are added. *)
LEMMA HistoryTypes ==
    ASSUME TypeOK, UNCHANGED toolVars, asked' \in Nat, asked' >= asked
    PROVE  /\ effects' \in Seq(1..asked') /\ late' \in SUBSET (1..asked')
           /\ unannounced' \in SUBSET (1..asked') /\ unsure' \in SUBSET (1..asked')
           /\ raised' \in 0..asked'
<1>1. asked \in Nat /\ effects \in Seq(1..asked) /\ 1..asked \subseteq 1..asked'
    BY Types
<1>2. effects \in Seq(1..asked')
    BY <1>1, SeqOfMore
<1>3. /\ late \in SUBSET (1..asked) /\ unsure \in SUBSET (1..asked)
      /\ unannounced \in SUBSET (1..asked) /\ raised \in 0..asked
    BY Types
<1> QED BY <1>1, <1>2, <1>3 DEF toolVars

(* A step without effects leaves their order, and what is late, as it is.  *)
LEMMA HistoryKept ==
    ASSUME TurnInv, UNCHANGED toolVars
    PROVE  LateInv' /\ EffectsInOrder'
BY DEF TurnInv, LateInv, EffectsInOrder, toolVars

-----------------------------------------------------------------------------
(* A response, whatever its stop_reason. *)
LEMMA ResponseAdded ==
    ASSUME TurnInv, at = "model", NEW n \in 0..MaxBlocks,
           messages' = Append(messages, Assistant(Blocks(n))), asked' = asked + n
    PROVE  /\ messages' \in Seq(Messages(asked'))
           /\ results \in Seq(1..asked') /\ effects \in Seq(1..asked')
           /\ asked' \in 0..(MaxToolIterations * MaxBlocks)
           /\ asked' <= iteration * MaxBlocks
           /\ Len(messages') = Len(messages) + 1
           /\ Last(messages').ids = Blocks(n)
           /\ Blocks(n) \in Seq(1..asked') /\ Len(Blocks(n)) = n
           /\ \A k \in 1..n : Blocks(n)[k] = asked + k
           /\ \A i \in DOMAIN messages' :
                 messages'[i].role = IF i % 2 = 1 THEN "user" ELSE "assistant"
           /\ \A i \in DOMAIN messages' :
                 i % 2 = 0 /\ i < Len(messages') => messages'[i + 1].ids = messages'[i].ids
<1>1. /\ messages \in Seq(Messages(asked)) /\ asked \in Nat /\ iteration \in Nat
      /\ results \in Seq(1..asked) /\ effects \in Seq(1..asked)
      /\ DOMAIN messages = 1..Len(messages) /\ Len(messages) \in Nat
    BY Types DEF TurnInv
<1>2. n \in Nat /\ asked' \in Nat /\ asked <= asked'
    BY <1>1
<1>3. Blocks(n) \in Seq(1..asked') /\ Len(Blocks(n)) = n /\ \A k \in 1..n : Blocks(n)[k] = asked + k
    BY <1>1, <1>2 DEF Blocks
<1>4. results \in Seq(1..asked') /\ effects \in Seq(1..asked') /\ messages \in Seq(Messages(asked'))
    BY <1>1, <1>2, MoreBlocks
<1>5. /\ Assistant(Blocks(n)) \in Messages(asked')
      /\ Assistant(Blocks(n)).role = "assistant" /\ Assistant(Blocks(n)).ids = Blocks(n)
    BY <1>3 DEF Assistant, Messages
<1> DEFINE L == Len(messages)
<1>6. /\ messages' \in Seq(Messages(asked')) /\ Len(messages') = L + 1
      /\ messages'[L + 1] = Assistant(Blocks(n))
      /\ \A i \in 1..L : messages'[i] = messages[i]
      /\ DOMAIN messages' = 1..(L + 1)
      /\ Last(messages') = Assistant(Blocks(n))
    BY <1>4, <1>5, Appended
<1>7. asked' <= iteration * MaxBlocks /\ asked' \in 0..(MaxToolIterations * MaxBlocks)
    <2>1. iteration >= 1 /\ asked <= (iteration - 1) * MaxBlocks /\ iteration <= MaxToolIterations
        BY DEF TurnInv, ModelInv, TypeOK
    <2>2. iteration - 1 \in Nat /\ (iteration - 1) + 1 = iteration
        BY <1>1, <2>1
    <2>3. iteration * MaxBlocks = (iteration - 1) * MaxBlocks + MaxBlocks
        BY <2>2, Times
    <2>4. iteration * MaxBlocks <= MaxToolIterations * MaxBlocks
        BY <1>1, <2>1, Times
    <2>5. /\ (iteration - 1) * MaxBlocks \in Nat /\ iteration * MaxBlocks \in Nat
          /\ MaxToolIterations * MaxBlocks \in Nat
        BY <1>1, <2>2
    <2> HIDE TurnAssumption
    <2>6. MaxBlocks \in Nat /\ n <= MaxBlocks
        BY TurnAssumption
    <2> QED BY <1>1, <1>2, <2>1, <2>3, <2>4, <2>5, <2>6
<1>8. L % 2 = 1 /\ (L + 1) % 2 = 0
    <2>1. L = 2 * iteration - 1
        BY DEF TurnInv, ModelInv
    <2> QED BY <1>1, <2>1
<1>9. \A i \in 1..L : messages[i].role = IF i % 2 = 1 THEN "user" ELSE "assistant"
    BY <1>1 DEF TurnInv, WellFormed
<1>10. \A i \in 1..L : i % 2 = 0 /\ i < L => messages[i + 1].ids = messages[i].ids
    BY <1>1 DEF TurnInv, WellFormed
<1> HIDE DEF L
<1>11. L \in Nat
    BY <1>1 DEF L
<1>12. \A i \in 1..(L + 1) : messages'[i].role = IF i % 2 = 1 THEN "user" ELSE "assistant"
    BY <1>5, <1>6, <1>8, <1>9, <1>11
<1>13. \A i \in 1..(L + 1) : i % 2 = 0 /\ i < L + 1 => messages'[i + 1].ids = messages'[i].ids
    <2> SUFFICES ASSUME NEW i \in 1..(L + 1), i % 2 = 0, i < L + 1
                 PROVE  messages'[i + 1].ids = messages'[i].ids
        OBVIOUS
    <2>1. i # L
        BY <1>8
    <2>2. i \in 1..L /\ i + 1 \in 1..L /\ i < L
        BY <1>11, <2>1
    <2> QED BY <1>6, <1>10, <2>2
<1> QED BY <1>3, <1>4, <1>5, <1>6, <1>7, <1>12, <1>13 DEF L

LEMMA BeginKeeps == ASSUME TurnInv, Begin PROVE TurnInv'
<1>1. /\ at = "entry" /\ at' = "model" /\ iteration' = 1 /\ messages' = <<User(<<>>)>>
      /\ UNCHANGED <<asked, results, reply, late, effects, unannounced, unsure, raised>>
      /\ UNCHANGED toolVars
    BY DEF Begin, toolVars
<1>2. asked = 0 /\ reply = "none" /\ raised = 0 /\ RunUpTo(0, effects, late, unsure)
    BY <1>1 DEF TurnInv, EntryInv, RunInv, Running, Sofar
<1>3. /\ User(<<>>) \in Messages(asked) /\ User(<<>>).role = "user"
      /\ messages' \in Seq(Messages(asked)) /\ Len(messages') = 1 /\ messages'[1] = User(<<>>)
      /\ DOMAIN messages' = 1..1
    <2>1. <<>> \in Seq(1..asked)
        OBVIOUS
    <2>2. User(<<>>) \in Messages(asked) /\ User(<<>>).role = "user"
        BY <2>1 DEF User, Messages
    <2> QED BY <1>1, <2>2
<1>4. TypeOK'
    <2>1. iteration' \in 0..MaxToolIterations
        BY <1>1
    <2>2. at' \in Places /\ ~(at' \in {"reply", "notify", "done"})
        BY <1>1 DEF Places
    <2>3. messages' \in Seq([role : {"user", "assistant"}, ids : Seq(1..asked')])
        BY <1>1, <1>3 DEF Messages
    <2> QED BY <1>1, <2>1, <2>2, <2>3 DEF TurnInv, TypeOK
<1>5. EntryInv' /\ ToolInv' /\ RunInv'
    BY <1>1, <1>2 DEF EntryInv, ToolInv, RunInv, RunUpTo, Sofar, Running
<1>6. ModelInv'
    BY <1>1, <1>2, <1>3 DEF ModelInv
<1>7. WellFormed'
    BY <1>1, <1>3 DEF WellFormed
<1>8. AnnouncedUnlessLate' /\ LimitIsTrue'
    BY <1>1, <1>2 DEF AnnouncedUnlessLate, LimitIsTrue
<1> QED BY <1>1, <1>4, <1>5, <1>6, <1>7, <1>8, HistoryKept DEF TurnInv

LEMMA WantToolsKeeps ==
    ASSUME TurnInv, NEW n \in 1..MaxBlocks, WantTools(n) PROVE TurnInv'
<1>1. /\ at = "model" /\ at' = "tool" /\ n \in 0..MaxBlocks /\ n \in Nat /\ n > 0
      /\ messages' = Append(messages, Assistant(Blocks(n))) /\ asked' = asked + n
      /\ results' = <<>>
      /\ UNCHANGED <<iteration, reply, late, effects, unannounced, unsure, raised>>
      /\ UNCHANGED toolVars
    BY DEF WantTools, toolVars
<1>2. /\ messages' \in Seq(Messages(asked'))
      /\ asked' \in 0..(MaxToolIterations * MaxBlocks)
      /\ asked' <= iteration * MaxBlocks
      /\ Len(messages') = Len(messages) + 1
      /\ Last(messages').ids = Blocks(n)
      /\ Len(Blocks(n)) = n /\ \A k \in 1..n : Blocks(n)[k] = asked + k
      /\ \A i \in DOMAIN messages' :
            messages'[i].role = IF i % 2 = 1 THEN "user" ELSE "assistant"
      /\ \A i \in DOMAIN messages' :
            i % 2 = 0 /\ i < Len(messages') => messages'[i + 1].ids = messages'[i].ids
    BY <1>1, ResponseAdded
<1>3. /\ asked \in Nat /\ iteration \in Nat /\ asked' \in Nat
      /\ asked' >= asked /\ Len(messages) \in Nat
    BY <1>1, Types DEF TurnInv
<1>4. reply = "none" /\ raised = 0 /\ RunUpTo(asked, effects, late, unsure)
    BY <1>1 DEF TurnInv, RunInv, Running, Sofar
<1>5. TypeOK'
    <2>1. results' \in Seq(1..asked')
        BY <1>1
    <2>2. messages' \in Seq([role : {"user", "assistant"}, ids : Seq(1..asked')])
        BY <1>2 DEF Messages
    <2>3. at' \in Places /\ ~(at' \in {"reply", "notify", "done"})
        BY <1>1 DEF Places
    <2>4. iteration' \in 0..MaxToolIterations /\ reply' \in Replies
        BY <1>1 DEF TurnInv, TypeOK
    <2>5. /\ effects' \in Seq(1..asked') /\ late' \in SUBSET (1..asked')
          /\ unannounced' \in SUBSET (1..asked') /\ unsure' \in SUBSET (1..asked')
          /\ raised' \in 0..asked'
        BY <1>1, <1>3, HistoryTypes DEF TurnInv
    <2> QED BY <1>2, <2>1, <2>2, <2>3, <2>4, <2>5 DEF TypeOK
<1>6. EntryInv' /\ ModelInv'
    BY <1>1 DEF EntryInv, ModelInv
<1>10. RunInv'
    <2>1. Sofar' = asked
        <3>1. Len(Current') = n /\ Len(results') = 0
            BY <1>1, <1>2 DEF Current
        <3> QED BY <1>1, <1>3, <3>1 DEF Sofar
    <2> QED BY <1>1, <1>4, <2>1 DEF RunInv, RunUpTo, Running
<1>7. ToolInv'
    <2>1. /\ iteration >= 1 /\ Len(messages) = 2 * iteration - 1 /\ iteration - 1 <= asked
        BY <1>1 DEF TurnInv, ModelInv
    <2>2. Current' = Blocks(n)
        BY <1>2 DEF Current
    <2>3. Len(results') = 0 /\ asked' - n = asked /\ asked' \in Nat /\ 1..Len(results') = {}
        BY <1>1, <1>3
    <2>4. Len(messages') = 2 * iteration /\ n \in 1..asked' /\ iteration <= asked'
        BY <1>1, <1>2, <1>3, <2>1
    <2>5. 0 <= n
        BY <1>1
    <2> QED BY <1>1, <1>2, <2>1, <2>2, <2>3, <2>4, <2>5 DEF ToolInv
<1>8. WellFormed'
    BY <1>1, <1>2 DEF WellFormed
<1>9. AnnouncedUnlessLate' /\ LimitIsTrue'
    BY <1>1, <1>4 DEF AnnouncedUnlessLate, LimitIsTrue
<1> QED BY <1>1, <1>5, <1>6, <1>7, <1>8, <1>9, <1>10, HistoryKept DEF TurnInv

LEMMA FinishKeeps ==
    ASSUME TurnInv, NEW n \in 0..MaxBlocks, Finish(n) PROVE TurnInv'
<1>1. /\ at = "model" /\ at' = "reply" /\ reply' = "text"
      /\ messages' = Append(messages, Assistant(Blocks(n))) /\ asked' = asked + n
      /\ UNCHANGED <<iteration, results, late, effects, unannounced, unsure, raised>>
      /\ UNCHANGED toolVars
    BY DEF Finish, toolVars
<1>2. /\ messages' \in Seq(Messages(asked'))
      /\ results \in Seq(1..asked')
      /\ asked' \in 0..(MaxToolIterations * MaxBlocks)
      /\ \A i \in DOMAIN messages' :
            messages'[i].role = IF i % 2 = 1 THEN "user" ELSE "assistant"
      /\ \A i \in DOMAIN messages' :
            i % 2 = 0 /\ i < Len(messages') => messages'[i + 1].ids = messages'[i].ids
    BY <1>1, ResponseAdded
<1>3. asked \in Nat /\ asked' \in Nat /\ asked' >= asked
    BY <1>1, Types DEF TurnInv
<1>4. TypeOK'
    <2>1. messages' \in Seq([role : {"user", "assistant"}, ids : Seq(1..asked')])
        BY <1>2 DEF Messages
    <2>2. at' \in Places /\ reply' \in Replies /\ reply' # "none"
        BY <1>1 DEF Places, Replies
    <2>3. iteration' \in 0..MaxToolIterations
        BY <1>1 DEF TurnInv, TypeOK
    <2>4. /\ effects' \in Seq(1..asked') /\ late' \in SUBSET (1..asked')
          /\ unannounced' \in SUBSET (1..asked') /\ unsure' \in SUBSET (1..asked')
          /\ raised' \in 0..asked'
        BY <1>1, <1>3, HistoryTypes DEF TurnInv
    <2> QED BY <1>1, <1>2, <2>1, <2>2, <2>3, <2>4 DEF TypeOK
<1>5. EntryInv' /\ ModelInv' /\ ToolInv' /\ RunInv'
    BY <1>1 DEF EntryInv, ModelInv, ToolInv, RunInv, Running
<1>6. WellFormed'
    BY <1>1, <1>2 DEF WellFormed
<1>7. AnnouncedUnlessLate' /\ LimitIsTrue'
    BY <1>1 DEF AnnouncedUnlessLate, LimitIsTrue
<1> QED BY <1>1, <1>4, <1>5, <1>6, <1>7, HistoryKept DEF TurnInv

LEMMA ModelFailsKeeps == ASSUME TurnInv, ModelFails PROVE TurnInv'
<1>1. /\ at = "model" /\ at' = "reply" /\ reply' = "error"
      /\ UNCHANGED <<iteration, messages, asked, results, late, effects, unannounced, unsure,
                     raised>>
      /\ UNCHANGED toolVars
    BY DEF ModelFails, Fail, loopVars, toolVars
<1>2. TypeOK'
    BY <1>1 DEF TurnInv, TypeOK, Places, Replies
<1>3. EntryInv' /\ ModelInv' /\ ToolInv' /\ RunInv'
    BY <1>1 DEF EntryInv, ModelInv, ToolInv, RunInv, Running
<1>4. WellFormed' /\ AnnouncedUnlessLate' /\ LimitIsTrue'
    BY <1>1 DEF TurnInv, WellFormed, AnnouncedUnlessLate, LimitIsTrue
<1> QED BY <1>1, <1>2, <1>3, <1>4, HistoryKept DEF TurnInv

-----------------------------------------------------------------------------
(* The call in hand is the next in order. *)
LEMMA CallIsNext ==
    ASSUME TurnInv, Calling
    PROVE  /\ Call = Sofar + 1 /\ Call \in 1..asked /\ Sofar \in Nat
           /\ Len(results) + 1 \in 1..Len(Current) /\ Current[Len(results) + 1] = Call
           /\ reply = "none" /\ raised = 0 /\ RunUpTo(Sofar, effects, late, unsure)
<1>1. asked \in Nat /\ Len(results) \in Nat
    BY Types DEF TurnInv
<1>2. /\ Len(Current) \in 1..asked
      /\ \A k \in 1..Len(Current) : Current[k] = asked - Len(Current) + k
      /\ Len(results) < Len(Current)
    BY DEF Calling, TurnInv, ToolInv
<1>3. Len(results) + 1 \in 1..Len(Current)
    BY <1>1, <1>2
<1>4. Call = asked - Len(Current) + (Len(results) + 1)
    BY <1>2, <1>3 DEF Call
<1>5. Sofar = asked - Len(Current) + Len(results)
    BY DEF Calling, Sofar
<1>6. Call = Sofar + 1 /\ Call \in 1..asked /\ Sofar \in Nat
    BY <1>1, <1>2, <1>4, <1>5
<1>7. reply = "none" /\ raised = 0 /\ RunUpTo(Sofar, effects, late, unsure)
    BY DEF Calling, TurnInv, RunInv, Running
<1> QED BY <1>3, <1>6, <1>7 DEF Call

(* One more effect, of a call that was asked. *)
LEMMA EffectAdded ==
    ASSUME TypeOK, NEW id \in 1..asked, TakesEffect(id)
    PROVE  /\ effects' \in Seq(1..asked) /\ unannounced' \in SUBSET (1..asked)
           /\ DOMAIN effects' = 1..(Len(effects) + 1) /\ Len(effects) \in Nat
           /\ DOMAIN effects = 1..Len(effects)
           /\ effects'[Len(effects) + 1] = id
           /\ \A j \in DOMAIN effects : effects'[j] = effects[j]
<1>1. effects \in Seq(1..asked) /\ unannounced \in SUBSET (1..asked)
    BY Types
<1>2. effects' = Append(effects, id) /\ unannounced' = unannounced \cup {id}
    BY DEF TakesEffect
<1> QED BY <1>1, <1>2, Appended

(* The call in hand took effect, is unsure, or both. *)
Tried ==
    \/ TakesEffect(Call) /\ UNCHANGED <<late, unsure>>
    \/ Unsure

LEMMA CallTried ==
    ASSUME TurnInv, Calling, Tried, UNCHANGED asked
    PROVE  /\ effects' \in Seq(1..asked) /\ unannounced' \in SUBSET (1..asked)
           /\ late' \in SUBSET (1..asked) /\ unsure' \in SUBSET (1..asked)
           /\ RunUpTo(Call, effects', late', unsure') /\ late' \subseteq unsure'
           /\ \A i, j \in DOMAIN effects' :
                 i < j /\ effects'[j] \notin unsure' => effects'[i] < effects'[j]
<1>1. /\ Call = Sofar + 1 /\ Call \in 1..asked /\ Sofar \in Nat /\ raised = 0
      /\ RunUpTo(Sofar, effects, late, unsure) /\ TypeOK
    BY CallIsNext DEF TurnInv
<1>2. /\ asked \in Nat /\ effects \in Seq(1..asked) /\ Len(effects) \in Nat
      /\ DOMAIN effects = 1..Len(effects)
      /\ late \in SUBSET (1..asked) /\ unsure \in SUBSET (1..asked)
      /\ unannounced \in SUBSET (1..asked)
    BY <1>1, Types
<1>3. late \subseteq unsure /\ EffectsInOrder
    BY DEF TurnInv, LateInv
<1>4. /\ unsure \subseteq unsure' /\ unsure' \in SUBSET (1..asked)
      /\ late' \in SUBSET (1..asked) /\ late' \subseteq late \cup {Call}
      /\ late' \subseteq unsure'
      /\ (UNCHANGED <<effects, unannounced>> /\ Call \in unsure') \/ TakesEffect(Call)
    BY <1>1, <1>2, <1>3 DEF Tried, Unsure
<1> DEFINE c == Call
<1>5. Sofar + 1 = c /\ c \in Nat
    BY <1>1, <1>2
<1> HIDE DEF c
<1>6. CASE UNCHANGED <<effects, unannounced>> /\ Call \in unsure'
    <2>1. /\ \A j \in DOMAIN effects' : effects'[j] <= c
          /\ \A k \in 1..c : k \in unsure' \/ \E j \in DOMAIN effects' : effects'[j] = k
        <3>1. \A j \in DOMAIN effects : effects[j] \in Nat /\ effects[j] <= Sofar
            BY <1>1, <1>2 DEF RunUpTo
        <3>2. \A k \in 1..c : k \in 1..Sofar \/ k = c
            BY <1>1, <1>5
        <3> QED BY <1>1, <1>4, <1>5, <1>6, <3>1, <3>2 DEF RunUpTo, c
    <2>2. \A i, j \in DOMAIN effects' :
              i < j /\ effects'[j] \notin unsure' => effects'[i] < effects'[j]
        BY <1>3, <1>4, <1>6 DEF EffectsInOrder
    <2>3. \A a \in late' : a <= c
        BY <1>1, <1>2, <1>4, <1>5 DEF RunUpTo, c
    <2>4. RunUpTo(Call, effects', late', unsure')
        BY <2>1, <2>3 DEF RunUpTo, c
    <2> QED BY <1>2, <1>4, <1>6, <2>2, <2>4
<1>7. CASE TakesEffect(Call)
    <2>1. /\ effects' \in Seq(1..asked) /\ unannounced' \in SUBSET (1..asked)
          /\ DOMAIN effects' = 1..(Len(effects) + 1)
          /\ effects'[Len(effects) + 1] = c
          /\ \A j \in DOMAIN effects : effects'[j] = effects[j]
        BY <1>1, <1>7, EffectAdded DEF c
    <2>2. \A j \in DOMAIN effects : effects[j] \in Nat /\ effects[j] < c
        BY <1>1, <1>2, <1>5 DEF RunUpTo
    <2>3. \A j \in DOMAIN effects' : j \in DOMAIN effects \/ j = Len(effects) + 1
        BY <1>2, <2>1
    <2>4. /\ \A j \in DOMAIN effects' : effects'[j] <= c
          /\ \A k \in 1..c : k \in unsure' \/ \E j \in DOMAIN effects' : effects'[j] = k
        <3>1. \A j \in DOMAIN effects' : effects'[j] <= c
            BY <1>5, <2>1, <2>2, <2>3
        <3>2. \A k \in 1..Sofar : k \in unsure' \/ \E j \in DOMAIN effects' : effects'[j] = k
            BY <1>1, <1>2, <1>4, <2>1 DEF RunUpTo
        <3>3. Len(effects) + 1 \in DOMAIN effects'
            BY <1>2, <2>1
        <3>4. \A k \in 1..c : k \in 1..Sofar \/ k = c
            BY <1>1, <1>5
        <3> QED BY <2>1, <3>1, <3>2, <3>3, <3>4
    <2>5. \A a \in late' : a <= c
        BY <1>1, <1>2, <1>4, <1>5 DEF RunUpTo, c
    <2>6. ASSUME NEW i \in DOMAIN effects', NEW j \in DOMAIN effects', i < j,
                 effects'[j] \notin unsure'
          PROVE  effects'[i] < effects'[j]
        <3>1. i \in DOMAIN effects
            BY <1>2, <2>1, <2>6
        <3>2. CASE j = Len(effects) + 1
            BY <2>1, <2>2, <3>1, <3>2
        <3>3. CASE j \in DOMAIN effects
            <4>1. effects[j] \notin unsure /\ effects'[i] = effects[i] /\ effects'[j] = effects[j]
                BY <1>4, <2>1, <2>6, <3>1, <3>3
            <4> QED BY <1>3, <2>6, <3>1, <3>3, <4>1 DEF EffectsInOrder
        <3> QED BY <2>3, <3>2, <3>3
    <2>7. RunUpTo(Call, effects', late', unsure')
        BY <2>4, <2>5 DEF RunUpTo, c
    <2> QED BY <1>4, <2>1, <2>6, <2>7
<1> QED BY <1>4, <1>6, <1>7

LEMMA AnsweredKeeps == ASSUME TurnInv, CallSucceeds \/ CallUnsure PROVE TurnInv'
<1>1. /\ Calling /\ at = "tool" /\ Len(results) < Len(Current) /\ Tried
      /\ results' = Append(results, Call)
      /\ UNCHANGED <<at, iteration, messages, asked, reply, raised>>
    BY DEF CallSucceeds, CallUnsure, Calling, Tried
<1>2. /\ messages \in Seq(Messages(asked)) /\ asked \in Nat /\ results \in Seq(1..asked)
      /\ Len(results) \in Nat
    BY Types DEF TurnInv
<1>3. /\ Call \in 1..asked /\ Current[Len(results) + 1] = Call /\ Call = Sofar + 1
      /\ reply = "none" /\ raised = 0
    BY <1>1, CallIsNext
<1>4. /\ effects' \in Seq(1..asked) /\ unannounced' \in SUBSET (1..asked)
      /\ late' \in SUBSET (1..asked) /\ unsure' \in SUBSET (1..asked)
      /\ RunUpTo(Call, effects', late', unsure') /\ late' \subseteq unsure'
      /\ \A i, j \in DOMAIN effects' :
            i < j /\ effects'[j] \notin unsure' => effects'[i] < effects'[j]
    BY <1>1, CallTried
<1>5. /\ results' \in Seq(1..asked) /\ Len(results') = Len(results) + 1
      /\ results'[Len(results) + 1] = Call
      /\ \A k \in 1..Len(results) : results'[k] = results[k]
    BY <1>1, <1>2, <1>3, Appended
<1>6. TypeOK'
    BY <1>1, <1>4, <1>5 DEF TurnInv, TypeOK
<1>7. EntryInv' /\ ModelInv' /\ LateInv' /\ EffectsInOrder'
    BY <1>1, <1>3, <1>4 DEF EntryInv, ModelInv, LateInv, EffectsInOrder
<1>8. Current' = Current
    BY <1>1 DEF Current
<1>9. /\ iteration >= 1 /\ Len(messages) = 2 * iteration
      /\ Len(Current) \in 1..asked
      /\ \A k \in 1..Len(Current) : Current[k] = asked - Len(Current) + k
      /\ \A k \in 1..Len(results) : results[k] = Current[k]
      /\ iteration <= asked /\ asked <= iteration * MaxBlocks
    BY <1>1 DEF TurnInv, ToolInv
<1>10. ToolInv'
    <2>1. Len(results') <= Len(Current)
        BY <1>1, <1>2, <1>5, <1>9
    <2>2. \A k \in 1..Len(results') : results'[k] = Current[k]
        <3>1. \A k \in 1..Len(results') : k \in 1..Len(results) \/ k = Len(results) + 1
            BY <1>2, <1>5
        <3> QED BY <1>3, <1>5, <1>9, <3>1
    <2> QED BY <1>1, <1>8, <1>9, <2>1, <2>2 DEF ToolInv
<1>11. RunInv'
    <2>1. Sofar' = Call
        BY <1>1, <1>2, <1>3, <1>5, <1>8, <1>9 DEF Sofar
    <2> QED BY <1>1, <1>3, <1>4, <2>1 DEF RunInv
<1>12. WellFormed' /\ AnnouncedUnlessLate' /\ LimitIsTrue'
    BY <1>1, <1>3 DEF TurnInv, WellFormed, AnnouncedUnlessLate, LimitIsTrue
<1> QED BY <1>6, <1>7, <1>10, <1>11, <1>12 DEF TurnInv

(* A call given up ends the turn: it bounds what takes effect from then on. *)
LEMMA GivenUp ==
    ASSUME TurnInv, Calling, GiveUp, UNCHANGED asked
    PROVE  /\ effects' \in Seq(1..asked) /\ unannounced' \in SUBSET (1..asked)
           /\ late' \in SUBSET (1..asked) /\ unsure' \in SUBSET (1..asked)
           /\ raised' \in 0..asked
           /\ LateInv' /\ EffectsInOrder'
<1>1. Tried /\ raised' = Call
    BY DEF GiveUp, Tried
<1>2. /\ effects' \in Seq(1..asked) /\ unannounced' \in SUBSET (1..asked)
      /\ late' \in SUBSET (1..asked) /\ unsure' \in SUBSET (1..asked)
      /\ RunUpTo(raised', effects', late', unsure') /\ late' \subseteq unsure'
      /\ \A i, j \in DOMAIN effects' :
            i < j /\ effects'[j] \notin unsure' => effects'[i] < effects'[j]
    BY <1>1, CallTried
<1>3. raised' \in 0..asked
    BY <1>1, CallIsNext
<1>4. LateInv' /\ EffectsInOrder'
    BY <1>2 DEF LateInv, EffectsInOrder, RunUpTo
<1> QED BY <1>2, <1>3, <1>4

LEMMA CallFailsKeeps == ASSUME TurnInv, CallFails PROVE TurnInv'
<1>1. /\ Calling /\ GiveUp /\ at = "tool" /\ at' = "reply" /\ reply' = "error"
      /\ UNCHANGED <<iteration, messages, asked, results>>
    BY DEF CallFails, Calling, Fail, loopVars
<1>2. /\ effects' \in Seq(1..asked) /\ unannounced' \in SUBSET (1..asked)
      /\ late' \in SUBSET (1..asked) /\ unsure' \in SUBSET (1..asked)
      /\ raised' \in 0..asked
      /\ LateInv' /\ EffectsInOrder'
    BY <1>1, GivenUp
<1>3. TypeOK'
    BY <1>1, <1>2 DEF TurnInv, TypeOK, Places, Replies
<1>4. EntryInv' /\ ModelInv' /\ ToolInv' /\ RunInv'
    BY <1>1 DEF EntryInv, ModelInv, ToolInv, RunInv, Running
<1>5. WellFormed' /\ AnnouncedUnlessLate' /\ LimitIsTrue'
    BY <1>1 DEF TurnInv, WellFormed, AnnouncedUnlessLate, LimitIsTrue
<1> QED BY <1>2, <1>3, <1>4, <1>5 DEF TurnInv

LEMMA DieKeeps == ASSUME TurnInv, Die PROVE TurnInv'
<1>1. /\ at' = "dead" /\ at # "dead"
      /\ UNCHANGED <<iteration, messages, asked, results, reply>>
    BY DEF Die, loopVars
<1>2. /\ effects' \in Seq(1..asked) /\ unannounced' \in SUBSET (1..asked)
      /\ late' \in SUBSET (1..asked) /\ unsure' \in SUBSET (1..asked)
      /\ raised' \in 0..asked
      /\ LateInv' /\ EffectsInOrder'
    <2>1. CASE Calling
        BY <1>1, <2>1, GivenUp DEF Die
    <2>2. CASE ~Calling
        <3>1. UNCHANGED toolVars
            BY <2>2 DEF Die
        <3>2. asked \in Nat
            BY Types DEF TurnInv
        <3> QED BY <1>1, <3>1, <3>2, HistoryKept, HistoryTypes DEF TurnInv
    <2> QED BY <2>1, <2>2
<1>3. TypeOK'
    BY <1>1, <1>2 DEF TurnInv, TypeOK, Places, Replies
<1>4. EntryInv' /\ ModelInv' /\ ToolInv' /\ RunInv' /\ AnnouncedUnlessLate' /\ WellFormed'
    BY <1>1 DEF TurnInv, EntryInv, ModelInv, ToolInv, RunInv, Running, AnnouncedUnlessLate,
                WellFormed
<1>5. LimitIsTrue'
    <2>1. reply = "limit" => ~Calling
        BY CallIsNext
    <2>2. reply = "limit" => UNCHANGED <<raised, effects, unsure>>
        BY <2>1 DEF Die, toolVars
    <2> QED BY <1>1, <2>2 DEF TurnInv, LimitIsTrue
<1> QED BY <1>2, <1>3, <1>4, <1>5 DEF TurnInv


-----------------------------------------------------------------------------
LEMMA SameSequence ==
    ASSUME NEW S, NEW p \in Seq(S), NEW q \in Seq(S), Len(p) = Len(q),
           \A k \in 1..Len(p) : p[k] = q[k]
    PROVE  p = q
OBVIOUS

(* The results are the blocks of the response they answer. *)
LEMMA AllResults ==
    ASSUME TurnInv, at = "tool", Len(results) = Len(Current)
    PROVE  results = messages[Len(messages)].ids /\ Sofar = asked
<1>1. /\ messages \in Seq(Messages(asked)) /\ results \in Seq(1..asked) /\ asked \in Nat
      /\ Len(messages) \in Nat /\ iteration \in Nat
    BY Types DEF TurnInv
<1>2. /\ iteration >= 1 /\ Len(messages) = 2 * iteration
      /\ \A k \in 1..Len(results) : results[k] = Current[k]
      /\ Len(Current) \in 1..asked
    BY DEF TurnInv, ToolInv
<1>3. Current = messages[Len(messages)].ids
    BY DEF Current, Last
<1>4. messages[Len(messages)] \in Messages(asked)
    BY <1>1, <1>2
<1>5. Current \in Seq(1..asked)
    BY <1>3, <1>4 DEF Messages
<1>6. results = Current
    BY <1>1, <1>2, <1>5, SameSequence
<1>7. Sofar = asked
    BY <1>1, <1>2 DEF Sofar
<1> QED BY <1>3, <1>6, <1>7

LEMMA NextRoundKeeps == ASSUME TurnInv, NextRound PROVE TurnInv'
<1> DEFINE L == Len(messages)
<1>1. /\ at = "tool" /\ Len(results) = Len(Current)
      /\ messages' = Append(messages, User(results))
      /\ UNCHANGED <<asked, results, late, effects, unannounced, unsure, raised>>
      /\ UNCHANGED toolVars
    BY DEF NextRound, toolVars
<1>2. /\ messages \in Seq(Messages(asked)) /\ asked \in Nat /\ results \in Seq(1..asked)
      /\ L \in Nat /\ iteration \in Nat /\ DOMAIN messages = 1..L
    BY Types DEF TurnInv
<1>3. results = messages[L].ids /\ Sofar = asked
    BY <1>1, AllResults
<1>4. /\ iteration >= 1 /\ L = 2 * iteration
      /\ iteration <= asked /\ asked <= iteration * MaxBlocks
    BY <1>1 DEF TurnInv, ToolInv
<1>5. reply = "none" /\ raised = 0 /\ RunUpTo(asked, effects, late, unsure)
    BY <1>1, <1>3 DEF TurnInv, RunInv, Running
<1>6. /\ User(results) \in Messages(asked)
      /\ User(results).role = "user" /\ User(results).ids = results
    BY <1>2 DEF User, Messages
<1>7. /\ messages' \in Seq(Messages(asked)) /\ Len(messages') = L + 1
      /\ messages'[L + 1] = User(results)
      /\ \A i \in 1..L : messages'[i] = messages[i]
      /\ DOMAIN messages' = 1..(L + 1)
    BY <1>1, <1>2, <1>6, Appended
<1>8. iteration <= MaxToolIterations
    BY DEF TurnInv, TypeOK
<1>9. \/ iteration < MaxToolIterations /\ at' = "model" /\ iteration' = iteration + 1
         /\ reply' = reply
      \/ iteration = MaxToolIterations /\ at' = "reply" /\ reply' = "limit"
         /\ iteration' = iteration
    BY <1>2, <1>8 DEF NextRound
<1>10. TypeOK'
    <2>1. messages' \in Seq([role : {"user", "assistant"}, ids : Seq(1..asked')])
        BY <1>1, <1>7 DEF Messages
    <2>2. at' \in Places /\ reply' \in Replies /\ (at' = "model" \/ reply' # "none")
        BY <1>5, <1>9 DEF Places, Replies
    <2>3. iteration' \in 0..MaxToolIterations
        BY <1>2, <1>9
    <2> QED BY <1>1, <2>1, <2>2, <2>3 DEF TurnInv, TypeOK
<1>11. EntryInv' /\ ToolInv'
    BY <1>1, <1>9 DEF EntryInv, ToolInv
<1>12. RunInv'
    BY <1>1, <1>5, <1>9 DEF RunInv, Sofar, Running
<1>13. ModelInv'
    <2> SUFFICES ASSUME at' = "model" PROVE ModelInv'
        BY DEF ModelInv
    <2>1. iteration' = iteration + 1 /\ iteration' - 1 = iteration
        BY <1>2, <1>9
    <2>2. Len(messages') = 2 * iteration' - 1
        BY <1>2, <1>4, <1>7, <2>1
    <2>3. iteration' >= 1
        BY <1>2, <2>1
    <2> QED BY <1>1, <1>3, <1>4, <2>1, <2>2, <2>3 DEF ModelInv
<1>14. WellFormed'
    <2>1. \A i \in 1..L : messages[i].role = IF i % 2 = 1 THEN "user" ELSE "assistant"
        BY <1>2 DEF TurnInv, WellFormed
    <2>2. \A i \in 1..L : i % 2 = 0 /\ i < L => messages[i + 1].ids = messages[i].ids
        BY <1>2 DEF TurnInv, WellFormed
    <2>3. L % 2 = 0 /\ (L + 1) % 2 = 1 /\ L \in 1..L
        BY <1>2, <1>4
    <2> HIDE DEF L
    <2>4. \A i \in 1..(L + 1) : messages'[i].role = IF i % 2 = 1 THEN "user" ELSE "assistant"
        <3>1. messages'[L + 1].role = "user"
            BY <1>6, <1>7
        <3>2. \A i \in 1..(L + 1) : i \in 1..L \/ i = L + 1
            BY <1>2
        <3> QED BY <1>7, <2>1, <2>3, <3>1, <3>2
    <2>5. ASSUME NEW i \in 1..(L + 1), i % 2 = 0, i < L + 1
          PROVE  messages'[i + 1].ids = messages'[i].ids
        <3>1. CASE i = L
            BY <1>3, <1>6, <1>7, <2>3, <3>1
        <3>2. CASE i < L
            <4>1. i \in 1..L /\ i + 1 \in 1..L
                BY <1>2, <2>5, <3>2
            <4> QED BY <1>7, <2>2, <2>5, <3>2, <4>1
        <3> QED BY <1>2, <2>5, <3>1, <3>2
    <2> QED BY <1>7, <2>3, <2>4, <2>5 DEF WellFormed
<1>15. AnnouncedUnlessLate' /\ LateInv' /\ EffectsInOrder'
    BY <1>1, <1>9, HistoryKept DEF AnnouncedUnlessLate
<1>16. LimitIsTrue'
    <2> SUFFICES ASSUME reply' = "limit" PROVE LimitIsTrue'
        BY DEF LimitIsTrue
    <2>1. iteration = MaxToolIterations
        BY <1>5, <1>9
    <2>2. Len(messages') = 2 * MaxToolIterations + 1 /\ asked >= MaxToolIterations
        BY <1>2, <1>4, <1>7, <2>1
    <2>3. 1..asked \subseteq Range(effects) \cup unsure
        BY <1>5 DEF RunUpTo, Range
    <2> QED BY <1>1, <1>5, <2>2, <2>3 DEF LimitIsTrue
<1> QED BY <1>10, <1>11, <1>12, <1>13, <1>14, <1>15, <1>16 DEF TurnInv

-----------------------------------------------------------------------------
(* After the turn *)

LEMMA PublishKeeps == ASSUME TurnInv, PublishReply \/ PublishChanged PROVE TurnInv'
<1>1. /\ at \in {"reply", "notify"} /\ at' \in {"notify", "done"}
      /\ (at' = "done" => unannounced' = {}) /\ unannounced' \in {unannounced, {}}
      /\ UNCHANGED <<iteration, messages, asked, results, reply, late, effects, unsure, raised>>
    BY DEF PublishReply, PublishChanged, loopVars, toolVars
<1>2. TypeOK'
    <2>1. reply # "none" /\ unannounced' \in SUBSET (1..asked)
        BY <1>1 DEF TurnInv, TypeOK
    <2> QED BY <1>1, <2>1 DEF TurnInv, TypeOK, Places
<1>3. EntryInv' /\ ModelInv' /\ ToolInv' /\ LateInv' /\ RunInv'
    BY <1>1 DEF TurnInv, EntryInv, ModelInv, ToolInv, LateInv, RunInv, Running
<1>4. WellFormed' /\ EffectsInOrder' /\ AnnouncedUnlessLate' /\ LimitIsTrue'
    BY <1>1 DEF TurnInv, WellFormed, EffectsInOrder, AnnouncedUnlessLate, LimitIsTrue
<1> QED BY <1>2, <1>3, <1>4 DEF TurnInv

LEMMA LateEffectKeeps == ASSUME TurnInv, LateEffect PROVE TurnInv'
<1>1. PICK id \in late :
          /\ late' = late \ {id} /\ TakesEffect(id)
          /\ UNCHANGED <<at, iteration, messages, asked, results, reply, unsure, raised>>
    BY DEF LateEffect, loopVars
<1>2. /\ id \in unsure /\ (raised # 0 => id <= raised) /\ id \in 1..asked
      /\ TypeOK /\ asked \in Nat /\ late' \subseteq late
    BY <1>1, Types DEF TurnInv, LateInv
<1>3. /\ effects' \in Seq(1..asked) /\ unannounced' \in SUBSET (1..asked)
      /\ DOMAIN effects' = 1..(Len(effects) + 1) /\ Len(effects) \in Nat
      /\ DOMAIN effects = 1..Len(effects)
      /\ effects'[Len(effects) + 1] = id
      /\ \A j \in DOMAIN effects : effects'[j] = effects[j]
      /\ unannounced' = unannounced \cup {id}
    BY <1>1, <1>2, EffectAdded DEF TakesEffect
<1>4. \A j \in DOMAIN effects' : j \in DOMAIN effects \/ j = Len(effects) + 1
    BY <1>3
<1>5. TypeOK'
    BY <1>1, <1>2, <1>3 DEF TypeOK
<1>6. EntryInv' /\ ModelInv' /\ ToolInv' /\ LateInv'
    BY <1>1, <1>2 DEF TurnInv, EntryInv, ModelInv, ToolInv, LateInv, Current
<1>7. RunInv'
    <2> SUFFICES ASSUME Running
                 PROVE  reply = "none" /\ raised = 0 /\ RunUpTo(Sofar, effects', late', unsure)
        BY <1>1 DEF RunInv, Running, Sofar, Current
    <2>1. reply = "none" /\ raised = 0 /\ RunUpTo(Sofar, effects, late, unsure)
        BY DEF TurnInv, RunInv
    <2>2. id <= Sofar
        BY <1>1, <2>1 DEF RunUpTo
    <2>3. \A k : (\E j \in DOMAIN effects : effects[j] = k) => \E j \in DOMAIN effects' : effects'[j] = k
        BY <1>3
    <2> QED BY <1>2, <1>3, <1>4, <2>1, <2>2, <2>3 DEF RunUpTo
<1>8. EffectsInOrder'
    <2>1. ASSUME NEW i \in DOMAIN effects', NEW j \in DOMAIN effects', i < j,
                 effects'[j] \notin unsure
          PROVE  effects'[i] < effects'[j]
        <3>1. j \in DOMAIN effects
            BY <1>2, <1>3, <1>4, <2>1
        <3>2. i \in DOMAIN effects
            BY <1>3, <1>4, <2>1, <3>1
        <3> QED BY <1>3, <2>1, <3>1, <3>2 DEF TurnInv, EffectsInOrder
    <2>2. ASSUME NEW i \in DOMAIN effects', raised # 0 PROVE effects'[i] <= raised
        <3>1. CASE i \in DOMAIN effects
            BY <1>3, <2>2, <3>1 DEF TurnInv, EffectsInOrder
        <3> QED BY <1>2, <1>3, <1>4, <2>2, <3>1
    <2> QED BY <1>1, <2>1, <2>2 DEF EffectsInOrder
<1>9. WellFormed' /\ AnnouncedUnlessLate'
    BY <1>1, <1>2, <1>3 DEF TurnInv, WellFormed, AnnouncedUnlessLate
<1>10. LimitIsTrue'
    <2>1. Range(effects) \subseteq Range(effects')
        BY <1>3, <1>4 DEF Range
    <2> QED BY <1>1, <2>1 DEF TurnInv, LimitIsTrue
<1> QED BY <1>5, <1>6, <1>7, <1>8, <1>9, <1>10 DEF TurnInv

-----------------------------------------------------------------------------
LEMMA TurnStep == TurnInv /\ [Next]_vars => TurnInv'
<1> SUFFICES ASSUME TurnInv, [Next]_vars PROVE TurnInv'
    OBVIOUS
<1>1. CASE UNCHANGED vars
    BY <1>1 DEF vars, loopVars, toolVars, TurnInv, TypeOK, EntryInv, ModelInv, ToolInv, RunInv,
                RunUpTo, Sofar, LateInv, WellFormed, EffectsInOrder, AnnouncedUnlessLate, LimitIsTrue,
                Running, Current
<1>2. ASSUME NEW n \in 1..MaxBlocks, WantTools(n) PROVE TurnInv'
    BY <1>2, WantToolsKeeps
<1>3. ASSUME NEW n \in 0..MaxBlocks, Finish(n) PROVE TurnInv'
    BY <1>3, FinishKeeps
<1>4. CASE Begin \/ ModelFails
    BY <1>4, BeginKeeps, ModelFailsKeeps
<1>5. CASE CallSucceeds \/ CallUnsure \/ CallFails \/ NextRound
    BY <1>5, AnsweredKeeps, CallFailsKeeps, NextRoundKeeps
<1>6. CASE PublishReply \/ PublishChanged \/ LateEffect \/ Die
    BY <1>6, PublishKeeps, LateEffectKeeps, DieKeeps
<1> QED BY <1>1, <1>2, <1>3, <1>4, <1>5, <1>6 DEF Next

LEMMA TurnAlways == Spec => []TurnInv
BY TurnInit, TurnStep, PTL DEF Spec

(* Every variable keeps its type; no more blocks than the rounds allow. *)
THEOREM TurnTypeCorrect == Spec => []TypeOK
<1>1. TurnInv => TypeOK BY DEF TurnInv
<1> QED BY <1>1, TurnAlways, PTL

(* run_agent_turn's conversation is one the Messages API accepts: a reply  *)
(* with tool_use blocks is followed by all their results, in order.        *)
THEOREM ConversationWellFormed == Spec => []WellFormed
<1>1. TurnInv => WellFormed BY DEF TurnInv
<1> QED BY <1>1, TurnAlways, PTL

(* A tool call answered with success took effect once, and nothing asked   *)
(* after it before it did; nothing asked after a call that raised takes    *)
(* effect at all, since the exception ends the turn (main.py:91, 110-114). *)
THEOREM ToolsInOrder == Spec => []EffectsInOrder
<1>1. TurnInv => EffectsInOrder BY DEF TurnInv
<1> QED BY <1>1, TurnAlways, PTL

(* process_entry publishes todos:changed after every effect of the turn,   *)
(* but those of unsure calls, which may come late.                         *)
THEOREM ChangesAnnounced == Spec => []AnnouncedUnlessLate
<1>1. TurnInv => AnnouncedUnlessLate BY DEF TurnInv
<1> QED BY <1>1, TurnAlways, PTL

(* The message about the limit comes after MAX_TOOL_ITERATIONS rounds, all *)
(* of whose calls took effect or were answered as possibly failed.         *)
THEOREM LimitMessageTrue == Spec => []LimitIsTrue
<1>1. TurnInv => LimitIsTrue BY DEF TurnInv
<1> QED BY <1>1, TurnAlways, PTL

-----------------------------------------------------------------------------
(* What the user is told when a turn did not fail: no call raised, every   *)
(* block took effect or came back as unsure, but for those of the response *)
(* that ended the turn, of which none is ever run, early or late.          *)
Unrun == IF reply = "text" THEN Len(Last(messages).ids) ELSE 0

ReplyIsWhole ==
    reply \in {"text", "limit"} =>
        raised = 0 /\ RunUpTo(asked - Unrun, effects, late, unsure)

LEMMA RunningIsSilent == ASSUME TurnInv, Running PROVE reply = "none"
BY DEF TurnInv, RunInv

LEMMA WholeStep == TurnInv /\ ReplyIsWhole /\ [Next]_vars => ReplyIsWhole'
<1> SUFFICES ASSUME TurnInv, ReplyIsWhole, [Next]_vars PROVE ReplyIsWhole'
    OBVIOUS
<1>1. CASE UNCHANGED <<messages, asked, reply, late, effects, unsure, raised>>
    BY <1>1 DEF ReplyIsWhole, Unrun, RunUpTo
<1>2. CASE Begin \/ CallSucceeds \/ CallUnsure \/ \E n \in 1..MaxBlocks : WantTools(n)
    <2>1. reply' = "none"
        BY <1>2, RunningIsSilent
           DEF Begin, CallSucceeds, CallUnsure, Calling, WantTools, Running
    <2> QED BY <2>1 DEF ReplyIsWhole
<1>3. ASSUME NEW n \in 0..MaxBlocks, Finish(n) PROVE ReplyIsWhole'
    <2>1. /\ at = "model" /\ reply' = "text"
          /\ messages' = Append(messages, Assistant(Blocks(n))) /\ asked' = asked + n
          /\ UNCHANGED <<late, effects, unsure, raised>>
        BY <1>3 DEF Finish, toolVars
    <2>2. Last(messages').ids = Blocks(n) /\ Len(Blocks(n)) = n
        BY <2>1, ResponseAdded
    <2>3. raised = 0 /\ RunUpTo(asked, effects, late, unsure)
        BY <2>1 DEF TurnInv, RunInv, Sofar, Running
    <2>4. asked' - Unrun' = asked
        <3>1. asked \in Nat /\ n \in Nat
            BY Types DEF TurnInv
        <3> QED BY <2>1, <2>2, <3>1 DEF Unrun
    <2> QED BY <2>1, <2>3, <2>4 DEF ReplyIsWhole
<1>4. CASE ModelFails \/ CallFails
    BY <1>4 DEF ModelFails, CallFails, Fail, ReplyIsWhole
<1>5. CASE NextRound
    <2>1. at = "tool" /\ UNCHANGED <<asked, late, effects, unsure, raised>>
        BY <1>5 DEF NextRound, toolVars
    <2>2. Sofar = asked
        BY <1>5, AllResults DEF NextRound
    <2>3. raised = 0 /\ reply = "none" /\ RunUpTo(asked, effects, late, unsure)
        BY <2>1, <2>2 DEF TurnInv, RunInv, Running
    <2>4. reply' \in {"none", "limit"}
        BY <1>5, <2>3 DEF NextRound
    <2>5. reply' = "limit" => asked' - Unrun' = asked
        <3>1. asked \in Nat
            BY Types DEF TurnInv
        <3> QED BY <2>1, <3>1 DEF Unrun
    <2> QED BY <2>1, <2>3, <2>4, <2>5 DEF ReplyIsWhole
<1>6. CASE PublishReply \/ PublishChanged
    BY <1>1, <1>6 DEF PublishReply, PublishChanged, loopVars, toolVars
<1>7. CASE LateEffect
    <2>1. PICK id \in late :
              /\ late' = late \ {id} /\ TakesEffect(id)
              /\ UNCHANGED <<messages, asked, reply, unsure, raised>>
        BY <1>7 DEF LateEffect, loopVars
    <2>2. id \in 1..asked /\ TypeOK
        BY <2>1 DEF TurnInv, TypeOK
    <2>3. /\ DOMAIN effects' = 1..(Len(effects) + 1) /\ Len(effects) \in Nat
          /\ DOMAIN effects = 1..Len(effects)
          /\ effects'[Len(effects) + 1] = id
          /\ \A j \in DOMAIN effects : effects'[j] = effects[j]
        BY <2>1, <2>2, EffectAdded
    <2> SUFFICES ASSUME reply \in {"text", "limit"}
                 PROVE  raised = 0 /\ RunUpTo(asked - Unrun, effects', late', unsure)
        BY <2>1 DEF ReplyIsWhole, Unrun
    <2>4. raised = 0 /\ RunUpTo(asked - Unrun, effects, late, unsure)
        BY DEF ReplyIsWhole
    <2> HIDE DEF Unrun
    <2>5. \A j \in DOMAIN effects' : j \in DOMAIN effects \/ j = Len(effects) + 1
        BY <2>3
    <2>6. \A k : (\E j \in DOMAIN effects : effects[j] = k) => \E j \in DOMAIN effects' : effects'[j] = k
        BY <2>3
    <2> QED BY <2>1, <2>3, <2>4, <2>5, <2>6 DEF RunUpTo
<1>8. CASE Die
    <2>1. CASE Calling
        <3>1. reply = "none" /\ reply' = reply
            BY <1>8, <2>1, RunningIsSilent DEF Die, Calling, Running
        <3> QED BY <3>1 DEF ReplyIsWhole
    <2>2. CASE ~Calling
        BY <1>1, <1>8, <2>2 DEF Die, loopVars, toolVars
    <2> QED BY <2>1, <2>2
<1>9. CASE UNCHANGED vars
    BY <1>1, <1>9 DEF vars, loopVars, toolVars
<1> QED BY <1>2, <1>3, <1>4, <1>5, <1>6, <1>7, <1>8, <1>9 DEF Next

(* A reply that is not an error stands for a turn that was carried out: no *)
(* call raised, every block of every round that was run took effect or was *)
(* reported to the model as one that may have failed, and no block of the  *)
(* response that ended the turn takes effect (main.py:68-118).             *)
THEOREM ReplyMeansCarriedOut == Spec => []ReplyIsWhole
<1>1. Init => ReplyIsWhole
    BY DEF Init, ReplyIsWhole
<1> QED BY <1>1, WholeStep, TurnInit, TurnStep, PTL DEF Spec
=============================================================================
