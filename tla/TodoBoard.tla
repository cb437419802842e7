----------------------------- MODULE TodoBoard -----------------------------
(***************************************************************************)
(* What api and the todo tools promise together: one list of todos, each   *)
(* with its state and its priority, changed one todo at a time.  That the  *)
(* todos are in MySQL and the priorities in Redis cannot be seen, except   *)
(* that the priorities may all be forgotten at once.  A priority is one    *)
(* that was asked for; a request may be carried out late, after a newer    *)
(* one, more than once, or never.                                          *)
(***************************************************************************)
EXTENDS Integers

CONSTANTS Ids,         \* ids a todo may get
          Priorities   \* priorities a todo may have

VARIABLES board,  \* the todos: id -> [done, priority]
          used,   \* ids given to a todo so far
          asked   \* <<id, p>>: requests to give todo id priority p, under way

vars == <<board, used, asked>>

Todo == [done : BOOLEAN, priority : Priorities]

With(id, t) == [i \in DOMAIN board \cup {id} |-> IF i = id THEN t ELSE board[i]]

Init == board = [id \in {} |-> 0] /\ used = {} /\ asked = {}

\* A new todo has a new id, and starts at priority 0.
Add(id) ==
    /\ id \notin used
    /\ used' = used \cup {id}
    /\ board' = With(id, [done |-> FALSE, priority |-> 0])
    /\ UNCHANGED asked

Mark(id, d) ==
    /\ id \in DOMAIN board
    /\ board' = With(id, [board[id] EXCEPT !.done = d])
    /\ UNCHANGED <<used, asked>>

Ask(id, p) ==
    /\ asked' = asked \cup {<<id, p>>}
    /\ UNCHANGED <<board, used>>

\* That ends the request, unless another asks the same.
Prioritise(id, p) ==
    /\ id \in DOMAIN board /\ <<id, p>> \in asked
    /\ board' = With(id, [board[id] EXCEPT !.priority = p])
    /\ asked' \in {asked, asked \ {<<id, p>>}}
    /\ UNCHANGED used

Drop(id, p) ==
    /\ asked' = asked \ {<<id, p>>}
    /\ UNCHANGED <<board, used>>

Remove(id) ==
    /\ id \in DOMAIN board
    /\ board' = [i \in DOMAIN board \ {id} |-> board[i]]
    /\ UNCHANGED <<used, asked>>

Forget ==
    /\ board' = [i \in DOMAIN board |-> [board[i] EXCEPT !.priority = 0]]
    /\ UNCHANGED <<used, asked>>

Next ==
    \/ \E id \in Ids : \/ Add(id)
                       \/ \E d \in BOOLEAN : Mark(id, d)
                       \/ \E p \in Priorities : Ask(id, p) \/ Prioritise(id, p) \/ Drop(id, p)
                       \/ Remove(id)
    \/ Forget

Spec == Init /\ [][Next]_vars
=============================================================================
