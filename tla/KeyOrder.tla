------------------------------ MODULE KeyOrder ------------------------------
(***************************************************************************)
(* What the store expects of the strings of Encoding, far beyond the few   *)
(* messages a model can hold: every number up to MaxN.                     *)
(***************************************************************************)
EXTENDS SessionStore

CONSTANT MaxN   \* bound: the largest number encoded

ASSUME KeyOrderAssumption == MaxN \in Nat /\ MaxN < Power[KeyWidth]

(* Numbers whose key does not sort after the keys of all smaller ones. *)
StrayKeys ==
    {n \in 0..MaxN : \E a \in 0..(n - 1) : ~Before(MessageKey(a), MessageKey(n))}

(* bbolt lists the messages of a session in the order of their numbers, as *)
(* store.go says: no message a session has, or will have, has a key that   *)
(* sorts before an earlier one's.                                          *)
KeysInOrder ==
    \A s \in Living : \A n \in StrayKeys : n \notin Seqs(s) /\ n < Count(s)
=============================================================================
