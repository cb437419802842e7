--------------------------- MODULE MCSessionStore ---------------------------
(* Instances of SessionStore for TLC; the .cfg files give the constants. *)
EXTENDS KeyOrder, TLC

Symmetry == Permutations(Sids) \cup Permutations(Roles)
=============================================================================
