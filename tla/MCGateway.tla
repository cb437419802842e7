------------------------------ MODULE MCGateway ------------------------------
(* Instances of Gateway for TLC; the .cfg files give the constants. *)
EXTENDS Gateway, TLC

Symmetry == Permutations(Sessions)
=============================================================================
