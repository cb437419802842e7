---------------------------- MODULE MCAgentQueue ----------------------------
(* Instances of AgentQueue for TLC; the .cfg files give the constants. *)
EXTENDS AgentQueue, TLC

Symmetry == Permutations(Entries) \cup Permutations(Pods)
=============================================================================
