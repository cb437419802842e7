---------------------------- MODULE MCAgentTurn ----------------------------
(* Instances of AgentTurn for TLC; the .cfg files give the constants. *)
EXTENDS AgentTurn
=============================================================================
