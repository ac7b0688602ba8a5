---------------------------- MODULE MCAgentRounds ----------------------------
(* AgentRounds on the instances of MCAgent. *)
EXTENDS MCAgent, AgentRounds
=============================================================================
