------------------------------- MODULE MCAgentRun -------------------------------
(* Small instances of AgentRun. *)
EXTENDS AgentRun, TLC
=============================================================================
