----------------------------- MODULE MCAgentLoop -----------------------------
(* Two runs of the agent, three messages of the user and batches in which   *)
(* shared and exclusive calls wait for each other.                          *)
EXTENDS AgentLoop

MCBatches == {<<"shared", "shared">>, <<"shared", "exclusive">>, <<"exclusive", "shared">>}
===============================================================================
