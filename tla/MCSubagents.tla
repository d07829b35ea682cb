----------------------------- MODULE MCSubagents -----------------------------
(* Subagents of two agents, and a background command.                         *)
EXTENDS Subagents

CONSTANTS s1, s2, b1, o1, o2

MCLauncherOf == [s \in Subagent |-> IF s = s1 THEN o1 ELSE o2]
=============================================================================
