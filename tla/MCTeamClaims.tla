---------------------------- MODULE MCTeamClaims ----------------------------
(* Two tasks, the second of which needs the first and one worker's role, for   *)
(* two workers, one of which also edits tasks into such ones, beside a leader  *)
(* that monitors.                                                             *)
EXTENDS TeamClaims

CONSTANTS a, b, l

Free == [t \in Task |-> None]
Anybody == [roles |-> Worker, deps |-> {}, blocked |-> FALSE]
AfterFirst == [roles |-> {b}, deps |-> {1}, blocked |-> FALSE]
Chain == [t \in Task |-> IF t = 1 THEN Anybody ELSE AfterFirst]
Edited == {AfterFirst}
Once == [w \in Worker |-> 1]
=============================================================================
