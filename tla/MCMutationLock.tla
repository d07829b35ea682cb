--------------------------- MODULE MCMutationLock ---------------------------
(* Small instances of MutationLock: two processes of the harness, one of     *)
(* which runs two callers at once (heartbeat timer and shutdown), and the    *)
(* process an older version left its lock file for.                          *)
EXTENDS MutationLock

CONSTANTS c1, c2, c3, p1, p2, p0

MCPidOf == [c \in Caller |-> IF c = c1 THEN p1 ELSE p2]
=============================================================================
