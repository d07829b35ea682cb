--------------------------- MODULE MCSessionLease ---------------------------
(* Two owner processes and a garbage collector.                               *)
EXTENDS SessionLease

CONSTANTS a, b, g, pa, pb, pg, p0, A, B, G

MCPidOf == [c \in Caller |-> CASE c = a -> pa [] c = b -> pb [] c = g -> pg]
MCOwnerOf == [c \in Caller |-> CASE c = a -> A [] c = b -> B [] c = g -> G]
MCOpsOf == [c \in Caller |-> CASE c = a -> {"acquire", "release"}
                               [] c = b -> {"acquire", "heartbeat", "release"}
                               [] c = g -> {"reap"}]
=============================================================================
