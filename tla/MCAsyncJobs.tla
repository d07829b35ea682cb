----------------------------- MODULE MCAsyncJobs -----------------------------
(* A background job of each of two agents.                                    *)
EXTENDS AsyncJobs

CONSTANTS r1, r2, o1, o2

MCOwnerOf == [r \in Run |-> IF r = r1 THEN o1 ELSE o2]
=============================================================================
