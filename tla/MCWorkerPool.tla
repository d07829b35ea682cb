------------------------------ MODULE MCWorkerPool ------------------------------
(* One queued event, one of its issue and one of another that come in later, *)
(* two slots, one stop or death of the process, and one replay or triage.    *)
EXTENDS WorkerPool

CONSTANTS e1, e2, e3, i1, i2, s1, s2

MCIssueOf == [e \in Event |-> IF e = e3 THEN i2 ELSE i1]
MCSlots == <<s1, s2>>
MCBacklog == <<e2>>

===============================================================================
