------------------------------ MODULE JobManager ------------------------------
(* What the two halves of AsyncJobManager (async/job-manager.ts), the jobs    *)
(* with their deliveries in AsyncJobs and the subagents with their resumes in *)
(* Subagents, have in common.                                                *)
EXTENDS Naturals, Sequences, FiniteSets

CONSTANTS Owner,      \* agents, by registry id
          MaxRunning  \* maxRunningJobs

ASSUME ManagerAssumption == MaxRunning \in Nat \ {0}

\* Array.filter: the elements of q that are in kept, in their order.  The n-th is at
\* the place with n such places up to it.
Filter(q, kept) ==
  LET at == {i \in DOMAIN q : q[i] \in kept}
  IN [n \in 1..Cardinality(at) |->
        q[CHOOSE i \in at : Cardinality({j \in at : j <= i}) = n]]
===============================================================================
