-------------------------- MODULE SingleOwnerLease --------------------------
(***************************************************************************)
(* What a session lease promises, without locks, files or callers: one      *)
(* register that names at most one owner, is passed on only when that       *)
(* owner's process has ended, and is given up only by the owner itself or   *)
(* after its end.  SessionLease implements it.                              *)
(***************************************************************************)
EXTENDS Naturals

CONSTANTS Owner, Pid, NoLease

VARIABLES holder,    \* NoLease or the current [owner, pid, epoch, expires]
          pidState,  \* "up", "dead" or "foreign" for every process id
          leaving    \* owners that are giving their lease up

leaseVars == <<holder, pidState, leaving>>

Leases == [owner : Owner, pid : Pid, epoch : Nat \ {0}, expires : Nat]

Running(p) == pidState[p] = "up"

Init == /\ holder = NoLease
        /\ leaving = {}
        /\ pidState \in [Pid -> {"up", "dead", "foreign"}]

\* A first grant, a refresh by the same owner (same epoch), or a takeover from
\* an owner whose process no longer runs (next epoch).
Grant ==
  /\ holder' \in Leases
  /\ Running(holder'.pid)
  /\ \/ holder = NoLease /\ holder'.epoch = 1
     \/ /\ holder # NoLease
        /\ \/ holder.owner = holder'.owner /\ holder'.epoch = holder.epoch
           \/ /\ holder.owner # holder'.owner
              /\ ~Running(holder.pid)
              /\ holder'.epoch = holder.epoch + 1
  /\ UNCHANGED pidState

Drop ==
  /\ holder # NoLease
  /\ holder.owner \in leaving \/ ~Running(holder.pid)
  /\ holder' = NoLease
  /\ UNCHANGED pidState

\* Processes end, their pids are reused and freed; none starts again.
PidStep ==
  /\ \A p \in Pid : Running(p)' => Running(p)
  /\ pidState' \in [Pid -> {"up", "dead", "foreign"}]
  /\ UNCHANGED holder

Next == /\ leaving' \in SUBSET Owner
        /\ Grant \/ Drop \/ PidStep \/ UNCHANGED <<holder, pidState>>

Spec == Init /\ [][Next]_leaseVars
=============================================================================
