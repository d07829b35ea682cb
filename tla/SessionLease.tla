---------------------------- MODULE SessionLease ----------------------------
(***************************************************************************)
(* The lease of a harness session: harness-control-plane/session-lease.ts.  *)
(* Every operation runs in the critical section of MutationLock and reads   *)
(* the lease file, decides, and then writes or removes it; the steps of the *)
(* critical section are separate because a process can be killed between    *)
(* them and because the pid it probed belongs to another process.           *)
(*                                                                         *)
(* lease.json is replaced by a rename (writeLeaseAtomic), so a reader sees  *)
(* a whole record or none.                                                  *)
(***************************************************************************)
EXTENDS MutationLock

CONSTANTS Owner,     \* owner ids
          OwnerOf,   \* the owner id each caller passes to the operations
          OpsOf,     \* the operations each caller performs
          NoLease,   \* there is no lease file
          TTL,       \* ttlMs
          MaxNow,    \* bound of the clock
          MaxEpoch   \* bound of leaseEpoch

Ops == {"acquire", "heartbeat", "release", "reap"}

ASSUME OwnerAssumption == OwnerOf \in [Caller -> Owner] /\ OpsOf \in [Caller -> SUBSET Ops]
\* RuntimeOwner draws `owner-<uuid>`: an owner id belongs to one process.
ASSUME OwnerIdAssumption ==
  \A c, d \in Caller : OwnerOf[c] = OwnerOf[d] => PidOf[c] = PidOf[d]
ASSUME BoundAssumption == TTL \in Nat /\ MaxNow \in Nat /\ MaxEpoch \in Nat

VARIABLES lease,   \* the lease file: NoLease or a record of Lease
          now,     \* Date.now()
          op,      \* the operation a caller performs
          step,    \* its position inside the critical section
          seen,    \* the lease it has read
          pending, \* the lease it is about to write
          result   \* how its last operation ended

vars == <<lockVars, lease, now, op, step, seen, pending, result>>
bodyVars == <<lease, now, op, step, seen, pending, result>>

Lease == [owner : Owner, pid : Pid, epoch : Nat \ {0}, expires : Nat]
ASSUME NoLeaseAssumption == NoLease \notin Lease

MaybeLease == Lease \union {NoLease}
Steps == {"outside", "reread", "write", "rmArtifacts", "rmLease", "done"}
Results == {"none", "ok", "lease_held", "no_lease", "not_lease_holder", "not_reaped"}

TypeOK ==
  /\ LockTypeOK
  /\ lease \in MaybeLease
  /\ now \in Nat
  /\ op \in [Caller -> Ops \union {"none"}]
  /\ step \in [Caller -> Steps]
  /\ seen \in [Caller -> MaybeLease]
  /\ pending \in [Caller -> MaybeLease]
  /\ result \in [Caller -> Results]

Init ==
  /\ LockInit
  /\ lease = NoLease
  /\ now = 0
  /\ op = [c \in Caller |-> "none"]
  /\ step = [c \in Caller |-> "outside"]
  /\ seen = [c \in Caller |-> NoLease]
  /\ pending = [c \in Caller |-> NoLease]
  /\ result = [c \in Caller |-> "none"]

-----------------------------------------------------------------------------
isExpired(l) == l.expires <= now

\* classifyLeaseStatus: the state of the process first, the clock second.
classifyLeaseStatus(l) ==
  IF l = NoLease THEN "missing"
  ELSE IF ProbeDead(l.pid) THEN "dead"
  ELSE IF isExpired(l) THEN "expiredAlive" ELSE "live"

-----------------------------------------------------------------------------
InBody(c, s) == At(c, "held") /\ step[c] = s
Finish(c, r) == /\ step' = [step EXCEPT ![c] = "done"]
                /\ result' = [result EXCEPT ![c] = r]
StepTo(c, s) == step' = [step EXCEPT ![c] = s] /\ UNCHANGED result
Plan(c, l) == pending' = [pending EXCEPT ![c] = l]
See(c, l) == seen' = [seen EXCEPT ![c] = l]

\* A caller begins an operation.  The garbage collector has read the lease
\* before (gc-adapter.ts prune) and passes the owner and epoch it found dead.
Call(c, o) ==
  /\ Start(c)
  /\ o \in OpsOf[c]
  /\ op' = [op EXCEPT ![c] = o]
  /\ IF o = "reap" THEN classifyLeaseStatus(lease) = "dead" /\ See(c, lease)
                   ELSE See(c, NoLease)
  /\ UNCHANGED <<lease, now, step, pending, result>>

\* The record an acquisition writes: the epoch of the same owner is kept.
Acquired(c, existing) ==
  [owner |-> OwnerOf[c], pid |-> PidOf[c], expires |-> now + TTL,
   epoch |-> IF existing = NoLease THEN 1
             ELSE IF existing.owner = OwnerOf[c] THEN existing.epoch
             ELSE existing.epoch + 1]

Foreign(c, l) == l # NoLease /\ l.owner # OwnerOf[c]

\* acquireLease: read; a lease of another owner is classified and, when its
\* process is dead, read again before the new record is built.
AcquireRead(c) ==
  /\ InBody(c, "outside") /\ op[c] = "acquire"
  /\ See(c, lease)
  /\ IF Foreign(c, lease)
       THEN /\ UNCHANGED pending
            /\ IF classifyLeaseStatus(lease) # "dead"
                 THEN Finish(c, "lease_held") ELSE StepTo(c, "reread")
       ELSE Plan(c, Acquired(c, lease)) /\ StepTo(c, "write")
  /\ UNCHANGED <<lockVars, lease, now, op>>

\* Mutant: the second reading is compared with the epoch to be written.
AcquireRereadWrongEpoch(c) ==
  /\ InBody(c, "reread")
  /\ IF lease = NoLease \/ lease.owner # seen[c].owner \/ lease.epoch # seen[c].epoch + 1
       THEN Finish(c, "lease_held") /\ UNCHANGED pending
       ELSE /\ seen[c].epoch < MaxEpoch
            /\ Plan(c, Acquired(c, seen[c])) /\ StepTo(c, "write")
  /\ UNCHANGED <<lockVars, lease, now, op, seen>>

AcquireReread(c) ==
  /\ InBody(c, "reread")
  /\ IF lease = NoLease \/ lease.owner # seen[c].owner \/ lease.epoch # seen[c].epoch
       THEN Finish(c, "lease_held") /\ UNCHANGED pending
       ELSE /\ seen[c].epoch < MaxEpoch
            /\ Plan(c, Acquired(c, seen[c])) /\ StepTo(c, "write")
  /\ UNCHANGED <<lockVars, lease, now, op, seen>>

\* Mutant: a refresh takes a new epoch.
HeartbeatReadNewEpoch(c) ==
  /\ InBody(c, "outside") /\ op[c] = "heartbeat"
  /\ See(c, lease)
  /\ \/ lease = NoLease /\ Finish(c, "no_lease") /\ UNCHANGED pending
     \/ Foreign(c, lease) /\ Finish(c, "not_lease_holder") /\ UNCHANGED pending
     \/ /\ lease # NoLease /\ ~Foreign(c, lease)
        /\ Plan(c, [lease EXCEPT !.expires = now + TTL, !.epoch = @ + 1]) /\ StepTo(c, "write")
  /\ UNCHANGED <<lockVars, lease, now, op>>

\* heartbeat: read, check the holder, refresh the expiry.
HeartbeatRead(c) ==
  /\ InBody(c, "outside") /\ op[c] = "heartbeat"
  /\ See(c, lease)
  /\ \/ lease = NoLease /\ Finish(c, "no_lease") /\ UNCHANGED pending
     \/ Foreign(c, lease) /\ Finish(c, "not_lease_holder") /\ UNCHANGED pending
     \/ /\ lease # NoLease /\ ~Foreign(c, lease)
        /\ Plan(c, [lease EXCEPT !.expires = now + TTL]) /\ StepTo(c, "write")
  /\ UNCHANGED <<lockVars, lease, now, op>>

\* The rename of writeLeaseAtomic.
WriteLease(c) ==
  /\ InBody(c, "write")
  /\ lease' = pending[c]
  /\ Finish(c, "ok")
  /\ UNCHANGED <<lockVars, now, op, seen, pending>>

\* Mutant: whoever calls may release.
ReleaseReadAnybody(c) ==
  /\ InBody(c, "outside") /\ op[c] = "release"
  /\ See(c, lease)
  /\ \/ lease = NoLease /\ Finish(c, "ok")
     \/ lease # NoLease /\ StepTo(c, "rmLease")
  /\ UNCHANGED <<lockVars, lease, now, op, pending>>

\* releaseLease: only the holder may release.
ReleaseRead(c) ==
  /\ InBody(c, "outside") /\ op[c] = "release"
  /\ See(c, lease)
  /\ \/ lease = NoLease /\ Finish(c, "ok")
     \/ Foreign(c, lease) /\ Finish(c, "not_lease_holder")
     \/ lease # NoLease /\ ~Foreign(c, lease) /\ StepTo(c, "rmLease")
  /\ UNCHANGED <<lockVars, lease, now, op, pending>>

\* Mutant: the caller's earlier verdict is trusted, nothing is checked again.
ReapReadUnchecked(c) ==
  /\ InBody(c, "outside") /\ op[c] = "reap"
  /\ See(c, lease)
  /\ IF lease # NoLease THEN StepTo(c, "rmArtifacts") ELSE Finish(c, "not_reaped")
  /\ UNCHANGED <<lockVars, lease, now, op, pending>>

\* reapDeadOwnerArtifacts: owner and epoch as expected, process dead.
ReapRead(c) ==
  /\ InBody(c, "outside") /\ op[c] = "reap"
  /\ See(c, lease)
  /\ IF /\ lease # NoLease
        /\ lease.owner = seen[c].owner /\ lease.epoch = seen[c].epoch
        /\ classifyLeaseStatus(lease) = "dead"
       THEN StepTo(c, "rmArtifacts") ELSE Finish(c, "not_reaped")
  /\ UNCHANGED <<lockVars, lease, now, op, pending>>

\* The control socket and the endpoint go before the lease.
ReapArtifacts(c) ==
  /\ InBody(c, "rmArtifacts")
  /\ StepTo(c, "rmLease")
  /\ UNCHANGED <<lockVars, lease, now, op, seen, pending>>

RemoveLease(c) ==
  /\ InBody(c, "rmLease")
  /\ lease' = NoLease
  /\ Finish(c, "ok")
  /\ UNCHANGED <<lockVars, now, op, seen, pending>>

\* withLeaseMutationLock: the lock is released when the body has ended.
Leave(c) ==
  /\ step[c] = "done"
  /\ ReleaseToken(c)
  /\ step' = [step EXCEPT ![c] = "outside"]
  /\ seen' = [seen EXCEPT ![c] = NoLease]
  /\ pending' = [pending EXCEPT ![c] = NoLease]
  /\ op' = [op EXCEPT ![c] = "none"]
  /\ result' = [result EXCEPT ![c] = "none"]
  /\ UNCHANGED <<lease, now>>

Body(c) == \/ AcquireRead(c) \/ AcquireReread(c) \/ HeartbeatRead(c) \/ WriteLease(c)
           \/ ReleaseRead(c) \/ ReapRead(c) \/ ReapArtifacts(c) \/ RemoveLease(c)

LockStep(c) == (Acquire(c) \/ ReleaseDir(c)) /\ UNCHANGED bodyVars

\* What a killed process had in memory is gone with it.
Killed(p) ==
  /\ Kill(p)
  /\ step' = [c \in Caller |-> IF PidOf[c] = p THEN "outside" ELSE step[c]]
  /\ seen' = [c \in Caller |-> IF PidOf[c] = p THEN NoLease ELSE seen[c]]
  /\ pending' = [c \in Caller |-> IF PidOf[c] = p THEN NoLease ELSE pending[c]]
  /\ op' = [c \in Caller |-> IF PidOf[c] = p THEN "none" ELSE op[c]]
  /\ result' = [c \in Caller |-> IF PidOf[c] = p THEN "none" ELSE result[c]]
  /\ UNCHANGED <<lease, now>>

PidReuse(p) == (ReusePid(p) \/ ForeignExit(p)) /\ UNCHANGED bodyVars

Tick ==
  /\ now < MaxNow
  /\ now' = now + 1
  /\ UNCHANGED <<lockVars, lease, op, step, seen, pending, result>>

Next == \/ \E c \in Caller : \/ \E o \in Ops : Call(c, o)
                             \/ LockStep(c) \/ Body(c) \/ Leave(c)
        \/ \E p \in Pid : Killed(p) \/ PidReuse(p)
        \/ Tick

Spec == Init /\ [][Next]_vars

\* A process that is not killed finishes what it began, and whoever wants the
\* session keeps asking for it (a refused `harness` command is run again).
Fairness ==
  /\ \A c \in {d \in Caller : "acquire" \in OpsOf[d]} : SF_vars(Call(c, "acquire"))
  /\ \A c \in Caller : WF_vars(LockStep(c) \/ Body(c) \/ Leave(c))

FairSpec == Spec /\ Fairness

-----------------------------------------------------------------------------
(* A critical section acts on the lease it read: nobody else changed it      *)
(* between the read and the write or removal, so no update is lost and no    *)
(* fresh lease is removed on the strength of a stale reading.                *)
NoLostUpdate ==
  \A c \in Caller :
    step[c] \in {"reread", "write", "rmArtifacts", "rmLease"} => lease = seen[c]

(* While a process is about to overwrite or remove another owner's lease     *)
(* that owner's process does not run any more.                               *)
TakesOnlyFromDead ==
  \A c \in Caller :
    /\ step[c] \in {"reread", "write"} /\ Foreign(c, lease) => pidState[lease.pid] # "up"
    /\ step[c] \in {"rmArtifacts", "rmLease"} /\ op[c] = "reap" => pidState[lease.pid] # "up"

(* What a critical section is about to write follows from the lease it read:  *)
(* the caller's own record, with the epoch of a refresh or of a takeover.    *)
NextEpoch(o) == IF lease = NoLease THEN 1
                ELSE IF lease.owner = o THEN lease.epoch ELSE lease.epoch + 1
PlansFit ==
  \A c \in Caller :
    step[c] = "write" => /\ pending[c] \in Lease
                         /\ pending[c].owner = OwnerOf[c]
                         /\ pending[c].pid = PidOf[c]
                         /\ pending[c].epoch = NextEpoch(OwnerOf[c])

(* Bodies run inside the lock, by the operation their position belongs to.    *)
StepsFit ==
  \A c \in Caller :
    /\ step[c] # "outside" => pc[c] = "held"
    /\ step[c] = "reread" => op[c] = "acquire" /\ Foreign(c, lease)
    /\ step[c] = "rmArtifacts" => op[c] = "reap" /\ lease # NoLease
    /\ step[c] = "rmLease" =>
         lease # NoLease /\ (op[c] = "reap" \/ (op[c] = "release" /\ lease.owner = OwnerOf[c]))

(* The pid of the lease is that of the process its owner id belongs to.       *)
PidIsOwners ==
  lease # NoLease => \E c \in Caller : OwnerOf[c] = lease.owner /\ PidOf[c] = lease.pid

(* The inductive invariant of the proofs.                                     *)
LeaseInv == /\ LockInv /\ TypeOK /\ NoLostUpdate /\ TakesOnlyFromDead
            /\ PlansFit /\ StepsFit /\ PidIsOwners

(* "Exactly one live RuntimeOwner holds the lease": the lease leaves a       *)
(* running owner only through that owner's own release.                      *)
LeavesRunningOwner ==
  lease # NoLease /\ pidState[lease.pid] = "up" /\ (lease' = NoLease \/ lease'.owner # lease.owner)
    => /\ lease' = NoLease
       /\ \E c \in Caller : op[c] = "release" /\ OwnerOf[c] = lease.owner /\ step[c] = "rmLease"
RunningOwnerKeepsLease == [][LeavesRunningOwner]_vars

(* leaseEpoch fences takeovers: as long as there is a lease, a new owner gets *)
(* the next epoch and the same owner keeps its own.                          *)
EpochStep ==
  lease # NoLease /\ lease' # NoLease
    => lease'.epoch = IF lease'.owner = lease.owner THEN lease.epoch ELSE lease.epoch + 1
EpochFences == [][EpochStep]_vars

(* The lease implements the single-owner register.                           *)
Leaving == {o \in Owner : \E c \in Caller :
              op[c] = "release" /\ step[c] = "rmLease" /\ OwnerOf[c] = o}
Abstract == INSTANCE SingleOwnerLease WITH holder <- lease, leaving <- Leaving
ImplementsSingleOwnerLease == Abstract!Spec

(* A dead owner's lease does not stay for ever: somebody takes it over or     *)
(* reaps it, unless the pid was given to another program, an older version's *)
(* lock file blocks everybody, or nobody who acquires is left.                *)
DeadLeaseGoes ==
  \A o \in Owner :
    lease # NoLease /\ lease.owner = o /\ pidState[lease.pid] = "dead"
      ~> \/ lease = NoLease \/ lease.owner # o \/ pidState[lease.pid] = "foreign"
         \/ kind = "file" \/ \A c \in Caller : "acquire" \in OpsOf[c] => pc[c] = "killed"

\* The code does not keep this one (README, section 4).
(* session-lease.ts says a lease whose owner is dead OR expired may be taken  *)
(* over and that `lease_held` means a live, unexpired lease of another owner. *)
RefusedStep ==
  \A c \in Caller : result[c] # "lease_held" /\ result'[c] = "lease_held"
                      => ~isExpired(lease)
RefusesOnlyUnexpired == [][RefusedStep]_vars
=============================================================================
