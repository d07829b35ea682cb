------------------------ MODULE SessionLease_proofs ------------------------
(***************************************************************************)
(* Proofs about MutationLock and SessionLease, for any callers, owners,     *)
(* processes, bounds and TTL.  LockInv is inductive; mutual exclusion and   *)
(* the property that recoveries remove only what dead processes left        *)
(* follow.  Every step of SessionLease is a step of MutationLock or leaves  *)
(* its variables alone, so the lock's invariant carries over; it makes the  *)
(* read of a critical section still true at its write.                      *)
(***************************************************************************)
EXTENDS SessionLease, TLAPS

\* A caller at any label but "killed" that takes a step belongs to a running
\* process; the guard At says so for every caller action.
LEMMA InitEstablishesLockInv == LockInit => LockInv
BY CallerAssumption, RetriesAssumption
   DEF LockInit, LockInv, LockTypeOK, PidStates, PCs, MutualExclusion, HolderKeepsToken,
       RecoveryTargetsDead, KilledAgrees, SingleToken, AttemptsLeft, Trying

\* The inductive step, one step per action.
LEMMA LockInvStep == LockInv /\ [LockNext]_lockVars => LockInv'
<1> SUFFICES ASSUME LockInv, [LockNext]_lockVars PROVE LockInv'
  OBVIOUS
<1> USE CallerAssumption, RetriesAssumption
        DEF LockInv, LockTypeOK, At, Goto, PCs, PidStates, Trying, MutualExclusion,
            HolderKeepsToken, RecoveryTargetsDead, KilledAgrees, SingleToken, AttemptsLeft
<1>1. ASSUME NEW c \in Caller, Start(c) PROVE LockInv'
  BY <1>1 DEF Start
<1>2. ASSUME NEW c \in Caller, Create(c) PROVE LockInv'
  <2>1. CASE RenameSucceeds
    <3>1. kind' = "dir" /\ tokens' = {c} /\ pc' = [pc EXCEPT ![c] = "held"]
      BY <1>2, <2>1 DEF Create
    <3>2. \A d \in Caller : pc[d] # "held"
      BY <2>1 DEF RenameSucceeds
    <3>3. UNCHANGED <<pidState, attempt, target>> /\ pc[c] = "create"
      BY <1>2 DEF Create
    <3> QED
      BY <3>1, <3>2, <3>3
  <2>2. CASE ~RenameSucceeds
    BY <1>2, <2>2 DEF Create
  <2> QED
    BY <2>1, <2>2
<1>3. ASSUME NEW c \in Caller, ReadDir(c) PROVE LockInv'
  BY <1>3 DEF ReadDir
<1>4. ASSUME NEW c \in Caller, ReadInfo(c) PROVE LockInv'
  BY <1>4 DEF ReadInfo, ProbeDead
<1>5. ASSUME NEW c \in Caller, RemoveToken(c) PROVE LockInv'
  BY <1>5 DEF RemoveToken
<1>6. ASSUME NEW c \in Caller, RemoveDir(c) PROVE LockInv'
  BY <1>6 DEF RemoveDir, RmdirEffect
<1>7. ASSUME NEW c \in Caller, ReadLegacy(c) PROVE LockInv'
  BY <1>7 DEF ReadLegacy
<1>8. ASSUME NEW c \in Caller, Unlink(c) PROVE LockInv'
  BY <1>8 DEF Unlink
<1>9. ASSUME NEW c \in Caller, Sleep(c) PROVE LockInv'
  BY <1>9 DEF Sleep
<1>10. ASSUME NEW c \in Caller, ReleaseToken(c) PROVE LockInv'
  BY <1>10 DEF ReleaseToken
<1>11. ASSUME NEW c \in Caller, ReleaseDir(c) PROVE LockInv'
  BY <1>11 DEF ReleaseDir, RmdirEffect
<1>12. ASSUME NEW p \in Pid, Kill(p) PROVE LockInv'
  BY <1>12 DEF Kill
<1>13. ASSUME NEW p \in Pid, ReusePid(p) PROVE LockInv'
  BY <1>13 DEF ReusePid
<1>14. ASSUME NEW p \in Pid, ForeignExit(p) PROVE LockInv'
  BY <1>14 DEF ForeignExit
<1>15. CASE UNCHANGED lockVars
  BY <1>15 DEF lockVars
<1> QED
  BY <1>1, <1>2, <1>3, <1>4, <1>5, <1>6, <1>7, <1>8, <1>9, <1>10, <1>11, <1>12, <1>13, <1>14, <1>15
     DEF LockNext, Acquire, Environment

\* LockInv holds of every reachable state.
THEOREM LockInvariant == LockSpec => []LockInv
<1>1. LockInit => LockInv
  BY InitEstablishesLockInv
<1>2. LockInv /\ [LockNext]_lockVars => LockInv'
  BY LockInvStep
<1> QED
  BY <1>1, <1>2, PTL DEF LockSpec

\* At most one caller of a running process is inside its critical section:
\* withLeaseMutationLock excludes, whatever recoveries and deaths interleave.
THEOREM LockMutualExclusion == LockSpec => []MutualExclusion
<1>1. LockInv => MutualExclusion
  BY DEF LockInv
<1> QED
  BY <1>1, LockInvariant, PTL

\* The holder finds its own token, and nothing else, in the lock directory:
\* recoverStaleLeaseMutationLock never takes the lock from a running process.
THEOREM LockHolderKeepsToken == LockSpec => []HolderKeepsToken
<1>1. LockInv => HolderKeepsToken
  BY DEF LockInv
<1> QED
  BY <1>1, LockInvariant, PTL

\* A token leaves the directory only by its owner's release or after the death
\* of its owner's process.
THEOREM LockTokenRemoval == LockSpec => TokenRemovedByOwnerOrAfterDeath
<1>1. LockInv /\ [LockNext]_lockVars => [OnlyOwnerOrDeath]_lockVars
  <2> SUFFICES ASSUME LockInv, LockNext,
                      NEW c \in Caller, c \in tokens, c \notin tokens'
               PROVE  pidState[PidOf[c]] # "up" \/ (pc[c] = "held" /\ pc'[c] = "releasing")
    BY DEF OnlyOwnerOrDeath
  <2>1. CASE \E d \in Caller : Create(d)
    BY <2>1 DEF Create, RenameSucceeds, LockInv, SingleToken
  <2>2. CASE \E d \in Caller : RemoveToken(d)
    BY <2>2 DEF RemoveToken, LockInv, RecoveryTargetsDead, At, Goto
  <2>3. CASE \E d \in Caller : ReleaseToken(d)
    BY <2>3 DEF ReleaseToken, At, Goto, LockInv, LockTypeOK
  <2>4. CASE UNCHANGED tokens
    BY <2>4
  <2> QED
    BY <2>1, <2>2, <2>3, <2>4
       DEF LockNext, Acquire, Environment, Start, ReadDir, ReadInfo, RemoveDir, ReadLegacy,
           Unlink, Sleep, ReleaseDir, Kill, ReusePid, ForeignExit
<1> QED
  BY <1>1, LockInvariant, PTL DEF LockSpec, TokenRemovedByOwnerOrAfterDeath

-----------------------------------------------------------------------------
\* Every step of SessionLease is a step of the lock, or none.
LEMMA LockSteps == [Next]_vars => [LockNext]_lockVars
<1> SUFFICES ASSUME Next PROVE [LockNext]_lockVars
  BY DEF vars
<1>1. ASSUME NEW c \in Caller, NEW o \in Ops, Call(c, o) PROVE LockNext
  BY <1>1 DEF Call, LockNext
<1>2. ASSUME NEW c \in Caller, LockStep(c) PROVE LockNext
  BY <1>2 DEF LockStep, LockNext
<1>3. ASSUME NEW c \in Caller, Body(c) PROVE UNCHANGED lockVars
  BY <1>3 DEF Body, AcquireRead, AcquireReread, HeartbeatRead, WriteLease, ReleaseRead,
              ReapRead, ReapArtifacts, RemoveLease
<1>4. ASSUME NEW c \in Caller, Leave(c) PROVE LockNext
  BY <1>4 DEF Leave, LockNext
<1>5. ASSUME NEW p \in Pid, Killed(p) PROVE LockNext
  BY <1>5 DEF Killed, LockNext, Environment
<1>6. ASSUME NEW p \in Pid, PidReuse(p) PROVE LockNext
  BY <1>6 DEF PidReuse, LockNext, Environment
<1>7. ASSUME Tick PROVE UNCHANGED lockVars
  BY <1>7 DEF Tick
<1> QED
  BY <1>1, <1>2, <1>3, <1>4, <1>5, <1>6, <1>7 DEF Next

\* The lock's invariant is preserved by every step of SessionLease.
LEMMA LockInvCarriesOver == LockInv /\ [Next]_vars => LockInv'
BY LockSteps, LockInvStep

\* Initially nobody is in a critical section and there is no lease.
LEMMA InitEstablishesLeaseInv == Init => LeaseInv
<1> SUFFICES ASSUME Init PROVE LeaseInv
  OBVIOUS
<1>1. LockInv
  BY InitEstablishesLockInv DEF Init
<1>2. TypeOK
  BY <1>1 DEF Init, TypeOK, LockInv, MaybeLease, Steps, Results
<1>3. NoLostUpdate /\ TakesOnlyFromDead /\ PlansFit /\ StepsFit /\ PidIsOwners
  BY DEF Init, NoLostUpdate, TakesOnlyFromDead, PlansFit, StepsFit, PidIsOwners
<1> QED
  BY <1>1, <1>2, <1>3 DEF LeaseInv

\* Type correctness is preserved by every step.
LEMMA LeaseTypeStep == LeaseInv /\ [Next]_vars => TypeOK'
<1> SUFFICES ASSUME LeaseInv, [Next]_vars PROVE TypeOK'
  OBVIOUS
<1> USE CallerAssumption, OwnerAssumption, BoundAssumption
    DEF TypeOK, MaybeLease, Lease, Steps, Results, Ops
<1>a. LockTypeOK'
  BY LockInvCarriesOver DEF LeaseInv, LockInv
<1>b. TypeOK
  BY DEF LeaseInv
<1>1. ASSUME NEW c \in Caller, NEW o \in Ops, Call(c, o) PROVE TypeOK'
  BY <1>1, <1>a, <1>b DEF Call, See
<1>2. ASSUME NEW c \in Caller, LockStep(c) PROVE TypeOK'
  BY <1>2, <1>a, <1>b DEF LockStep, bodyVars
<1>3. ASSUME NEW c \in Caller, AcquireRead(c) PROVE TypeOK'
  <2>1. Acquired(c, lease) \in Lease
    BY <1>b DEF Acquired
  <2> QED
    BY <1>3, <1>a, <1>b, <2>1 DEF AcquireRead, See, Plan, Finish, StepTo
<1>4. ASSUME NEW c \in Caller, AcquireReread(c) PROVE TypeOK'
  <2>1. Acquired(c, seen[c]) \in Lease
    BY <1>b DEF Acquired
  <2> QED
    BY <1>4, <1>a, <1>b, <2>1 DEF AcquireReread, Plan, Finish, StepTo
<1>5. ASSUME NEW c \in Caller, HeartbeatRead(c) PROVE TypeOK'
  BY <1>5, <1>a, <1>b DEF HeartbeatRead, See, Plan, Finish, StepTo
<1>6. ASSUME NEW c \in Caller, WriteLease(c) PROVE TypeOK'
  BY <1>6, <1>a, <1>b DEF WriteLease, Finish
<1>7. ASSUME NEW c \in Caller, ReleaseRead(c) PROVE TypeOK'
  BY <1>7, <1>a, <1>b DEF ReleaseRead, See, Finish, StepTo
<1>8. ASSUME NEW c \in Caller, ReapRead(c) PROVE TypeOK'
  BY <1>8, <1>a, <1>b DEF ReapRead, See, Finish, StepTo
<1>9. ASSUME NEW c \in Caller, ReapArtifacts(c) PROVE TypeOK'
  BY <1>9, <1>a, <1>b DEF ReapArtifacts, StepTo
<1>10. ASSUME NEW c \in Caller, RemoveLease(c) PROVE TypeOK'
  BY <1>10, <1>a, <1>b DEF RemoveLease, Finish
<1>11. ASSUME NEW c \in Caller, Leave(c) PROVE TypeOK'
  BY <1>11, <1>a, <1>b DEF Leave
<1>12. ASSUME NEW p \in Pid, Killed(p) PROVE TypeOK'
  BY <1>12, <1>a, <1>b DEF Killed
<1>13. ASSUME NEW p \in Pid, PidReuse(p) PROVE TypeOK'
  BY <1>13, <1>a, <1>b DEF PidReuse, bodyVars
<1>14. CASE Tick
  BY <1>14, <1>a, <1>b DEF Tick
<1>15. CASE UNCHANGED vars
  BY <1>15, <1>a, <1>b DEF vars
<1> QED
  BY <1>1, <1>2, <1>3, <1>4, <1>5, <1>6, <1>7, <1>8, <1>9, <1>10, <1>11, <1>12, <1>13, <1>14,
     <1>15 DEF Next, Body

\* A pid that does not run this program never runs it again: no process of the
\* harness starts with a pid of the model.
LEMMA NoResurrection ==
  LockInv /\ [LockNext]_lockVars => \A p \in Pid : pidState'[p] = "up" => pidState[p] = "up"
<1> SUFFICES ASSUME LockInv, [LockNext]_lockVars,
                    NEW p \in Pid, pidState'[p] = "up"
             PROVE  pidState[p] = "up"
  OBVIOUS
<1>1. CASE \E q \in Pid : Environment(q)
  BY <1>1 DEF LockInv, LockTypeOK, PidStates, Environment, Kill, ReusePid, ForeignExit
<1>2. CASE UNCHANGED pidState
  BY <1>2
<1> QED
  BY <1>1, <1>2
     DEF LockNext, lockVars, Acquire, Start, Create, ReadDir, ReadInfo, RemoveToken, RemoveDir,
         ReadLegacy, Unlink, Sleep, ReleaseToken, ReleaseDir

\* Mutual exclusion, for bodies: while a caller is in its critical section no
\* other caller is inside a body.
LEMMA OthersOutside ==
  ASSUME LeaseInv, NEW c \in Caller, pc[c] = "held", NEW d \in Caller, d # c
  PROVE  step[d] = "outside"
BY DEF LeaseInv, LockInv, MutualExclusion, StepsFit

\* The part of the invariant about what bodies have read and plan.
BodyInv == NoLostUpdate /\ TakesOnlyFromDead /\ PlansFit /\ StepsFit /\ PidIsOwners

\* A step of a body keeps the others outside, and its own plan fits the lease.
LEMMA BodyStep == ASSUME LeaseInv, NEW c \in Caller, Body(c) PROVE BodyInv'
<1> USE OwnerAssumption, CallerAssumption, OwnerIdAssumption, NoLeaseAssumption
    DEF InBody, At
<1>1. pc[c] = "held" /\ UNCHANGED lockVars /\ UNCHANGED op
  BY DEF Body, AcquireRead, AcquireReread, HeartbeatRead, WriteLease, ReleaseRead,
         ReapRead, ReapArtifacts, RemoveLease
<1>2. \A d \in Caller : d # c => step[d] = "outside" /\ step'[d] = "outside"
  <2> SUFFICES ASSUME NEW d \in Caller, d # c
               PROVE  step[d] = "outside" /\ step'[d] = "outside"
    OBVIOUS
  <2>1. step[d] = "outside"
    BY <1>1, OthersOutside
  <2>2. step'[d] = step[d]
    BY DEF Body, AcquireRead, AcquireReread, HeartbeatRead, WriteLease, ReleaseRead, ReapRead,
           ReapArtifacts, RemoveLease, Finish, StepTo, LeaseInv, TypeOK
  <2> QED
    BY <2>1, <2>2
<1>3. TypeOK /\ LockTypeOK /\ BodyInv
  BY DEF LeaseInv, LockInv, BodyInv
<1>4. UNCHANGED <<pidState, pc>>
  BY <1>1 DEF lockVars
<1> USE DEF BodyInv, NoLostUpdate, TakesOnlyFromDead, PlansFit, StepsFit, PidIsOwners,
            TypeOK, MaybeLease, Foreign
<1>5. ASSUME AcquireRead(c) PROVE BodyInv'
  <2>1. UNCHANGED lease /\ seen'[c] = lease
    BY <1>3, <1>5 DEF AcquireRead, See
  <2>2. CASE Foreign(c, lease)
    <3>1. step'[c] = "done" \/ (step'[c] = "reread" /\ pidState[lease.pid] # "up")
      BY <1>3, <1>5, <2>2 DEF AcquireRead, Finish, StepTo, classifyLeaseStatus, ProbeDead
    <3> QED
      BY <1>1, <1>2, <1>3, <1>4, <1>5, <2>1, <2>2, <3>1 DEF AcquireRead
  <2>3. CASE ~Foreign(c, lease)
    <3>1. step'[c] = "write" /\ pending'[c] = Acquired(c, lease)
      BY <1>3, <1>5, <2>3 DEF AcquireRead, StepTo, Plan
    <3>2. Acquired(c, lease) \in Lease
      BY <1>3, BoundAssumption DEF Acquired, Lease
    <3>3. Acquired(c, lease).owner = OwnerOf[c] /\ Acquired(c, lease).pid = PidOf[c]
      BY DEF Acquired
    <3>4. Acquired(c, lease).epoch = NextEpoch(OwnerOf[c])
      BY DEF Acquired, NextEpoch
    <3>5. NextEpoch(OwnerOf[c])' = NextEpoch(OwnerOf[c])
      BY <2>1 DEF NextEpoch
    <3> QED
      BY <1>1, <1>2, <1>3, <1>4, <2>1, <2>3, <3>1, <3>2, <3>3, <3>4, <3>5
  <2> QED
    BY <2>2, <2>3
<1>6. ASSUME AcquireReread(c) PROVE BodyInv'
  <2>1. UNCHANGED <<lease, seen>> /\ lease = seen[c] /\ step[c] = "reread"
    BY <1>3, <1>6 DEF AcquireReread
  <2>2. CASE step'[c] = "done"
    BY <1>1, <1>2, <1>3, <1>4, <2>1, <2>2
  <2>3. CASE step'[c] = "write" /\ pending'[c] = Acquired(c, seen[c])
    <3>1. Acquired(c, lease) \in Lease
      BY <1>3, BoundAssumption DEF Acquired, Lease
    <3>2. /\ Acquired(c, lease).owner = OwnerOf[c] /\ Acquired(c, lease).pid = PidOf[c]
          /\ Acquired(c, lease).epoch = NextEpoch(OwnerOf[c])
      BY DEF Acquired, NextEpoch
    <3>3. NextEpoch(OwnerOf[c])' = NextEpoch(OwnerOf[c])
      BY <2>1 DEF NextEpoch
    <3>4. pidState[lease.pid] # "up"
      BY <1>3, <2>1
    <3> QED
      BY <1>1, <1>2, <1>3, <1>4, <2>1, <2>3, <3>1, <3>2, <3>3, <3>4
  <2> QED
    BY <1>3, <1>6, <2>2, <2>3 DEF AcquireReread, Finish, StepTo, Plan
<1>7. ASSUME HeartbeatRead(c) PROVE BodyInv'
  <2>1. UNCHANGED lease /\ seen'[c] = lease
    BY <1>3, <1>7 DEF HeartbeatRead, See
  <2>2. CASE step'[c] = "done"
    BY <1>1, <1>2, <1>3, <1>4, <2>1, <2>2
  <2>3. CASE /\ step'[c] = "write" /\ pending'[c] = [lease EXCEPT !.expires = now + TTL]
             /\ lease # NoLease /\ lease.owner = OwnerOf[c]
    <3>1. lease \in Lease
      BY <1>3, <2>3
    <3>2. PICK d \in Caller : OwnerOf[d] = lease.owner /\ PidOf[d] = lease.pid
      BY <1>3, <2>3
    <3>3. lease.pid = PidOf[c]
      BY <2>3, <3>2
    <3>4. /\ pending'[c] \in Lease /\ pending'[c].owner = OwnerOf[c]
          /\ pending'[c].pid = PidOf[c] /\ pending'[c].epoch = lease.epoch
      BY <1>3, <2>3, <3>1, <3>3, BoundAssumption DEF Lease
    <3>5. NextEpoch(OwnerOf[c])' = lease.epoch
      BY <2>1, <2>3 DEF NextEpoch
    <3>6. NoLostUpdate' /\ TakesOnlyFromDead' /\ StepsFit' /\ PidIsOwners'
      BY <1>1, <1>2, <1>3, <1>4, <2>1, <2>3
    <3>7. PlansFit'
      BY <1>2, <3>4, <3>5 DEF Lease
    <3> QED
      BY <3>6, <3>7
  <2> QED
    BY <1>3, <1>7, <2>2, <2>3 DEF HeartbeatRead, Finish, StepTo, Plan
<1>8. ASSUME WriteLease(c) PROVE BodyInv'
  <2>1. step'[c] = "done" /\ lease' = pending[c] /\ step[c] = "write"
    BY <1>3, <1>8 DEF WriteLease, Finish
  <2>2. lease'.owner = OwnerOf[c] /\ lease'.pid = PidOf[c]
    BY <1>3, <2>1
  <2> QED
    BY <1>1, <1>2, <1>4, <2>1, <2>2
<1>9. ASSUME ReleaseRead(c) PROVE BodyInv'
  <2>1. UNCHANGED lease /\ seen'[c] = lease /\ op[c] = "release"
    BY <1>3, <1>9 DEF ReleaseRead, See
  <2>2. \/ step'[c] = "done"
        \/ step'[c] = "rmLease" /\ lease # NoLease /\ lease.owner = OwnerOf[c]
    BY <1>3, <1>9 DEF ReleaseRead, Finish, StepTo
  <2> QED
    BY <1>1, <1>2, <1>3, <1>4, <2>1, <2>2
<1>10. ASSUME ReapRead(c) PROVE BodyInv'
  <2>1. UNCHANGED lease /\ seen'[c] = lease /\ op[c] = "reap"
    BY <1>3, <1>10 DEF ReapRead, See
  <2>2. \/ step'[c] = "done"
        \/ step'[c] = "rmArtifacts" /\ lease # NoLease /\ pidState[lease.pid] # "up"
    BY <1>3, <1>10 DEF ReapRead, Finish, StepTo, classifyLeaseStatus, ProbeDead
  <2> QED
    BY <1>1, <1>2, <1>3, <1>4, <2>1, <2>2
<1>11. ASSUME ReapArtifacts(c) PROVE BodyInv'
  <2>1. UNCHANGED <<lease, seen>> /\ step[c] = "rmArtifacts" /\ step'[c] = "rmLease"
    BY <1>3, <1>11 DEF ReapArtifacts, StepTo
  <2> QED
    BY <1>1, <1>2, <1>3, <1>4, <2>1
<1>12. ASSUME RemoveLease(c) PROVE BodyInv'
  <2>1. step'[c] = "done" /\ lease' = NoLease
    BY <1>3, <1>12 DEF RemoveLease, Finish
  <2> QED
    BY <1>1, <1>2, <1>4, <2>1
<1> QED
  BY <1>5, <1>6, <1>7, <1>8, <1>9, <1>10, <1>11, <1>12 DEF Body

\* The steps outside the bodies: calls, the lock, deaths, pids and the clock.
LEMMA OutsideStep ==
  ASSUME LeaseInv, [Next]_vars, \A c \in Caller : ~Body(c) PROVE BodyInv'
<1> USE DEF BodyInv, NoLostUpdate, TakesOnlyFromDead, PlansFit, StepsFit, PidIsOwners, NextEpoch,
            TypeOK, LockTypeOK, Foreign
<1>a. TypeOK /\ LockTypeOK /\ BodyInv
  BY DEF LeaseInv, LockInv
<1>b. \A p \in Pid : pidState'[p] = "up" => pidState[p] = "up"
  BY NoResurrection, LockSteps DEF LeaseInv
<1>c. lease # NoLease => lease.pid \in Pid
  BY <1>a DEF MaybeLease, Lease
<1>1. ASSUME NEW c \in Caller, NEW o \in Ops, Call(c, o) PROVE BodyInv'
  <2>1. step[c] = "outside" /\ UNCHANGED <<lease, step, pending, pidState>>
    BY <1>a, <1>1 DEF Call, Start
  <2>2. \A d \in Caller : d # c => UNCHANGED <<seen[d], op[d], pc[d]>>
    BY <1>a, <1>1 DEF Call, Start, See, Goto
  <2> QED
    BY <1>a, <2>1, <2>2
<1>2. ASSUME NEW c \in Caller, LockStep(c) PROVE BodyInv'
  <2>1. UNCHANGED <<lease, step, seen, pending, op, pidState>>
    BY <1>2 DEF LockStep, bodyVars, Acquire, Create, ReadDir, ReadInfo, RemoveToken, RemoveDir,
                ReadLegacy, Unlink, Sleep, ReleaseDir
  <2>2. pc[c] # "held" /\ \A d \in Caller : d # c => pc'[d] = pc[d]
    BY <1>a, <1>2 DEF LockStep, At, Goto, Acquire, Create, ReadDir, ReadInfo, RemoveToken,
                RemoveDir, ReadLegacy, Unlink, Sleep, ReleaseDir
  <2> QED
    BY <1>a, <2>1, <2>2
<1>3. ASSUME NEW c \in Caller, Leave(c) PROVE BodyInv'
  <2>1. UNCHANGED <<lease, pidState>> /\ step'[c] = "outside"
    BY <1>a, <1>3 DEF Leave, ReleaseToken
  <2>2. \A d \in Caller : d # c => UNCHANGED <<step[d], seen[d], pending[d], op[d], pc[d]>>
    BY <1>a, <1>3 DEF Leave, ReleaseToken, Goto
  <2> QED
    BY <1>a, <2>1, <2>2
<1>4. ASSUME NEW p \in Pid, Killed(p) PROVE BodyInv'
  <2>1. UNCHANGED lease /\ \A d \in Caller : PidOf[d] = p => step'[d] = "outside"
    BY <1>4 DEF Killed
  <2>2. \A d \in Caller :
          PidOf[d] # p => UNCHANGED <<step[d], seen[d], pending[d], op[d], pc[d]>>
    BY <1>4 DEF Killed, Kill
  <2> QED
    BY <1>a, <1>b, <1>c, <2>1, <2>2
<1>5. ASSUME NEW p \in Pid, PidReuse(p) PROVE BodyInv'
  <2>1. UNCHANGED <<lease, step, seen, pending, op, pc>>
    BY <1>5 DEF PidReuse, bodyVars, ReusePid, ForeignExit
  <2> QED
    BY <1>a, <1>b, <1>c, <2>1
<1>6. CASE Tick
  BY <1>a, <1>6 DEF Tick, lockVars
<1>7. CASE UNCHANGED vars
  BY <1>a, <1>7 DEF vars, lockVars
<1> QED
  BY <1>1, <1>2, <1>3, <1>4, <1>5, <1>6, <1>7 DEF Next

\* The inductive step.
LEMMA LeaseInvStep == LeaseInv /\ [Next]_vars => LeaseInv'
<1> SUFFICES ASSUME LeaseInv, [Next]_vars PROVE LeaseInv'
  OBVIOUS
<1>1. LockInv' /\ TypeOK'
  BY LockInvCarriesOver, LeaseTypeStep DEF LeaseInv
<1>2. BodyInv'
  BY BodyStep, OutsideStep
<1> QED
  BY <1>1, <1>2 DEF LeaseInv, BodyInv

\* LeaseInv holds of every reachable state: the types, the lock's invariant and
\* that bodies act on what they have read.
THEOREM LeaseInvariant == Spec => []LeaseInv
<1>1. Init => LeaseInv
  BY InitEstablishesLeaseInv
<1>2. LeaseInv /\ [Next]_vars => LeaseInv'
  BY LeaseInvStep
<1> QED
  BY <1>1, <1>2, PTL DEF Spec

\* SessionLease uses the mutex as MutationLock specifies it.
THEOREM LeaseUsesLock == Spec => LockSpec
<1>1. Init => LockInit
  BY DEF Init
<1>2. [Next]_vars => [LockNext]_lockVars
  BY LockSteps
<1> QED
  BY <1>1, <1>2, PTL DEF Spec, LockSpec

\* No critical section overwrites or removes a lease on a stale reading.
THEOREM LeaseNoLostUpdate == Spec => []NoLostUpdate
<1>1. LeaseInv => NoLostUpdate
  BY DEF LeaseInv
<1> QED
  BY <1>1, LeaseInvariant, PTL

\* acquireLease and reapDeadOwnerArtifacts act only against processes that do
\* not run this program any more.
THEOREM LeaseTakesOnlyFromDead == Spec => []TakesOnlyFromDead
<1>1. LeaseInv => TakesOnlyFromDead
  BY DEF LeaseInv
<1> QED
  BY <1>1, LeaseInvariant, PTL

\* Only two actions change the lease file.
LEMMA LeaseWriters ==
  ASSUME [Next]_vars, lease' # lease
  PROVE  \E c \in Caller : WriteLease(c) \/ RemoveLease(c)
BY DEF Next, vars, Call, LockStep, bodyVars, Body, AcquireRead, AcquireReread, HeartbeatRead,
       ReleaseRead, ReapRead, ReapArtifacts, Leave, Killed, PidReuse, Tick

\* While the owner of the lease runs, only its own release takes the lease away.
THEOREM LeaseKeptByRunningOwner == Spec => RunningOwnerKeepsLease
<1>1. LeaseInv /\ [Next]_vars => [LeavesRunningOwner]_vars
  <2> SUFFICES ASSUME LeaseInv, [Next]_vars, lease # NoLease, pidState[lease.pid] = "up",
                      lease' = NoLease \/ lease'.owner # lease.owner
               PROVE  /\ lease' = NoLease
                      /\ \E c \in Caller : /\ op[c] = "release" /\ OwnerOf[c] = lease.owner
                                           /\ step[c] = "rmLease"
    BY DEF LeavesRunningOwner
  <2>1. PICK c \in Caller : WriteLease(c) \/ RemoveLease(c)
    BY LeaseWriters
  <2>2. ASSUME WriteLease(c) PROVE FALSE
    <3>1. lease' = pending[c] /\ step[c] = "write"
      BY <2>2 DEF WriteLease, InBody
    <3>2. pending[c].owner = OwnerOf[c] /\ pending[c] \in Lease
      BY <3>1 DEF LeaseInv, PlansFit
    <3>3. Foreign(c, lease)
      BY <3>1, <3>2, NoLeaseAssumption DEF Foreign
    <3> QED
      BY <3>1, <3>3 DEF LeaseInv, TakesOnlyFromDead
  <2>3. ASSUME RemoveLease(c)
        PROVE  lease' = NoLease /\ step[c] = "rmLease" /\ op[c] = "release"
               /\ OwnerOf[c] = lease.owner
    BY <2>3 DEF RemoveLease, InBody, LeaseInv, StepsFit, TakesOnlyFromDead
  <2> QED
    BY <2>1, <2>2, <2>3
<1> QED
  BY <1>1, LeaseInvariant, PTL DEF Spec, RunningOwnerKeepsLease

\* The epoch grows by one with every change of owner and stays with the owner.
THEOREM LeaseEpochFences == Spec => EpochFences
<1>1. LeaseInv /\ [Next]_vars => [EpochStep]_vars
  <2> SUFFICES ASSUME LeaseInv, [Next]_vars, lease # NoLease, lease' # NoLease
               PROVE  lease'.epoch = IF lease'.owner = lease.owner THEN lease.epoch
                                                                   ELSE lease.epoch + 1
    BY DEF EpochStep
  <2>1. CASE lease' = lease
    BY <2>1
  <2>2. CASE lease' # lease
    <3>1. PICK c \in Caller : WriteLease(c)
      BY <2>2, LeaseWriters DEF RemoveLease
    <3>2. lease' = pending[c] /\ step[c] = "write"
      BY <3>1 DEF WriteLease, InBody
    <3>3. pending[c].owner = OwnerOf[c] /\ pending[c].epoch = NextEpoch(OwnerOf[c])
      BY <3>2 DEF LeaseInv, PlansFit
    <3> QED
      BY <3>2, <3>3 DEF NextEpoch
  <2> QED
    BY <2>1, <2>2
<1> QED
  BY <1>1, LeaseInvariant, PTL DEF Spec, EpochFences

\* The whole protocol of lock, readings and renames implements the single-owner
\* register: initial states map to initial states, steps to steps or stutters.
THEOREM LeaseImplementsSingleOwner == Spec => ImplementsSingleOwnerLease
<1> USE DEF Abstract!Init, Abstract!Running
<1>1. Init => Abstract!Init
  BY DEF Init, LockInit, Leaving, PidStates
<1>2. LeaseInv /\ LeaseInv' /\ [Next]_vars => [Abstract!Next]_(Abstract!leaseVars)
  <2> SUFFICES ASSUME LeaseInv, LeaseInv', [Next]_vars PROVE Abstract!Next
    BY DEF Abstract!leaseVars
  <2>1. Leaving' \in SUBSET Owner
    BY DEF Leaving
  <2>2. CASE lease' = lease
    <3>1. \A p \in Pid : pidState'[p] = "up" => pidState[p] = "up"
      BY NoResurrection, LockSteps DEF LeaseInv
    <3>2. pidState' \in [Pid -> {"up", "dead", "foreign"}]
      BY DEF LeaseInv, LockInv, LockTypeOK, PidStates
    <3> QED
      BY <2>1, <2>2, <3>1, <3>2 DEF Abstract!Next, Abstract!PidStep
  <2>3. CASE lease' # lease
    <3>1. PICK c \in Caller : WriteLease(c) \/ RemoveLease(c)
      BY <2>3, LeaseWriters
    <3>2. CASE WriteLease(c)
      <4>1. lease' = pending[c] /\ step[c] = "write" /\ pidState[PidOf[c]] = "up"
            /\ UNCHANGED pidState
        BY <3>2 DEF WriteLease, InBody, At, lockVars
      <4>2. /\ pending[c] \in Lease /\ pending[c].owner = OwnerOf[c]
            /\ pending[c].pid = PidOf[c] /\ pending[c].epoch = NextEpoch(OwnerOf[c])
        BY <4>1 DEF LeaseInv, PlansFit
      <4>3. lease # NoLease /\ lease.owner # OwnerOf[c] => pidState[lease.pid] # "up"
        BY <4>1 DEF LeaseInv, TakesOnlyFromDead, Foreign
      <4>4. Abstract!Grant
        BY <4>1, <4>2, <4>3 DEF Abstract!Grant, Abstract!Leases, Lease, NextEpoch
      <4> QED
        BY <2>1, <4>4 DEF Abstract!Next
    <3>3. CASE RemoveLease(c)
      <4>1. lease' = NoLease /\ step[c] = "rmLease" /\ UNCHANGED pidState
        BY <3>3 DEF RemoveLease, InBody, lockVars
      <4>2. /\ lease # NoLease
            /\ op[c] = "reap" \/ (op[c] = "release" /\ lease.owner = OwnerOf[c])
            /\ op[c] = "reap" => pidState[lease.pid] # "up"
        BY <4>1 DEF LeaseInv, StepsFit, TakesOnlyFromDead
      <4>3. op[c] = "release" => lease.owner \in Leaving
        BY <4>1, <4>2, OwnerAssumption DEF Leaving
      <4>4. Abstract!Drop
        BY <4>1, <4>2, <4>3 DEF Abstract!Drop
      <4> QED
        BY <2>1, <4>4 DEF Abstract!Next
    <3> QED
      BY <3>1, <3>2, <3>3
  <2> QED
    BY <2>2, <2>3
<1> QED
  BY <1>1, <1>2, LeaseInvariant, PTL DEF Spec, ImplementsSingleOwnerLease, Abstract!Spec
=============================================================================
