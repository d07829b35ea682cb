---------------------------- MODULE FileLock_proofs ----------------------------
(* The ownership of the configuration lock, for any number of callers,      *)
(* collectors, retries and kills: up to the window of a removal the call in *)
(* its critical section is alone and keeps its lock.                        *)
EXTENDS FileLock, TLAPS

(* Nobody has called yet: there is no lock and nothing observed of one.      *)
LEMMA InitOwnership == Init => OwnershipInv
<1> SUFFICES ASSUME Init PROVE OwnershipInv
  OBVIOUS
<1>1. Nobody \notin Process /\ alive = Process
  BY LockAssumption DEF Init
<1>2. \A p \in Process : pc[p] = "idle" /\ left[p] = 0 /\ file[p] = 0 /\ seen[p] = Token(NoDir)
  BY DEF Init
<1>3. TypeOK
  <2>1. dir \in [gen : 0..gens, mods : Nat, by : Process \cup {Nobody},
                 info : Process \cup {Nobody}, fd : BOOLEAN, old : BOOLEAN]
    BY DEF Init, NoDir
  <2>2. seen \in [Process -> [gen : 0..gens, mods : Nat, pid : Process \cup {Nobody}]]
    BY DEF Init, Token, NoDir
  <2>3. dir.gen = 0 <=> dir = NoDir
    BY DEF Init, NoDir
  <2>4. pc \in [Process -> Labels] /\ left \in [Process -> 0..Retries] /\ file \in [Process -> 0..gens]
    BY LockAssumption DEF Init, Labels
  <2>5. gens = 0 /\ alive = Process /\ window = FALSE
    BY DEF Init
  <2>6. gens \in 0..MaxGen /\ alive \subseteq Process
    BY <2>5, LockAssumption
  <2>7. window \in BOOLEAN
    BY <2>5
  <2> QED
    BY <2>1, <2>2, <2>3, <2>4, <2>6, <2>7 DEF TypeOK
<1>4. InfoNamesMaker /\ SeenNamesMaker
  BY DEF Init, InfoNamesMaker, SeenNamesMaker, NoDir
<1>5. RemovesFromDead /\ MakerFindsLock
  BY <1>1, <1>2 DEF RemovesFromDead, MakerFindsLock, Owning
<1>6. NothingLeftBehind
  BY <1>1 DEF NothingLeftBehind, Init, NoDir
<1> QED
  BY <1>3, <1>4, <1>5, <1>6 DEF OwnershipInv

(* TypeOK, with what the directory is apart from the rest.                  *)
Dir == [gen : Nat, mods : Nat, by : Process \cup {Nobody},
        info : Process \cup {Nobody}, fd : BOOLEAN, old : BOOLEAN]
DirOK == dir \in Dir /\ dir.gen \in 0..gens /\ (dir.gen = 0 <=> dir = NoDir)
RestOK ==
  /\ gens \in 0..MaxGen /\ alive \subseteq Process /\ window \in BOOLEAN
  /\ pc \in [Process -> Labels] /\ left \in [Process -> 0..Retries]
  /\ file \in [Process -> 0..gens]
  /\ seen \in [Process -> [gen : 0..gens, mods : Nat, pid : Process \cup {Nobody}]]

(* TypeOK is those two parts together, before and after a step.              *)
LEMMA TypeParts == TypeOK <=> DirOK /\ RestOK
BY LockAssumption DEF TypeOK, DirOK, RestOK, Dir

(* The same of the next state.                                               *)
LEMMA TypePartsNext == DirOK' /\ RestOK' => TypeOK'
BY LockAssumption DEF TypeOK, DirOK, RestOK, Dir

(* The absent directory is a value of the type, and nobody made it.          *)
LEMMA NoDirIsDir == NoDir \in Dir /\ NoDir.gen = 0 /\ NoDir.by = Nobody /\ NoDir.info = Nobody
BY DEF NoDir, Dir

(* Every step keeps the state of the lock well-typed.                        *)
LEMMA TypeStep ==
  ASSUME TypeOK, ~window, [Next]_vars
  PROVE  TypeOK'
<1>a. CASE UNCHANGED vars
  BY <1>a DEF vars, TypeOK
<1> SUFFICES ASSUME Next PROVE DirOK' /\ RestOK'
  BY <1>a, TypePartsNext
<1> USE LockAssumption, TypeParts, NoDirIsDir DEF RestOK, Labels, At, Goto, Process
<1>0. DirOK /\ Token(dir) \in [gen : 0..gens, mods : Nat, pid : Process \cup {Nobody}]
  BY DEF DirOK, Dir, Token
<1>1. CASE Age
  <2>1. dir' \in Dir /\ dir'.gen = dir.gen /\ dir.gen # 0
    BY <1>0, <1>1 DEF Age, DirOK, Dir
  <2>2. DirOK'
    BY <2>1, <1>0, <1>1 DEF Age, DirOK
  <2> QED
    BY <2>2, <1>1 DEF Age
<1>2. ASSUME NEW p \in Process,
             Call(p) \/ Prune(p) \/ Kill(p) \/ StatOwn(p) \/ Probe(p) \/ Verify(p) \/ Sleep(p)
             \/ Release(p) \/ VerifyOwn(p)
      PROVE  DirOK' /\ RestOK'
  <2>1. dir' = dir /\ gens' = gens
    BY <1>2 DEF Call, Prune, Kill, StatOwn, Probe, Verify, Sleep, Release, VerifyOwn
  <2>2. DirOK'
    BY <2>1, <1>0 DEF DirOK
  <2>3. CASE Call(p) \/ Prune(p) \/ Kill(p)
    BY <2>2, <2>3, <1>0 DEF Call, Prune, Kill
  <2>4. CASE StatOwn(p) \/ Probe(p) \/ Verify(p)
    <3>1. [Token(dir) EXCEPT !.pid = p] \in [gen : 0..gens, mods : Nat, pid : Process \cup {Nobody}]
      BY <1>0
    <3> QED
      BY <2>2, <2>4, <1>0, <3>1 DEF StatOwn, Probe, Verify, GiveUp
  <2>5. CASE Sleep(p) \/ Release(p) \/ VerifyOwn(p)
    BY <2>2, <2>5 DEF Sleep, Release, VerifyOwn, NextAttempt
  <2> QED
    BY <1>2, <2>3, <2>4, <2>5
<1>3. ASSUME NEW p \in Process, Mkdir(p) PROVE DirOK' /\ RestOK'
  <2>1. CASE dir = NoDir
    <3>1. Made(p) \in Dir /\ Made(p).gen = gens + 1 /\ gens + 1 # 0 /\ gens + 1 \in 0..MaxGen
      BY <1>3, <2>1 DEF Made, Dir, Mkdir
    <3>2. DirOK'
      BY <3>1, <1>3, <2>1 DEF Mkdir, DirOK
    <3>3. file' \in [Process -> 0..gens']
          /\ seen' \in [Process -> [gen : 0..gens', mods : Nat, pid : Process \cup {Nobody}]]
      BY <1>3, <2>1 DEF Mkdir
    <3> QED
      BY <3>1, <3>2, <3>3, <1>3, <2>1 DEF Mkdir
  <2>2. CASE dir # NoDir
    BY <1>0, <1>3, <2>2 DEF Mkdir, DirOK
  <2> QED
    BY <2>1, <2>2
<1>4. ASSUME NEW p \in Process, OpenInfo(p) PROVE DirOK' /\ RestOK'
  <2> DEFINE d == IF dir = NoDir THEN Made(p) ELSE dir
  <2>1. d \in Dir /\ d.gen \in 0..gens' /\ d.gen # 0 /\ gens' \in 0..MaxGen /\ gens <= gens'
    BY <1>0, <1>4 DEF OpenInfo, Made, Dir, DirOK
  <2>2. dir' \in Dir /\ dir'.gen = d.gen
    <3>1. d.mods \in Nat /\ d.mods + 1 \in Nat /\ d.by \in Process \cup {Nobody} /\ d.gen \in Nat
      BY <2>1 DEF Dir
    <3>2. dir' = [gen |-> d.gen, mods |-> IF d.fd THEN d.mods ELSE d.mods + 1, by |-> d.by,
                  info |-> Nobody, fd |-> TRUE, old |-> d.old /\ d.fd]
      BY <1>4 DEF OpenInfo
    <3> HIDE DEF d
    <3> QED
      BY <3>1, <3>2 DEF Dir
  <2>3. DirOK'
    BY <2>1, <2>2 DEF DirOK
  <2>4. file' \in [Process -> 0..gens']
        /\ seen' \in [Process -> [gen : 0..gens', mods : Nat, pid : Process \cup {Nobody}]]
    BY <2>1, <1>4 DEF OpenInfo
  <2> QED
    BY <2>1, <2>3, <2>4, <1>4 DEF OpenInfo
<1>5. ASSUME NEW p \in Process, FillInfo(p) PROVE DirOK' /\ RestOK'
  <2>1. dir' \in Dir /\ dir'.gen = dir.gen /\ (dir = NoDir => dir' = dir)
    BY <1>0, <1>5 DEF FillInfo, Dir, DirOK, NoDir
  <2>2. DirOK'
    BY <2>1, <1>0, <1>5 DEF FillInfo, DirOK
  <2> QED
    BY <2>2, <1>5 DEF FillInfo
<1>6. ASSUME NEW p \in Process, Unlink(p) \/ RelUnlink(p) PROVE DirOK' /\ RestOK'
  <2>1. dir' \in Dir /\ dir'.gen = dir.gen /\ (dir = NoDir => dir' = dir)
    <3>1. CASE dir.fd
      <4>1. dir' = [gen |-> dir.gen, mods |-> dir.mods + 1, by |-> dir.by,
                    info |-> Nobody, fd |-> FALSE, old |-> FALSE]
        BY <1>6, <3>1 DEF Unlink, RelUnlink, UnlinkInfo
      <4>2. dir.mods + 1 \in Nat /\ dir.by \in Process \cup {Nobody} /\ dir.gen \in Nat
        BY <1>0 DEF DirOK, Dir
      <4>3. dir # NoDir
        BY <3>1 DEF NoDir
      <4> QED
        BY <4>1, <4>2, <4>3 DEF Dir
    <3>2. CASE ~dir.fd
      BY <1>0, <1>6, <3>2 DEF Unlink, RelUnlink, UnlinkInfo, DirOK
    <3> QED
      BY <3>1, <3>2
  <2>2. DirOK'
    BY <2>1, <1>0, <1>6 DEF Unlink, RelUnlink, UnlinkInfo, DirOK
  <2>3. window' \in BOOLEAN
    BY <1>6 DEF Unlink, RelUnlink, UnlinkInfo, Hits
  <2> QED
    BY <2>2, <2>3, <1>6 DEF Unlink, RelUnlink, UnlinkInfo
<1>7. ASSUME NEW p \in Process, Rmdir(p) \/ RelRmdir(p) PROVE DirOK' /\ RestOK'
  <2>1. DirOK'
    BY <1>7 DEF Rmdir, RelRmdir, RemoveDir, DirOK
  <2>2. window' \in BOOLEAN
    BY <1>7 DEF Rmdir, RelRmdir, RemoveDir, Hits
  <2> QED
    BY <2>1, <2>2, <1>7 DEF Rmdir, RelRmdir, RemoveDir, NextAttempt
<1> QED
  BY <1>1, <1>2, <1>3, <1>4, <1>5, <1>6, <1>7 DEF Next, Step

(* A step that hits no window leaves the lock to its maker.                 *)
Ownership == /\ InfoNamesMaker /\ SeenNamesMaker /\ RemovesFromDead /\ MakerFindsLock
             /\ NothingLeftBehind

LEMMA OwnershipStep ==
  ASSUME TypeOK, ~window, Ownership, [Next]_vars, ~window'
  PROVE  Ownership'
<1>a. CASE UNCHANGED vars
  BY <1>a DEF vars, Ownership, InfoNamesMaker, SeenNamesMaker, RemovesFromDead, MakerFindsLock,
              NothingLeftBehind, Token
<1> SUFFICES ASSUME Next PROVE Ownership'
  BY <1>a
<1>b. Nobody \notin Process /\ alive \subseteq Process /\ gens \in Nat /\ pc \in [Process -> Labels]
      /\ dir.gen \in 0..gens /\ (dir.gen = 0 <=> dir = NoDir) /\ dir.by \in Process \cup {Nobody}
      /\ NoDir.gen = 0 /\ NoDir.by = Nobody /\ NoDir.info = Nobody /\ dir \in Dir
  BY LockAssumption, TypeParts, NoDirIsDir DEF DirOK, RestOK, Dir
<1>c. file \in [Process -> 0..gens] /\ \A q \in Process : seen[q].gen \in 0..gens
      /\ seen \in [Process -> [gen : 0..gens, mods : Nat, pid : Process \cup {Nobody}]]
  BY TypeParts DEF RestOK
<1> USE <1>b, <1>c DEF Ownership, InfoNamesMaker, SeenNamesMaker, RemovesFromDead, MakerFindsLock,
            NothingLeftBehind, Owning, At, Goto, Token
<1>1. CASE Age
  <2>1. dir # NoDir /\ dir'.gen = dir.gen /\ dir'.mods = dir.mods /\ dir'.by = dir.by
        /\ dir'.info = dir.info /\ dir'.fd = dir.fd
    BY <1>1 DEF Age, Dir
  <2>2. UNCHANGED <<gens, alive, pc, left, file, seen>> /\ dir' # NoDir
    BY <1>1, <2>1 DEF Age
  <2> QED
    BY <2>1, <2>2
<1>2. ASSUME NEW p \in Process, Call(p) \/ Release(p) \/ Sleep(p) PROVE Ownership'
  BY <1>2 DEF Call, Release, Sleep, NextAttempt
<1>3. ASSUME NEW p \in Process, Prune(p) PROVE Ownership'
  BY <1>3 DEF Prune, Stale
<1>4. ASSUME NEW p \in Process, Kill(p) PROVE Ownership'
  BY <1>4 DEF Kill
<1>5. ASSUME NEW p \in Process, Mkdir(p) PROVE Ownership'
  BY <1>5 DEF Mkdir, Made
<1>6. ASSUME NEW p \in Process, OpenInfo(p) PROVE Ownership'
  BY <1>6 DEF OpenInfo
<1>7. ASSUME NEW p \in Process, FillInfo(p) PROVE Ownership'
  BY <1>7 DEF FillInfo, Dir
<1>8. ASSUME NEW p \in Process, StatOwn(p) PROVE Ownership'
  BY <1>8 DEF StatOwn
<1>9. ASSUME NEW p \in Process, Probe(p) PROVE Ownership'
  BY <1>9 DEF Probe, Stale, StaleByAge
<1>10. ASSUME NEW p \in Process, Verify(p) PROVE Ownership'
  BY <1>10 DEF Verify, GiveUp, Unchanged
<1>11. ASSUME NEW p \in Process, Unlink(p) PROVE Ownership'
  <2>1. p \in alive /\ pc[p] = "unlink" /\ ~Hits(p)
    BY <1>11 DEF Unlink, UnlinkInfo
  <2>2. dir # NoDir => dir.by \notin alive
    BY <2>1 DEF Hits
  <2>3. dir' = dir \/ (dir'.gen = dir.gen /\ dir'.by = dir.by /\ dir'.info = Nobody)
    BY <1>11 DEF Unlink, UnlinkInfo
  <2>4. dir = NoDir => dir' = dir
    BY <1>11, NoDirIsDir DEF Unlink, UnlinkInfo, NoDir
  <2>5. UNCHANGED <<gens, alive, left, file, seen>> /\ pc' = [pc EXCEPT ![p] = "rmdir"]
    BY <1>11 DEF Unlink, UnlinkInfo
  <2>6. \A q \in alive : pc[q] \notin Owning
    BY <2>2
  <2>7. InfoNamesMaker' /\ NothingLeftBehind'
    BY <2>2, <2>3, <2>4, <2>5
  <2>8. SeenNamesMaker'
    BY <2>3, <2>4, <2>5
  <2>9. RemovesFromDead' /\ MakerFindsLock'
    BY <2>1, <2>5, <2>6
  <2> QED
    BY <2>7, <2>8, <2>9
<1>12. ASSUME NEW p \in Process, Rmdir(p) PROVE Ownership'
  <2>1. p \in alive /\ pc[p] = "rmdir" /\ ~Hits(p)
    BY <1>12 DEF Rmdir, RemoveDir
  <2>2. dir # NoDir => dir.by \notin alive
    BY <2>1 DEF Hits
  <2>3. dir' = NoDir /\ UNCHANGED <<gens, alive, file, seen>> /\ pc' = [pc EXCEPT ![p] = NextAttempt(p)]
    BY <1>12 DEF Rmdir, RemoveDir
  <2>4. \A q \in alive : pc[q] \notin Owning
    BY <2>2
  <2>5. NextAttempt(p) \in {"idle", "mkdir"}
    BY DEF NextAttempt
  <2>6. InfoNamesMaker' /\ SeenNamesMaker' /\ NothingLeftBehind'
    BY <2>3
  <2>7. RemovesFromDead' /\ MakerFindsLock'
    BY <2>3, <2>4, <2>5
  <2> QED
    BY <2>6, <2>7
<1>13. ASSUME NEW p \in Process, VerifyOwn(p) PROVE Ownership'
  BY <1>13 DEF VerifyOwn, Unchanged
<1>14. ASSUME NEW p \in Process, RelUnlink(p) PROVE Ownership'
  BY <1>14 DEF RelUnlink, UnlinkInfo, Hits
<1>15. ASSUME NEW p \in Process, RelRmdir(p) PROVE Ownership'
  BY <1>15 DEF RelRmdir, RemoveDir, Hits
<1> QED
  BY <1>1, <1>2, <1>3, <1>4, <1>5, <1>6, <1>7, <1>8, <1>9, <1>10, <1>11, <1>12, <1>13, <1>14,
     <1>15 DEF Next, Step

(* The inductive invariant holds, for any number of processes and attempts. *)
THEOREM FileLockInvariant == Spec => []OwnershipInv
<1>1. OwnershipInv /\ [Next]_vars => OwnershipInv'
  <2> SUFFICES ASSUME OwnershipInv, [Next]_vars PROVE OwnershipInv'
    OBVIOUS
  <2>1. CASE window
    <3>1. UNCHANGED vars
      BY <2>1 DEF Next, Step, Age, Call, Prune, Kill, Mkdir, OpenInfo, FillInfo, StatOwn, Probe, Verify,
                  Unlink, Rmdir, Sleep, Release, VerifyOwn, RelUnlink, RelRmdir, At
    <3> QED
      BY <3>1, <2>1 DEF vars, OwnershipInv, TypeOK
  <2>2. CASE ~window
    BY <2>2, TypeStep, OwnershipStep DEF OwnershipInv, Ownership
  <2> QED
    BY <2>1, <2>2
<1> QED
  BY <1>1, InitOwnership, PTL DEF Spec

(* The call in its critical section owns the lock just as it left it.       *)
THEOREM FileLockHolder == Spec => []HolderKeepsLock
<1>1. OwnershipInv => HolderKeepsLock
  BY DEF OwnershipInv, HolderKeepsLock, MakerFindsLock, At, Unchanged, Owning
<1> QED
  BY <1>1, FileLockInvariant, PTL

(* At most one call is in its critical section.                             *)
THEOREM FileLockMutualExclusion == Spec => []MutualExclusion
<1>1. OwnershipInv => MutualExclusion
  BY DEF OwnershipInv, MutualExclusion, MakerFindsLock, At, Owning
<1> QED
  BY <1>1, FileLockInvariant, PTL

(* A process that runs leaves no lock behind.                               *)
THEOREM FileLockNothingLeft == Spec => []NothingLeftBehind
<1>1. OwnershipInv => NothingLeftBehind
  BY DEF OwnershipInv, NothingLeftBehind
<1> QED
  BY <1>1, FileLockInvariant, PTL
=============================================================================
