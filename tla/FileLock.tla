------------------------------- MODULE FileLock -------------------------------
(***************************************************************************)
(* withFileLock (packages/coding-agent/src/config/file-lock.ts): a lock of *)
(* one file between processes, kept as a directory with an info file that  *)
(* names its owner, and its garbage collection (file-lock-gc.ts).  A lock  *)
(* is removed by its owner, or by anybody who finds its owner dead.  What  *)
(* is removed was verified a moment before, and the module says what holds *)
(* as long as nothing happens in that window (Hits).                       *)
(*                                                                         *)
(* External: mkdir, stat, unlink and rmdir are atomic, Bun.write is an     *)
(* open that creates missing directories and a write, fs.rm unlinks the    *)
(* info file and then removes the directory with whatever is in it.        *)
(*                                                                         *)
(* Left out: errors of these calls other than EEXIST and ENOENT.  A caller *)
(* whose writeLockInfo fails after its mkdir throws and leaves a directory *)
(* without a name behind, until its age frees it.                          *)
(***************************************************************************)
EXTENDS Naturals, FiniteSets

CONSTANTS Caller,    \* processes that call withFileLock
          Collector, \* processes that run the garbage collector
          Mortal,    \* processes that may be killed
          Nobody,
          Retries,   \* opts.retries
          MaxGen     \* bound: directories made

Process == Caller \cup Collector

ASSUME LockAssumption ==
  /\ Caller \cap Collector = {} /\ Mortal \subseteq Process /\ Nobody \notin Process
  /\ Retries \in Nat \ {0} /\ MaxGen \in Nat

VARIABLES
  dir,      \* the lock directory, or NoDir
  gens,     \* directories made so far
  alive,    \* processes that run
  pc,       \* where each process is
  left,     \* left[p]: attempts left
  file,     \* file[p]: the directory whose info file p has open
  seen,     \* seen[p]: the owner token that p holds or has observed
  window    \* history: a removal has hit the window of its verification

vars == <<dir, gens, alive, pc, left, file, seen, window>>

(* A directory is identified by gen (dev, ino, birth); mods counts the     *)
(* changes of its entries (mtime, ctime).  info is the pid that can be     *)
(* read from the info file, fd the presence of that file; old says that    *)
(* more than staleMs have passed since the last change.                    *)
NoDir == [gen |-> 0, mods |-> 0, by |-> Nobody, info |-> Nobody, fd |-> FALSE, old |-> FALSE]

Made(p) ==
  [gen |-> gens + 1, mods |-> 0, by |-> p, info |-> Nobody, fd |-> FALSE, old |-> FALSE]

(* FileLockOwnerToken: the stat that sameStatToken compares, and the pid.  *)
(* The timestamp in the info file tells no more than the stat does.        *)
Token(d) == [gen |-> d.gen, mods |-> d.mods, pid |-> d.info]

Labels == {"idle", "mkdir", "open", "fill", "stat", "probe", "verify", "unlink",
           "rmdir", "sleep", "in", "release", "relUnlink", "relRmdir"}

Init ==
  /\ dir = NoDir /\ gens = 0 /\ alive = Process
  /\ pc = [p \in Process |-> "idle"]
  /\ left = [p \in Process |-> 0]
  /\ file = [p \in Process |-> 0]
  /\ seen = [p \in Process |-> Token(NoDir)]
  /\ window = FALSE

(* Nothing is said of what follows once a removal has hit its window.      *)
At(p, label) == ~window /\ p \in alive /\ pc[p] = label
Goto(p, label) == pc' = [pc EXCEPT ![p] = label]

(***************************************************************************)
(* acquireLock                                                             *)
(***************************************************************************)
Call(p) ==
  /\ At(p, "idle") /\ p \in Caller
  /\ Goto(p, "mkdir")
  /\ left' = [left EXCEPT ![p] = Retries]
  /\ UNCHANGED <<dir, gens, alive, file, seen, window>>

(* tryAcquireLock: mkdir, and EEXIST. *)
Mkdir(p) ==
  /\ At(p, "mkdir")
  /\ IF dir = NoDir
       THEN /\ gens < MaxGen
            /\ dir' = Made(p) /\ gens' = gens + 1
            /\ Goto(p, "open")
       ELSE Goto(p, "probe") /\ UNCHANGED <<dir, gens>>
  /\ UNCHANGED <<alive, left, file, seen, window>>

(* writeLockInfo: the file is created, or that of another call truncated.  *)
OpenInfo(p) ==
  /\ At(p, "open")
  /\ dir = NoDir => gens < MaxGen
  /\ LET d == IF dir = NoDir THEN Made(p) ELSE dir
     IN /\ dir' = [gen |-> d.gen, mods |-> IF d.fd THEN d.mods ELSE d.mods + 1, by |-> d.by,
                   info |-> Nobody, fd |-> TRUE, old |-> d.old /\ d.fd]
        /\ gens' = IF dir = NoDir THEN gens + 1 ELSE gens
        /\ file' = [file EXCEPT ![p] = d.gen]
  /\ Goto(p, "fill")
  /\ UNCHANGED <<alive, left, seen, window>>

FillInfo(p) ==
  /\ At(p, "fill")
  /\ dir' = IF dir.gen = file[p] /\ dir.fd THEN [dir EXCEPT !.info = p] ELSE dir
  /\ file' = [file EXCEPT ![p] = 0]
  /\ Goto(p, "stat")
  /\ UNCHANGED <<gens, alive, left, seen, window>>

\* Mutant: the stat of the directory before its info file was made.
StatOwnEarly(p) ==
  /\ At(p, "stat")
  /\ seen' = [seen EXCEPT ![p] = [Token(dir) EXCEPT !.pid = p, !.mods = 0]]
  /\ Goto(p, IF dir = NoDir THEN "probe" ELSE "in")
  /\ UNCHANGED <<dir, gens, alive, left, file, window>>

(* The owner token; null when the directory has gone. *)
StatOwn(p) ==
  /\ At(p, "stat")
  /\ seen' = [seen EXCEPT ![p] = [Token(dir) EXCEPT !.pid = p]]
  /\ Goto(p, IF dir = NoDir THEN "probe" ELSE "in")
  /\ UNCHANGED <<dir, gens, alive, left, file, window>>

\* Mutant: a lock is stale when it is old, whoever owns it.
StaleWhenOld == dir.info # Nobody /\ (dir.info \notin alive \/ dir.old)

Stale == dir.info # Nobody /\ dir.info \notin alive

\* Mutant: a lock without a readable owner is kept.
StaleByAgeNever == FALSE

StaleByAge == dir # NoDir /\ dir.info = Nobody /\ dir.old

(* staleLockSnapshot: a readable owner is judged by its process alone, a   *)
(* lock without one by its age.                                            *)
Probe(p) ==
  /\ At(p, "probe")
  /\ seen' = [seen EXCEPT ![p] = Token(dir)]
  /\ Goto(p, IF Stale \/ StaleByAge THEN "verify" ELSE "sleep")
  /\ UNCHANGED <<dir, gens, alive, left, file, window>>

Unchanged(p) == dir # NoDir /\ Token(dir) = seen[p]

GiveUp(p) == IF p \in Caller THEN "sleep" ELSE "idle"

(* removeFileLockDirForGc with an owner, and removeStaleLockForAcquire     *)
(* without one: the token is read again.                                   *)
Verify(p) ==
  /\ At(p, "verify")
  /\ Goto(p, IF Unchanged(p) THEN "unlink" ELSE GiveUp(p))
  /\ seen' = [seen EXCEPT ![p] = Token(dir)]
  /\ UNCHANGED <<dir, gens, alive, left, file, window>>

(* A removal hits its window when the directory it works on was made after *)
(* the verification; the comment of removeFileLockDirForGc admits this.    *)
(* The window here is wider: it has the removal of a directory without     *)
(* a readable owner whose maker runs and takes more than staleMs to name   *)
(* itself, of which the code says nothing.                                 *)
Hits(p) ==
  /\ dir # NoDir
  /\ \/ dir.gen # seen[p].gen
     \/ seen[p].pid = Nobody /\ dir.by \in alive

UnlinkInfo(p, next) ==
  /\ dir' = IF dir.fd
              THEN [gen |-> dir.gen, mods |-> dir.mods + 1, by |-> dir.by,
                    info |-> Nobody, fd |-> FALSE, old |-> FALSE]
              ELSE dir
  /\ window' = (window \/ Hits(p))
  /\ Goto(p, next)
  /\ UNCHANGED <<gens, alive, left, file, seen>>

RemoveDir(p, next) ==
  /\ dir' = NoDir
  /\ window' = (window \/ Hits(p))
  /\ Goto(p, next)
  /\ UNCHANGED <<gens, alive, file, seen>>

Unlink(p) == At(p, "unlink") /\ UnlinkInfo(p, "rmdir")

(* The next attempt, without a sleep; the last one fails the call. *)
NextAttempt(p) == IF p \in Collector \/ left[p] = 1 THEN "idle" ELSE "mkdir"

Rmdir(p) ==
  /\ At(p, "rmdir")
  /\ RemoveDir(p, NextAttempt(p))
  /\ left' = [left EXCEPT ![p] = IF @ = 0 THEN 0 ELSE @ - 1]

Sleep(p) ==
  /\ At(p, "sleep")
  /\ Goto(p, NextAttempt(p))
  /\ left' = [left EXCEPT ![p] = IF @ = 0 THEN 0 ELSE @ - 1]
  /\ UNCHANGED <<dir, gens, alive, file, seen, window>>

(***************************************************************************)
(* releaseLock: the same verification with the owner's own token           *)
(***************************************************************************)
Release(p) ==
  /\ At(p, "in")
  /\ Goto(p, "release")
  /\ UNCHANGED <<dir, gens, alive, left, file, seen, window>>

VerifyOwn(p) ==
  /\ At(p, "release")
  /\ Goto(p, IF Unchanged(p) THEN "relUnlink" ELSE "idle")
  /\ UNCHANGED <<dir, gens, alive, left, file, seen, window>>

RelUnlink(p) == At(p, "relUnlink") /\ UnlinkInfo(p, "relRmdir")

RelRmdir(p) == At(p, "relRmdir") /\ RemoveDir(p, "idle") /\ UNCHANGED left

(***************************************************************************)
(* fileLocksGcAdapter.prune: only locks with a readable, dead owner        *)
(***************************************************************************)
Prune(p) ==
  /\ At(p, "idle") /\ p \in Collector
  /\ Stale
  /\ seen' = [seen EXCEPT ![p] = Token(dir)]
  /\ Goto(p, "verify")
  /\ UNCHANGED <<dir, gens, alive, left, file, window>>

(***************************************************************************)
(* External: time and the death of processes                               *)
(***************************************************************************)
Age ==
  /\ ~window /\ dir # NoDir /\ ~dir.old
  /\ dir' = [dir EXCEPT !.old = TRUE]
  /\ UNCHANGED <<gens, alive, pc, left, file, seen, window>>

Kill(p) ==
  /\ ~window /\ p \in alive \cap Mortal
  /\ alive' = alive \ {p}
  /\ UNCHANGED <<dir, gens, pc, left, file, seen, window>>

Step(p) ==
  \/ Mkdir(p) \/ OpenInfo(p) \/ FillInfo(p) \/ StatOwn(p) \/ Probe(p) \/ Verify(p)
  \/ Unlink(p) \/ Rmdir(p) \/ Sleep(p)
  \/ Release(p) \/ VerifyOwn(p) \/ RelUnlink(p) \/ RelRmdir(p)

Next == Age \/ \E p \in Process : Call(p) \/ Prune(p) \/ Step(p) \/ Kill(p)

(* A call that was made goes on, somebody wants the file, time passes.     *)
Fairness == WF_vars(Age) /\ \A p \in Process : WF_vars(Call(p) \/ Step(p))

Spec == Init /\ [][Next]_vars /\ Fairness

(***************************************************************************)
(* Properties                                                              *)
(***************************************************************************)
TypeOK ==
  /\ gens \in 0..MaxGen /\ alive \subseteq Process /\ window \in BOOLEAN
  /\ dir \in [gen : 0..gens, mods : Nat, by : Process \cup {Nobody},
              info : Process \cup {Nobody}, fd : BOOLEAN, old : BOOLEAN]
  /\ dir.gen = 0 <=> dir = NoDir
  /\ pc \in [Process -> Labels] /\ left \in [Process -> 0..Retries]
  /\ file \in [Process -> 0..gens]
  /\ seen \in [Process -> [gen : 0..gens, mods : Nat, pid : Process \cup {Nobody}]]

(* While nothing happens within the window of a removal, the call that is  *)
(* in its critical section owns the lock directory just as it left it:     *)
(* neither a reclaimed stale lock nor a long critical section lets another *)
(* call in, whatever is killed and whoever collects garbage.               *)
HolderKeepsLock ==
  \A p \in Process : At(p, "in") => Unchanged(p) /\ dir.info = p

MutualExclusion ==
  \A p, q \in Process : At(p, "in") /\ At(q, "in") => p = q

Owning == {"open", "fill", "stat", "in", "release", "relUnlink", "relRmdir"}

(* A process that runs leaves no lock behind: outside its own acquisition  *)
(* and release there is no directory of its making (I/O errors left out).  *)
NothingLeftBehind ==
  ~window => \A p \in alive :
    dir.by = p => pc[p] \in Owning

(* The inductive invariant behind these.  Only the maker of a directory ever *)
(* names itself in it; what a process has observed of the directory that is *)
(* there tells its maker or nothing; a removal is after a dead owner's lock  *)
(* or one without an owner; and the maker finds it as its own steps left it. *)
InfoNamesMaker == dir.info \in {Nobody, dir.by}

SeenNamesMaker ==
  \A p \in Process : dir # NoDir /\ seen[p].gen = dir.gen => seen[p].pid \in {Nobody, dir.by}

RemovesFromDead ==
  \A p \in alive : pc[p] \in {"verify", "unlink", "rmdir"} => seen[p].pid \notin alive

MakerFindsLock ==
  \A p \in alive :
    /\ pc[p] \in Owning => dir # NoDir /\ dir.by = p
    /\ pc[p] = "fill" => dir.fd /\ file[p] = dir.gen
    /\ pc[p] \in {"stat", "in", "release", "relUnlink"} => dir.info = p
    /\ pc[p] \in {"in", "release", "relUnlink"} => Token(dir) = seen[p]
    /\ pc[p] = "relRmdir" => seen[p].gen = dir.gen /\ seen[p].pid = p

OwnershipInv ==
  /\ TypeOK
  /\ ~window => /\ InfoNamesMaker /\ SeenNamesMaker /\ RemovesFromDead /\ MakerFindsLock
                /\ NothingLeftBehind

(* The lock of a dead process goes, wherever it was killed (also before it *)
(* could name itself), as long as somebody else wants the file.            *)
DeadLockGoes ==
  \A g \in 1..MaxGen : (dir.gen = g /\ dir.by \notin alive) ~> (dir.gen # g \/ window)
===============================================================================
