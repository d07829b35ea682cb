---------------------------- MODULE MutationLock ----------------------------
(***************************************************************************)
(* The cross-process mutex of harness-control-plane/session-lease.ts: every *)
(* operation on a session lease runs inside withLeaseMutationLock.          *)
(*                                                                         *)
(* The mutex is a directory <lease>.lock that holds exactly one file, named *)
(* after the random token of the call that owns the mutex and containing   *)
(* the pid of its process.  A call prepares a private directory with its    *)
(* token file and renames it onto the lock path; rename(2) succeeds when    *)
(* nothing or an EMPTY directory is there.  A call that fails looks whether *)
(* the owner's process is gone and, if so, removes that owner's token file  *)
(* by name, then the directory if it is empty.                              *)
(*                                                                         *)
(* A caller is one chain of withLeaseMutationLock calls of one process, so  *)
(* two callers may share a pid (a heartbeat timer and a shutdown).  Each    *)
(* file system call is one action; a process may be killed between any two. *)
(* A caller stands for its current token: its previous token file is gone   *)
(* (failed attempt or release) before it draws the next one.                *)
(***************************************************************************)
EXTENDS Naturals, FiniteSets

CONSTANTS Caller,      \* chains of withLeaseMutationLock calls
          Pid,         \* operating system process ids
          PidOf,       \* the process each caller runs in
          LegacyPid,   \* pid recorded in a lock FILE of an older version
          Reusable,    \* bound: the pids the operating system may give away
          Retries      \* LEASE_LOCK_RETRIES (100 in the code)

ASSUME CallerAssumption  == PidOf \in [Caller -> Pid]
ASSUME LegacyAssumption  == LegacyPid \in Pid /\ \A c \in Caller : PidOf[c] # LegacyPid
ASSUME RetriesAssumption == Retries \in Nat \ {0}

VARIABLES pidState,  \* "up": runs this program; "dead"; "foreign": reused by another program
          kind,      \* what the lock path is: "none", "dir" or "file" (older version)
          tokens,    \* the token files in the directory
          pc,        \* where each caller is
          attempt,   \* loop counter of acquireLeaseMutationLock
          target     \* the token file a recovery has decided on

lockVars == <<pidState, kind, tokens, pc, attempt, target>>

PidStates == {"up", "dead", "foreign"}

PCs == {"idle", "create", "recover", "legacy", "unlink", "read", "rmToken",
        "rmDir", "sleep", "held", "releasing", "timeout", "killed"}

LockTypeOK ==
  /\ pidState \in [Pid -> PidStates]
  /\ kind \in {"none", "dir", "file"}
  /\ tokens \in SUBSET Caller
  /\ pc \in [Caller -> PCs]
  /\ attempt \in [Caller -> Nat]
  /\ target \in [Caller -> Caller]

LockInit ==
  /\ pidState \in [Pid -> PidStates]
  /\ \A c \in Caller : pidState[PidOf[c]] = "up"
  /\ kind \in {"none", "file"}
  /\ kind = "none" => pidState[LegacyPid] = "dead"  \* no file, no such process
  /\ tokens = {}
  /\ pc = [c \in Caller |-> "idle"]
  /\ attempt = [c \in Caller |-> 0]
  /\ target = [c \in Caller |-> c]

-----------------------------------------------------------------------------
(* process.kill(pid, 0) answers ESRCH only when no process has the pid; a    *)
(* process of another user answers EPERM, which is not "dead" either.       *)
ProbeDead(p) == pidState[p] = "dead"

At(c, label) == pc[c] = label /\ pidState[PidOf[c]] = "up"
Goto(c, label) == pc' = [pc EXCEPT ![c] = label]

Start(c) ==
  /\ pc[c] \in {"idle", "timeout"} /\ pidState[PidOf[c]] = "up"
  /\ Goto(c, "create")
  /\ attempt' = [attempt EXCEPT ![c] = 0]
  /\ UNCHANGED <<pidState, kind, tokens, target>>

RenameSucceeds == kind = "none" \/ (kind = "dir" /\ tokens = {})

\* createLeaseMutationLock: the private directory is invisible to others, so
\* the rename is its only shared step.
Create(c) ==
  /\ At(c, "create")
  /\ IF RenameSucceeds
       THEN kind' = "dir" /\ tokens' = {c} /\ Goto(c, "held")
       ELSE UNCHANGED <<kind, tokens>> /\ Goto(c, "recover")
  /\ UNCHANGED <<pidState, attempt, target>>

\* recoverStaleLeaseMutationLock: readdir.
ReadDir(c) ==
  /\ At(c, "recover")
  /\ \/ kind = "none" /\ Goto(c, "sleep") /\ UNCHANGED target
     \/ kind = "file" /\ Goto(c, "legacy") /\ UNCHANGED target
     \/ kind = "dir" /\ tokens = {} /\ Goto(c, "rmDir") /\ UNCHANGED target
     \/ kind = "dir" /\ Cardinality(tokens) > 1 /\ Goto(c, "sleep") /\ UNCHANGED target
     \/ \E t \in Caller : /\ kind = "dir" /\ tokens = {t}
                          /\ target' = [target EXCEPT ![c] = t]
                          /\ Goto(c, "read")
  /\ UNCHANGED <<pidState, kind, tokens, attempt>>

\* Mutant: the owner's pid is not probed.
ReadInfoWithoutProbe(c) ==
  /\ At(c, "read")
  /\ IF target[c] \in tokens THEN Goto(c, "rmToken") ELSE Goto(c, "sleep")
  /\ UNCHANGED <<pidState, kind, tokens, attempt, target>>

\* Mutant: a dead owner is taken for a running one.
ReadInfoNeverDead(c) ==
  /\ At(c, "read")
  /\ Goto(c, "sleep")
  /\ UNCHANGED <<pidState, kind, tokens, attempt, target>>

\* readLeaseLockInfo of the listed token file, then the probe of its pid.
ReadInfo(c) ==
  /\ At(c, "read")
  /\ IF target[c] \in tokens /\ ProbeDead(PidOf[target[c]])
       THEN Goto(c, "rmToken") ELSE Goto(c, "sleep")
  /\ UNCHANGED <<pidState, kind, tokens, attempt, target>>

\* fs.rm(force) of that token file only.
RemoveToken(c) ==
  /\ At(c, "rmToken")
  /\ tokens' = tokens \ {target[c]}
  /\ Goto(c, "rmDir")
  /\ UNCHANGED <<pidState, kind, attempt, target>>

\* Mutant: the directory is removed with what is in it (rm -r).
RemoveDirRecursive(c) ==
  /\ At(c, "rmDir")
  /\ kind' = (IF kind = "dir" THEN "none" ELSE kind) /\ tokens' = {}
  /\ Goto(c, "sleep")
  /\ UNCHANGED <<pidState, attempt, target>>

\* removeEmptyLockDir: rmdir fails harmlessly unless the directory is empty.
RmdirEffect ==
  kind' = IF kind = "dir" /\ tokens = {} THEN "none" ELSE kind

RemoveDir(c) ==
  /\ At(c, "rmDir")
  /\ RmdirEffect
  /\ Goto(c, "sleep")
  /\ UNCHANGED <<pidState, tokens, attempt, target>>

\* recoverLegacyStaleLeaseLock: read the plain file, probe, then unlink.
ReadLegacy(c) ==
  /\ At(c, "legacy")
  /\ IF kind = "file" /\ ProbeDead(LegacyPid)
       THEN Goto(c, "unlink") ELSE Goto(c, "sleep")
  /\ UNCHANGED <<pidState, kind, tokens, attempt, target>>

Unlink(c) ==
  /\ At(c, "unlink")
  /\ kind' = IF kind = "file" THEN "none" ELSE kind
  /\ Goto(c, "sleep")
  /\ UNCHANGED <<pidState, tokens, attempt, target>>

\* Mutants: the loop makes one attempt too many; it does not count.
SleepOffByOne(c) ==
  /\ At(c, "sleep")
  /\ attempt' = [attempt EXCEPT ![c] = @ + 1]
  /\ IF attempt[c] < Retries THEN Goto(c, "create") ELSE Goto(c, "timeout")
  /\ UNCHANGED <<pidState, kind, tokens, target>>

SleepWithoutCounting(c) ==
  /\ At(c, "sleep")
  /\ IF attempt[c] < Retries THEN Goto(c, "create") ELSE Goto(c, "timeout")
  /\ UNCHANGED <<pidState, kind, tokens, attempt, target>>

\* The retry delay, then the next attempt or lease_lock_timeout.
Sleep(c) ==
  /\ At(c, "sleep")
  /\ attempt' = [attempt EXCEPT ![c] = @ + 1]
  /\ IF attempt[c] + 1 < Retries THEN Goto(c, "create") ELSE Goto(c, "timeout")
  /\ UNCHANGED <<pidState, kind, tokens, target>>

\* releaseLeaseMutationLock: remove the own token file, then the directory.
ReleaseToken(c) ==
  /\ At(c, "held")
  /\ tokens' = tokens \ {c}
  /\ Goto(c, "releasing")
  /\ UNCHANGED <<pidState, kind, attempt, target>>

ReleaseDir(c) ==
  /\ At(c, "releasing")
  /\ RmdirEffect
  /\ Goto(c, "idle")
  /\ UNCHANGED <<pidState, tokens, attempt, target>>

\* A process is killed: none of its callers takes another step.
Kill(p) ==
  /\ pidState[p] = "up"
  /\ pidState' = [pidState EXCEPT ![p] = "dead"]
  /\ pc' = [c \in Caller |-> IF PidOf[c] = p THEN "killed" ELSE pc[c]]
  /\ UNCHANGED <<kind, tokens, attempt, target>>

\* The operating system gives a free pid to an unrelated process, which ends.
ReusePid(p) ==
  /\ p \in Reusable /\ pidState[p] = "dead"
  /\ pidState' = [pidState EXCEPT ![p] = "foreign"]
  /\ UNCHANGED <<kind, tokens, pc, attempt, target>>

ForeignExit(p) ==
  /\ pidState[p] = "foreign"
  /\ pidState' = [pidState EXCEPT ![p] = "dead"]
  /\ UNCHANGED <<kind, tokens, pc, attempt, target>>

-----------------------------------------------------------------------------
Acquire(c) == \/ Create(c) \/ ReadDir(c) \/ ReadInfo(c) \/ RemoveToken(c)
              \/ RemoveDir(c) \/ ReadLegacy(c) \/ Unlink(c) \/ Sleep(c)

Environment(p) == Kill(p) \/ ReusePid(p) \/ ForeignExit(p)

LockNext == \/ \E c \in Caller : Start(c) \/ Acquire(c) \/ ReleaseToken(c) \/ ReleaseDir(c)
            \/ \E p \in Pid : Environment(p)

LockSpec == LockInit /\ [][LockNext]_lockVars

\* A live process keeps running its callers (the event loop is fair and every
\* delay ends), and heartbeats call again and again (setInterval in owner.ts).
\* Nothing obliges a process to be killed or a pid to be reused.
LockFairness ==
  \A c \in Caller : /\ WF_lockVars(Start(c))
                    /\ WF_lockVars(Acquire(c))
                    /\ WF_lockVars(ReleaseToken(c) \/ ReleaseDir(c))

FairLockSpec == LockSpec /\ LockFairness

-----------------------------------------------------------------------------
(* At most one caller of a running process is between its rename and its     *)
(* release: the critical sections of acquireLease, heartbeat, releaseLease   *)
(* and reapDeadOwnerArtifacts never overlap, whatever recoveries race.       *)
MutualExclusion ==
  \A c, d \in Caller : pc[c] = "held" /\ pc[d] = "held" => c = d

(* A recovery removes only what no running call owns: whoever is in its      *)
(* critical section still finds its own token, and only that, in the lock.   *)
HolderKeepsToken ==
  \A c \in Caller : pc[c] = "held" => kind = "dir" /\ tokens = {c}

(* The inductive invariant behind both: a recovery that is about to remove a *)
(* token file removes that of a process that does not run this program.     *)
RecoveryTargetsDead ==
  \A c \in Caller : pc[c] = "rmToken" => pidState[PidOf[target[c]]] # "up"

KilledAgrees ==
  \A c \in Caller : pc[c] = "killed" <=> pidState[PidOf[c]] # "up"

(* rename(2) replaces only an empty directory, so token files never pile up  *)
(* and lie only in a directory; a recovery that saw two would give up.       *)
SingleToken ==
  /\ \A t, u \in tokens : t = u
  /\ tokens # {} => kind = "dir"

(* The for loop of acquireLeaseMutationLock: a call still trying has attempts *)
(* left, so the loop ends after LEASE_LOCK_RETRIES of them.                  *)
Trying == {"create", "recover", "legacy", "unlink", "read", "rmToken", "rmDir", "sleep"}
AttemptsLeft ==
  \A c \in Caller : pc[c] \in Trying => attempt[c] < Retries

LockInv == /\ LockTypeOK /\ MutualExclusion /\ HolderKeepsToken
           /\ RecoveryTargetsDead /\ KilledAgrees /\ SingleToken /\ AttemptsLeft

(* No step removes the token of a running call except its own release.       *)
OnlyOwnerOrDeath ==
  \A c \in Caller : c \in tokens /\ c \notin tokens'
                    => \/ pidState[PidOf[c]] # "up"
                       \/ pc[c] = "held" /\ pc'[c] = "releasing"
TokenRemovedByOwnerOrAfterDeath == [][OnlyOwnerOrDeath]_lockVars

(* Every call ends: it enters its critical section or reports                *)
(* lease_lock_timeout, unless its process is killed.                         *)
CallsEnd ==
  \A c \in Caller : pc[c] = "create" ~> pc[c] \in {"held", "timeout", "killed"}

(* The token a killed process left behind goes away as long as somebody      *)
(* keeps calling and the pid is not in another program's hands.              *)
StaleLockRecovered ==
  \A c \in Caller :
    c \in tokens /\ pc[c] = "killed"
      ~> \/ c \notin tokens
         \/ pidState[PidOf[c]] = "foreign"
         \/ \A d \in Caller : pc[d] = "killed"
=============================================================================
