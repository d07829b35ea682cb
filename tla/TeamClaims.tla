----------------------------- MODULE TeamClaims -----------------------------
(***************************************************************************)
(* Task claims of the team runtime                                         *)
(* (packages/coding-agent/src/jwc-runtime/team-runtime.ts).  Every worker  *)
(* is a process of its own and every operation a call of the jwc command   *)
(* over the same directory: one file per task, and a claim file per        *)
(* claimed task, made with an exclusive open.  No lock joins the two: each *)
(* call reads, decides and writes whole files, beside the others.          *)
(*                                                                         *)
(* assignee is the owner while there is one and is left out, as is lane,   *)
(* which no decision looks at.  A snapshot of the task files is one step.  *)
(* External: rename and unlink are atomic, an exclusive open and the write *)
(* of its contents are two steps.                                          *)
(***************************************************************************)
EXTENDS Naturals, FiniteSets

CONSTANTS Worker,
          Leader,    \* processes that monitor the team
          Editor,    \* processes that change what tasks are about and need
          Task,      \* numbers of the tasks
          Owner0,    \* Owner0[t]: the owner a task is created with
          Needs0,    \* Needs0[t]: what a task is created to need
          Edits,     \* what editors may make a task need
          Targets,   \* statuses that workers report
          Mortal,    \* workers that may be killed
          Slow,      \* workers whose heartbeat may get old while they live
          None,
          MaxClaims  \* bound: MaxClaims[w] tokens are drawn by w

Process == Worker \cup Leader \cup Editor
Token == UNION {[by : {w}, n : 1..MaxClaims[w]] : w \in Worker}
Terminal == {"completed", "failed"}
Status == {"pending", "in_progress", "blocked"} \cup Terminal

(* required_role and allowed_roles as the workers they fit, depends_on, and  *)
(* whether blocked_by names anything.                                        *)
Needs == [roles : SUBSET Worker, deps : SUBSET Task, blocked : BOOLEAN]

ASSUME TeamAssumption ==
  /\ Worker \cap Leader = {}
  /\ Task \subseteq Nat
  /\ Owner0 \in [Task -> Worker \cup {None}] /\ None \notin Worker \cup Task
  /\ Needs0 \in [Task -> Needs] /\ Edits \subseteq Needs
  /\ Targets \subseteq Status \ {"pending"}
  /\ Mortal \subseteq Worker /\ Slow \subseteq Worker /\ MaxClaims \in [Worker -> Nat]
  /\ None \notin Token

VARIABLES
  task,      \* task[t]: the task file
  file,      \* file[t]: the claim file: None or the token of the call that made it
  torn,      \* tokens whose claim file was opened and has no contents yet
  expired,   \* tokens whose leased_until has passed
  stale,     \* dead workers that show it: old heartbeat, missing pane, failed or stopped
  dead,      \* workers that have been killed
  issued,    \* issued[w]: tokens w has drawn
  granted,   \* claims that were reported to their workers and are not finished
  pc,        \* where each process is in its call
  at,        \* at[p]: the task p is working on
  tok,       \* tok[p]: the claim p is making, finishing or recovering
  seen,      \* seen[p]: the task files as p has read them
  gone,      \* gone[p]: the workers p has found not live
  todo,      \* todo[p]: tasks a recovery has yet to look at
  revoked,   \* history: tokens whose claim a recovery has removed
  clobbered  \* history: tasks some write or removal hit unread

files == <<task, file, torn>>
world == <<expired, stale, dead>>
local == <<pc, at, tok, seen, gone, todo>>
vars == <<files, world, issued, granted, local, revoked, clobbered>>

Created == [t \in Task |->
  [status |-> "pending", owner |-> Owner0[t], claim |-> None, needs |-> Needs0[t]]]

Init ==
  /\ task = Created
  /\ file = [t \in Task |-> None] /\ torn = {}
  /\ expired = {} /\ stale = {} /\ dead = {} /\ granted = {}
  /\ issued = [w \in Worker |-> 0]
  /\ pc = [p \in Process |-> "idle"]
  /\ at = [p \in Process |-> None]
  /\ tok = [p \in Process |-> None]
  /\ seen = [p \in Process |-> Created]
  /\ gone = [p \in Process |-> {}]
  /\ todo = [p \in Process |-> {}]
  /\ revoked = {} /\ clobbered = {}

At(p, label) == pc[p] = label /\ p \notin dead

(* The next position of a call, with the task and the claim it is about.   *)
Goto(p, label, t, k) ==
  /\ pc' = [pc EXCEPT ![p] = label]
  /\ at' = [at EXCEPT ![p] = t]
  /\ tok' = [tok EXCEPT ![p] = k]

Return(p) ==
  /\ Goto(p, "idle", None, None)
  /\ seen' = [seen EXCEPT ![p] = Created]
  /\ gone' = [gone EXCEPT ![p] = {}]
  /\ todo' = [todo EXCEPT ![p] = {}]

Continue(p, label) == Goto(p, label, at[p], tok[p]) /\ UNCHANGED <<seen, gone, todo>>

(* What a call writes is the record it has read with what it changes.        *)
Changed(p, status, owner, claim) ==
  [seen[p][at[p]] EXCEPT !.status = status, !.owner = owner, !.claim = claim]

(* writeTask and fs.rm replace and remove whatever is there.               *)
WriteTask(p, t, record) ==
  /\ task' = [task EXCEPT ![t] = record]
  /\ clobbered' = clobbered \cup {u \in {t} : task[u] # seen[p][u]}

RemoveClaim(t, k) ==
  /\ file' = [file EXCEPT ![t] = None]
  /\ clobbered' = clobbered \cup {u \in {t} : file[u] \notin {None, k}}

(***************************************************************************)
(* reconcileJwcTeamStaleClaims: part of every claim and of monitor         *)
(***************************************************************************)
(* The heartbeat may also be old under a worker that lives and is busy.     *)
Reconcile(p) ==
  /\ At(p, "idle")
  /\ p \in Leader \/ (p \in Worker /\ issued[p] < MaxClaims[p])
  /\ \E late \in SUBSET (Slow \ dead) : gone' = [gone EXCEPT ![p] = stale \cup late]
  /\ Goto(p, "tasks", None, None)
  /\ UNCHANGED <<files, world, issued, granted, seen, todo, revoked, clobbered>>

ReadTasks(p) ==
  /\ At(p, "tasks")
  /\ seen' = [seen EXCEPT ![p] = task]
  /\ todo' = [todo EXCEPT ![p] = {t \in Task : task[t].status \notin Terminal}]
  /\ Goto(p, "claims", None, None)
  /\ UNCHANGED <<files, world, issued, granted, gone, revoked, clobbered>>

\* Mutant: a claim without a claim file is nobody's.
ClaimOnDisk(p, t) == file[t]

(* The claim in the task file counts before the one on disk. *)
ClaimOf(p, t) == IF seen[p][t].claim # None THEN seen[p][t].claim ELSE file[t]

IsStale(p, k) == k \in Token /\ (k.by \in gone[p] \/ k \in expired)

(* A claim file that does not parse makes the whole call throw. *)
LookAtClaim(p) ==
  /\ At(p, "claims")
  /\ \E t \in todo[p] :
     /\ \A u \in todo[p] : t <= u
     /\ IF file[t] \in torn
          THEN Return(p)
          ELSE /\ todo' = [todo EXCEPT ![p] = @ \ {t}]
               /\ IF IsStale(p, ClaimOf(p, t))
                    THEN Goto(p, "revoke", t, ClaimOf(p, t))
                    ELSE Goto(p, "claims", None, None)
               /\ UNCHANGED <<seen, gone>>
  /\ UNCHANGED <<files, world, issued, granted, revoked, clobbered>>

Revoke(p) ==
  /\ At(p, "revoke")
  /\ RemoveClaim(at[p], tok[p])
  /\ revoked' = revoked \cup {tok[p]}
  /\ Continue(p, IF seen[p][at[p]].status = "in_progress" THEN "requeue" ELSE "claims")
  /\ UNCHANGED <<task, torn, world, issued, granted>>

(* The owner stays: only its worker can claim the task again. *)
Requeue(p) ==
  /\ At(p, "requeue")
  /\ WriteTask(p, at[p], Changed(p, "pending", seen[p][at[p]].owner, None))
  /\ Goto(p, "claims", None, None)
  /\ UNCHANGED <<file, torn, world, issued, granted, seen, gone, todo, revoked>>

(* A worker that was itself found stale is refused. *)
Reconciled(p) ==
  /\ At(p, "claims") /\ todo[p] = {}
  /\ IF p \in Worker \ gone[p]
       THEN Goto(p, "pick", None, None) /\ UNCHANGED <<seen, gone, todo>>
       ELSE Return(p)
  /\ UNCHANGED <<files, world, issued, granted, revoked, clobbered>>

(***************************************************************************)
(* claimJwcTeamTask                                                        *)
(***************************************************************************)
Eligible(w, t, tasks) ==
  /\ tasks[t].status = "pending"
  /\ tasks[t].owner \in {None, w}
  /\ w \in tasks[t].needs.roles /\ ~tasks[t].needs.blocked
  /\ \A d \in tasks[t].needs.deps : tasks[d].status = "completed"

(* The requested task or the first eligible one. *)
Pick(p) ==
  /\ At(p, "pick")
  /\ \/ \E t \in Task : Eligible(p, t, task) /\ Goto(p, "active", t, None) /\ UNCHANGED <<seen, gone, todo>>
     \/ (\E t \in Task : ~Eligible(p, t, task)) /\ Return(p)
  /\ UNCHANGED <<files, world, issued, granted, revoked, clobbered>>

(* getActiveClaimReason; an expired claim file is met by the open. *)
CheckActive(p) ==
  /\ At(p, "active")
  /\ IF file[at[p]] \in torn \/ file[at[p]] \notin expired \cup {None}
       THEN Return(p)
       ELSE Continue(p, "open")
  /\ UNCHANGED <<files, world, issued, granted, revoked, clobbered>>

NextToken(w) == [by |-> w, n |-> issued[w] + 1]

\* Mutant: writeJsonFile in place of writeJsonFileNoClobber.
OpenClaimAnyway(p) ==
  /\ At(p, "open")
  /\ file' = [file EXCEPT ![at[p]] = NextToken(p)]
  /\ torn' = torn \cup {NextToken(p)}
  /\ issued' = [issued EXCEPT ![p] = @ + 1]
  /\ Goto(p, "fill", at[p], NextToken(p)) /\ UNCHANGED <<seen, gone, todo>>
  /\ UNCHANGED <<task, world, granted, revoked, clobbered>>

OpenClaim(p) ==
  /\ At(p, "open")
  /\ IF file[at[p]] # None
       THEN Return(p) /\ UNCHANGED <<file, torn, issued>>
       ELSE /\ file' = [file EXCEPT ![at[p]] = NextToken(p)]
            /\ torn' = torn \cup {NextToken(p)}
            /\ issued' = [issued EXCEPT ![p] = @ + 1]
            /\ Goto(p, "fill", at[p], NextToken(p)) /\ UNCHANGED <<seen, gone, todo>>
  /\ UNCHANGED <<task, world, granted, revoked, clobbered>>

(* The write goes to the opened file, also when its name has gone. *)
FillClaim(p) ==
  /\ At(p, "fill")
  /\ torn' = torn \ {tok[p]}
  /\ Continue(p, "recheck")
  /\ UNCHANGED <<task, file, world, issued, granted, revoked, clobbered>>

(* The task is read again once the claim file is there. *)
Recheck(p) ==
  /\ At(p, "recheck")
  /\ Goto(p, IF Eligible(p, at[p], task) THEN "take" ELSE "undo", at[p], tok[p])
  /\ seen' = [seen EXCEPT ![p] = task]
  /\ UNCHANGED <<files, world, issued, granted, gone, todo, revoked, clobbered>>

Undo(p) ==
  /\ At(p, "undo")
  /\ RemoveClaim(at[p], tok[p])
  /\ Return(p)
  /\ UNCHANGED <<task, torn, world, issued, granted, revoked>>

Take(p) ==
  /\ At(p, "take")
  /\ WriteTask(p, at[p], Changed(p, "in_progress", p, tok[p]))
  /\ granted' = granted \cup {[task |-> at[p], token |-> tok[p]]}
  /\ Return(p)
  /\ UNCHANGED <<file, torn, world, issued, revoked>>

(***************************************************************************)
(* transitionJwcTeamTaskStatus and releaseJwcTeamTaskClaim, by the worker   *)
(* that was given the token.  Neither looks at leased_until.  A call that  *)
(* is refused changes nothing and is no step.                              *)
(***************************************************************************)
Accepted(p, g) ==
  /\ At(p, "idle") /\ g.token.by = p
  /\ task[g.task].claim = g.token

Transition(p, status) ==
  \E g \in granted :
    /\ Accepted(p, g) /\ task[g.task].status \notin Terminal
    /\ Goto(p, status, g.task, g.token)
    /\ seen' = [seen EXCEPT ![p] = task]
    /\ UNCHANGED <<files, world, issued, granted, gone, todo, revoked, clobbered>>

Finished(p) == granted \ {[task |-> at[p], token |-> tok[p]]}

WriteStatus(p, status) ==
  /\ At(p, status)
  /\ LET r == seen[p][at[p]]
     IN  WriteTask(p, at[p], Changed(p, status, r.owner, IF status \in Terminal THEN None ELSE r.claim))
  /\ IF status \in Terminal
       THEN granted' = Finished(p) /\ Continue(p, "settled")
       ELSE Return(p) /\ UNCHANGED granted
  /\ UNCHANGED <<file, torn, world, issued, revoked>>

RemoveSettled(p) ==
  /\ At(p, "settled")
  /\ RemoveClaim(at[p], tok[p])
  /\ Return(p)
  /\ UNCHANGED <<task, torn, world, issued, granted, revoked>>

Release(p) ==
  \E g \in granted :
    /\ Accepted(p, g)
    /\ Goto(p, "release", g.task, g.token)
    /\ seen' = [seen EXCEPT ![p] = task]
    /\ UNCHANGED <<files, world, issued, granted, gone, todo, revoked, clobbered>>

WriteReleased(p) ==
  /\ At(p, "release")
  /\ WriteTask(p, at[p], Changed(p, "pending", seen[p][at[p]].owner, None))
  /\ granted' = Finished(p)
  /\ Continue(p, "released")
  /\ UNCHANGED <<file, torn, world, issued, revoked>>

(* deleteIfOwned: read, compare, rename away. *)
CheckOwned(p) ==
  /\ At(p, "released")
  /\ IF file[at[p]] = tok[p] THEN Continue(p, "settled") ELSE Return(p)
  /\ UNCHANGED <<files, world, issued, granted, revoked, clobbered>>

(***************************************************************************)
(* updateJwcTeamTask: the whole record is written back, of a claimed task  *)
(* or not.                                                                 *)
(***************************************************************************)
ReadForUpdate(p) ==
  /\ At(p, "idle") /\ p \in Editor
  /\ \E t \in Task : Goto(p, "update", t, None)
  /\ seen' = [seen EXCEPT ![p] = task]
  /\ UNCHANGED <<files, world, issued, granted, gone, todo, revoked, clobbered>>

(* An empty list in the input is no list: depends_on and blocked_by can be   *)
(* replaced, never emptied.                                                  *)
MayBecome(old, new) == (old.deps # {} => new.deps # {}) /\ (old.blocked => new.blocked)

Update(p) ==
  /\ At(p, "update")
  /\ LET r == seen[p][at[p]]
     IN  \E n \in {r.needs} \cup {e \in Edits : MayBecome(r.needs, e)} :
           WriteTask(p, at[p], [r EXCEPT !.needs = n])
  /\ Return(p)
  /\ UNCHANGED <<file, torn, world, issued, granted, revoked>>

(***************************************************************************)
(* Time and the workers' processes                                         *)
(***************************************************************************)
Expire(k) ==
  /\ k.n <= issued[k.by] /\ k \notin expired
  /\ expired' = expired \cup {k}
  /\ UNCHANGED <<files, stale, dead, issued, granted, local, revoked, clobbered>>

GoStale(w) ==
  /\ w \in dead \ stale
  /\ stale' = stale \cup {w}
  /\ UNCHANGED <<files, expired, dead, issued, granted, local, revoked, clobbered>>

Kill(w) ==
  /\ w \in Mortal \ dead
  /\ dead' = dead \cup {w}
  /\ granted' = {g \in granted : g.token.by # w}
  /\ Return(w)
  /\ UNCHANGED <<files, expired, stale, issued, revoked, clobbered>>

(***************************************************************************)
(* Specification                                                           *)
(***************************************************************************)
Steps(p) ==
  \/ ReadTasks(p) \/ LookAtClaim(p) \/ Revoke(p) \/ Requeue(p) \/ Reconciled(p)
  \/ Pick(p) \/ CheckActive(p) \/ OpenClaim(p) \/ FillClaim(p) \/ Recheck(p) \/ Undo(p) \/ Take(p)
  \/ \E status \in Targets : WriteStatus(p, status)
  \/ RemoveSettled(p) \/ WriteReleased(p) \/ CheckOwned(p) \/ Update(p)

Next ==
  \/ \E p \in Process : Reconcile(p) \/ Steps(p) \/ ReadForUpdate(p)
  \/ \E w \in Worker : (\E status \in Targets : Transition(w, status)) \/ Release(w)
  \/ \E k \in Token : Expire(k)
  \/ \E w \in Worker : GoStale(w) \/ Kill(w)

(* A call that runs goes on unless it is killed, the leader monitors again *)
(* and again, and the heartbeat of a dead worker gets old.  (Leases need   *)
(* not expire.)                                                            *)
Fairness ==
  /\ \A p \in Process : WF_vars(Steps(p))
  /\ \A p \in Leader : WF_vars(Reconcile(p))
  /\ \A w \in Mortal : WF_vars(GoStale(w))

Spec == Init /\ [][Next]_vars /\ Fairness

(***************************************************************************)
(* Properties                                                              *)
(***************************************************************************)
Records == [status : Status, owner : Worker \cup {None}, claim : Token \cup {None},
            needs : Needs]
Labels == {"idle", "tasks", "claims", "revoke", "requeue", "pick", "active", "open", "fill",
           "recheck", "undo", "take", "settled", "release", "released", "update"} \cup Targets

TypeOK ==
  /\ task \in [Task -> Records]
  /\ file \in [Task -> Token \cup {None}] /\ torn \subseteq Token
  /\ expired \subseteq Token /\ stale \subseteq Worker /\ dead \subseteq Worker
  /\ issued \in [Worker -> Nat]
  /\ granted \subseteq [task : Task, token : Token]
  /\ pc \in [Process -> Labels]
  /\ at \in [Process -> Task \cup {None}]
  /\ tok \in [Process -> Token \cup {None}]
  /\ seen \in [Process -> [Task -> Records]]
  /\ gone \in [Process -> SUBSET Worker] /\ todo \in [Process -> SUBSET Task]
  /\ revoked \subseteq Token /\ clobbered \subseteq Task

(* A record under a claim belongs to the claim's worker, and a task that is   *)
(* worked on is under a claim: recoveries, updates and late writers put back *)
(* whole records, never half of one.                                         *)
Fits(r) == /\ r.claim # None <=> r.status \in {"in_progress", "blocked"}
           /\ r.claim # None => r.owner = r.claim.by
RecordsFit == \A t \in Task : Fits(task[t]) /\ \A p \in Process : Fits(seen[p][t])

(* What a call is about to write or remove follows from what it has read.    *)
Making == {"fill", "recheck", "undo", "take"}
Finishing == {"release"} \cup Targets
Done == {"settled", "released"}
Grant(p) == [task |-> at[p], token |-> tok[p]]
CallFits(p) ==
  /\ pc[p] \in {"revoke", "requeue"} =>
       /\ at[p] \in Task /\ tok[p] \in Token
       /\ seen[p][at[p]].claim \in {None, tok[p]}
  /\ pc[p] = "requeue" => tok[p] \in revoked /\ seen[p][at[p]].status = "in_progress"
  /\ pc[p] \in {"active", "open", "update"} => at[p] \in Task
  /\ pc[p] \in {"pick", "active", "open"} => p \in Worker
  /\ p \in Worker /\ pc[p] \in {"tasks", "claims", "revoke", "requeue", "pick", "active", "open"}
       => issued[p] < MaxClaims[p]
  /\ pc[p] \in Making \cup Finishing \cup Done =>
       p \in Worker /\ at[p] \in Task /\ tok[p] \in Token /\ tok[p].by = p
  /\ pc[p] \in Making => tok[p].n = issued[p]
  /\ pc[p] \in Making \cup Done => Grant(p) \notin granted
  /\ pc[p] \in Finishing => seen[p][at[p]].claim = tok[p]
  /\ pc[p] = "take" => seen[p][at[p]].status = "pending"
CallsFit == \A p \in Process : CallFits(p)

(* A claim file that is being made is where its maker left it, and what the  *)
(* task needed as its maker has read it is still complete when the task is    *)
(* written.  (An edit may give a claimed task new dependencies, so nothing of *)
(* the kind holds of a task once it is claimed.)                              *)
FileFits(p) ==
  /\ at[p] \notin clobbered /\ pc[p] \in {"fill", "recheck", "take"} /\ tok[p] \notin revoked
       => file[at[p]] = tok[p]
  /\ pc[p] = "take" =>
       \A d \in seen[p][at[p]].needs.deps \ clobbered : task[d].status = "completed"
FilesFit == \A p \in Process : FileFits(p)

(* Unless a call has written or removed what it had not read, a task has at  *)
(* most one worker that was told it holds it and whose claim no recovery has *)
(* revoked; that worker's token is in the task and in the claim file, so that *)
(* it can finish and nobody else can claim.                                  *)
HolderFits(g) ==
  /\ g.token.n <= issued[g.token.by]
  /\ g.task \notin clobbered /\ g.token \notin revoked =>
       /\ task[g.task].claim = g.token
       /\ file[g.task] = g.token
       /\ \A h \in granted : h.task = g.task /\ h.token \notin revoked => h = g
HoldersFit == \A g \in granted : HolderFits(g)

ClaimsInv == TypeOK /\ RecordsFit /\ CallsFit /\ FilesFit /\ HoldersFit

Holds(w, t) ==
  \/ task[t].status = "in_progress" /\ task[t].claim # None /\ task[t].claim.by = w
  \/ task[t].status = "pending" /\ file[t] # None /\ file[t].by = w

(* A killed worker's claim does not stay: its task is pending again and has  *)
(* no claim file, wherever the worker or a recovery before has stopped,      *)
(* unless a claim file that a killed worker left without its contents makes  *)
(* every recovery throw.                                                     *)
DeadClaimGoes ==
  \A w \in Mortal : \A t \in Task :
    w \in dead /\ Holds(w, t)
      ~> ~Holds(w, t) \/ \E u \in Task : file[u] \in torn /\ file[u].by \in dead

\* The code does not keep these two (README, section 4).
(* team/SKILL.md: "expired task claims, stale heartbeat claims, and missing   *)
(* recorded worker panes are requeued instead of leaving work permanently    *)
(* `in_progress`".                                                           *)
StaleWorkRequeued ==
  \A w \in Worker : \A t \in Task :
    w \in dead /\ task[t].status = "in_progress" /\ task[t].owner = w
      ~> task[t].status # "in_progress"

(* team/SKILL.md: recover-stale-claims works "without modifying terminal task *)
(* records or completion evidence".                                          *)
TerminalKept ==
  \A t \in Task : \A p \in Process :
    task[t].status \in Terminal /\ pc[p] = "requeue" /\ pc'[p] # "requeue" => task'[t] = task[t]
RecoveryKeepsTerminal == [][TerminalKept]_vars
=============================================================================
