------------------------------ MODULE Subagents ------------------------------
(***************************************************************************)
(* Detached subagents that are paused, queued, resumed and cancelled: the   *)
(* subagent control plane of async/job-manager.ts, the runner that          *)
(* task/index.ts installs in it and the live handle of task/executor.ts.    *)
(*                                                                         *)
(* A subagent runs as one job after another, each resuming the session file *)
(* the former left; run k of subagent s is its k-th job.  Plain background  *)
(* jobs compete for the slots.  A cancelled job is "cancelling" until its   *)
(* promise settles.  completed, failed and cancelled records are "ended":   *)
(* all of them can be resumed with a message.                               *)
(***************************************************************************)
EXTENDS JobManager, SequencesExt, FiniteSetsExt

CONSTANTS Subagent,
          Bash,        \* other background jobs
          LauncherOf,  \* LauncherOf[s]: the agent that launched subagent s
          NoOwner,
          MaxRuns      \* bound of runs of one subagent

ASSUME SubagentsAssumption ==
  /\ IsFiniteSet(Subagent) /\ IsFiniteSet(Bash)
  /\ LauncherOf \in [Subagent -> Owner] /\ NoOwner \notin Owner
  /\ MaxRuns \in Nat \ {0}

VARIABLES run,        \* status of each run (AsyncJob.status, settled or not)
          runOwner,   \* AsyncJob.ownerId of each run
          rec,        \* SubagentRecord.status; "none" without a record
          current,    \* SubagentRecord.currentJobId
          handle,     \* #liveHandles: the run that registered one, or 0
          begun,      \* runs that have registered their live handle
          asked,      \* runs whose pauseRequested flag is set
          resumeQueue, \* #resumeQueue
          runner,     \* the agent whose TaskTool is #resumeRunner
          bash        \* status of the other jobs

subagentVars == <<run, runOwner, rec, current, handle, begun, asked, resumeQueue, runner, bash>>

JobStatus == {"none", "running", "cancelling", "paused", "ended"}

SubagentTypeOK ==
  /\ run \in [Subagent -> [1..MaxRuns -> JobStatus]]
  /\ runOwner \in [Subagent -> [1..MaxRuns -> Owner \union {NoOwner}]]
  /\ rec \in [Subagent -> {"none", "running", "paused", "queued", "ended"}]
  /\ current \in [Subagent -> 0..MaxRuns]
  /\ handle \in [Subagent -> 0..MaxRuns]
  /\ begun \subseteq Subagent \X (1..MaxRuns)
  /\ asked \subseteq Subagent \X (1..MaxRuns)
  /\ resumeQueue \in Seq(Subagent)
  /\ runner \in Owner \union {NoOwner}
  /\ bash \in [Bash -> {"none", "running", "cancelling", "ended"}]

SubagentInit ==
  /\ run = [s \in Subagent |-> [k \in 1..MaxRuns |-> "none"]]
  /\ runOwner = [s \in Subagent |-> [k \in 1..MaxRuns |-> NoOwner]]
  /\ rec = [s \in Subagent |-> "none"]
  /\ current = [s \in Subagent |-> 0]
  /\ handle = [s \in Subagent |-> 0]
  /\ begun = {} /\ asked = {}
  /\ resumeQueue = <<>>
  /\ runner = NoOwner
  /\ bash = [b \in Bash |-> "none"]

-----------------------------------------------------------------------------
\* getRunningJobs().length
Running(runs, others) ==
  Cardinality({p \in Subagent \X (1..MaxRuns) : runs[p[1]][p[2]] = "running"})
  + Cardinality({b \in Bash : others[b] = "running"})
Free(runs, others) == MaxRunning - Running(runs, others)
Unsettled(st) == st \in {"running", "cancelling"}

\* #startResume of some subagents, after the runs became runs and the records recs:
\* the runner registers a job of its own agent for each.
StartResume(subs, runs, recs) ==
  /\ run' = [s \in Subagent |->
               IF s \in subs THEN [runs[s] EXCEPT ![current[s] + 1] = "running"] ELSE runs[s]]
  /\ runOwner' = [s \in Subagent |->
               IF s \in subs THEN [runOwner[s] EXCEPT ![current[s] + 1] = runner] ELSE runOwner[s]]
  /\ current' = [s \in Subagent |-> IF s \in subs THEN current[s] + 1 ELSE current[s]]
  /\ rec' = [s \in Subagent |-> IF s \in subs THEN "running" ELSE recs[s]]

\* Mutant: a settle starts every queued resume.
DrainWholeQueue(runs, recs, others) ==
  /\ resumeQueue' = <<>>
  /\ StartResume({s \in ToSet(resumeQueue) : recs[s] = "queued"}, runs, recs)

\* #drainResumeQueue: the first entries whose record still is queued, one per free slot.
DrainResumeQueue(runs, recs, others) ==
  LET waiting(n) == {i \in 1..n : recs[resumeQueue[i]] = "queued"}
      taken == Min({n \in 0..Len(resumeQueue) :
                      n = Len(resumeQueue) \/ Cardinality(waiting(n)) >= Free(runs, others)})
  IN /\ resumeQueue' = SubSeq(resumeQueue, taken + 1, Len(resumeQueue))
     /\ StartResume({resumeQueue[i] : i \in waiting(taken)}, runs, recs)

-----------------------------------------------------------------------------
\* The task tool of agent o begins: its runner replaces the former one.
SetResumeRunner(o) ==
  /\ runner # o
  /\ runner' = o
  /\ UNCHANGED <<run, runOwner, rec, current, handle, begun, asked, resumeQueue, bash>>

\* Launch: the job, the resume descriptor and the record in one piece.
Launch(s) ==
  /\ current[s] = 0 /\ runner # NoOwner
  /\ Free(run, bash) > 0
  /\ run' = [run EXCEPT ![s][1] = "running"]
  /\ runOwner' = [runOwner EXCEPT ![s][1] = LauncherOf[s]]
  /\ current' = [current EXCEPT ![s] = 1]
  /\ rec' = [rec EXCEPT ![s] = "running"]
  /\ UNCHANGED <<handle, begun, asked, resumeQueue, runner, bash>>

\* The executor has created the session of the run / is done with it, whatever came.
RegisterLiveHandle(s, k) ==
  /\ Unsettled(run[s][k]) /\ <<s, k>> \notin begun
  /\ begun' = begun \union {<<s, k>>}
  /\ handle' = [handle EXCEPT ![s] = k]
  /\ UNCHANGED <<run, runOwner, rec, current, asked, resumeQueue, runner, bash>>
RemoveLiveHandle(s, k) ==
  /\ Unsettled(run[s][k]) /\ <<s, k>> \in begun /\ handle[s] # 0
  /\ handle' = [handle EXCEPT ![s] = 0]
  /\ UNCHANGED <<run, runOwner, rec, current, begun, asked, resumeQueue, runner, bash>>

\* pauseSubagent: only a flag the run looks at between two turns.
PauseSubagent(s) ==
  /\ rec[s] = "running" /\ handle[s] # 0
  /\ asked' = asked \union {<<s, handle[s]>>}
  /\ UNCHANGED <<run, runOwner, rec, current, handle, begun, resumeQueue, runner, bash>>

\* #recordByJobId leads to the record of s.
Recorded(s, k) == rec[s] # "none" /\ current[s] = k
MarkRecord(s, k, st) == IF Recorded(s, k) THEN [rec EXCEPT ![s] = st] ELSE rec
DropHandle(s, k) == IF Recorded(s, k) THEN [handle EXCEPT ![s] = 0] ELSE handle

\* The three ends of a run, after the executor has removed its handle; completed wins
\* over a late pause.
SettlePausedRun(s, k) ==
  /\ run[s][k] = "running" /\ <<s, k>> \in asked /\ handle[s] # k
  /\ DrainResumeQueue([run EXCEPT ![s][k] = "paused"], MarkRecord(s, k, "paused"), bash)
  /\ handle' = DropHandle(s, k)
  /\ UNCHANGED <<begun, asked, runner, bash>>
SettleCompletedRun(s, k) ==
  /\ run[s][k] = "running" /\ handle[s] # k
  /\ DrainResumeQueue([run EXCEPT ![s][k] = "ended"], MarkRecord(s, k, "ended"), bash)
  /\ handle' = DropHandle(s, k)
  /\ UNCHANGED <<begun, asked, runner, bash>>

\* Mutant: the end of a cancelled run does not look at the queue.
SettleCancelledQuietly(s, k) ==
  /\ run[s][k] = "cancelling" /\ handle[s] # k
  /\ run' = [run EXCEPT ![s][k] = "ended"]
  /\ rec' = MarkRecord(s, k, "ended")
  /\ handle' = DropHandle(s, k)
  /\ UNCHANGED <<runOwner, current, resumeQueue, begun, asked, runner, bash>>

SettleCancelledRun(s, k) ==
  /\ run[s][k] = "cancelling" /\ handle[s] # k
  /\ DrainResumeQueue([run EXCEPT ![s][k] = "ended"], MarkRecord(s, k, "ended"), bash)
  /\ handle' = DropHandle(s, k)
  /\ UNCHANGED <<begun, asked, runner, bash>>

-----------------------------------------------------------------------------
\* resumeSubagent with a free slot, and without one.
Resumable(s) == rec[s] \in {"paused", "ended"} /\ current[s] < MaxRuns
ResumeNow(s) ==
  /\ Resumable(s) /\ Free(run, bash) > 0
  /\ StartResume({s}, run, rec)
  /\ UNCHANGED <<handle, begun, asked, resumeQueue, runner, bash>>
ResumeQueued(s) ==
  /\ Resumable(s) /\ Free(run, bash) <= 0
  /\ rec' = [rec EXCEPT ![s] = "queued"]
  /\ resumeQueue' = Append(resumeQueue, s)
  /\ UNCHANGED <<run, runOwner, current, handle, begun, asked, runner, bash>>

\* Mutant: a cancelled subagent counts as ended before its run has settled.
CancelRunningAtOnce(s) ==
  /\ rec[s] = "running" /\ run[s][current[s]] = "running"
  /\ runOwner[s][current[s]] = LauncherOf[s]
  /\ run' = [run EXCEPT ![s][current[s]] = "cancelling"]
  /\ rec' = [rec EXCEPT ![s] = "ended"]
  /\ UNCHANGED <<runOwner, current, handle, begun, asked, resumeQueue, runner, bash>>

\* cancelSubagent in the three states of the record; cancel(currentJobId) finds the
\* job only if it is the owner's.
CancelRunning(s) ==
  /\ rec[s] = "running" /\ run[s][current[s]] = "running"
  /\ runOwner[s][current[s]] = LauncherOf[s]
  /\ run' = [run EXCEPT ![s][current[s]] = "cancelling"]
  /\ UNCHANGED <<runOwner, rec, current, handle, begun, asked, resumeQueue, runner, bash>>
CancelPaused(s) ==
  /\ rec[s] = "paused"
  /\ DrainResumeQueue([run EXCEPT ![s][current[s]] = IF @ = "paused" THEN "ended" ELSE @],
                      [rec EXCEPT ![s] = "ended"], bash)
  /\ handle' = [handle EXCEPT ![s] = 0]
  /\ UNCHANGED <<begun, asked, runner, bash>>

\* Mutant: the entry of a cancelled resume stays in the queue.
CancelQueuedKeepsEntry(s) ==
  /\ rec[s] = "queued"
  /\ rec' = [rec EXCEPT ![s] = "ended"]
  /\ UNCHANGED <<run, runOwner, current, handle, begun, asked, resumeQueue, runner, bash>>

CancelQueued(s) ==
  /\ rec[s] = "queued"
  /\ rec' = [rec EXCEPT ![s] = "ended"]
  /\ resumeQueue' = RemoveFirst(resumeQueue, s)
  /\ UNCHANGED <<run, runOwner, current, handle, begun, asked, runner, bash>>

\* cancelOwnerForReplacement: the records of o are purged and its jobs cancelled.
CancelOwner(o) ==
  LET mine == {s \in Subagent : LauncherOf[s] = o}
  IN /\ rec' = [s \in Subagent |-> IF s \in mine THEN "none" ELSE rec[s]]
     /\ handle' = [s \in Subagent |-> IF s \in mine /\ rec[s] # "none" THEN 0 ELSE handle[s]]
     /\ resumeQueue' = Filter(resumeQueue, Subagent \ mine)
     /\ run' = [s \in Subagent |-> [k \in 1..MaxRuns |->
                  IF run[s][k] = "running" /\ runOwner[s][k] = o THEN "cancelling" ELSE run[s][k]]]
     /\ UNCHANGED <<runOwner, current, begun, asked, runner, bash>>

-----------------------------------------------------------------------------
BashStart(b) ==
  /\ bash[b] = "none" /\ Free(run, bash) > 0
  /\ bash' = [bash EXCEPT ![b] = "running"]
  /\ UNCHANGED <<run, runOwner, rec, current, handle, begun, asked, resumeQueue, runner>>
BashCancel(b) ==
  /\ bash[b] = "running"
  /\ bash' = [bash EXCEPT ![b] = "cancelling"]
  /\ UNCHANGED <<run, runOwner, rec, current, handle, begun, asked, resumeQueue, runner>>
BashSettle(b) ==
  /\ Unsettled(bash[b])
  /\ bash' = [bash EXCEPT ![b] = "ended"]
  /\ DrainResumeQueue(run, rec, bash')
  /\ UNCHANGED <<handle, begun, asked, runner>>

SettleRun(s, k) == SettlePausedRun(s, k) \/ SettleCompletedRun(s, k) \/ SettleCancelledRun(s, k)
SubagentNext ==
  \/ \E o \in Owner : SetResumeRunner(o) \/ CancelOwner(o)
  \/ \E s \in Subagent :
       \/ Launch(s) \/ PauseSubagent(s) \/ ResumeNow(s) \/ ResumeQueued(s)
       \/ CancelRunning(s) \/ CancelPaused(s) \/ CancelQueued(s)
       \/ \E k \in 1..MaxRuns : RegisterLiveHandle(s, k) \/ RemoveLiveHandle(s, k) \/ SettleRun(s, k)
  \/ \E b \in Bash : BashStart(b) \/ BashCancel(b) \/ BashSettle(b)

SubagentSpec == SubagentInit /\ [][SubagentNext]_subagentVars

\* Every job ends: tasks have a turn limit, commands a timeout, aborts are honoured.
FairSubagentSpec ==
  /\ SubagentSpec
  /\ \A s \in Subagent, k \in 1..MaxRuns : WF_subagentVars(RemoveLiveHandle(s, k)) /\ WF_subagentVars(SettleRun(s, k))
  /\ \A b \in Bash : WF_subagentVars(BashSettle(b))

-----------------------------------------------------------------------------
(* Two runs of one subagent never overlap: both would write its session      *)
(* file.  A cancelled run goes on until it has noticed.                      *)
OneRunPerSubagent ==
  \A s \in Subagent, j, k \in 1..MaxRuns :
    Unsettled(run[s][j]) /\ Unsettled(run[s][k]) => j = k

(* Record, current job, live handle and queue tell the same story.           *)
RecordsAgree ==
  \A s \in Subagent :
    /\ rec[s] = "running" => current[s] # 0 /\ Unsettled(run[s][current[s]])
    /\ rec[s] = "paused" => run[s][current[s]] = "paused"
    /\ rec[s] \in {"queued", "ended"} => \A k \in 1..MaxRuns : ~Unsettled(run[s][k])
    /\ Cardinality({i \in DOMAIN resumeQueue : resumeQueue[i] = s}) = IF rec[s] = "queued" THEN 1 ELSE 0
    /\ handle[s] # 0 => handle[s] = current[s] /\ Unsettled(run[s][handle[s]])

(* The types of the manager's state, and the agreement of its parts. *)
RecordsInv == SubagentTypeOK /\ RecordsAgree

(* No resume waits while a slot is free, but for the moments in which a      *)
(* cancelled job has given its slot up and not settled yet.                  *)
SlotsNotIdle ==
  resumeQueue # <<>> /\ Free(run, bash) > 0 =>
    \/ \E s \in Subagent, k \in 1..MaxRuns : run[s][k] = "cancelling"
    \/ \E b \in Bash : bash[b] = "cancelling"

(* The limit of running jobs holds although a settle starts queued resumes.  *)
WithinLimit == Running(run, bash) <= MaxRunning

(* Slots are neither exceeded nor left idle. *)
SlotsInv == WithinLimit /\ SlotsNotIdle

(* A queued resume is started or cancelled, if the jobs end and finitely     *)
(* many others compete for the slots.                                        *)
QueuedResumesEnd == \A s \in Subagent : rec[s] = "queued" ~> rec[s] # "queued"

(* A running subagent can be cancelled by the agent whose record it is.      *)
OwnerCanCancel ==
  \A s \in Subagent :
    rec[s] = "running" /\ run[s][current[s]] = "running" => runOwner[s][current[s]] = LauncherOf[s]
=============================================================================
