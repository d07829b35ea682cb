# Formal models of jawcode's harness and agent runtime

TLA+ models of the parts of this repository whose correctness depends on the
order in which processes, callbacks and file operations happen, the TLC
configurations that check them on small instances, and TLAPS proofs of what
matters most for every size.  Paths below are relative to
`src/packages/coding-agent/src/` unless they begin with another package.

## 1. The system

jawcode (`jwc`) is a coding agent: a Bun/TypeScript monorepo with a few Rust
crates and a Python issue bot.  A *harness* session runs an agent for a long
time in a detached process, the **runtime owner**; short-lived `jwc harness`
commands find the owner through files in the session directory and talk to it
over a Unix socket.  Inside the agent, an **agent loop** streams model answers
and executes batches of tool calls, and an **async job manager** runs subagents
and shell jobs in the background and delivers their results later.

### Inventory

| component | state it keeps | operations | interacts by | what is hard | what makes it correct |
|---|---|---|---|---|---|
| mutation lock (`harness-control-plane/session-lease.ts`) | lock directory with one token file | acquire with retries, recover a stale lock, release | file system calls of several processes | a recovery racing a fresh lock; kills between two calls; pid reuse | mutual exclusion; nobody's token is removed while its process runs; calls end |
| session lease (same file) | `lease.json`: owner, pid, epoch, expiry | acquire, heartbeat, release, reap | runs inside the lock; read by every command | read-decide-write over awaits; expiry against life of the process; takeover | single owner; epoch fences takeovers; a dead owner's lease goes |
| lease garbage collector (`gc-adapter.ts`) | none | prune | reads without the lock, reaps with what it read | the reading is stale | never reaps a running owner |
| runtime owner (`owner.ts`) and control endpoint (`control-endpoint.ts`) | lease epoch, cursor, server, timer, socket path, `events.jsonl` | start, heartbeat, emit, verbs, stop | socket requests, RPC frames, lease, files | three callers of `stop()`, requests during start and stop, emits across awaits | only the lease holder serves and writes; a stopped owner lets go |
| session state (`storage.ts`, `state-machine.ts`, `operate.ts`, `finalize.ts`) | `state.json`, receipts | submit, observe, operate, validate, finalize, recover, retire | handlers of one owner interleave at awaits | read-modify-write of the whole file | transitions of the table; nothing is un-retired |
| async jobs (`async/job-manager.ts`) | jobs, subagent records, delivery queue, suppressions, tombstones, timers | register, cancel, pause, resume, acknowledge, deliver with retries, evict, dispose | promises and timers of one process | settle against cancel, eviction, id reuse and delivery retries | a result is delivered at most once and never after it was acknowledged; phases happen once |
| subagents (`async/job-manager.ts`, `task/index.ts`, `task/executor.ts`) | record, current job, live handle, resume queue, the one resume runner | launch, pause, resume, queue, cancel, purge | the job manager's settle callbacks; sessions on disk | a resume while the cancelled run still winds down; whose closure the runner is; who looks at the queue | one run per subagent; record, job and queue agree; queued resumes get their slot |
| yield queue (`session/yield-queue.ts`, `session/agent-session.ts`) | staged entries, pending-flush flag, post-prompt tasks, follow-ups | enqueue, idle flush, flush before a yield, abort, replace the transcript | callbacks of the job manager; hooks of the agent loop | results arriving around the end of a turn, an abort or a replacement | every result reaches the transcript it belongs to, once |
| agent loop (`packages/agent/src/agent-loop.ts`, `agent.ts`) | messages, tool calls and their promises, steering and follow-up queues, the active run | prompt, continue, steer, follow up, abort, forceAbort, tool batch | promises, abort signals, the stream of events between a loop and its reader | shared and exclusive tools, steering during a batch, an abandoned run beside its successor | one result per call, exclusivity, no message lost or shown twice, a stale run changes nothing |
| file lock (`config/file-lock.ts`, `file-lock-gc.ts`) | lock directory with an info file | acquire with retries, release, reap a stale lock, prune | file system calls of several processes | staleness by pid, or by age before an owner is named; verify-then-remove; kills between two calls | a running owner keeps its lock; a dead one's goes; nothing is left behind |
| team runtime (`jwc-runtime/team-runtime.ts`, `state-writer.ts`) | a file per task, a claim file per claimed task, heartbeats | claim, transition, release, update, recover stale claims | `jwc team` commands of workers and leader over one directory, without a lock | whole records written back from old readings; a claim file made in two steps; kills and late workers around recoveries | a task has one holder, who can finish it; a dead worker's claim goes; finished work stays |
| goal and orchestrate runtimes (`jwc-runtime/*`) | goal and phase files | complete, advance | files | concurrent commands | transitions of the table |
| gate and request brokers (`modes/shared/agent-wire/*`) | pending requests | open, answer, time out, abort | messages of a client | late answers | one outcome per request |
| notifications daemon (`notifications/*`) | daemon lease, transport state | own, deliver, retry | files and a chat service | duplicate delivery | one daemon |
| auth storage (`packages/ai/src/auth-storage.ts`) | credentials, rate-limit blocks | select, refresh, block | files, services | refresh races | a token is refreshed once |
| robojwc (`python/robojwc`) | SQLite event table; issues in flight, slots, tasks, cancel hooks | receive, claim, put back, run, cancel, replay, stop, restart | asyncio tasks, worker threads, agent processes, operators' commands | threads outlive cancelled tasks; a cancellation around the arming of its hook; stop with runs under way; death and restart | one run per issue and per slot; no event stranded, overtaken or marked wrongly; every event is handled |
| providers, TUI, editing tools, native crates, statistics | | | | wire formats, text and rendering | out of scope |

## 2. Plan

Order: what other parts rely on comes first.

1. `MutationLock`, `SessionLease`, `SingleOwnerLease` - the lock and the lease, with proofs. *Done.*
2. `RuntimeOwner` - the owner's life over an atomic lease, with proofs. *Done.*
3. `AsyncJobs`, `Subagents`, `YieldQueue` - background work and the way of its results into the
   transcript. *Done, with proofs.*
4. `ToolBatch`, `AgentLoop` - the agent loop's batches (exclusive and shared tools, one result per
   call, steering) and its runs, overlapping after `forceAbort`. *Done, with proofs.*
5. `FileLock` - the configuration lock and its collector, with proofs. *Done.*
6. `WorkerPool` - the issue bot's queue and workers, with proofs. *Done.*
7. `TeamClaims` - claims, transitions and recovery of the team runtime's tasks, with proofs. *Done.*
8. `OwnerState` - `state.json` under the owner's concurrent handlers; `OperateLoop` - the retry budget.
9. `AuthRefresh` - single-flight refresh and rate-limit blocks of the credentials; then the brokers
   and the notification daemon.

Composition: `SessionLease` extends `MutationLock` and lifts its steps;
`SessionLease` refines `SingleOwnerLease`, and `RuntimeOwner` uses the lease as
atomically as that allows.  `AsyncJobs`, `Subagents` and `YieldQueue` are three
views of one job manager, each with the others' part reduced to an action
(a delivery handed over in `AsyncJobs` is `Enqueue` in `YieldQueue`).
`AgentLoop` extends `ToolBatch` and lifts the steps of a batch; the turns that
`YieldQueue` sees from the session are `AgentLoop`'s runs from inside.  An
at-most-once delivery above `AsyncJobs` and `YieldQueue` together is the next
abstract specification to state.

## 3. What is modelled

`MutationLock` models `withLeaseMutationLock` one file system call per action:
`Create` is the rename of the prepared directory, `ReadDir`, `ReadInfo`,
`RemoveToken`, `RemoveDir` are the recovery, `ReadLegacy` and `Unlink` that of a
lock file of an older version (where there is none, its writer's process is gone too),
`ReleaseToken` and `ReleaseDir` the release,
`Kill`, `ReusePid`, `ForeignExit` the environment.  A *caller* is a chain of
calls in one process; two callers may share a process.

`SessionLease` extends it with the bodies that run inside the lock.  Each body
is a reading followed by a separate write or removal, so that kills and other
processes' steps fall in between.  `LockStep` lifts the lock's own steps.  The
token hash, the endpoint record and all timestamps but the expiry are left out.

`SingleOwnerLease` is the abstract register: granted, refreshed, taken over
from the dead, dropped.  `SessionLease` implements it with the lease file as
the register.

`RuntimeOwner` takes the lease operations as atomic - what `SessionLease`
shows - and models the order of `start()`, `stop()` (per caller), heartbeats
and `#emit`, with every await as a place where other actions run.  `serving` is
whether the control server accepts connections, `requests` are the connections it
has accepted and not answered: `close()` stops the one and waits for the other, in
the step `drain` of the `stop()` call that closed it.  The verbs' effect on
`state.json` is not in it.

`AsyncJobs` models `AsyncJobManager` object by object: a *run* is one
`AsyncJob`, `jobs` the map from the ids, which are reused, to runs, `queue` and
`inFlight` the deliveries, `loop` the delivery loop at its awaits, `drains`
those of disposed owners, `timers` the eviction timers (which may fire at any
moment, in any order).  `PollStart` and `PollEnd` are the two ends of a poll of
the job tool with the watch in between.  Output capture, progress and
tombstones are left out.

`Subagents` keeps of the manager what pausing and resuming touches: the runs of
each subagent, its record, live handle, pause flag, and the resume queue;
`StartResume` and `DrainResumeQueue` are called inside the actions that free a
slot, as the code calls them.  `Launch`, `SetResumeRunner` stand for the task
tool, `RegisterLiveHandle` and `RemoveLiveHandle` for the executor.  `JobManager` holds what
`AsyncJobs` and `Subagents` share: the agents, the limit of running jobs and the filter
of a queue.

`YieldQueue` follows each result from its job to the transcript.  `turn` is where
the active run of the agent is: `loop`, or `yielding` between `onBeforeYield` and the
poll of the follow-ups.  The session counts as streaming longer than that
(`SessionStreams`), from the start of a `prompt()` to its `finally` block: `setups`
are the prompts that have not come to their run, `leaving` those whose run is over,
`inFlight` the session's count of them.  `tasks` and `resume` are the post-prompt tasks:
idle flushes, and a continuation that `EndPrompt` (`#endInFlight`) scheduled for
stranded follow-ups (several at once are one).  `BeginAbort` is the start of `abort()`, for itself or
in `newSession` and `clearContext`: there, and only there, tasks are cancelled; the
promises it then awaits are in `awaits`, and until they have come (`AbortEnds`)
prompts end, schedule continuations and begin new runs that it does not await.  Such a
run outlives the replacement, since `reset()` clears the transcript and the queue but
stops no run; `late` tells it apart.  A message a run has taken is `taken` until its
`message_end`.  Left out: messages of the user, retries, compaction, timed aborts,
handoff, MCP notifications and `dispose()`.

`ToolBatch` models `executeToolCalls`: `task[r][i]` is the promise of call `i`
(`waiting` for the promises `Awaits` names, `running` the tool, `checking` for
steering after it), `check` the one steering check that all calls of a batch
share, `steering` what it took.  `AgentLoop` has the loop of a run with its
polls (`InitialPoll`, `Settle`, `YieldPoll`, `TakeFollowUps`) and ways out
(`Pause`, `Finish`, `AnswerBroken`, `Throw`), the stream in between (`events`),
and the reader of it that builds the transcript (`ReadMessage`, `ReadEnd`,
`ReadFailure`, `Finally`).  `ForceAbort` is taken only after `Abort`: its only
caller (`session/agent-session.ts`) calls it for a run that does not end.  A
reader that finds another run active `Leave`s; what the abandoned loop still
does is then not followed, since it polls nothing and nobody reads its events.
That a steering check rejects is left out: the queue it reads cannot.  So are
`reset()`, edits of the queues, harmony retries and the Cursor buffer, and a listener
that throws into the reader (`#emit`): the program's only listener is the session's,
an async function.

`FileLock` models `withFileLock` one file system call per action: `Mkdir`,
`OpenInfo`, `FillInfo` and `StatOwn` acquire, `Probe`, `Verify`, `Unlink` and
`Rmdir` reap a stale lock, `VerifyOwn`, `RelUnlink` and `RelRmdir` release,
`Prune` is the collector.  A directory is identified by what
`sameStatToken` compares (`gen`, `mods`).  The comment of
`removeFileLockDirForGc` admits a window between a verification and the removal;
`window` remembers that a removal has hit it, the behaviour stops there,
and every property holds up to it.  The window is wider than that comment: it also
takes in an old directory without a name whose maker is slow but alive, which reaping
by age removes.  Pids are not reused here, and the liveness probe of a readable,
positive pid is always definite.  Errors of the disk are left out; a call whose
`writeLockInfo` fails after its `mkdir` leaves a nameless directory until its age
frees it.

`WorkerPool` models the pool of `queue.py` with the event table of `db.py`:
`row` is the state column, `disp` the dispatcher at its awaits, `run` the
`_run_event` task of an event, `thread` its worker thread and `proc` the agent
process, known by the slot as whose user it runs.  `CancelEvent` is the
operator's, `Interrupt` that of `stop()`; both run the event's hook, if
`ArmCheck` and `Arm` have stored it, and a cancelled task leaves its thread
running.  `Die` and `Exit` end the process, whose agents live on until `Start`
reaps the slots.  `Retriage` and `Requeue` are the operator's commands, which write to the
table without waking anybody, also while the server is down; the first manual triage
of an issue makes the row.  Modelled is the variant with a pool of slots, which needs
root; the semaphore used otherwise, attempt counts, rate limits, git and GitHub
are left out.  So are a statement of sqlite that fails, which would end the dispatch
loop for good (`queue.py`, "dispatch loop crashed"), and rows stored as skipped.

`TeamClaims` models the calls of `jwc team` on tasks, one read, write or removal
of a file per action.  `task` and `file` are the task and claim files, `torn` the
claim files that are open and not yet written (`OpenClaim`, `FillClaim`:
`createJsonNoClobber`).  `Reconcile` to `Reconciled` are
`reconcileJwcTeamStaleClaims`, which begins every claim and every monitor;
`seen[p]` are the task files as the call has read them and `gone[p]` the workers
it has found not live; then follow claim (`Pick` to `Take`), transition, release and
`updateJwcTeamTask`.  `Kill` ends a worker in any of these places, `GoStale` ages
the heartbeat of a dead one (that of a living worker may be late in any recovery,
`Slow`), and `Expire` passes a lease, which only
recoveries and `getActiveClaimReason` look at.  `needs` are what a record says of
who may claim its task and when: the workers that its roles fit, `depends_on` and
`blocked_by`.  `updateJwcTeamTask` changes them, of a claimed task as well, so that a held
task may come to depend on one that is not complete; what holds is that a task is
*taken* when what it was read to need is complete.  The assignee follows the owner and
no decision looks at the lane; a reading of all task files is one step, and errors of
the disk other than a torn claim file are left out.  So are creating and pruning tasks and workers, mailbox, notifications,
integration, phases and shutdown.  Two histories tell what the code does not
keep apart: `revoked` are the claims a recovery has removed, and `clobbered` the
tasks that some write or removal has hit in a state its call had not read.

## 4. Runs

Every `*.cfg` is a run of the `MC*` module it is named after; `MCSubagentsOwner`
belongs to `MCSubagents` and `MCPoolStop` to `MCWorkerPool`.  The invariants named `...Inv` join a module's types with what
its records and variables must agree on.

| run | instance | what it shows |
|---|---|---|
| `mutation_lock` | 3 callers in 2 processes, a legacy lock of a third | critical sections exclude each other; a holder finds its own token; a token goes only by its owner or after its death, and a dead one's does go; calls end |
| `session_lease` | 2 owners, a collector, time 0..1, 2 epochs | no critical section acts on a reading that is out of date, and takeovers and reaps hit only dead owners' leases (both in `LeaseInv`); a running owner keeps its lease; a dead owner's lease is taken over or reaped; the file implements the single-owner register, whose takeovers take the next epoch |
| `runtime_owner` | 2 owners, a request, 2 epochs, lock timeouts | connections are accepted under the lease only; one that was accepted outlives the lease only when two `stop()` calls overlap; the lease stays until `stop()` |
| `async_jobs` | a job of each of 2 agents, both disposed, a poll, a failing delivery | one place per result; a queued delivery always has a loop; no result is lost between watch, delivery and report; a reported one is not delivered; every other one is; hooks run once |
| `subagents` | 2 agents' subagents, 2 runs each, a command, 1 slot | runs of a subagent never overlap; record, job, handle and queue agree; no slot idles before a queued resume, except while a cancelled job settles; queued resumes start or are cancelled |
| `yield_queue` | 2 results, 2 overlapping prompts, aborts and a replacement, interruptions until the environment is calm | nothing from before a cleared context enters it, unless a run that began while the clear waited holds it; what an idle flush is scheduled for arrives |
| `agent_loop` | 2 runs, 2 messages of the user, a batch of 2 calls, shared and exclusive in any order | exclusive calls run alone; every call gets one result, and a tool's own unless the user steered; no message is lost, repeated or overtaken; an abandoned run leaves no trace in its successor's transcript; the agent becomes idle again, and who waits for that is answered when the run is over, not before |
| `file_lock` | 2 callers and a collector, kills of one caller and the collector, 4 directories | the holder keeps its lock; only dead owners' locks and nameless old ones are removed; a running process leaves nothing behind; a dead one's lock goes |
| `worker_pool` | 3 events of 2 issues, 2 slots, a replay, triage or cancel of one, one stop or death and a restart | tasks, threads and agents of one issue never overlap; a slot has one holder; rows and tasks agree; an issue's events run in order; the row tells what happened; every queued event is handled |
| `team_claims` | 2 tasks, the second in need of the first and of one worker's role, 2 workers with a claim each, one mortal, the other editing, a monitoring leader | records stay whole; unless a recovery revoked or a call clobbered, a task has one holder, whose token is in both files, and is taken when what it was read to need is complete; a killed worker's claim goes, wherever the worker or an earlier recovery has stopped, unless a torn claim file stops all recoveries |

The two other runs expect a violation (below).

Bounds.  `Retries`, `MaxNow`, `MaxEpoch`, `MaxCursor`, `MaxAttempts`, `MaxRuns`,
`MaxPrompts` and `MaxGen` cap counters that the code leaves open or sets far higher.  Two
processes are the least that race, and a third caller is needed for the lock
because a recovery concerns a former holder, a recoverer and a new holder.  In
`mutation_lock` two attempts let the retry loop go round: a recovery that fails is
followed by another attempt, which acquires or times out.  `session_lease` has the
lock's steps among its own and leaves it at one attempt.  Two epochs are
an owner and its successor.  Two runs make a resume overlap the run before it; a
cancelled entry in front of a good one takes two subagents, and the command
keeps the slot meanwhile.  In `yield_queue` two results make a batch, or one is held
by a run while the other waits; two prompts are one that winds down and one that begins
while an abort waits; a second replacement is the proof's matter.  In `agent_loop` two runs are an abandoned one and its
successor, two messages are enough to be reordered or repeated, and a batch of
two calls meets every pair of kinds; batches of any length are the proofs'
matter.  `MaxUnread` lets a loop go on only when its reader has caught up: the
events of a run keep their order, and a reader that lags shows nothing new.
Messages arriving while the model answers are taken to arrive when it has
answered, as nobody looks at the queues in between.  In `file_lock` two attempts
are one that reaps and one that acquires, and four directories let a lock be
reaped, made again and reaped.  In `worker_pool` two events of an issue are what
an in-flight issue puts back, the third competes for the second slot, and one
stop or death (`MaxDowns`) with one replay or triage (`MaxRequeues`) makes a row that the
restart must pick up; one event is in the table from the start (`Backlog`), the others
arrive.  In `team_claims` two workers make a claim that races another and
a recovery that meets a claim half made, half finished or half recovered; the leader
recovers beside them.  The one edit makes a task need what the second task needs, at
any moment before, during or after its claim.  Workers report completions only;
second claims, other reports, editors that are no workers and workers
whose heartbeat is late (`Slow`; an expired lease takes the same way) exceed what can
be explored together, and are the proof's matter.  Symmetry is used in `runtime_owner` only, a safety run.

Deadlock is checked for the mutation lock, the lease and the worker pool.  The other systems may come to
rest (all jobs have ended, all owners have stopped, `file_lock` has used up its
directories), so their runs switch it off.

Fairness.  Nothing is fair but what the program schedules itself.  A process
that is not killed takes its next step (`LockStep`, `Body`, `Leave`, the actions
of `start()` and `stop()`), since the awaits between are file system calls that
return.  The delivery loop wakes, a delivery's callback settles, a poll
times out (`AsyncJobs`); jobs settle after they are asked to, executors drop
their live handle in a `finally` (`Subagents`); the post-prompt tasks run, prompts come
to their run and to their end, and a run gets to its yield (`YieldQueue`; its liveness
property holds once the environment is *calm*, which it need not become).
In `AgentLoop` promises settle and models and tools answer or throw, for the
program as a whole: of two runs no particular one is owed a step.  In `FileLock`
a call goes on, somebody wants the file and time passes.  In `WorkerPool` the
dispatcher, the tasks, the threads and `stop()` each go on: a turn ends at its
hard timeout, a drain at its own, `asyncio.Lock` is fair, and
docker-compose's `restart: unless-stopped` starts the process again.  Users, kills,
clocks and cancellations owe nothing.  In `TeamClaims` a call that is not killed goes
on, the leader runs `jwc team monitor` again and again as its skill tells it, and a dead
worker's heartbeat gets old; leases need not expire and no worker need call.  One strong fairness: in `SessionLease` and in the lock's
run callers keep calling, as operators and heartbeats do; without it
nobody would be there to recover the lock.

### Where the code and its own statements part

Runs that expect a violation; each takes one statement of a comment, document or
test and reaches a state in which it fails.  PROJECT.json quotes the lines.

| run | statement | what happens |
|---|---|---|
| `subagents_owner` | cancel reaches a subagent in all states | a resume runs as a job of whoever used the task tool last |
| `pool_stop` | a task cancelled by `stop()` cannot spawn an agent afterwards | the task is cancelled, its worker thread is not, and it starts the agent after `stop()` has returned |

The modules state fourteen more that fail, without a run of their own; each shows
when it is added to a configuration of its module.

- `SoleWriter` (`RuntimeOwner`): only the lease holder appends events, but an emit
  that has passed its check appends after `stop()` has released.
- `OneOwnerAnswers` (`RuntimeOwner`): exactly one live owner answers, but of two
  overlapping `stop()` calls one waits in `close()` for a request that was accepted, the
  other finds no server and releases the lease; the successor then answers beside it.
- `RunningOwnerReachable` (`RuntimeOwner`): a living owner's endpoint is reachable,
  but a second `stop()` removes the successor's socket.
- `EnqueueIdleSchedules` (`YieldQueue`): enqueueing while idle schedules a flush, but
  after an abort in the flush's delay the pending flag stays set.
- `OldStaysOut` (`YieldQueue`): old work does not leak into a replacement
  transcript, but a staged result survives `newSession` and `branch` (a handoff clears
  the queue no more than they do).
- `NoRunOutlives` (`YieldQueue`): `abort()` is to "abort current operation and wait for
  agent to become idle", and `clearContext` to "clear active conversational/model
  context", but the aborted prompt's `finally`, or a new prompt, may begin a run while
  `abort()` still awaits; the transcript is replaced under that run, which brings what it
  holds into the new one.
- `WaitersAreAnswered` (`AgentLoop`): `await agent.waitForIdle()` waits "for completion"
  (`packages/agent/README.md`), but a run that begins between the end of another and its
  `finally` block overwrites `#runningPrompt`; the block then finds another run active
  and resolves nothing, so that who waited for the first waits for ever.
- `RefusesOnlyUnexpired` (`SessionLease`): the header of `session-lease.ts` lets a
  lease whose owner is dead *or expired* be taken over; an expired lease of a
  living process is refused.
- `CursorsIncrease` (`RuntimeOwner`): a successor reads the last cursor before it
  has the lease, so its cursors may repeat the former owner's.
- `AbandonedStaysOut` (`AsyncJobs`): eviction forgets the suppression of a result
  whose delivery outlasts the retention period.
- `EvictsEndedJobs` (`AsyncJobs`): the late settle of a cancelled run starts the
  eviction of the job that has its id now.
- `StagedIsDelivered` (`YieldQueue`): a result that arrives in the tail of a turn
  waits for the next prompt, though `prompts/tools/job.md` has results delivered
  automatically.
- `RecoveryKeepsTerminal` (`TeamClaims`): the team skill has a recovery leave
  terminal tasks alone, but it writes back the task as it has read it, over a
  completion in between.
- `StaleWorkRequeued` (`TeamClaims`): the team skill has stale claims requeued instead
  of leaving work `in_progress`, but a claim file whose writer died before it had
  written makes every recovery throw, also before it has come to another task.

Three more gaps have no statement to contradict.  A recovery requeues a task with
its owner, so that only the worker it was taken from can claim it again; and the
task of a dead worker that is `blocked` loses its claim file but stays claimed in
its record.  Two claims that both recover an expired claim file may remove each
other's fresh one: "allows only one worker to claim a task under concurrent claim
attempts" (`packages/coding-agent/test/jwc-runtime/team-runtime.test.ts`) holds up
to `clobbered`.  And between `_arm_cancel`'s check for an
earlier cancellation and its store of the hook (`python/robojwc/src/queue.py`) a
`cancel_event` finds no hook, and the run goes on to its end; only the row then
tells of the cancellation (`OutcomesAreEarned`).

## 5. Proofs

`SessionLease_proofs` first proves of the lock, for any number of callers, processes and retries
and any reuse of pids, that `LockInv` is an invariant and from it
`MutualExclusion`, `HolderKeepsToken` and
`TokenRemovedByOwnerOrAfterDeath`.  Mutual exclusion is not inductive alone: a
recovery is several calls long and removes a token it read some steps ago.  The
strengthening says that what a recovery is about to remove belongs to a caller
whose process is dead (`RecoveryTargetsDead`, with `KilledAgrees` tying the
callers' state to their processes'), and that the directory never holds two
tokens (`SingleToken`).  A token names its call, so a pid that is reused makes a
dead lock look alive, never the reverse.

The lease rests on it: `LeaseUsesLock` shows that every step of the
lease operations is a step of the lock or leaves its variables alone, so the
lock's theorems hold here; from mutual exclusion follows that nobody else's
write falls between a reading and the act on it (`LeaseNoLostUpdate`), and from
that `TakesOnlyFromDead`, `RunningOwnerKeepsLease`, `EpochFences` and the
refinement of `SingleOwnerLease` (`LeaseImplementsSingleOwner`).  Constants are
assumed to be what the modules' `ASSUME`s state, which TLC evaluates in each run.

`RuntimeOwner_proofs` proves `OwnerInv` and from it `RequestsHoldLease` and that two
owners answer together only while two `stop()` calls of one of them overlap, for any
number of owners, requests, emits and epochs.  That the holder keeps the lease until its
`stop()` has released it is not enough: three `stop()` calls may be under way, and the
server must be closed in all of them.  `StopClosesServer` says that they begin after
the server began to listen and that the first step of each closes it; `CloserWaits`
that where a request is left, the server is open or the call that closed it still
waits; `EmitsStamped` types the events.

`TeamClaims_proofs` proves `ClaimsInv` for any workers, leaders, editors, tasks,
dependencies and edits of them, and that two workers are told they hold one task only
after a revocation or a clobbering (`TeamOneHolder`).  No lock makes a call's reading stay true, so the invariant relates
each call to what it has *read* (`CallsFit`, `RecordsFit`): a write is backed by the
record the call has seen, or it clobbers.  `FilesFit` says that a claim file in the
making is still its maker's when the maker writes the task, and that what the maker has
read the task to need is complete then; from these `HoldersFit` is inductive, which
says nothing of dependencies, since an edit may add some to a held task.
`StepKeeps` is the one lemma about all steps;
`WritingKeeps` and `RemovingKeeps` specialise it to the two kinds of write.  The
dead worker's claim (`DeadClaimGoes`) is model-checked.

`AgentLoop_proofs` proves `ExclusiveRunsAlone` and `SkippedOnlyForSteering` for
batches of any length.  A call awaits only the last exclusive call before it, so the
invariant must say that everything before that one is done too (`OrderKept`);
`AwaitsSuffice` shows that what is awaited then suffices.  `StepsOfBatches`
reduces every step of the agent to a step of one batch or none.

Of the runs it proves `LoopInv`, `SteeringInOrder`, `MessageKept` and the safety half of
`WaitsEnd` (`WaitsEndInTime`), for any number of runs, messages and batches.  `AgentInv` has what they need: a run holds calls or
steering only while its tools run, an event bears the number of the run that emitted
it, the active run is the latest, and along queue, hands of the loop, events and
transcript the steering messages of a run are in the order they were sent
(`Ordered`, `Before`).  `Flow` is the one lemma about what the loop's steps do to that
order.  `MessageKept` counts the places of a message instead: `KeptInv` adds where
messages can be (`PlacesReady`: pending ones only before a turn, those of a steering
check only while a call waits and none was found before, none emitted behind the end
of a run, none in a run to come), and `Moves` is the one lemma for the loop's steps:
what leaves a queue is then held by the loop or its events, once.
`CallsArePaired` needs more than the states in which the model is asked: `PairsInv`
adds that at any time all the active run has been shown is paired but for the one
message whose batch is open, behind which come the results the batch has so far and
nothing else (`Open`, which `OpenBegins` when the model asks for tools, `OpenGrows` as
calls end and `OpenCloses` with the last result), that nothing follows the end of a
stream and a reader that closes has read it all, and, for the unpaired calls that
`forceAbort` leaves behind, that what precedes a run given up stays paired
(`PairedFront`).

`AsyncJobs_proofs` proves `DeliveryInv`, `QueueIsServed`, `ResultKept` and `AckSticks`
for any runs, agents, polls and failures; all follow from `JobsInv`.  That a result is
in one place is inductive only with the queue free of repetitions and of what is in
flight (`DeliveriesAgree`), that hooks fire once only with what the phases of an id
say of the run it leads to now (`HooksAgree`).  A result may disappear from the queue
when its id is suppressed or watched, so `AcksAgree` names for every suppressed id a
run that was reported or abandoned, and `WatchesAgree` for every watched id a poll
that tracks a run of that id.  `Moved` says what any of the loop, the settles, the
retries, the drains and the acknowledgements may do to the places; each of them is
shown to do no more, and the invariant is proved from it.

Its last part is about the other half of the manager, `Subagents`: both halves work on
queues, and the facts about them are proved once.  It proves
`RecordsInv`, `OneRunPerSubagent` and `SlotsInv` for any subagents, other jobs, agents,
slots and runs.
`SubagentsInv` adds to `RecordsInv` that only the *current* run of a subagent can be under
way, whatever its record says (a purged record leaves a cancelled run behind), and that
the queue holds exactly the queued subagents (`QueueTells`).  `DrainTakes` reads off
`#drainResumeQueue` that it starts as many of the first entries as there are slots, and
`DrainKeeps` is used by every step that ends in it; the slots are counted with
`SlotsFreed`, `SlotTaken` and `ResumesCounted`, and `SlotsKept` says what a step owes to
`SlotsInv`: a drained queue, a cancelled job that still has to settle, or no more free
slots than before.

`YieldQueue_proofs` proves `YieldInv` for any number of results, prompts and
generations: what was on its way when a context was cleared does not enter the next
one, but for what a late run holds.  The strengthening `ClearInv` says that nothing
that can still arrive has been cleared (`NothingCleared`), wherever it is.  For that a
`clearContext` must find nothing in a run it has waited for: only a run at work holds
results (`RunsHold`), and beside a clear that goes on, a run is awaited, or its promise
was dropped and the clear never ends, or it began late (`ClearWaits`).  A follow-up
carries queued results, each in one batch (`BatchesKept`), so that clearing the queue
clears them all.

`WorkerPool_proofs` proves `PoolInv`, `OneRunPerIssue`, `SlotsAreExclusive`,
`EventsInOrder` and `OutcomesAreEarned` for any events, issues and slots.  The parts
have different lives: a cancelled task leaves its thread, and a thread that died
leaves its agent.  `WorkInv` relates them pairwise: what each stage of the pool leaves
running (`StagesKept`), tasks and issues in flight (`TasksKept`), slots, their holders
and the free ones, counted (`SlotsKept`), agents, threads and the users they run as
(`AgentsKept`), hooks and cancellations (`SignalsKept`), and the rows of an issue in
the order they came (`OrderKept`).  That
slots are distinct users is an assumption that `SlotPool(range(2001, 2001 +
max_concurrency))` in `python/robojwc/src/queue.py` justifies.

`FileLock_proofs` proves `OwnershipInv` and from it `HolderKeepsLock`,
`MutualExclusion` and `NothingLeftBehind`, up to the window.  What makes it
inductive is who made a directory: only its maker names itself in it
(`InfoNamesMaker`), so whatever a process has observed of the directory that is
there names its maker or nobody (`SeenNamesMaker`); removals are after a dead owner
or a nameless lock (`RemovesFromDead`); and the maker finds what its own steps
left (`MakerFindsLock`).

Only model-checked: all liveness (out of the prover's reach).  The filter in
`JobManager` is written with places and cardinalities (`FilterTakes`), since the
provers know nothing of `SelectSeq`.

## 6. What is not modelled

Providers and wire formats, rendering, editing tools, native crates and
statistics are text and data transformation.  `state.json` and the operate loop,
the goal and orchestrate runtimes, the brokers, the notifications daemon
and auth storage hold protocol state and are in the plan above.  Of the modelled
parts, section 3 names what is left out of each.  The modules cover the
concurrent core, a small share of a repository most of whose lines are providers,
rendering, tools, tests and tables.
