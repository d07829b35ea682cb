------------------------------ MODULE YieldQueue ------------------------------
(***************************************************************************)
(* How the result of a background job reaches the transcript: the yield     *)
(* queue of session/yield-queue.ts as agent-session.ts drives it, the       *)
(* follow-up queue of agent.ts and the runs of agent-loop.ts.               *)
(*                                                                         *)
(* A result is staged in the yield queue when the job manager delivers it.  *)
(* A run flushes the queue before it yields, into follow-ups of the agent;  *)
(* an idle session flushes it from a task it schedules 1 ms ahead.  The     *)
(* session counts as streaming from the start of a prompt() to its finally  *)
(* block, which comes after the end of its run.                             *)
(*                                                                         *)
(* A generation of the transcript is replaced by a new session, a cleared   *)
(* context or a branch.  The first two await abort(), which cancels the     *)
(* tasks that wait and awaits the run and the continuation it found; what   *)
(* begins while it waits is neither cancelled nor awaited.  A run that goes *)
(* on over a reset of the agent is still its active one.                    *)
(*                                                                         *)
(* The jobs are the session's own.  Left out: messages of the user, retries *)
(* and compaction, abort() with a timeout, handoff and dispose(); a prompt  *)
(* that waits for a run which is superseded goes on when it can.            *)
(***************************************************************************)
EXTENDS Naturals, FiniteSets, Sequences

CONSTANTS Result,      \* background jobs, each with one result
          MaxGen,      \* bound of transcript generations
          MaxPrompts   \* bound of prompt() calls at one time

ASSUME YieldQueueAssumption == MaxGen \in Nat /\ MaxPrompts \in Nat

VARIABLES result,        \* where each result is
          since,         \* history: how the transcript was replaced from the start of
                         \* the job to the injection of its result
          polled,        \* results the job tool returned (#suppressedDeliveries)
          gen,           \* generations of the transcript so far
          followUps,     \* #followUpQueue: each message is a batch of results
          flushPending,  \* #idleFlushPending
          tasks,         \* idle flushes among #postPromptTasks
          resume,        \* a continuation is among them, on its way to continue()
          turn,          \* where the active run of the agent is
          streaming,     \* the agent's isStreaming
          prompted,      \* the run is that of a prompt(), not of a task
          setups,        \* prompt() calls that have not come to their run
          leaving,       \* prompt() calls with nothing but their finally ahead
          inFlight,      \* #promptInFlightCount
          aborting,      \* what is under way from its call of abort() on
          awaits,        \* what each of them awaits; "gone": a dropped promise
          late,          \* history: the run began while a clearContext waited
          calm           \* from here on nobody interrupts and no run fails

resultVars == <<result, since, polled>>
queueVars == <<followUps, flushPending>>
taskVars == <<tasks, resume>>
runVars == <<turn, streaming, prompted, late>>
promptVars == <<setups, leaving, inFlight>>
abortVars == <<aborting, awaits>>
vars == <<resultVars, gen, queueVars, taskVars, runVars, promptVars, abortVars, calm>>

Place == {"none", "running", "staged", "followUp", "taken", "injected", "lost", "dropped"}
Kinds == {"abort", "new", "clear"}

TypeOK ==
  /\ result \in [Result -> Place]
  /\ since \in [Result -> SUBSET {"clear", "lateClear", "other"}]
  /\ polled \subseteq Result /\ gen \in Nat
  /\ followUps \in Seq(SUBSET Result)
  /\ flushPending \in BOOLEAN /\ tasks \in Nat /\ resume \in BOOLEAN
  /\ turn \in {"idle", "loop", "yielding"}
  /\ {streaming, prompted, late, calm} \subseteq BOOLEAN
  /\ setups \in Nat /\ leaving \in Nat /\ inFlight \in Nat
  /\ aborting \subseteq Kinds /\ awaits \in [Kinds -> SUBSET {"run", "resume", "gone"}]

Init ==
  /\ result = [r \in Result |-> "none"]
  /\ since = [r \in Result |-> {}] /\ polled = {} /\ gen = 0
  /\ followUps = <<>>
  /\ flushPending = FALSE /\ tasks = 0 /\ resume = FALSE
  /\ turn = "idle" /\ streaming = FALSE /\ prompted = FALSE /\ late = FALSE
  /\ setups = 0 /\ leaving = 0 /\ inFlight = 0
  /\ aborting = {} /\ awaits = [k \in Kinds |-> {}]
  /\ calm = FALSE

(* The session's isStreaming. *)
SessionStreams == streaming \/ inFlight > 0

Staged == {r \in Result : result[r] = "staged"}
Taken == {r \in Result : result[r] = "taken"}
Moved(set, place) == [r \in Result |-> IF r \in set THEN place ELSE result[r]]

\* #drain and #build: the staged entries that are not stale by now.
Survivors == Staged \ polled
\* The results after a flush that hands its survivors on to place.
Flushed(place) == [r \in Result |-> IF r \in Survivors THEN place
                                    ELSE IF r \in Staged THEN "dropped" ELSE result[r]]

-----------------------------------------------------------------------------
\* Jobs and their results.

StartJob(r) ==
  /\ turn = "loop" /\ result[r] = "none"
  /\ result' = [result EXCEPT ![r] = "running"]
  /\ UNCHANGED <<since, polled, gen, queueVars, taskVars, runVars, promptVars, abortVars, calm>>

\* #scheduleIdleFlush, debounced.
ScheduleIdleFlush ==
  /\ flushPending' = TRUE
  /\ tasks' = IF flushPending THEN tasks ELSE tasks + 1

\* onJobComplete of a job nobody polled: enqueue.
Enqueue(r) ==
  /\ result[r] = "running"
  /\ result' = [result EXCEPT ![r] = "staged"]
  /\ IF SessionStreams THEN UNCHANGED <<flushPending, tasks>> ELSE ScheduleIdleFlush
  /\ UNCHANGED <<since, polled, gen, followUps, resume, runVars, promptVars, abortVars, calm>>

\* The job tool returns the result and acknowledges it: a delivery that still is
\* pending or in flight ends, an entry that is staged is stale from now on; that of
\* a follow-up is too late.
Poll(r) ==
  /\ turn = "loop" /\ r \notin polled
  /\ result[r] \in {"running", "staged"}
  /\ polled' = polled \union {r}
  /\ result' = IF result[r] = "running" THEN [result EXCEPT ![r] = "dropped"] ELSE result
  /\ UNCHANGED <<since, gen, queueVars, taskVars, runVars, promptVars, abortVars, calm>>

-----------------------------------------------------------------------------
\* The runs of the agent.

\* The prompts whose run is over come to their finally block.
Leaves == leaving' = leaving + (IF prompted THEN 1 ELSE 0)

\* #runLoop: the run takes the place of one that went on over a reset, with what
\* that one held and with the promise that was to tell of its end.
BeginRun(byPrompt, results) ==
  /\ turn' = "loop" /\ streaming' = TRUE /\ prompted' = byPrompt
  /\ late' = ("clear" \in aborting)
  /\ result' = [r \in Result |-> IF r \in Taken THEN "lost" ELSE results[r]]
  /\ Leaves

\* Who awaited a run that is superseded waits for ever, who awaited a
\* continuation waits for the run it begins.
Awaiting(k, begins) ==
  (IF "run" \in awaits[k] THEN {"gone"} ELSE {}) \union (awaits[k] \intersect {"gone"})
    \union (IF "resume" \in awaits[k] THEN {begins} ELSE {})

\* The scheduled flush: nothing in a session that streams again.
IdleFlush ==
  /\ tasks > 0
  /\ tasks' = tasks - 1
  /\ flushPending' = FALSE
  /\ IF SessionStreams \/ Survivors = {}
       THEN /\ result' = IF SessionStreams THEN result ELSE Flushed("dropped")
            /\ UNCHANGED <<runVars, leaving, awaits>>
       ELSE /\ BeginRun(FALSE, Flushed("taken"))
            /\ awaits' = [k \in Kinds |-> Awaiting(k, "resume")]
  /\ UNCHANGED <<since, polled, gen, followUps, resume, setups, inFlight, aborting, calm>>

Prompt ==
  /\ ~SessionStreams
  /\ setups + leaving + (IF prompted THEN 1 ELSE 0) < MaxPrompts
  /\ setups' = setups + 1 /\ inFlight' = inFlight + 1
  /\ UNCHANGED <<resultVars, gen, queueVars, taskVars, runVars, leaving, abortVars, calm>>

\* The prompt comes to its run; it waits for an agent that is busy.
PromptRuns ==
  /\ setups > 0 /\ ~streaming
  /\ setups' = setups - 1
  /\ BeginRun(TRUE, result)
  /\ awaits' = [k \in Kinds |-> Awaiting(k, "resume")]
  /\ UNCHANGED <<since, polled, gen, queueVars, taskVars, inFlight, aborting, calm>>

PromptFails ==
  /\ ~calm /\ setups > 0
  /\ setups' = setups - 1 /\ leaving' = leaving + 1
  /\ UNCHANGED <<resultVars, gen, queueVars, taskVars, runVars, inFlight, abortVars, calm>>

\* message_end of what the run was given or has taken: before the model answers.
MessageEnds ==
  /\ Taken # {}
  /\ result' = Moved(Taken, "injected")
  /\ UNCHANGED <<since, polled, gen, queueVars, taskVars, runVars, promptVars, abortVars, calm>>

\* Mutant: no hook before the turn yields.
YieldsAtOnce ==
  /\ turn = "loop" /\ Taken = {}
  /\ turn' = "yielding"
  /\ UNCHANGED <<resultVars, gen, queueVars, taskVars, streaming, prompted, late, promptVars, abortVars, calm>>

\* onBeforeYield: flush("streaming") queues the batch as one follow-up.
BeforeYield ==
  /\ turn = "loop" /\ Taken = {}
  /\ turn' = "yielding"
  /\ result' = Flushed("followUp")
  /\ followUps' = IF Survivors = {} THEN followUps ELSE Append(followUps, Survivors)
  /\ UNCHANGED <<since, polled, gen, flushPending, taskVars, streaming, prompted, late, promptVars,
                 abortVars, calm>>

\* agent_end and the finally block of the run.
RunEnds ==
  /\ turn' = "idle" /\ streaming' = FALSE /\ prompted' = FALSE /\ late' = FALSE
  /\ awaits' = [k \in Kinds |-> awaits[k] \ {"run"}]
  /\ Leaves
  /\ UNCHANGED <<since, polled, gen, flushPending, taskVars, setups, inFlight, aborting, calm>>

\* getFollowUpMessages, one message at a time; without one the loop ends.
TakesFollowUp ==
  /\ turn = "yielding" /\ followUps # <<>>
  /\ result' = Moved(Head(followUps), "taken") /\ followUps' = Tail(followUps)
  /\ turn' = "loop"
  /\ UNCHANGED <<since, polled, gen, flushPending, taskVars, streaming, prompted, late, promptVars,
                 abortVars, calm>>

LoopEnds ==
  /\ turn = "yielding" /\ followUps = <<>>
  /\ RunEnds
  /\ UNCHANGED <<result, followUps>>

\* A steering message is found first: the loop goes on.
Steered ==
  /\ ~calm /\ turn = "yielding"
  /\ turn' = "loop"
  /\ UNCHANGED <<resultVars, gen, queueVars, taskVars, streaming, prompted, late, promptVars, abortVars, calm>>

\* An error, an abort or a pause ends the loop, without a flush.
RunStops ==
  /\ ~calm /\ turn # "idle" /\ Taken = {}
  /\ RunEnds
  /\ UNCHANGED <<result, followUps>>

\* #endInFlight: stranded follow-ups schedule a continuation, unless the session
\* retries or the transcript does not end with an answer.
EndPrompt ==
  /\ leaving > 0
  /\ leaving' = leaving - 1
  /\ inFlight' = IF inFlight = 0 THEN 0 ELSE inFlight - 1
  /\ \/ resume' = TRUE /\ inFlight' = 0 /\ ~streaming /\ followUps # <<>>
     \/ resume' = resume
  /\ UNCHANGED <<resultVars, gen, queueVars, tasks, runVars, setups, abortVars, calm>>

\* The continuation that was checked when it was scheduled, at agent.continue.
Continue ==
  /\ resume
  /\ resume' = FALSE
  /\ IF ~streaming /\ followUps # <<>>
       THEN /\ BeginRun(FALSE, Moved(Head(followUps), "taken"))
            /\ followUps' = Tail(followUps)
            /\ awaits' = [k \in Kinds |-> Awaiting(k, "run")]
       ELSE /\ awaits' = [k \in Kinds |-> awaits[k] \ {"resume"}]
            /\ UNCHANGED <<result, followUps, runVars, leaving>>
  /\ UNCHANGED <<since, polled, gen, flushPending, tasks, setups, inFlight, aborting, calm>>

-----------------------------------------------------------------------------
\* Aborting, and replacing the transcript.

\* The generations there will be when what is under way has ended.
Generations == gen + Cardinality(aborting \ {"abort"})

\* abort(), called for itself or first thing of newSession and clearContext: the
\* tasks that wait are gone and prompts not yet at their run give up, unless they
\* wait for the agent by now; what is past its wait is awaited.
BeginAbort(kind) ==
  /\ ~calm /\ kind \notin aborting
  /\ kind # "abort" => Generations < MaxGen
  /\ aborting' = aborting \union {kind}
  /\ awaits' = [awaits EXCEPT ![kind] = (IF turn # "idle" THEN {"run"} ELSE {})
                                       \union (IF resume THEN {"resume"} ELSE {})]
  /\ tasks' = 0
  /\ \E n \in 0..setups : /\ n > 0 => streaming
                          /\ setups' = n /\ leaving' = leaving + (setups - n)
  /\ UNCHANGED <<resultVars, gen, queueVars, resume, runVars, inFlight, calm>>

\* What abort() awaits has come; the last it does is #resetInFlight.
AbortEnds(kind) ==
  /\ kind \in aborting /\ awaits[kind] = {}
  /\ aborting' = aborting \ {kind}
  /\ inFlight' = 0

Aborted ==
  /\ AbortEnds("abort")
  /\ UNCHANGED <<resultVars, gen, queueVars, taskVars, runVars, setups, leaving, awaits, calm>>

\* cancelOwnerForReplacement: jobs that run and deliveries not yet made.
Undelivered == {r \in Result : result[r] = "running"}
\* The replacement is remembered of the results that it leaves under way.
UnderWay == {"running", "staged", "followUp", "taken"}
Replace(results, how) ==
  /\ gen' = gen + 1
  /\ result' = results
  /\ since' = [r \in Result |-> IF results[r] \in UnderWay THEN since[r] \union {how[r]} ELSE since[r]]

Otherwise == [r \in Result |-> "other"]

\* Agent.reset: the queue, and isStreaming though a run may go on.
Queued == {r \in Result : result[r] = "followUp"}
Reset == followUps' = <<>> /\ streaming' = FALSE

NewSession ==
  /\ AbortEnds("new") /\ Reset
  /\ Replace(Moved(Undelivered \union Queued, "dropped"), Otherwise)
  /\ UNCHANGED <<polled, flushPending, taskVars, turn, prompted, late, setups, leaving, awaits, calm>>

\* What a run holds that began while the clear waited is told apart.
Cleared == [r \in Result |-> IF late /\ r \in Taken THEN "lateClear" ELSE "clear"]

\* Mutant: the queue is not cleared.
ClearsNoQueue ==
  /\ AbortEnds("clear") /\ Reset
  /\ Replace(Moved(Undelivered \union Queued, "dropped"), Cleared)
  /\ flushPending' = FALSE /\ late' = FALSE
  /\ UNCHANGED <<polled, taskVars, turn, prompted, setups, leaving, awaits, calm>>

ClearContext ==
  /\ AbortEnds("clear") /\ Reset
  /\ Replace(Moved(Undelivered \union Queued \union Staged, "dropped"), Cleared)
  /\ flushPending' = FALSE /\ late' = FALSE
  /\ UNCHANGED <<polled, taskVars, turn, prompted, setups, leaving, awaits, calm>>

\* branch: no abort, and the queues stay.
Branch ==
  /\ ~calm /\ ~SessionStreams /\ Generations < MaxGen
  /\ Replace(Moved(Undelivered, "dropped"), Otherwise)
  /\ UNCHANGED <<polled, queueVars, taskVars, runVars, promptVars, abortVars, calm>>

\* The environment leaves the session alone: prompts and polls are all it does.
CalmDown ==
  /\ ~calm
  /\ calm' = TRUE
  /\ UNCHANGED <<resultVars, gen, queueVars, taskVars, runVars, promptVars, abortVars>>

Next ==
  \/ \E r \in Result : StartJob(r) \/ Enqueue(r) \/ Poll(r)
  \/ IdleFlush \/ Prompt \/ PromptRuns \/ PromptFails \/ MessageEnds
  \/ BeforeYield \/ TakesFollowUp \/ LoopEnds \/ Steered \/ RunStops
  \/ EndPrompt \/ Continue
  \/ \E kind \in Kinds : BeginAbort(kind)
  \/ Aborted \/ NewSession \/ ClearContext \/ Branch \/ CalmDown

\* The session's own tasks and prompts go on, and a run comes to its end; users owe
\* nothing.
Fairness ==
  /\ WF_vars(IdleFlush) /\ WF_vars(Continue) /\ WF_vars(PromptRuns) /\ WF_vars(EndPrompt)
  /\ WF_vars(MessageEnds) /\ WF_vars(BeforeYield) /\ WF_vars(TakesFollowUp) /\ WF_vars(LoopEnds)

Spec == Init /\ [][Next]_vars
FairSpec == Spec /\ Fairness

-----------------------------------------------------------------------------
\* The result of a job started before a clearContext never enters the context
\* that follows it, wherever the result was when the context was cleared: job
\* running, delivery under way, staged, already a follow-up of the agent, or held
\* by a run - unless that run began while the clear awaited its abort (6104, 6109).
ClearedStaysOut == \A r \in Result : result[r] = "injected" => "clear" \notin since[r]

\* The types of the queue's state, and what it keeps out of a cleared context.
YieldInv == TypeOK /\ ClearedStaysOut

\* Once interruptions have ceased, a result staged in an idle session with a flush
\* ahead reaches the transcript (or was polled), whatever is left of the aborted
\* turns before and though a prompt may forestall the flush.
Idle == turn = "idle" /\ ~SessionStreams /\ aborting \subseteq {"abort"}

ScheduledIsServed ==
  \A r \in Result : (calm /\ result[r] = "staged" /\ Idle /\ tasks > 0)
                     ~> (result[r] \in {"injected", "dropped"})

\* The code does not keep this one (README, section 4).
\* A transcript is replaced when the agent is idle: no run goes on into the new one.
NoRunOutlives == [][gen' # gen => turn = "idle"]_vars

\* The code does not keep this one (README, section 4).
\* An enqueue in an idle session leaves an idle flush ahead, as the test
\* "enqueue while idle schedules one debounced idle flush" has it.
EnqueueIdleSchedules ==
  [][~SessionStreams /\ (\E r \in Result : Enqueue(r)) => tasks' > 0]_vars

\* The code does not keep this one (README, section 4).
\* Work of an old session does not leak into the transcript that replaced it, as
\* the comment of #cancelOwnAsyncJobs says.
OldStaysOut == \A r \in Result : result[r] = "injected" => since[r] = {}

\* The code does not keep this one (README, section 4).
\* "Background job results are delivered automatically when complete."
StagedIsDelivered ==
  \A r \in Result : result[r] = "staged" ~> result[r] \in {"injected", "dropped"}
=============================================================================
