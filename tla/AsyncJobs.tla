------------------------------ MODULE AsyncJobs ------------------------------
(***************************************************************************)
(* The background job manager of a session (async/job-manager.ts) with the  *)
(* two callers that take results from it: the delivery callback (sdk.ts)    *)
(* and the `job` tool (tools/job.ts).                                       *)
(*                                                                         *)
(* A run is one AsyncJob object; `jobs` maps the ids, which are reused, to  *)
(* runs.  A completed and a failed run are treated alike by the manager     *)
(* and are both "completed" here.  Time is left open: a sleep may end and a *)
(* timer may fire at any moment, in any order.  Paused subagent runs and    *)
(* the resume queue are in Subagents.                                       *)
(***************************************************************************)
EXTENDS JobManager, SequencesExt, FiniteSetsExt

CONSTANTS Run,          \* AsyncJob objects, in no order
          OwnerOf,      \* OwnerOf[r]: options.ownerId of run r
          Poller,       \* concurrent poll calls of the `job` tool
          Disposing,    \* agents whose session may be disposed
          NoRun,
          MaxAttempts   \* bound of failing deliveries of one result

ASSUME JobsAssumption ==
  /\ IsFiniteSet(Run) /\ NoRun \notin Run
  /\ OwnerOf \in [Run -> Owner] /\ Disposing \subseteq Owner
  /\ MaxAttempts \in Nat

Id == 1..Cardinality(Run)     \* bg_1, bg_2, ...
Phase == {"cancel", "terminal", "evict"}

VARIABLES status,      \* AsyncJob.status of each run
          settled,     \* runs whose promise is resolved
          id,          \* AsyncJob.id of each run
          jobs,        \* #jobs
          fired,       \* #lifecyclePhases
          timers,      \* #evictionTimers
          suppressed,  \* #suppressedDeliveries
          watched,     \* #watchedJobs
          queue,       \* #deliveries
          inFlight,    \* #inFlightDeliveries
          addressee,   \* AsyncJobDelivery.ownerId of each delivery, {} if undefined
          attempts,    \* AsyncJobDelivery.attempt of each delivery
          loop,        \* #deliveryLoop
          draining,    \* owners with a drainDeliveries under way
          drainWaits,  \* the delivery such a drain awaits
          polls,       \* the poll calls: jobs tracked, ids watched
          hooks,       \* history: how often each lifecycle hook ran for a run
          handed,      \* history: how often a result reached the yield queue
          reported,    \* history: runs whose end a `job` call reported
          abandoned    \* history: runs whose delivery a replacement dropped

jobVars == <<status, settled, id, jobs, fired, timers, hooks>>
deliveryVars == <<queue, inFlight, addressee, attempts, loop>>
pollVars == <<polls, reported>>
drainVars == <<draining, drainWaits>>
vars == <<jobVars, suppressed, watched, deliveryVars, drainVars, pollVars, handed, abandoned>>

LoopPlaces == {"off", "sleep", "deliver", "ready", "over"}
NoPoll == [tracked |-> {}, ids |-> {}]

TypeOK ==
  /\ status \in [Run -> {"new", "running", "completed", "cancelled"}]
  /\ settled \subseteq Run
  /\ id \in [Run -> Id \union {0}]
  /\ jobs \in [Id -> Run \union {NoRun}]
  /\ fired \in [Id -> SUBSET Phase]
  /\ timers \subseteq Id
  /\ suppressed \subseteq Id /\ watched \subseteq Id
  /\ queue \in Seq(Run) /\ inFlight \subseteq Run
  /\ addressee \in [Run -> SUBSET Owner]
  /\ attempts \in [Run -> 0..MaxAttempts]
  /\ loop \in [at : LoopPlaces, run : Run \union {NoRun}]
  /\ draining \subseteq Owner
  /\ drainWaits \in [Owner -> Run \union {NoRun}]
  /\ polls \in [Poller -> [tracked : SUBSET Run, ids : SUBSET Id]]
  /\ hooks \in [Run -> [Phase -> Nat]]
  /\ handed \in [Run -> Nat]
  /\ reported \subseteq Run /\ abandoned \subseteq Run

Init ==
  /\ status = [r \in Run |-> "new"]
  /\ settled = {}
  /\ id = [r \in Run |-> 0]
  /\ jobs = [i \in Id |-> NoRun]
  /\ fired = [i \in Id |-> {}]
  /\ timers = {} /\ suppressed = {} /\ watched = {}
  /\ queue = <<>> /\ inFlight = {}
  /\ addressee = [r \in Run |-> {}]
  /\ attempts = [r \in Run |-> 0]
  /\ loop = [at |-> "off", run |-> NoRun]
  /\ draining = {}
  /\ drainWaits = [o \in Owner |-> NoRun]
  /\ polls = [p \in Poller |-> NoPoll]
  /\ hooks = [r \in Run |-> [ph \in Phase |-> 0]]
  /\ handed = [r \in Run |-> 0]
  /\ reported = {} /\ abandoned = {}

-----------------------------------------------------------------------------
Listed(r) == r \in Run /\ id[r] # 0 /\ jobs[id[r]] = r
Live(r) == Listed(r) /\ status[r] = "running"
\* isDeliverySuppressed(job.id)
Suppressed(r) == id[r] \in suppressed \union watched

\* #runLifecycle on a set of ids: each phase once per entry of #lifecyclePhases;
\* the hook and the job are those the id leads to now.
RunLifecycle(ids, phase) ==
  /\ fired' = [i \in Id |-> IF i \in ids THEN fired[i] \union {phase} ELSE fired[i]]
  /\ hooks' = [r \in Run |->
                 IF \E i \in ids : jobs[i] = r /\ phase \notin fired[i]
                 THEN [hooks[r] EXCEPT ![phase] = @ + 1] ELSE hooks[r]]

\* acknowledgeDeliveries: the ids are suppressed, and whatever delivery is now
\* suppressed, by this call or by a watch, leaves the queue (without ids none does).
Acknowledge(ids, watching) ==
  /\ suppressed' = suppressed \union ids
  /\ queue' = Filter(queue, {r \in Run : ids = {} \/ id[r] \notin suppressed \union ids \union watching})

\* The loop of #runDeliveryLoop from its top: suppressed heads are dropped, then it
\* ends, sleeps on a delivery whose retry is not due yet, or hands it to the callback.
RunDeliveryLoop(q, flying) ==
  LET first == SelectInSeq(q, LAMBDA r : ~Suppressed(r))
      rest == IF first = 0 THEN <<>> ELSE SubSeq(q, first, Len(q))
  IN \/ /\ rest = <<>>
        /\ loop' = [at |-> "over", run |-> NoRun]
        /\ queue' = rest /\ inFlight' = flying
     \/ /\ rest # <<>> /\ attempts'[Head(rest)] > 0
        /\ loop' = [at |-> "sleep", run |-> Head(rest)]
        /\ queue' = rest /\ inFlight' = flying
     \/ /\ rest # <<>>
        /\ loop' = [at |-> "deliver", run |-> Head(rest)]
        /\ queue' = Tail(rest) /\ inFlight' = flying \union {Head(rest)}

\* #ensureDeliveryLoop: nothing while a loop runs, or has ended but not yet said so.
EnsureDeliveryLoop(q, flying) ==
  IF loop.at = "off" THEN RunDeliveryLoop(q, flying)
  ELSE loop' = loop /\ queue' = q /\ inFlight' = flying

-----------------------------------------------------------------------------
\* register: below the limit, with the lowest free id.
Register(r) ==
  /\ status[r] = "new"
  /\ Cardinality({q \in Run : Live(q)}) < MaxRunning
  /\ LET i == Min({j \in Id : jobs[j] = NoRun})
     IN /\ id' = [id EXCEPT ![r] = i]
        /\ jobs' = [jobs EXCEPT ![i] = r]
        /\ suppressed' = suppressed \ {i}
  /\ status' = [status EXCEPT ![r] = "running"]
  /\ UNCHANGED <<settled, fired, timers, hooks, watched, deliveryVars, drainVars, pollVars, handed, abandoned>>

\* The end of a run that was not cancelled: the result is queued unless the id is
\* suppressed or watched, the terminal hook runs, the eviction timer is set.
SettleCompleted(r) ==
  /\ status[r] = "running"
  /\ status' = [status EXCEPT ![r] = "completed"]
  /\ settled' = settled \union {r}
  /\ UNCHANGED attempts
  /\ IF Suppressed(r)
     THEN UNCHANGED <<queue, inFlight, loop, addressee>>
     ELSE /\ addressee' = [addressee EXCEPT ![r] = {OwnerOf[q] : q \in {jobs[id[r]]} \ {NoRun}}]
          /\ EnsureDeliveryLoop(Append(queue, r), inFlight)
  /\ RunLifecycle({id[r]}, "terminal")
  /\ timers' = timers \union {id[r]}
  /\ UNCHANGED <<id, jobs, suppressed, watched, drainVars, pollVars, handed, abandoned>>

\* The end of a cancelled run: no delivery.
SettleCancelled(r) ==
  /\ status[r] = "cancelled" /\ r \notin settled
  /\ settled' = settled \union {r}
  /\ RunLifecycle({id[r]}, "terminal")
  /\ timers' = timers \union {id[r]}
  /\ UNCHANGED <<status, id, jobs, suppressed, watched, deliveryVars, drainVars, pollVars, handed, abandoned>>

\* cancel: the run is aborted and evicted only some time after it settles.
Cancel(r) ==
  /\ Live(r)
  /\ RunLifecycle({id[r]}, "cancel")
  /\ status' = [status EXCEPT ![r] = "cancelled"]
  /\ UNCHANGED <<settled, id, jobs, timers, suppressed, watched, deliveryVars, drainVars, pollVars, handed, abandoned>>

\* cancelAll: unlike cancel, it sets the eviction timers at once.
CancelAll(runs) ==
  /\ RunLifecycle({id[r] : r \in runs}, "cancel")
  /\ status' = [r \in Run |-> IF r \in runs THEN "cancelled" ELSE status[r]]
  /\ timers' = timers \union {id[r] : r \in runs}

\* cancelOwnerForReplacement: the owner's transcript is replaced.
CancelOwnerForReplacement(o) ==
  LET mine == {r \in ToSet(queue) \union inFlight : o \in addressee[r]}
      live == {r \in Run : Live(r) /\ OwnerOf[r] = o}
  IN /\ mine \union live # {}
     /\ Acknowledge({id[r] : r \in mine}, watched)
     /\ abandoned' = abandoned \union mine
     /\ CancelAll(live)
     /\ UNCHANGED <<settled, id, jobs, watched, inFlight, addressee, attempts, loop, drainVars, pollVars, handed>>

\* The eviction timer of an id.
Evict(i) ==
  /\ i \in timers
  /\ timers' = timers \ {i}
  /\ hooks' = [r \in Run |-> IF jobs[i] = r /\ "evict" \notin fired[i]
                             THEN [hooks[r] EXCEPT !["evict"] = @ + 1] ELSE hooks[r]]
  /\ fired' = [fired EXCEPT ![i] = {}]
  /\ jobs' = [jobs EXCEPT ![i] = NoRun]
  /\ suppressed' = suppressed \ {i}
  /\ watched' = watched \ {i}
  /\ UNCHANGED <<status, settled, id, deliveryVars, drainVars, pollVars, handed, abandoned>>

-----------------------------------------------------------------------------
\* Mutant: the loop takes the head it slept on without looking whether it still is the head.
LoopWakeUnchecked ==
  /\ loop.at = "sleep"
  /\ loop' = [loop EXCEPT !.at = "deliver"]
  /\ queue' = IF queue = <<>> THEN queue ELSE Tail(queue)
  /\ inFlight' = inFlight \union {loop.run}
  /\ UNCHANGED <<jobVars, suppressed, watched, addressee, attempts, drainVars, pollVars, handed, abandoned>>

\* The delivery loop wakes from its sleep: the head it slept on may have been taken
\* or suppressed meanwhile.
LoopWake ==
  /\ loop.at = "sleep"
  /\ UNCHANGED attempts
  /\ IF queue # <<>> /\ Head(queue) = loop.run /\ ~Suppressed(loop.run)
     THEN /\ loop' = [loop EXCEPT !.at = "deliver"]
          /\ queue' = Tail(queue)
          /\ inFlight' = inFlight \union {loop.run}
     ELSE RunDeliveryLoop(queue, inFlight)
  /\ UNCHANGED <<jobVars, suppressed, watched, addressee, drainVars, pollVars, handed, abandoned>>

\* The delivery the loop awaited is over: back to its top.
LoopContinue ==
  /\ loop.at = "ready"
  /\ UNCHANGED attempts
  /\ RunDeliveryLoop(queue, inFlight)
  /\ UNCHANGED <<jobVars, suppressed, watched, addressee, drainVars, pollVars, handed, abandoned>>

\* Mutant: the loop ends without a last look at the queue.
LoopFinallyBlind ==
  /\ loop.at = "over"
  /\ loop' = [loop EXCEPT !.at = "off"]
  /\ UNCHANGED <<jobVars, suppressed, watched, queue, inFlight, addressee, attempts, drainVars, pollVars, handed, abandoned>>

\* The finally of the loop's promise, a microtask or more after its last look.
LoopFinally ==
  /\ loop.at = "over"
  /\ UNCHANGED attempts
  /\ IF queue # <<>> THEN RunDeliveryLoop(queue, inFlight)
     ELSE loop' = [loop EXCEPT !.at = "off"] /\ UNCHANGED <<queue, inFlight>>
  /\ UNCHANGED <<jobVars, suppressed, watched, addressee, drainVars, pollVars, handed, abandoned>>

\* Whoever awaits the delivery of r resumes.
Resume(r) ==
  drainWaits' = [o \in Owner |-> IF drainWaits[o] = r THEN NoRun ELSE drainWaits[o]]

\* Mutant: the callback does not look at the suppression after its await.
DeliverUnchecked(r) ==
  /\ r \in inFlight
  /\ UNCHANGED attempts
  /\ handed' = [handed EXCEPT ![r] = @ + 1]
  /\ IF loop = [at |-> "deliver", run |-> r]
     THEN loop' = [at |-> "ready", run |-> NoRun] /\ queue' = queue /\ inFlight' = inFlight \ {r}
     ELSE IF queue # <<>> THEN EnsureDeliveryLoop(queue, inFlight \ {r})
     ELSE loop' = loop /\ queue' = queue /\ inFlight' = inFlight \ {r}
  /\ Resume(r)
  /\ UNCHANGED <<jobVars, suppressed, watched, addressee, draining, pollVars, abandoned>>

\* onJobComplete returned: it looked at the suppression once more before it put the
\* result in the session's yield queue.
Deliver(r) ==
  /\ r \in inFlight
  /\ UNCHANGED attempts
  /\ handed' = IF Suppressed(r) THEN handed ELSE [handed EXCEPT ![r] = @ + 1]
  /\ IF loop = [at |-> "deliver", run |-> r]
     THEN loop' = [at |-> "ready", run |-> NoRun] /\ queue' = queue /\ inFlight' = inFlight \ {r}
     ELSE IF queue # <<>> THEN EnsureDeliveryLoop(queue, inFlight \ {r})
     ELSE loop' = loop /\ queue' = queue /\ inFlight' = inFlight \ {r}
  /\ Resume(r)
  /\ UNCHANGED <<jobVars, suppressed, watched, addressee, draining, pollVars, abandoned>>

\* Mutant: a failed delivery is not tried again.
DeliverFailsOnce(r) ==
  /\ r \in inFlight /\ attempts[r] < MaxAttempts
  /\ attempts' = [attempts EXCEPT ![r] = @ + 1]
  /\ IF loop = [at |-> "deliver", run |-> r]
     THEN loop' = [at |-> "ready", run |-> NoRun] /\ queue' = queue /\ inFlight' = inFlight \ {r}
     ELSE IF queue # <<>> THEN EnsureDeliveryLoop(queue, inFlight \ {r})
     ELSE loop' = loop /\ queue' = queue /\ inFlight' = inFlight \ {r}
  /\ Resume(r)
  /\ UNCHANGED <<jobVars, suppressed, watched, addressee, draining, pollVars, handed, abandoned>>

\* onJobComplete threw: the delivery goes back to the end of the queue unless it was
\* suppressed meanwhile.
DeliverFails(r) ==
  /\ r \in inFlight /\ attempts[r] < MaxAttempts
  /\ attempts' = [attempts EXCEPT ![r] = @ + 1]
  /\ LET q == IF Suppressed(r) THEN queue ELSE Append(queue, r)
     IN IF loop = [at |-> "deliver", run |-> r]
        THEN loop' = [at |-> "ready", run |-> NoRun] /\ queue' = q /\ inFlight' = inFlight \ {r}
        ELSE IF q # <<>> THEN EnsureDeliveryLoop(q, inFlight \ {r})
        ELSE loop' = loop /\ queue' = q /\ inFlight' = inFlight \ {r}
  /\ Resume(r)
  /\ UNCHANGED <<jobVars, suppressed, watched, addressee, draining, pollVars, handed, abandoned>>

-----------------------------------------------------------------------------
\* drainDeliveries for one owner, when its session is disposed.
DrainBegin(o) ==
  /\ o \in Disposing \ draining
  /\ draining' = draining \union {o}
  /\ UNCHANGED <<jobVars, suppressed, watched, deliveryVars, drainWaits, pollVars, handed, abandoned>>

Pending(o, runs) == {r \in runs : o \in addressee[r] /\ ~Suppressed(r)}

\* The drain takes a delivery out of the middle of the queue, or awaits one in flight.
DrainNext(o) ==
  /\ o \in draining /\ drainWaits[o] = NoRun
  /\ \E r \in IF Pending(o, ToSet(queue)) # {} THEN Pending(o, ToSet(queue)) ELSE Pending(o, inFlight) :
       /\ drainWaits' = [drainWaits EXCEPT ![o] = r]
       /\ queue' = RemoveFirst(queue, r)
       /\ inFlight' = inFlight \union {r}
  /\ UNCHANGED <<jobVars, suppressed, watched, addressee, attempts, loop, draining, pollVars, handed, abandoned>>

\* Nothing is left, or the deadline has passed.
DrainEnd(o) ==
  /\ o \in draining
  /\ draining' = draining \ {o}
  /\ drainWaits' = [drainWaits EXCEPT ![o] = NoRun]
  /\ UNCHANGED <<jobVars, suppressed, watched, deliveryVars, pollVars, handed, abandoned>>

-----------------------------------------------------------------------------
\* #buildResult: each tracked job is shown as the job its id leads to now, if any;
\* those that no longer run are reported and acknowledged.
Shown(r) == IF jobs[id[r]] = NoRun THEN r ELSE jobs[id[r]]
BuildResult(runs, watching) ==
  LET ended == {q \in {Shown(r) : r \in runs} : status[q] # "running"}
  IN /\ reported' = reported \union ended
     /\ Acknowledge({id[q] : q \in ended}, watching)

\* `job` with list, or with a poll of jobs none of which runs: answered at once.
Report(o, runs) ==
  /\ runs # {} /\ \A r \in runs : Listed(r) /\ OwnerOf[r] = o
  /\ BuildResult(runs, watched)
  /\ UNCHANGED <<jobVars, watched, inFlight, addressee, attempts, loop, drainVars, polls, handed, abandoned>>

\* `job` with a poll: the running ones are watched, nothing is delivered of them.
PollBegin(p, o, runs) ==
  /\ polls[p] = NoPoll
  /\ \A r \in runs : Listed(r) /\ OwnerOf[r] = o
  /\ LET ids == {id[r] : r \in {q \in runs : status[q] = "running"}}
     IN /\ ids # {}
        /\ polls' = [polls EXCEPT ![p] = [tracked |-> runs, ids |-> ids]]
        /\ watched' = watched \union ids
  /\ UNCHANGED <<jobVars, suppressed, deliveryVars, drainVars, reported, handed, abandoned>>

\* Mutant: the watch of an ended poll stays.
PollEndKeepsWatch(p) ==
  /\ polls[p] # NoPoll
  /\ polls' = [polls EXCEPT ![p] = NoPoll]
  /\ BuildResult(polls[p].tracked, watched)
  /\ UNCHANGED <<jobVars, watched, inFlight, addressee, attempts, loop, drainVars, handed, abandoned>>

\* One of them ended, the wait is over or the call is aborted.
PollEnd(p) ==
  /\ polls[p] # NoPoll
  /\ polls' = [polls EXCEPT ![p] = NoPoll]
  /\ watched' = watched \ polls[p].ids
  /\ BuildResult(polls[p].tracked, watched \ polls[p].ids)
  /\ UNCHANGED <<jobVars, inFlight, addressee, attempts, loop, drainVars, handed, abandoned>>

-----------------------------------------------------------------------------
Settle(r) == SettleCompleted(r) \/ SettleCancelled(r)
Loop == LoopWake \/ LoopContinue \/ LoopFinally
Next ==
  \/ \E r \in Run : Register(r) \/ Settle(r) \/ Cancel(r) \/ Deliver(r) \/ DeliverFails(r)
  \/ \E o \in Owner : CancelOwnerForReplacement(o) \/ DrainBegin(o) \/ DrainNext(o) \/ DrainEnd(o)
  \/ \E i \in Id : Evict(i)
  \/ Loop
  \/ \E o \in Owner, runs \in SUBSET Run :
       Report(o, runs) \/ \E p \in Poller : PollBegin(p, o, runs)
  \/ \E p \in Poller : PollEnd(p)

Spec == Init /\ [][Next]_vars

\* Microtasks run, sleeps end, the callback returns and a poll's wait is bounded.
Fairness ==
  /\ WF_vars(Loop)
  /\ \A r \in Run : WF_vars(Deliver(r) \/ DeliverFails(r))
  /\ \A p \in Poller : WF_vars(PollEnd(p))
FairSpec == Spec /\ Fairness

-----------------------------------------------------------------------------
Places(r) == Cardinality({i \in DOMAIN queue : queue[i] = r})
             + (IF r \in inFlight THEN 1 ELSE 0) + handed[r]

(* A result is in at most one place: once in the queue, or in flight, or     *)
(* handed over once.  The delivery loop and the drains of several owners     *)
(* take deliveries from the same queue while each of them sleeps or waits,   *)
(* and a failed one goes back.                                               *)
OneDelivery == \A r \in Run : Places(r) <= 1

(* A queued delivery has a loop that will look at it: whoever puts one in    *)
(* the queue between the last look of a loop and its end is not forgotten.   *)
QueueIsServed == queue # <<>> => loop.at # "off"

(* A lifecycle hook runs at most once per phase and run, although an id may  *)
(* serve a new run while the former one has not settled.                     *)
HooksOnce == \A r \in Run, ph \in Phase : hooks[r][ph] <= 1

(* The types of the manager's state, and what happens at most once. *)
DeliveryInv == TypeOK /\ OneDelivery /\ HooksOnce

(* The result of a listed run whose id was not used before is not lost: it   *)
(* is on its way, was handed over, was reported by the job tool, will be     *)
(* reported by the poll that watches it, or its transcript was abandoned.    *)
Kept(r) ==
  \/ Places(r) > 0
  \/ r \in reported \union abandoned
  \/ \E p \in Poller : r \in {Shown(q) : q \in polls[p].tracked}
OwnId(r) == \A q \in Run \ {r} : id[q] # id[r]
ResultKept == \A r \in Run : Listed(r) /\ OwnId(r) /\ status[r] = "completed" => Kept(r)

(* Once a job has been reported or abandoned its result is not handed over   *)
(* any more, even if its delivery was in flight or waiting for its retry,    *)
(* as long as the job is listed (eviction forgets the suppression).          *)
AckSticks ==
  [][\A r \in Run : r \in reported \union abandoned /\ Listed(r) => handed'[r] = handed[r]]_vars

(* A result whose id serves no other run arrives: every one that is not      *)
(* reported or abandoned is in the end put in the session's yield queue.     *)
ResultArrives ==
  \A r \in Run : status[r] = "completed" ~>
    handed[r] > 0 \/ r \in reported \union abandoned \/ ~OwnId(r)

\* The code does not keep this one (README, section 4).
(* The comment on cancelOwnerForReplacement: a result of the abandoned       *)
(* transcript does not get into the replacement transcript.                  *)
AbandonedStaysOut == [][\A r \in abandoned : handed'[r] = handed[r]]_vars

\* The code does not keep this one (README, section 4).
(* The retention period of a job starts when it has ended.                   *)
EvictsEndedJobs == [][\A r \in Run : Live(r) => jobs'[id[r]] = r]_vars

=============================================================================
