------------------------------ MODULE WorkerPool ------------------------------
(***************************************************************************)
(* The issue bot's WorkerPool (python/robojwc/src/queue.py) over its event *)
(* table (db.py): one dispatcher claims queued events, each claimed event  *)
(* runs as an asyncio task that holds a slot and drives an agent process   *)
(* from a worker thread, an operator may cancel it, and the whole process  *)
(* stops, dies and starts again.                                           *)
(*                                                                         *)
(* An action of the event loop runs to its next await.  A worker thread    *)
(* is not stopped by the cancellation of the task that waits for it, which *)
(* is why thread and run are separate.  External: sqlite statements are    *)
(* atomic and do not fail, so that the dispatch loop does not crash; a     *)
(* process may die at any time and is started again.  Left out: rows       *)
(* stored as skipped, which nothing claims until an operator replays them. *)
(***************************************************************************)
EXTENDS Naturals, FiniteSets, Sequences, SequencesExt

CONSTANTS Event,      \* delivery ids
          Issue, IssueOf,
          Slot, NoSlot, NoEvent,
          Slots,      \* the slots in the order of the pool
          Backlog,    \* the events the process finds queued when it first starts
          MaxDowns,   \* bound: stops and deaths of the process
          Replayed,   \* bound: the events an operator replays or cancels
          MaxRequeues \* bound: replays, retries and manual triages

ASSUME PoolAssumption ==
  /\ IssueOf \in [Event -> Issue]
  /\ NoSlot \notin Slot /\ NoEvent \notin Event
  /\ Slots \in Seq(Slot) /\ Backlog \in Seq(Event)
  /\ \A i, j \in DOMAIN Slots : i # j => Slots[i] # Slots[j]
  /\ \A i, j \in DOMAIN Backlog : i # j => Backlog[i] # Backlog[j]
  /\ Replayed \subseteq Event
  /\ MaxDowns \in Nat /\ MaxRequeues \in Nat

VARIABLES
  row,        \* events.state of each event; "none": no such row
  received,   \* the events by received_at
  handled,    \* history: events that have been done or failed
  stage,      \* of the process: up, then the phases of stop(), down
  downs, requeues,
  wakeup,     \* _wakeup
  disp,       \* the dispatcher: its place, and the event it has claimed
  inflight,   \* _inflight
  run,        \* the _run_event task of each event
  slot, free, \* the slot each task holds, and those in the pool
  thread,     \* the worker thread in _run_rpc_blocking, or its result
  user,       \* the slot that thread was given for its agent
  proc,       \* the slot as whose user the agent process of an event runs
  hooks,      \* _cancel_hooks
  firing,     \* hooks taken out of _cancel_hooks that have not run yet
  cancelled,  \* _cancelled
  interrupted,\* _shutdown_cancelled
  cancelling, \* tasks on which cancel() was called
  still,      \* still_running: what stop() has left to interrupt
  awaited     \* the event whose hook stop() has fired last

db == <<row, received, handled>>
bounds == <<downs, requeues>>
slots == <<slot, free, user>>
signals == <<hooks, firing, cancelled>>
stopping == <<interrupted, cancelling, still, awaited>>
vars == <<db, stage, bounds, wakeup, disp, inflight, run, slots, thread, proc, signals, stopping>>

Inactive == {"done", "failed"}
Off == [at |-> "off", event |-> NoEvent]
Disp(place) == [at |-> place, event |-> NoEvent]

Working(e) == run[e] \in {"slot", "dispatch"}

Init ==
  /\ received = Backlog /\ handled = {}
  /\ row = [e \in Event |-> IF \E i \in DOMAIN Backlog : Backlog[i] = e THEN "queued" ELSE "none"]
  /\ stage = "up" /\ downs = 0 /\ requeues = 0
  /\ wakeup = FALSE /\ disp = Disp("claim") /\ inflight = {}
  /\ run = [e \in Event |-> "none"]
  /\ slot = [e \in Event |-> NoSlot] /\ free = Slots
  /\ thread = [e \in Event |-> "none"]
  /\ user = [e \in Event |-> NoSlot] /\ proc = [e \in Event |-> NoSlot]
  /\ hooks = {} /\ firing = {} /\ cancelled = {}
  /\ interrupted = {} /\ cancelling = {} /\ still = {} /\ awaited = NoEvent

(* stop() interrupts the tasks without an await, but for the hooks it runs. *)
LoopFree == stage = "kill" => awaited \in firing \/ still = {}

(***************************************************************************)
(* Events come in                                                          *)
(***************************************************************************)
Receive(e) ==
  /\ stage = "up" /\ LoopFree /\ row[e] = "none"
  /\ row' = [row EXCEPT ![e] = "queued"]
  /\ received' = Append(received, e)
  /\ wakeup' = TRUE
  /\ UNCHANGED <<handled, stage, bounds, disp, inflight, run, slots, thread, proc, signals, stopping>>

(* A replay or a retry: over HTTP it wakes the dispatcher, from the command *)
(* line, which is another process, it cannot.                               *)
Requeue(e, wakes) ==
  /\ row[e] \in Inactive /\ requeues < MaxRequeues /\ (wakes => stage = "up")
  /\ row' = [row EXCEPT ![e] = "queued"]
  /\ wakeup' = (wakeup \/ wakes)
  /\ requeues' = requeues + 1
  /\ UNCHANGED <<received, handled, stage, downs, disp, inflight, run, slots, thread, proc, signals, stopping>>

(* A manual triage inserts a row, also while the server is down, or replaces *)
(* an inactive one: the event is received anew.                              *)
Retriage(e, wakes) ==
  /\ requeues < MaxRequeues /\ (wakes => stage = "up")
  /\ row' = [row EXCEPT ![e] = "queued"]
  /\ \/ row[e] = "none" /\ received' = Append(received, e)
     \/ /\ row[e] \in Inactive
        /\ \E i \in DOMAIN received : received[i] = e /\ received' = Append(RemoveAt(received, i), e)
  /\ handled' = handled \ {e}
  /\ wakeup' = (wakeup \/ wakes)
  /\ requeues' = requeues + 1
  /\ UNCHANGED <<stage, downs, disp, inflight, run, slots, thread, proc, signals, stopping>>

(* Cancels a row in any state: the id stays in _cancelled until a run of   *)
(* the event ends.                                                         *)
CancelEvent(e) ==
  /\ stage = "up" /\ row[e] # "none"
  /\ cancelled' = cancelled \cup {e}
  /\ hooks' = hooks \ {e}
  /\ firing' = firing \cup (hooks \cap {e})
  /\ UNCHANGED <<db, stage, bounds, wakeup, disp, inflight, run, slots, thread, proc, stopping>>

(***************************************************************************)
(* The dispatcher                                                          *)
(***************************************************************************)
QueuedAt == {i \in DOMAIN received : row[received[i]] = "queued"}

\* Mutant: the event received last is taken first.
ClaimNewest ==
  /\ disp.at = "claim" /\ \A e \in Event : run[e] # "release"
  /\ \/ QueuedAt = {} /\ disp' = Disp("empty") /\ UNCHANGED row
     \/ \E i \in QueuedAt :
          /\ \A j \in QueuedAt : i >= j
          /\ disp' = [at |-> "claimed", event |-> received[i]]
          /\ row' = [row EXCEPT ![received[i]] = "running"]
  /\ UNCHANGED <<received, handled, stage, bounds, wakeup, inflight, run, slots, thread, proc, signals, stopping>>

(* claim_next_event; _inflight_lock is held from here to Accept or a wait. *)
(* asyncio.Lock is fair: a task that waits to release its key goes first.  *)
Claim ==
  /\ disp.at = "claim" /\ \A e \in Event : run[e] # "release"
  /\ \/ QueuedAt = {} /\ disp' = Disp("empty") /\ UNCHANGED row
     \/ \E i \in QueuedAt :
          /\ \A j \in QueuedAt : i <= j
          /\ disp' = [at |-> "claimed", event |-> received[i]]
          /\ row' = [row EXCEPT ![received[i]] = "running"]
  /\ UNCHANGED <<received, handled, stage, bounds, wakeup, inflight, run, slots, thread, proc, signals, stopping>>

\* Mutant: the claimed event runs whatever is in flight.
AcceptAny ==
  /\ disp.at = "claimed"
  /\ inflight' = inflight \cup {IssueOf[disp.event]}
  /\ run' = [run EXCEPT ![disp.event] = "slot"]
  /\ disp' = Disp("claim")
  /\ UNCHANGED <<db, stage, bounds, wakeup, slots, thread, proc, signals, stopping>>

Accept ==
  /\ disp.at = "claimed" /\ IssueOf[disp.event] \notin inflight
  /\ inflight' = inflight \cup {IssueOf[disp.event]}
  /\ run' = [run EXCEPT ![disp.event] = "slot"]
  /\ disp' = Disp("claim")
  /\ UNCHANGED <<db, stage, bounds, wakeup, slots, thread, proc, signals, stopping>>

\* Mutant: an event whose issue is in flight is not put back.
PutBackNever ==
  /\ disp.at = "claimed" /\ IssueOf[disp.event] \in inflight
  /\ disp' = Disp("nap")
  /\ UNCHANGED <<db, stage, bounds, wakeup, inflight, run, slots, thread, proc, signals, stopping>>

PutBack ==
  /\ disp.at = "claimed" /\ IssueOf[disp.event] \in inflight
  /\ row' = [row EXCEPT ![disp.event] = IF @ = "running" THEN "queued" ELSE @]
  /\ disp' = Disp("nap")
  /\ UNCHANGED <<received, handled, stage, bounds, wakeup, inflight, run, slots, thread, proc, signals, stopping>>

(* A wake-up that came since the claim is lost here. *)
ClearWakeup ==
  /\ disp.at \in {"empty", "nap"}
  /\ wakeup' = FALSE
  /\ disp' = Disp("wait")
  /\ UNCHANGED <<db, stage, bounds, inflight, run, slots, thread, proc, signals, stopping>>

\* Mutant: the wait for a wake-up has no timeout.
AwakeOnWakeup ==
  /\ disp.at = "wait" /\ wakeup
  /\ disp' = Disp("claim")
  /\ UNCHANGED <<db, stage, bounds, wakeup, inflight, run, slots, thread, proc, signals, stopping>>

(* Woken, or after ten seconds. *)
Awake ==
  /\ disp.at = "wait"
  /\ disp' = Disp("claim")
  /\ UNCHANGED <<db, stage, bounds, wakeup, inflight, run, slots, thread, proc, signals, stopping>>

Dispatcher == LoopFree /\ (Claim \/ Accept \/ PutBack \/ ClearWakeup \/ Awake)

(***************************************************************************)
(* _run_event                                                              *)
(***************************************************************************)
(* The task has its slot: it reads the thread of the issue from GitHub and *)
(* starts the worker thread.                                               *)
Acquire(e) ==
  /\ LoopFree /\ run[e] = "slot" /\ e \notin cancelling /\ free # <<>>
  /\ slot' = [slot EXCEPT ![e] = Head(free)]
  /\ user' = [user EXCEPT ![e] = Head(free)]
  /\ free' = Tail(free)
  /\ run' = [run EXCEPT ![e] = "dispatch"]
  /\ thread' = [thread EXCEPT ![e] = "starting"]
  /\ UNCHANGED <<db, stage, bounds, wakeup, disp, inflight, proc, signals, stopping>>

(* _reap_slot kills whatever runs as the user of the slot. *)
Reaped(users) == [e \in Event |-> IF proc[e] \in users THEN NoSlot ELSE proc[e]]

\* Mutant: a slot is released that was not acquired.
FinallyAlways(e) ==
  /\ run' = [run EXCEPT ![e] = "release"]
  /\ cancelled' = cancelled \ {e}
  /\ interrupted' = interrupted \ {e}
  /\ hooks' = hooks \ {e}
  /\ cancelling' = cancelling \ {e}
  /\ slot' = [slot EXCEPT ![e] = NoSlot]
  /\ free' = Append(free, slot[e])
  /\ proc' = Reaped({slot[e]} \ {NoSlot})
  /\ user' = [user EXCEPT ![e] = IF thread'[e] = "none" THEN NoSlot ELSE @]
  /\ UNCHANGED <<received, stage, bounds, wakeup, disp, inflight, firing, still, awaited>>

(* finally, to the await of _inflight_lock in _release. *)
Finally(e) ==
  /\ run' = [run EXCEPT ![e] = "release"]
  /\ cancelled' = cancelled \ {e}
  /\ interrupted' = interrupted \ {e}
  /\ hooks' = hooks \ {e}
  /\ cancelling' = cancelling \ {e}
  /\ slot' = [slot EXCEPT ![e] = NoSlot]
  /\ free' = IF slot[e] = NoSlot THEN free ELSE Append(free, slot[e])
  /\ proc' = Reaped({slot[e]} \ {NoSlot})
  /\ user' = [user EXCEPT ![e] = IF thread'[e] = "none" THEN NoSlot ELSE @]
  /\ UNCHANGED <<received, stage, bounds, wakeup, disp, inflight, firing, still, awaited>>

(* How _dispatch can end: with its thread, or before there is one. *)
Outcomes(e) ==
  IF thread[e] = "starting" THEN {"ok", "error"} ELSE {thread[e]} \cap {"ok", "error", "killed"}

(* _dispatch_and_mark and the except branch: the state the row gets. *)
Mark(e, outcome) ==
  IF outcome = "ok"
    THEN IF e \in cancelled THEN "failed" ELSE "done"
    ELSE IF e \in interrupted THEN row[e] ELSE "failed"

End(e) ==
  /\ LoopFree /\ run[e] = "dispatch" /\ e \notin cancelling
  /\ \E outcome \in Outcomes(e) :
       /\ row' = [row EXCEPT ![e] = Mark(e, outcome)]
       /\ handled' = IF row'[e] \in Inactive THEN handled \cup {e} ELSE handled
  /\ thread' = [thread EXCEPT ![e] = "none"]
  /\ Finally(e)

(* CancelledError is no Exception: the row keeps its state, and a thread   *)
(* that has been started goes on.                                          *)
CancelDelivered(e) ==
  /\ LoopFree /\ e \in cancelling /\ Working(e)
  /\ \/ thread[e] \in {"starting", "ok", "error", "killed"} /\ thread' = [thread EXCEPT ![e] = "none"]
     \/ thread[e] \in {"none", "starting", "spawned", "arming", "turn"} /\ UNCHANGED thread
  /\ Finally(e)
  /\ UNCHANGED <<row, handled>>

Release(e) ==
  /\ LoopFree /\ run[e] = "release" /\ disp.at \in {"claim", "wait", "off"}
  /\ inflight' = inflight \ {IssueOf[e]}
  /\ run' = [run EXCEPT ![e] = "none"]
  /\ UNCHANGED <<db, stage, bounds, wakeup, disp, slots, thread, proc, signals, stopping>>

(***************************************************************************)
(* The worker thread: _run_rpc_blocking                                    *)
(***************************************************************************)
(* RpcClient.__enter__ starts the agent as the user of the slot. *)
Spawn(e) ==
  /\ thread[e] = "starting"
  /\ thread' = [thread EXCEPT ![e] = "spawned"]
  /\ proc' = [proc EXCEPT ![e] = user[e]]
  /\ user' = [user EXCEPT ![e] = NoSlot]
  /\ UNCHANGED <<db, stage, bounds, wakeup, disp, inflight, run, slot, free, signals, stopping>>

(* _arm_cancel, its check: a cancelled delivery is stopped at once. *)
ArmCheck(e) ==
  /\ thread[e] = "spawned"
  /\ IF e \in cancelled
       THEN proc' = [proc EXCEPT ![e] = NoSlot] /\ thread' = [thread EXCEPT ![e] = "turn"]
       ELSE thread' = [thread EXCEPT ![e] = "arming"] /\ UNCHANGED proc
  /\ UNCHANGED <<db, stage, bounds, wakeup, disp, inflight, run, slots, signals, stopping>>

(* _arm_cancel, its store. *)
Arm(e) ==
  /\ thread[e] = "arming"
  /\ hooks' = hooks \cup {e}
  /\ thread' = [thread EXCEPT ![e] = "turn"]
  /\ UNCHANGED <<db, stage, bounds, wakeup, disp, inflight, run, slots, proc, firing, cancelled, stopping>>

(* The hook stops the agent. *)
Fire(e) ==
  /\ e \in firing
  /\ firing' = firing \ {e}
  /\ proc' = [proc EXCEPT ![e] = NoSlot]
  /\ UNCHANGED <<db, stage, bounds, wakeup, disp, inflight, run, slots, thread, hooks, cancelled, stopping>>

(* The turn ends: by itself, at the hard timeout, or because the agent is   *)
(* gone.  The thread of a cancelled task has nobody to tell.                *)
TurnEnds(e) ==
  /\ thread[e] = "turn"
  /\ \E result \in IF proc[e] = NoSlot THEN {"killed"} ELSE {"ok", "error"} :
       thread' = [thread EXCEPT ![e] = IF run[e] = "dispatch" THEN result ELSE "none"]
  /\ proc' = [proc EXCEPT ![e] = NoSlot]
  /\ hooks' = hooks \ {e} /\ firing' = firing \ {e}
  /\ UNCHANGED <<db, stage, bounds, wakeup, disp, inflight, run, slots, cancelled, stopping>>

(***************************************************************************)
(* stop() and start()                                                      *)
(***************************************************************************)
(* The dispatcher is cancelled wherever it awaits. *)
Stop ==
  /\ stage = "up" /\ downs < MaxDowns
  /\ stage' = "drain" /\ disp' = Off /\ wakeup' = TRUE
  /\ UNCHANGED <<db, bounds, inflight, run, slots, thread, proc, signals, stopping>>

(* The drain ends with the tasks, or with its timeout. *)
DrainEnds ==
  /\ stage = "drain"
  /\ still' = {e \in Event : run[e] # "none"}
  /\ stage' = "kill"
  /\ UNCHANGED <<db, bounds, wakeup, disp, inflight, run, slots, thread, proc, signals, interrupted, cancelling, awaited>>

\* Mutant: only the tasks without a hook are remembered as interrupted.
InterruptForgetful(e) ==
  /\ stage = "kill" /\ e \in still /\ awaited \notin firing
  /\ still' = still \ {e}
  /\ IF e \in hooks
       THEN /\ hooks' = hooks \ {e} /\ firing' = firing \cup {e} /\ awaited' = e
            /\ UNCHANGED <<cancelling, interrupted>>
       ELSE /\ cancelling' = IF Working(e) THEN cancelling \cup {e} ELSE cancelling
            /\ interrupted' = interrupted \cup {e}
            /\ UNCHANGED <<hooks, firing, awaited>>
  /\ UNCHANGED <<db, stage, bounds, wakeup, disp, inflight, run, slots, thread, proc, cancelled>>

(* A task is interrupted through its hook, which stop() awaits, or itself. *)
Interrupt(e) ==
  /\ stage = "kill" /\ e \in still /\ awaited \notin firing
  /\ still' = still \ {e}
  /\ interrupted' = IF run[e] = "none" THEN interrupted ELSE interrupted \cup {e}
  /\ IF e \in hooks
       THEN /\ hooks' = hooks \ {e} /\ firing' = firing \cup {e} /\ awaited' = e
            /\ UNCHANGED cancelling
       ELSE /\ cancelling' = IF Working(e) THEN cancelling \cup {e} ELSE cancelling
            /\ UNCHANGED <<hooks, firing, awaited>>
  /\ UNCHANGED <<db, stage, bounds, wakeup, disp, inflight, run, slots, thread, proc, cancelled>>

(* stop() returns after its wait, in which cancellations are delivered, and *)
(* the event loop cancels what is left.                                     *)
StopReturns ==
  /\ stage = "kill" /\ still = {} /\ awaited \notin firing
  /\ \A e \in cancelling : ~Working(e)
  /\ stage' = "exit"
  /\ cancelling' = cancelling \cup {e \in Event : Working(e)}
  /\ UNCHANGED <<db, bounds, wakeup, disp, inflight, run, slots, thread, proc, signals, interrupted, still, awaited>>

(* The process is gone; the agents it started need not be. *)
Gone ==
  /\ stage' = "down" /\ downs' = downs + 1
  /\ wakeup' = FALSE /\ disp' = Off /\ inflight' = {}
  /\ run' = [e \in Event |-> "none"] /\ thread' = [e \in Event |-> "none"]
  /\ slot' = [e \in Event |-> NoSlot] /\ free' = Slots
  /\ user' = [e \in Event |-> NoSlot]
  /\ hooks' = {} /\ firing' = {} /\ cancelled' = {}
  /\ interrupted' = {} /\ cancelling' = {} /\ still' = {} /\ awaited' = NoEvent
  /\ UNCHANGED <<db, requeues, proc>>

(* The process waits for its threads before it exits. *)
Exit == stage = "exit" /\ (\A e \in Event : run[e] = "none" /\ thread[e] = "none") /\ Gone

Die == stage # "down" /\ downs < MaxDowns /\ Gone

\* Mutant: start() leaves the agents of the last process alone.
StartUnreaped ==
  /\ stage = "down" /\ stage' = "up" /\ disp' = Disp("claim")
  /\ row' = [e \in Event |-> IF row[e] = "running" THEN "queued" ELSE row[e]]
  /\ UNCHANGED <<received, handled, bounds, wakeup, inflight, run, slots, thread, proc, signals, stopping>>

(* start(): _reap_all_slots, reset_stuck_running and the dispatcher. *)
Start ==
  /\ stage = "down" /\ stage' = "up" /\ disp' = Disp("claim")
  /\ proc' = Reaped(Slot)
  /\ row' = [e \in Event |-> IF row[e] = "running" THEN "queued" ELSE row[e]]
  /\ UNCHANGED <<received, handled, bounds, wakeup, inflight, run, slots, thread, signals, stopping>>

(***************************************************************************)
(* The specification                                                       *)
(***************************************************************************)
Task(e) == Acquire(e) \/ End(e) \/ CancelDelivered(e) \/ Release(e)
Thread(e) == Spawn(e) \/ ArmCheck(e) \/ Arm(e) \/ Fire(e) \/ TurnEnds(e)
Shutdown == DrainEnds \/ (\E e \in Event : Interrupt(e)) \/ StopReturns \/ Exit

Next ==
  \/ \E e \in Event : Receive(e)
  \/ \E e \in Replayed, wakes \in BOOLEAN : Requeue(e, wakes) \/ Retriage(e, wakes)
  \/ \E e \in Replayed : CancelEvent(e)
  \/ Dispatcher
  \/ \E e \in Event : Task(e) \/ Thread(e)
  \/ Stop \/ Shutdown \/ Die \/ Start

(* The event loop and the threads make progress, the dispatcher its own; a  *)
(* turn ends at its hard timeout and a drain at its own, and docker-compose *)
(* starts the process again.                                                *)
Fairness ==
  /\ WF_vars(Dispatcher)
  /\ WF_vars(\E e \in Event : Task(e)) /\ WF_vars(\E e \in Event : Thread(e))
  /\ WF_vars(Shutdown) /\ WF_vars(Start)

Spec == Init /\ [][Next]_vars /\ Fairness

(***************************************************************************)
(* Properties                                                              *)
(***************************************************************************)
TypeOK ==
  /\ row \in [Event -> {"none", "queued", "running", "done", "failed"}]
  /\ received \in Seq(Event) /\ handled \subseteq Event
  /\ stage \in {"up", "drain", "kill", "exit", "down"}
  /\ downs \in 0..MaxDowns /\ requeues \in 0..MaxRequeues
  /\ wakeup \in BOOLEAN
  /\ disp \in [at : {"claim", "empty", "wait", "nap", "off"}, event : {NoEvent}]
              \cup [at : {"claimed"}, event : Event]
  /\ inflight \subseteq Issue
  /\ run \in [Event -> {"none", "slot", "dispatch", "release"}]
  /\ slot \in [Event -> Slot \cup {NoSlot}] /\ free \in Seq(Slot)
  /\ thread \in [Event -> {"none", "starting", "spawned", "arming", "turn", "ok", "error", "killed"}]
  /\ user \in [Event -> Slot \cup {NoSlot}] /\ proc \in [Event -> Slot \cup {NoSlot}]
  /\ hooks \subseteq Event /\ firing \subseteq Event /\ cancelled \subseteq Event
  /\ interrupted \subseteq Event /\ cancelling \subseteq Event /\ still \subseteq Event
  /\ awaited \in Event \cup {NoEvent}

Busy(e) == Working(e) \/ thread[e] # "none" \/ proc[e] # NoSlot

(* Two events of one issue never touch its workspace together: neither their *)
(* tasks nor the threads and agents that outlive a task (queue.py:219, :231). *)
OneRunPerIssue ==
  \A e, f \in Event : e # f /\ IssueOf[e] = IssueOf[f] => ~(Busy(e) /\ Busy(f))

(* The row of an event that runs is running: no replay, put-back or other run *)
(* has moved it.  While the pool is up a running row has its task, or is in   *)
(* the dispatcher's hands: no event is stranded (queue.py:94, :221).          *)
RowsMatchRuns ==
  /\ \A e \in Event : Working(e) => row[e] = "running"
  /\ stage = "up" => \A e \in Event : row[e] = "running" => Working(e) \/ disp.event = e

(* The types of the pool's state, and the agreement of its rows and runs. *)
PoolInv == TypeOK /\ RowsMatchRuns

(* Until stop() interrupts tasks a slot belongs to one task or to the pool,   *)
(* and an agent runs as the user of the slot its own task holds: no straggler *)
(* meets the next holder (queue.py:312).                                      *)
SlotsAreExclusive ==
  stage \in {"up", "drain"} =>
    /\ \A e, f \in Event : e # f /\ slot[e] # NoSlot => slot[e] # slot[f]
    /\ \A e \in Event : \A i \in DOMAIN free : slot[e] # free[i]
    /\ Len(free) + Cardinality({e \in Event : slot[e] # NoSlot}) = Len(Slots)
    /\ \A e \in Event : proc[e] # NoSlot => proc[e] = slot[e]

(* The events of an issue are first run in the order they were received, over *)
(* put-backs, stops and deaths (db.py:276, queue.py:221).                     *)
Earlier(f, e) == \E i, j \in DOMAIN received : i < j /\ received[i] = f /\ received[j] = e

EventsInOrder ==
  [][\A e \in Event : run[e] = "none" /\ run'[e] = "slot" =>
       \A f \in Event : IssueOf[f] = IssueOf[e] /\ Earlier(f, e) => f \in handled]_vars

(* An event is done only by its own agent and when nobody cancelled it, and   *)
(* one whose agent was killed fails only if an operator cancelled it: what    *)
(* stop() interrupts stays to be run again (queue.py:286, :320).              *)
OutcomesAreEarned ==
  [][\A e \in Event : row[e] = "running" =>
       /\ row'[e] = "done" => e \notin cancelled /\ thread[e] # "killed"
       /\ row'[e] = "failed" /\ thread[e] = "killed" => e \in cancelled]_vars

(* A queued event is handled in the end, though a wake-up may be lost and a   *)
(* replay from the command line wakes nobody (queue.py:197).                  *)
EventsAreHandled == \A e \in Event : row[e] = "queued" ~> row[e] \in Inactive

(* queue.py:153 and test_queue_shutdown.py:212: what stop() has returned from *)
(* does not spawn an agent.                                                   *)
NothingSpawnsAfterStop ==
  [][stage = "exit" => \A e \in Event : proc'[e] # NoSlot => proc[e] # NoSlot]_vars

===============================================================================
