------------------------------ MODULE ToolBatch ------------------------------
(***************************************************************************)
(* The tool calls of one assistant message, executed by executeToolCalls   *)
(* (packages/agent/src/agent-loop.ts): shared calls run side by side, an   *)
(* exclusive call waits for everything before it and holds up everything   *)
(* after it, and a steering message that arrives while they run ends the   *)
(* batch early.  A run has one batch at a time; batches of an abandoned    *)
(* run go on beside those of its successor.                                *)
(***************************************************************************)
EXTENDS Naturals, Sequences, FiniteSets

CONSTANTS MaxRuns,     \* bound: runs of the agent
          MaxUserMsgs, \* bound: prompts, steering and follow-up messages
          Batches,     \* the batches a model may ask for: sequences of kinds
          OneAtATime,  \* steeringMode and followUpMode are "one-at-a-time"
          Interrupt    \* interruptMode is not "wait"

Runs == 1..MaxRuns
UserMsgs == 1..MaxUserMsgs
Kinds == {"shared", "exclusive"}

ASSUME BatchAssumption ==
  /\ MaxRuns \in Nat /\ MaxUserMsgs \in Nat
  /\ Batches \subseteq Seq(Kinds)
  /\ OneAtATime \in BOOLEAN /\ Interrupt \in BOOLEAN

NoRun == 0
NoCheck == [under |-> FALSE, got |-> <<>>]

VARIABLES
  steeringQueue,  \* Agent.#steeringQueue
  activeRun,      \* Agent.#activeRunId
  skipPoll,       \* runs whose next steering poll is skipped
  calls,          \* calls[r]: the kinds of the calls of r's batch
  task,           \* task[r][i]: how far the promise of call i is
  result,         \* result[r][i]: the tool result emitted for call i
  check,          \* check[r]: the steering check under way and what it took
  steering        \* steering[r]: steeringMessages; empty until triggered

batchVars == <<calls, task, result, check, steering>>

(***************************************************************************)
(* Agent: #dequeueSteeringMessages behind getSteeringMessages              *)
(***************************************************************************)
Taken(queue) ==
  IF OneAtATime THEN SubSeq(queue, 1, IF queue = <<>> THEN 0 ELSE 1) ELSE queue

Left(queue) == SubSeq(queue, Len(Taken(queue)) + 1, Len(queue))

(* What a poll of run r returns.  An abandoned run gets nothing, and the    *)
(* first poll of a continued run is skipped.                               *)
Polled(r) ==
  IF activeRun = r /\ r \notin skipPoll THEN Taken(steeringQueue) ELSE <<>>

PollEffect(r) ==
  /\ steeringQueue' = IF activeRun = r /\ r \notin skipPoll
                        THEN Left(steeringQueue) ELSE steeringQueue
  /\ skipPoll' = IF activeRun = r THEN skipPoll \ {r} ELSE skipPoll

(***************************************************************************)
(* Scheduling                                                              *)
(***************************************************************************)
Indices(r) == DOMAIN calls[r]

triggered(r) == steering[r] # <<>>

(* The calls whose promises call i awaits: the last exclusive call before  *)
(* it and, when it is exclusive itself, the shared calls since.            *)
LastExclusive(r, i) ==
  {j \in 1..(i - 1) : /\ calls[r][j] = "exclusive"
                      /\ \A k \in (j + 1)..(i - 1) : calls[r][k] = "shared"}

SharedSince(r, i) ==
  {j \in 1..(i - 1) : \A k \in j..(i - 1) : calls[r][k] = "shared"}

\* Mutant: an exclusive call waits for the exclusive call before it only.
AwaitsExclusive(r, i) == LastExclusive(r, i)

Awaits(r, i) ==
  IF calls[r][i] = "exclusive"
    THEN LastExclusive(r, i) \cup SharedSince(r, i)
    ELSE LastExclusive(r, i)

BeginBatch(r, kinds) ==
  /\ calls' = [calls EXCEPT ![r] = kinds]
  /\ task' = [task EXCEPT ![r] = [i \in DOMAIN kinds |-> "waiting"]]
  /\ result' = [result EXCEPT ![r] = [i \in DOMAIN kinds |-> "none"]]
  /\ check' = [check EXCEPT ![r] = NoCheck]
  /\ steering' = [steering EXCEPT ![r] = <<>>]

\* Mutant: a call is skipped while a check is under way.
StartCallUnlessChecking(r, i) ==
  /\ task[r][i] = "waiting"
  /\ \A j \in Awaits(r, i) : task[r][j] = "done"
  /\ task' = [task EXCEPT ![r][i] =
                IF triggered(r) \/ check[r].under THEN "done" ELSE "running"]
  /\ UNCHANGED <<steeringQueue, activeRun, skipPoll, calls, result, check, steering>>

(* runTool starts, or returns at once because steering was found. *)
StartCall(r, i) ==
  /\ task[r][i] = "waiting"
  /\ \A j \in Awaits(r, i) : task[r][j] = "done"
  /\ task' = [task EXCEPT ![r][i] = IF triggered(r) THEN "done" ELSE "running"]
  /\ UNCHANGED <<steeringQueue, activeRun, skipPoll, calls, result, check, steering>>

\* Mutant: every call polls for itself.
EndCallWithOwnCheck(r, i) ==
  /\ task[r][i] = "running"
  /\ result' = [result EXCEPT ![r][i] = IF triggered(r) THEN "skipped" ELSE "tool"]
  /\ IF ~Interrupt \/ triggered(r)
       THEN /\ task' = [task EXCEPT ![r][i] = "done"]
            /\ UNCHANGED <<steeringQueue, skipPoll, check>>
       ELSE /\ task' = [task EXCEPT ![r][i] = "checking"]
            /\ check' = [check EXCEPT ![r] = [under |-> TRUE, got |-> Polled(r)]]
            /\ PollEffect(r)
  /\ UNCHANGED <<activeRun, calls, steering>>

(* The hooks and the tool have ended, with a result, an error or a block:  *)
(* emitToolResult, then checkSteering, which joins a check under way.      *)
EndCall(r, i) ==
  /\ task[r][i] = "running"
  /\ result' = [result EXCEPT ![r][i] = IF triggered(r) THEN "skipped" ELSE "tool"]
  /\ IF ~Interrupt \/ triggered(r)
       THEN /\ task' = [task EXCEPT ![r][i] = "done"]
            /\ UNCHANGED <<steeringQueue, skipPoll, check>>
       ELSE /\ task' = [task EXCEPT ![r][i] = "checking"]
            /\ IF check[r].under
                 THEN UNCHANGED <<steeringQueue, skipPoll, check>>
                 ELSE /\ check' = [check EXCEPT ![r] =
                                     [under |-> TRUE, got |-> Polled(r)]]
                      /\ PollEffect(r)
  /\ UNCHANGED <<activeRun, calls, steering>>

\* Mutant: only a check that found something lets its callers go on.
EndCheckIfSteered(r) ==
  /\ check[r].under
  /\ check' = [check EXCEPT ![r] = NoCheck]
  /\ steering' = [steering EXCEPT ![r] = IF check[r].got = <<>> THEN @ ELSE check[r].got]
  /\ task' = [task EXCEPT ![r] =
                [i \in Indices(r) |->
                   IF @[i] = "checking" /\ check[r].got # <<>> THEN "done" ELSE @[i]]]
  /\ UNCHANGED <<steeringQueue, activeRun, skipPoll, calls, result>>

(* The check's promise: what it took triggers the interruption.            *)
EndCheck(r) ==
  /\ check[r].under
  /\ check' = [check EXCEPT ![r] = NoCheck]
  /\ steering' = [steering EXCEPT ![r] = IF check[r].got = <<>> THEN @ ELSE check[r].got]
  /\ task' = [task EXCEPT ![r] =
                [i \in Indices(r) |-> IF @[i] = "checking" THEN "done" ELSE @[i]]]
  /\ UNCHANGED <<steeringQueue, activeRun, skipPoll, calls, result>>

(* Promise.allSettled and the sweep that gives every call its result.      *)
Settled(r) == \A i \in Indices(r) : task[r][i] = "done"

Unanswered(r) == {i \in Indices(r) : result[r][i] = "none"}

InProgress(r, i) == task[r][i] \in {"running", "checking"}

(***************************************************************************)
(* Properties                                                              *)
(***************************************************************************)
(* "exclusive: runs alone; other tools wait until it finishes"             *)
(* (packages/agent/src/types.ts): no other call of the batch is under way. *)
ExclusiveRunsAlone ==
  \A r \in Runs : \A i, j \in Indices(r) :
    i # j /\ calls[r][i] = "exclusive" /\ InProgress(r, i) => ~InProgress(r, j)

(* A call is skipped only because the user has steered: a batch that has   *)
(* settled without steering has a result of the tool for every call,       *)
(* whichever calls ended while another's check for steering was under way. *)
SkippedOnlyForSteering ==
  \A r \in Runs :
    /\ Settled(r) /\ ~triggered(r) => Unanswered(r) = {}
    /\ (\E i \in Indices(r) : result[r][i] = "skipped") => triggered(r)

===============================================================================
