------------------------------ MODULE AgentLoop ------------------------------
(***************************************************************************)
(* The agent (packages/agent/src/agent.ts) and the loop it runs            *)
(* (runLoopBody of agent-loop.ts).  A run is produced by the loop, which   *)
(* pushes events into a stream, and consumed by Agent.#runLoop, which      *)
(* builds the transcript from them.  forceAbort abandons a run that does   *)
(* not end: its loop and its tools go on while the next run is under way.  *)
(*                                                                         *)
(* External: no listener of the agent's events throws (the session's, the  *)
(* only one of the program, is an async function).                         *)
(***************************************************************************)
EXTENDS ToolBatch

CONSTANTS MaxBatches, \* bound: assistant messages with tool calls
          MaxUnread   \* bound: events a loop leaves unread when it goes on

ASSUME AgentAssumption == MaxBatches \in Nat /\ MaxUnread \in Nat

VARIABLES
  followUpQueue, \* Agent.#followUpQueue
  messages,      \* Agent.#state.messages
  isStreaming,   \* Agent.#state.isStreaming
  runningPrompt, \* the run whose promise waitForIdle returns, or NoRun
  aborted,       \* runs whose abort controller has fired
  runs,          \* Agent.#runSequence
  issued,        \* user messages made so far; message m is the m-th
  steered,       \* those of them made by steer()
  loop,          \* loop[r]: where runLoopBody of run r is
  pending,       \* pending[r]: pendingMessages
  batches,       \* assistant messages with calls so far
  events,        \* events[r]: pushed and not consumed
  reader,        \* reader[r]: where the for-await of #runLoop is
  abandoned,     \* history: runs given up by forceAbort
  lost           \* history: messages of the user such runs had taken

agentVars == <<followUpQueue, messages, isStreaming, runningPrompt, runs, issued,
               steered, aborted, abandoned, lost>>
loopVars == <<loop, pending, batches>>
streamVars == <<events, reader>>
queueVars == <<steeringQueue, activeRun, skipPoll>>
vars == <<batchVars, queueVars, agentVars, loopVars, streamVars>>

(* Entries of the transcript, with the run that emitted them. *)
User(r, m) == [what |-> "user", run |-> r, msg |-> m]
Assistant(r, n) == [what |-> "assistant", run |-> r, calls |-> n]
Result(r, i) == [what |-> "result", run |-> r, call |-> i]
AgentEnd == [what |-> "end"]
Failure == [what |-> "fail"]

Users(r, ms) == [k \in DOMAIN ms |-> User(r, ms[k])]
Results(r, n) == [i \in 1..n |-> Result(r, i)]

(* A permutation of the calls without a result, in their order. *)
Sweep(r) ==
  LET n == Cardinality(Unanswered(r))
      Nth(k) == CHOOSE i \in Unanswered(r) :
                  Cardinality({j \in Unanswered(r) : j <= i}) = k
  IN [k \in 1..n |-> Result(r, Nth(k))]

(* stream.push: nobody reads the events of a reader that has left.         *)
Push(r, es) ==
  events' = [events EXCEPT ![r] = IF reader[r] = "over" THEN <<>> ELSE @ \o es]

Goto(r, label) == loop' = [loop EXCEPT ![r] = label]

(* A session that is resumed after a message of the user. *)
Init ==
  /\ steeringQueue = <<>> /\ followUpQueue = <<>> /\ messages = <<User(NoRun, 0)>>
  /\ activeRun = NoRun /\ runningPrompt = NoRun /\ isStreaming = FALSE
  /\ skipPoll = {} /\ aborted = {} /\ abandoned = {} /\ lost = {}
  /\ runs = 0 /\ issued = 0 /\ steered = {}
  /\ calls = [r \in Runs |-> <<>>]
  /\ task = [r \in Runs |-> <<>>] /\ result = [r \in Runs |-> <<>>]
  /\ check = [r \in Runs |-> NoCheck] /\ steering = [r \in Runs |-> <<>>]
  /\ loop = [r \in Runs |-> "none"]
  /\ pending = [r \in Runs |-> <<>>] /\ batches = 0
  /\ events = [r \in Runs |-> <<>>] /\ reader = [r \in Runs |-> "none"]

(***************************************************************************)
(* The user's side of the agent                                            *)
(***************************************************************************)
(* #runLoop with the messages ms up to its for-await, and agentLoop up to  *)
(* the first steering poll.                                                *)
BeginRun(ms) ==
  LET r == runs + 1
  IN /\ runs < MaxRuns
     /\ runs' = r
     /\ runningPrompt' = r /\ activeRun' = r /\ isStreaming' = TRUE
     /\ Goto(r, "start")
     /\ reader' = [reader EXCEPT ![r] = "reading"]
     /\ events' = [events EXCEPT ![r] = Users(r, ms)]
     /\ UNCHANGED <<batchVars, messages, aborted, pending, batches, abandoned, lost>>

NewMessage == issued < MaxUserMsgs /\ issued' = issued + 1

(* Nobody looks at the queues before the model has answered: a message     *)
(* that arrives meanwhile is taken to arrive then.                         *)
QueuesWatched == activeRun # NoRun => loop[activeRun] \notin {"turn", "model"}

Prompt ==
  /\ ~isStreaming
  /\ NewMessage
  /\ BeginRun(<<issued + 1>>)
  /\ UNCHANGED <<steeringQueue, followUpQueue, steered, skipPoll>>

(* continue: queued messages take the turn when the transcript ends with   *)
(* an assistant message, and the loop goes on from it otherwise.           *)
ContinueQueued ==
  /\ ~isStreaming
  /\ messages[Len(messages)].what = "assistant"
  /\ IF steeringQueue # <<>>
       THEN /\ BeginRun(Taken(steeringQueue))
            /\ steeringQueue' = Left(steeringQueue)
            /\ skipPoll' = skipPoll \cup {runs + 1}
            /\ UNCHANGED followUpQueue
       ELSE /\ followUpQueue # <<>>
            /\ BeginRun(Taken(followUpQueue))
            /\ followUpQueue' = Left(followUpQueue)
            /\ UNCHANGED <<steeringQueue, skipPoll>>
  /\ UNCHANGED <<issued, steered>>

ContinueTranscript ==
  /\ ~isStreaming
  /\ messages[Len(messages)].what # "assistant"
  /\ BeginRun(<<>>)
  /\ UNCHANGED <<steeringQueue, followUpQueue, skipPoll, issued, steered>>

\* Mutant: the message goes to the front of the queue.
SteerInFront ==
  /\ NewMessage /\ QueuesWatched
  /\ steeringQueue' = <<issued + 1>> \o steeringQueue
  /\ steered' = steered \cup {issued + 1}
  /\ UNCHANGED <<batchVars, loopVars, streamVars, activeRun, skipPoll, followUpQueue, messages,
                 isStreaming, runningPrompt, runs, aborted, abandoned, lost>>

Steer ==
  /\ NewMessage /\ QueuesWatched
  /\ steeringQueue' = Append(steeringQueue, issued + 1)
  /\ steered' = steered \cup {issued + 1}
  /\ UNCHANGED <<batchVars, loopVars, streamVars, activeRun, skipPoll, followUpQueue, messages,
                 isStreaming, runningPrompt, runs, aborted, abandoned, lost>>

FollowUp ==
  /\ NewMessage /\ QueuesWatched
  /\ followUpQueue' = Append(followUpQueue, issued + 1)
  /\ UNCHANGED <<batchVars, loopVars, streamVars, queueVars, messages, isStreaming, runningPrompt,
                 runs, steered, aborted, abandoned, lost>>

(* abort: the controller is that of the latest run, until it is finished. *)
Abort ==
  /\ activeRun # NoRun
  /\ aborted' = aborted \cup {activeRun}
  /\ UNCHANGED <<batchVars, loopVars, streamVars, queueVars, followUpQueue, messages, isStreaming,
                 runningPrompt, runs, issued, steered, abandoned, lost>>

(* The session gives a run up when it has aborted it and it does not end.  *)
ForceAbort ==
  /\ runningPrompt # NoRun /\ activeRun \in aborted
  /\ abandoned' = abandoned \cup {activeRun}
  /\ activeRun' = NoRun /\ isStreaming' = FALSE /\ runningPrompt' = NoRun
  /\ UNCHANGED <<batchVars, loopVars, streamVars, steeringQueue, skipPoll, followUpQueue,
                 messages, runs, issued, steered, aborted, lost>>

(***************************************************************************)
(* runLoopBody                                                             *)
(***************************************************************************)
(* The steering polls: before the first turn, and after each batch. *)
InitialPoll(r) ==
  /\ loop[r] = "start"
  /\ pending' = [pending EXCEPT ![r] = Polled(r)]
  /\ PollEffect(r)
  /\ Goto(r, "turn")
  /\ UNCHANGED <<batchVars, agentVars, streamVars, activeRun, batches>>

(* The pending messages are injected before the model is called. *)
Inject(r) ==
  /\ loop[r] = "turn"
  /\ Push(r, Users(r, pending[r]))
  /\ pending' = [pending EXCEPT ![r] = <<>>]
  /\ Goto(r, "model")
  /\ UNCHANGED <<batchVars, agentVars, queueVars, batches, reader>>

(* The model answers without tool calls, or with a batch of them. *)
Answer(r) ==
  /\ loop[r] = "model" /\ r \notin aborted
  /\ Push(r, <<Assistant(r, 0)>>)
  /\ Goto(r, "settleEnd")
  /\ UNCHANGED <<batchVars, agentVars, queueVars, pending, batches, reader>>

AnswerWithCalls(r) ==
  /\ loop[r] = "model" /\ r \notin aborted
  /\ batches < MaxBatches
  /\ \E kinds \in Batches :
       /\ Push(r, <<Assistant(r, Len(kinds))>>)
       /\ BeginBatch(r, kinds)
  /\ batches' = batches + 1
  /\ Goto(r, "tools")
  /\ UNCHANGED <<agentVars, queueVars, pending, reader>>

\* Mutant: no placeholder results.
AnswerBrokenBare(r) ==
  /\ loop[r] = "model"
  /\ \E n \in {0} \cup {Len(kinds) : kinds \in Batches} :
       Push(r, <<Assistant(r, n)>> \o <<AgentEnd>>)
  /\ Goto(r, "ended")
  /\ UNCHANGED <<batchVars, agentVars, queueVars, pending, batches, reader>>

(* stopReason "error" or "aborted": placeholder results, and the run ends. *)
AnswerBroken(r) ==
  /\ loop[r] = "model"
  /\ \E n \in {0} \cup {Len(kinds) : kinds \in Batches} :
       Push(r, <<Assistant(r, n)>> \o Results(r, n) \o <<AgentEnd>>)
  /\ Goto(r, "ended")
  /\ UNCHANGED <<batchVars, agentVars, queueVars, pending, batches, reader>>

(* The request or a callback, also onBeforeYield, throws: stream.fail. *)
Throw(r) ==
  /\ loop[r] \in {"model", "yield"}
  /\ Push(r, <<Failure>>)
  /\ Goto(r, "ended")
  /\ UNCHANGED <<batchVars, agentVars, queueVars, pending, batches, reader>>

(* executeToolCalls returns; the calls' events were pushed as they ended.  *)
BatchEnds(r) ==
  /\ loop[r] = "tools" /\ Settled(r)
  /\ Push(r, Sweep(r))
  /\ BeginBatch(r, <<>>)
  /\ pending' = [pending EXCEPT ![r] = steering[r]]
  /\ Goto(r, IF triggered(r) THEN "turn" ELSE "settle")
  /\ UNCHANGED <<agentVars, queueVars, batches, reader>>

(* After a turn: poll, then pause, go round again or come to yielding. *)
Settle(r) ==
  /\ loop[r] \in {"settle", "settleEnd"}
  /\ pending' = [pending EXCEPT ![r] = Polled(r)]
  /\ PollEffect(r)
  /\ Goto(r, IF Polled(r) # <<>> \/ loop[r] = "settle" THEN "turn" ELSE "yield")
  /\ UNCHANGED <<batchVars, agentVars, streamVars, activeRun, batches>>

(* shouldPause, after a turn whose poll is empty or before yielding. *)
Pause(r) ==
  /\ loop[r] \in {"settle", "settleEnd", "yield"}
  /\ activeRun = r
  /\ loop[r] = "yield" \/ Polled(r) = <<>>
  /\ IF loop[r] = "yield" THEN UNCHANGED <<steeringQueue, skipPoll>> ELSE PollEffect(r)
  /\ Push(r, <<AgentEnd>>)
  /\ Goto(r, "ended")
  /\ UNCHANGED <<batchVars, agentVars, activeRun, pending, batches, reader>>

YieldPoll(r) ==
  /\ loop[r] = "yield"
  /\ pending' = [pending EXCEPT ![r] = Polled(r)]
  /\ PollEffect(r)
  /\ Goto(r, IF Polled(r) # <<>> THEN "turn" ELSE "followUp")
  /\ UNCHANGED <<batchVars, agentVars, streamVars, activeRun, batches>>

TakeFollowUps(r) ==
  /\ loop[r] = "followUp" /\ activeRun = r /\ followUpQueue # <<>>
  /\ pending' = [pending EXCEPT ![r] = Taken(followUpQueue)]
  /\ followUpQueue' = Left(followUpQueue)
  /\ Goto(r, "turn")
  /\ UNCHANGED <<batchVars, streamVars, queueVars, messages, isStreaming, runningPrompt, runs,
                 issued, steered, aborted, abandoned, lost, batches>>

Finish(r) ==
  /\ loop[r] = "followUp"
  /\ activeRun = r => followUpQueue = <<>>
  /\ Push(r, <<AgentEnd>>)
  /\ Goto(r, "ended")
  /\ UNCHANGED <<batchVars, agentVars, queueVars, pending, batches, reader>>

(* The batch's steps within the loop. *)
CallStarts(r, i) == StartCall(r, i) /\ UNCHANGED <<agentVars, loopVars, streamVars>>

CallEnds(r, i) ==
  /\ EndCall(r, i)
  /\ Push(r, <<Result(r, i)>>)
  /\ UNCHANGED <<agentVars, loopVars, reader>>

CheckEnds(r) == EndCheck(r) /\ UNCHANGED <<agentVars, loopVars, streamVars>>

(***************************************************************************)
(* The for-await of #runLoop                                               *)
(***************************************************************************)
Consumed(r) == events' = [events EXCEPT ![r] = Tail(@)]

\* Mutant: without a look at the active run.
ReadMessageOfAnyRun(r) ==
  /\ reader[r] = "reading" /\ events[r] # <<>>
  /\ Head(events[r]).what \in {"user", "assistant", "result"}
  /\ messages' = Append(messages, Head(events[r]))
  /\ Consumed(r)
  /\ UNCHANGED <<batchVars, queueVars, loopVars, reader, followUpQueue, isStreaming,
                 runningPrompt, runs, issued, steered, aborted, abandoned, lost>>

(* message_end: appendMessage. *)
ReadMessage(r) ==
  /\ reader[r] = "reading" /\ events[r] # <<>> /\ activeRun = r
  /\ Head(events[r]).what \in {"user", "assistant", "result"}
  /\ messages' = Append(messages, Head(events[r]))
  /\ Consumed(r)
  /\ UNCHANGED <<batchVars, queueVars, loopVars, reader, followUpQueue, isStreaming,
                 runningPrompt, runs, issued, steered, aborted, abandoned, lost>>

(* agent_end: the agent is not streaming any more; the run is not finished.*)
ReadEnd(r) ==
  /\ reader[r] = "reading" /\ events[r] # <<>> /\ activeRun = r
  /\ Head(events[r]) = AgentEnd
  /\ isStreaming' = FALSE
  /\ reader' = [reader EXCEPT ![r] = "closing"]
  /\ Consumed(r)
  /\ UNCHANGED <<batchVars, queueVars, loopVars, followUpQueue, messages, runningPrompt, runs,
                 issued, steered, aborted, abandoned, lost>>

(* The finally block of a run that is still the active one. *)
Finalize(r) ==
  /\ activeRun' = NoRun /\ runningPrompt' = NoRun /\ isStreaming' = FALSE
  /\ reader' = [reader EXCEPT ![r] = "over"]
  /\ aborted' = aborted \ {r}

Finally(r) ==
  /\ reader[r] = "closing"
  /\ IF activeRun = r
       THEN Finalize(r)
       ELSE /\ reader' = [reader EXCEPT ![r] = "over"]
            /\ UNCHANGED <<activeRun, runningPrompt, isStreaming, aborted>>
  /\ UNCHANGED <<batchVars, steeringQueue, skipPoll, loopVars, events, followUpQueue, messages,
                 runs, issued, steered, abandoned, lost>>

(* The stream has failed: the catch block appends an assistant message.    *)
ReadFailure(r) ==
  /\ reader[r] = "reading" /\ events[r] # <<>> /\ activeRun = r
  /\ Head(events[r]) = Failure
  /\ messages' = Append(messages, Assistant(r, 0))
  /\ Consumed(r)
  /\ Finalize(r)
  /\ UNCHANGED <<batchVars, steeringQueue, skipPoll, loopVars, followUpQueue, runs, issued,
                 steered, abandoned, lost>>

(* How often message m occurs in a sequence of messages or of entries, and *)
(* how often run r holds it on its way into the transcript.                *)
Times(m, ms) == Cardinality({k \in DOMAIN ms : ms[k] = m})

TimesShown(m, es) ==
  Cardinality({k \in DOMAIN es : es[k].what = "user" /\ es[k].msg = m})

HeldBy(r, m) ==
  Times(m, pending[r]) + Times(m, check[r].got) + TimesShown(m, events[r])
    + Times(m, steering[r])

(* A run that is not the active one leaves at its next event.  The rest of *)
(* its loop and of its batch polls nothing and pushes events nobody reads:  *)
(* they are not followed.                                                  *)
Leave(r) ==
  /\ reader[r] = "reading" /\ events[r] # <<>> /\ activeRun # r
  /\ events' = [events EXCEPT ![r] = <<>>]
  /\ reader' = [reader EXCEPT ![r] = "over"]
  /\ Goto(r, "ended")
  /\ pending' = [pending EXCEPT ![r] = <<>>]
  /\ BeginBatch(r, <<>>)
  /\ lost' = lost \cup {m \in UserMsgs : HeldBy(r, m) > 0}
  /\ UNCHANGED <<queueVars, followUpQueue, messages, isStreaming, runningPrompt, runs, issued,
                 steered, aborted, abandoned, batches>>

(***************************************************************************)
(* Specification                                                           *)
(***************************************************************************)
UserStep == Prompt \/ ContinueQueued \/ ContinueTranscript \/ Steer \/ FollowUp \/ Abort \/ ForceAbort

KeepsUp(r) == Len(events[r]) <= MaxUnread

LoopStep(r) ==
  \/ InitialPoll(r) \/ Inject(r) \/ Answer(r) \/ AnswerWithCalls(r) \/ AnswerBroken(r) \/ Throw(r)
  \/ BatchEnds(r) \/ Settle(r) \/ Pause(r) \/ YieldPoll(r) \/ TakeFollowUps(r) \/ Finish(r)

CallStep(r) == CheckEnds(r) \/ \E i \in Indices(r) : CallStarts(r, i) \/ CallEnds(r, i)

ReadStep(r) == ReadMessage(r) \/ ReadEnd(r) \/ Finally(r) \/ ReadFailure(r) \/ Leave(r)

ProducerStep(r) == KeepsUp(r) /\ (LoopStep(r) \/ CallStep(r))

Next == UserStep \/ \E r \in Runs : ProducerStep(r) \/ ReadStep(r)

(* The event loop runs on: promises settle, models and tools answer or     *)
(* throw.  That is fairness for the program as a whole, not for each run.  *)
Fairness == WF_vars(\E r \in Runs : ProducerStep(r) \/ ReadStep(r))

Spec == Init /\ [][Next]_vars /\ Fairness

(***************************************************************************)
(* Properties                                                              *)
(***************************************************************************)
TypeOK ==
  /\ activeRun = runningPrompt /\ activeRun \in Runs \cup {NoRun}
  /\ isStreaming => activeRun # NoRun
  /\ runs \in 0..MaxRuns /\ issued \in 0..MaxUserMsgs
  /\ aborted \cup abandoned \cup skipPoll \subseteq Runs
  /\ \A r \in Runs :
       /\ loop[r] \in {"none", "start", "turn", "model", "tools", "settle", "settleEnd", "yield",
                       "followUp", "ended"}
       /\ reader[r] \in {"none", "reading", "closing", "over"}
       /\ calls[r] \in Batches \cup {<<>>}
       /\ task[r] \in [Indices(r) -> {"waiting", "running", "checking", "done"}]
       /\ result[r] \in [Indices(r) -> {"none", "tool", "skipped"}]

(* A message of the user is neither lost nor shown twice: it is in one     *)
(* queue, on its way in one run, or in the transcript once, and only a run *)
(* given up by forceAbort takes messages with it.                          *)
Outside(m) == Times(m, steeringQueue) + Times(m, followUpQueue) + TimesShown(m, messages)

HeldOnlyBy(R, m) == \A q \in Runs : HeldBy(q, m) = (IF q \in R THEN 1 ELSE 0)

InOnePlace(m) ==
  \/ Outside(m) = 1 /\ HeldOnlyBy({}, m)
  \/ Outside(m) = 0 /\ \E r \in Runs : HeldOnlyBy({r}, m)

MessageKept ==
  \A m \in 1..issued :
    IF m \in lost THEN Outside(m) = 0 /\ HeldOnlyBy({}, m) ELSE InOnePlace(m)

(* What the model of the active run has been shown: the transcript and what *)
(* the run has emitted since, which is not its end before the loop is over.  *)
Context(r) == messages \o events[r]

(* The results of an assistant message's calls are the entries that follow *)
(* it, one for each call.                                                  *)
AnsweredAt(es, p) ==
  /\ p + es[p].calls <= Len(es)
  /\ {es[q] : q \in (p + 1)..(p + es[p].calls)}
       = {Result(es[p].run, i) : i \in 1..es[p].calls}

BelongsAt(es, p) ==
  \E q \in 1..(p - 1) : /\ es[q].what = "assistant" /\ es[q].run = es[p].run
                        /\ p - q <= es[q].calls
                        /\ \A k \in (q + 1)..(p - 1) : es[k].what = "result"

Paired(es) ==
  \A p \in DOMAIN es :
    /\ es[p].what = "assistant" /\ es[p].run \notin abandoned => AnsweredAt(es, p)
    /\ es[p].what = "result" => BelongsAt(es, p)

(* "This maintains the tool_use/tool_result pairing that the API requires" *)
(* (agent-loop.ts): whenever the model is called and whenever the agent is *)
(* idle, every tool call in the transcript has its one result behind it,   *)
(* unless its run was given up by forceAbort.                              *)
CallsArePaired ==
  /\ activeRun = NoRun => Paired(messages)
  /\ activeRun # NoRun /\ loop[activeRun] = "model" => Paired(Context(activeRun))

(* Nothing of an abandoned run enters the transcript of its successor. *)
RunsDoNotMix ==
  \A p, q \in DOMAIN messages : p < q => messages[p].run <= messages[q].run

(* The types of the agent's state, and the order of its runs. *)
LoopInv == TypeOK /\ RunsDoNotMix

(* Steering messages reach the model in the order the user sent them, over *)
(* polls between turns, checks among tools, pauses and continued runs.     *)
SteeringInOrder ==
  \A p, q \in DOMAIN messages :
    /\ p < q /\ messages[p].what = "user" /\ messages[q].what = "user"
    /\ {messages[p].msg, messages[q].msg} \subseteq steered
    => messages[p].msg < messages[q].msg

(* The promise of a run, which waitForIdle returns, is resolved when the   *)
(* run is over or given up: not while the run can still touch the          *)
(* transcript.  It is dropped, and never resolved, only when a run begins  *)
(* between the end of this one and its finally block.                      *)
WaitsEndInTime ==
  \A r \in Runs : runningPrompt = r /\ runningPrompt' # r =>
    IF runningPrompt' = NoRun THEN reader'[r] = "over" \/ r \in abandoned'
                              ELSE reader[r] = "closing"

(* And every wait comes to that, the agent becoming idle again and again:  *)
(* calls that wait for each other and for a steering check never wait in a *)
(* circle, and every way out of the loop is seen by the reader.            *)
WaitsEnd == []<>(runningPrompt = NoRun) /\ [][WaitsEndInTime]_vars

(* The code does not keep this one (README, section 4).                    *)
(* Whoever awaits waitForIdle gets an answer: no promise is dropped.       *)
WaitersAreAnswered ==
  [][runningPrompt # NoRun => runningPrompt' \in {runningPrompt, NoRun}]_vars
===============================================================================
