-------------------------- MODULE AgentLoop_proofs --------------------------
(* The agent, for any number of runs, any length and mix of a tool batch, any *)
(* queues and any steering.  First the batches: exclusive calls run alone,   *)
(* and a call goes without a result of its tool only because the user has    *)
(* steered.  Then the runs: what a run emits is its own, the runs follow     *)
(* each other in the transcript, and steering messages pass from the queue   *)
(* through the hands of one run at a time, in the order they were sent.      *)
(* Then the messages: counted over queues, hands, events and transcript, each *)
(* is in one place.  Last the calls of the tools: each has its result.       *)
EXTENDS AgentLoop, WellFoundedInduction, FiniteSetTheorems, FunctionTheorems, SequenceTheorems, TLAPS

States == {"waiting", "running", "checking", "done"}
Answers == {"none", "tool", "skipped"}

(* A call starts after every call before it with which it may not overlap.   *)
(* This is stronger than what Awaits waits for: the calls before the last    *)
(* exclusive one are done because that one has started.                      *)
OrderKept(r) ==
  \A i, j \in Indices(r) :
    j < i /\ "exclusive" \in {calls[r][i], calls[r][j]} /\ task[r][i] # "waiting"
      => task[r][j] = "done"

(* A call has its result when its tool has ended, and ends without one only  *)
(* when steering was found.                                                  *)
AnswersKept(r) ==
  \A i \in Indices(r) :
    /\ task[r][i] = "done" /\ result[r][i] = "none" => triggered(r)
    /\ task[r][i] = "checking" => result[r][i] # "none"
    /\ result[r][i] = "skipped" => triggered(r)

RunBatch(r) ==
  /\ calls[r] \in Seq(Kinds)
  /\ task[r] \in [Indices(r) -> States]
  /\ result[r] \in [Indices(r) -> Answers]
  /\ OrderKept(r) /\ AnswersKept(r)

(* The variables of the batches are functions of the runs. *)
Rows ==
  /\ calls = [r \in Runs |-> calls[r]] /\ task = [r \in Runs |-> task[r]]
  /\ result = [r \in Runs |-> result[r]] /\ steering = [r \in Runs |-> steering[r]]

BatchInv == Rows /\ \A r \in Runs : RunBatch(r)

(* Replacing one value of a function. *)
LEMMA Update ==
  ASSUME NEW S, NEW f, f = [q \in S |-> f[q]], NEW r \in S, NEW x,
         NEW g, g = [f EXCEPT ![r] = x]
  PROVE  g = [q \in S |-> g[q]] /\ g[r] = x /\ \A q \in S : q # r => g[q] = f[q]
<1>1. DOMAIN f = S
  BY Zenon
<1>2. g = [q \in S |-> IF q = r THEN x ELSE f[q]]
  BY <1>1
<1>3. \A q \in S : g[q] = IF q = r THEN x ELSE f[q]
  BY <1>2
<1> QED
  BY <1>2, <1>3

(* A non-empty set of numbers up to b has a greatest element. *)
LEMMA Greatest ==
  ASSUME NEW b \in Nat, NEW S \in SUBSET (0..b), S # {}
  PROVE  \E m \in S : \A n \in S : n <= m
<1> DEFINE D == {b - m : m \in S}
<1>0. PICK z \in S : z \in 0..b
  OBVIOUS
<1>1. D \subseteq Nat /\ D # {}
  <2>1. b - z \in D
    OBVIOUS
  <2>2. D \subseteq Nat
    OBVIOUS
  <2> QED
    BY <2>1, <2>2
<1>2. PICK d \in D : \A e \in D : ~ (<<e, d>> \in OpToRel(<, Nat))
  <2> HIDE DEF D
  <2> QED
    BY <1>1, NatLessThanWellFounded, WFMin
<1>3. PICK m \in S : d = b - m
  OBVIOUS
<1>4. ASSUME NEW n \in S, n > m PROVE FALSE
  <2>0. b - n \in D /\ n \in 0..b /\ m \in 0..b
    OBVIOUS
  <2>1. b - n \in Nat /\ d \in Nat /\ b - n < d
    BY <1>3, <1>4, <2>0
  <2>2. <<b - n, d>> \in OpToRel(<, Nat)
    BY <2>1 DEF OpToRel
  <2> QED
    BY <1>2, <2>0, <2>2
<1> QED
  BY <1>4

(* What Awaits waits for is enough: the last exclusive call, and before an   *)
(* exclusive one the shared calls since.                                     *)
LEMMA AwaitsSuffice ==
  ASSUME NEW r \in Runs, RunBatch(r), NEW i \in Indices(r),
         \A j \in Awaits(r, i) : task[r][j] = "done",
         NEW j \in Indices(r), j < i, "exclusive" \in {calls[r][i], calls[r][j]}
  PROVE  task[r][j] = "done"
<1>1. /\ Indices(r) = 1..Len(calls[r]) /\ Len(calls[r]) \in Nat
      /\ \A k \in Indices(r) : calls[r][k] \in {"shared", "exclusive"}
  BY DEF RunBatch, Indices, Kinds
<1> DEFINE E == {k \in 1..(i - 1) : calls[r][k] = "exclusive"}
<1>2. CASE E = {}
  <2>1. calls[r][i] = "exclusive"
    BY <1>1, <1>2
  <2>2. j \in SharedSince(r, i)
    BY <1>1, <1>2 DEF SharedSince
  <2> QED
    BY <2>1, <2>2 DEF Awaits
<1>3. CASE E # {}
  <2>1. E \subseteq 0..i /\ i \in Nat
    BY <1>1
  <2>2. PICK e \in E : \A n \in E : n <= e
    <3> HIDE DEF E
    <3> QED
      BY <1>3, <2>1, Greatest
  <2>3. e \in Indices(r) /\ e < i /\ calls[r][e] = "exclusive"
    BY <1>1
  <2>4. \A k \in (e + 1)..(i - 1) : calls[r][k] = "shared"
    BY <1>1, <2>2, <2>3
  <2>5. e \in Awaits(r, i)
    BY <1>1, <2>3, <2>4 DEF Awaits, LastExclusive
  <2>6. task[r][e] = "done"
    BY <2>5
  <2>7. CASE j < e
    BY <2>3, <2>6, <2>7 DEF RunBatch, OrderKept
  <2>8. CASE j > e
    <3>1. calls[r][j] = "shared" /\ calls[r][i] = "exclusive"
      BY <1>1, <2>3, <2>4, <2>8
    <3>2. j \in SharedSince(r, i)
      BY <1>1, <2>3, <2>4, <2>8 DEF SharedSince
    <3> QED
      BY <3>1, <3>2 DEF Awaits
  <2> QED
    BY <1>1, <2>3, <2>6, <2>7, <2>8
<1> QED
  BY <1>2, <1>3

(* A step of one run's batch leaves those of the others alone. *)
LEMMA OtherRuns ==
  ASSUME NEW q \in Runs, RunBatch(q),
         calls'[q] = calls[q], task'[q] = task[q], result'[q] = result[q],
         steering'[q] = steering[q]
  PROVE  RunBatch(q)'
BY DEF RunBatch, Indices, OrderKept, AnswersKept, triggered

(* executeToolCalls: every call waits and has no result.                     *)
LEMMA BatchBegins ==
  ASSUME BatchInv, NEW r \in Runs, NEW kinds \in Seq(Kinds), BeginBatch(r, kinds)
  PROVE  BatchInv'
<1> DEFINE waiting == [i \in DOMAIN kinds |-> "waiting"]
           none == [i \in DOMAIN kinds |-> "none"]
<1>1. /\ Rows'
      /\ calls'[r] = kinds /\ task'[r] = waiting /\ result'[r] = none
      /\ \A q \in Runs : q # r => /\ calls'[q] = calls[q] /\ task'[q] = task[q]
                                 /\ result'[q] = result[q] /\ steering'[q] = steering[q]
  <2> HIDE DEF waiting, none
  <2>1. Rows /\ BeginBatch(r, kinds)
    BY DEF BatchInv
  <2>2. /\ calls' = [calls EXCEPT ![r] = kinds] /\ task' = [task EXCEPT ![r] = waiting]
        /\ result' = [result EXCEPT ![r] = none] /\ steering' = [steering EXCEPT ![r] = <<>>]
    BY DEF BeginBatch, waiting, none
  <2> QED
    BY <2>1, <2>2, Update DEF Rows
<1>2. RunBatch(r)'
  <2>1. waiting \in [DOMAIN kinds -> States] /\ none \in [DOMAIN kinds -> Answers]
    BY DEF States, Answers
  <2> QED
    BY <1>1, <2>1 DEF RunBatch, Indices, OrderKept, AnswersKept
<1> QED
  BY <1>1, <1>2, OtherRuns DEF BatchInv

(* runTool starts, or returns at once after steering was found.              *)
LEMMA CallBegins ==
  ASSUME BatchInv, NEW r \in Runs, NEW i \in Indices(r), StartCall(r, i)
  PROVE  BatchInv'
<1> DEFINE next == IF triggered(r) THEN "done" ELSE "running"
<1>1. task' = [task EXCEPT ![r] = [task[r] EXCEPT ![i] = next]]
      /\ UNCHANGED <<calls, result, steering>>
  BY DEF StartCall
<1>2. Rows' /\ task'[r] = [task[r] EXCEPT ![i] = next]
      /\ \A q \in Runs : q # r => task'[q] = task[q]
  <2>1. Rows
    BY DEF BatchInv
  <2> QED
    BY <1>1, <2>1, Update DEF Rows
<1>3. RunBatch(r)
  BY DEF BatchInv
<1>4. task[r] \in [Indices(r) -> States] /\ next \in States
  BY <1>3 DEF RunBatch, States
<1>5. task'[r] \in [Indices(r) -> States] /\ task'[r][i] = next
      /\ \A k \in Indices(r) : k # i => task'[r][k] = task[r][k]
  BY <1>2, <1>4
<1>6. OrderKept(r)'
  <2> SUFFICES ASSUME NEW k \in Indices(r), NEW j \in Indices(r), j < k,
                      "exclusive" \in {calls[r][k], calls[r][j]}, task'[r][k] # "waiting"
               PROVE  task'[r][j] = "done"
    BY <1>1 DEF OrderKept, Indices
  <2>1. CASE k = i
    <3>1. task[r][j] = "done"
      BY <2>1, <1>3, AwaitsSuffice DEF StartCall
    <3>2. j # i
      BY <3>1 DEF StartCall
    <3> QED
      BY <1>5, <3>1, <3>2
  <2>2. CASE k # i
    <3>1. task[r][j] = "done"
      BY <2>2, <1>3, <1>5 DEF RunBatch, OrderKept
    <3>2. j # i
      BY <3>1 DEF StartCall
    <3> QED
      BY <1>5, <3>1, <3>2
  <2> QED
    BY <2>1, <2>2
<1>7. AnswersKept(r)'
  <2> SUFFICES ASSUME NEW k \in Indices(r)
               PROVE  /\ task'[r][k] = "done" /\ result[r][k] = "none" => triggered(r)
                      /\ task'[r][k] = "checking" => result[r][k] # "none"
                      /\ result[r][k] = "skipped" => triggered(r)
    BY <1>1 DEF AnswersKept, Indices, triggered
  <2> QED
    BY <1>3, <1>5 DEF RunBatch, AnswersKept
<1>8. RunBatch(r)'
  BY <1>1, <1>3, <1>5, <1>6, <1>7 DEF RunBatch, Indices
<1> QED
  BY <1>1, <1>2, <1>8, OtherRuns DEF BatchInv

(* A tool ends and its result is emitted.                                    *)
LEMMA CallFinishes ==
  ASSUME BatchInv, NEW r \in Runs, NEW i \in Indices(r), EndCall(r, i)
  PROVE  BatchInv'
<1> DEFINE answer == IF triggered(r) THEN "skipped" ELSE "tool"
<1>1. PICK next \in {"done", "checking"} :
        /\ task' = [task EXCEPT ![r] = [task[r] EXCEPT ![i] = next]]
        /\ result' = [result EXCEPT ![r] = [result[r] EXCEPT ![i] = answer]]
        /\ UNCHANGED <<calls, steering>>
  BY DEF EndCall
<1>2. /\ Rows' /\ task'[r] = [task[r] EXCEPT ![i] = next]
      /\ result'[r] = [result[r] EXCEPT ![i] = answer]
      /\ \A q \in Runs : q # r => task'[q] = task[q] /\ result'[q] = result[q]
  <2> HIDE DEF answer
  <2>1. Rows
    BY DEF BatchInv
  <2> QED
    BY <1>1, <2>1, Update DEF Rows
<1>3. RunBatch(r)
  BY DEF BatchInv
<1>4. /\ task[r] \in [Indices(r) -> States] /\ next \in States
      /\ result[r] \in [Indices(r) -> Answers] /\ answer \in Answers
  BY <1>3 DEF RunBatch, States, Answers
<1>5. /\ task'[r] \in [Indices(r) -> States] /\ task'[r][i] = next
      /\ \A k \in Indices(r) : k # i => task'[r][k] = task[r][k]
  BY <1>2, <1>4
<1>6. /\ result'[r] \in [Indices(r) -> Answers] /\ result'[r][i] = answer
      /\ \A k \in Indices(r) : k # i => result'[r][k] = result[r][k]
  BY <1>2, <1>4
<1>7. OrderKept(r)'
  <2> SUFFICES ASSUME NEW k \in Indices(r), NEW j \in Indices(r), j < k,
                      "exclusive" \in {calls[r][k], calls[r][j]}, task'[r][k] # "waiting"
               PROVE  task'[r][j] = "done"
    BY <1>1 DEF OrderKept, Indices
  <2>1. task[r][k] # "waiting"
    BY <1>5 DEF EndCall
  <2>2. task[r][j] = "done"
    BY <2>1, <1>3 DEF RunBatch, OrderKept
  <2>3. j # i
    BY <2>2 DEF EndCall
  <2> QED
    BY <1>5, <2>2, <2>3
<1>8. AnswersKept(r)'
  <2> SUFFICES ASSUME NEW k \in Indices(r)
               PROVE  /\ task'[r][k] = "done" /\ result'[r][k] = "none" => triggered(r)
                      /\ task'[r][k] = "checking" => result'[r][k] # "none"
                      /\ result'[r][k] = "skipped" => triggered(r)
    BY <1>1 DEF AnswersKept, Indices, triggered
  <2> QED
    BY <1>3, <1>5, <1>6 DEF RunBatch, AnswersKept
<1>9. RunBatch(r)'
  BY <1>1, <1>3, <1>5, <1>6, <1>7, <1>8 DEF RunBatch, Indices
<1> QED
  BY <1>1, <1>2, <1>9, OtherRuns DEF BatchInv

(* A steering check ends; what it has found stays found.                     *)
LEMMA CheckFinishes ==
  ASSUME BatchInv, NEW r \in Runs, EndCheck(r)
  PROVE  BatchInv'
<1> DEFINE next == [i \in Indices(r) |-> IF task[r][i] = "checking" THEN "done" ELSE task[r][i]]
           found == IF check[r].got = <<>> THEN steering[r] ELSE check[r].got
<1>1. /\ task' = [task EXCEPT ![r] = next] /\ steering' = [steering EXCEPT ![r] = found]
      /\ UNCHANGED <<calls, result>>
  BY DEF EndCheck
<1>2. /\ Rows' /\ task'[r] = next /\ steering'[r] = found
      /\ \A q \in Runs : q # r => task'[q] = task[q] /\ steering'[q] = steering[q]
  <2> HIDE DEF next, found
  <2>1. Rows
    BY DEF BatchInv
  <2> QED
    BY <1>1, <2>1, Update DEF Rows
<1>3. RunBatch(r)
  BY DEF BatchInv
<1>4. /\ task'[r] \in [Indices(r) -> States]
      /\ \A k \in Indices(r) :
           task'[r][k] = IF task[r][k] = "checking" THEN "done" ELSE task[r][k]
  BY <1>2, <1>3 DEF RunBatch, States
<1>5. triggered(r) => triggered(r)'
  BY <1>2 DEF triggered
<1>6. OrderKept(r)'
  <2> SUFFICES ASSUME NEW k \in Indices(r), NEW j \in Indices(r), j < k,
                      "exclusive" \in {calls[r][k], calls[r][j]}, task'[r][k] # "waiting"
               PROVE  task'[r][j] = "done"
    BY <1>1 DEF OrderKept, Indices
  <2> QED
    BY <1>3, <1>4 DEF RunBatch, OrderKept
<1>7. AnswersKept(r)'
  <2> SUFFICES ASSUME NEW k \in Indices(r)
               PROVE  /\ task'[r][k] = "done" /\ result[r][k] = "none" => triggered(r)'
                      /\ task'[r][k] = "checking" => result[r][k] # "none"
                      /\ result[r][k] = "skipped" => triggered(r)'
    BY <1>1 DEF AnswersKept, Indices
  <2> QED
    BY <1>3, <1>4, <1>5 DEF RunBatch, AnswersKept
<1>8. RunBatch(r)'
  BY <1>1, <1>3, <1>4, <1>6, <1>7 DEF RunBatch, Indices
<1> QED
  BY <1>1, <1>2, <1>8, OtherRuns DEF BatchInv

(* What a step of the agent does to the batches: nothing, or one step of one *)
(* run's batch.                                                              *)
BatchStep ==
  \E r \in Runs :
    \/ \E kinds \in Seq(Kinds) : BeginBatch(r, kinds)
    \/ \E i \in Indices(r) : StartCall(r, i) \/ EndCall(r, i)
    \/ EndCheck(r)

(* Every step of the agent is such a step or leaves the batches alone.       *)
LEMMA StepsOfBatches == [Next]_vars => BatchStep \/ UNCHANGED batchVars
<1> SUFFICES ASSUME [Next]_vars PROVE BatchStep \/ UNCHANGED batchVars
  OBVIOUS
<1>1. CASE UNCHANGED vars
  BY <1>1 DEF vars
<1>2. CASE UserStep
  BY <1>2 DEF UserStep, Prompt, ContinueQueued, ContinueTranscript, Steer, FollowUp, Abort,
              ForceAbort, BeginRun
<1>3. ASSUME NEW r \in Runs, ProducerStep(r) PROVE BatchStep \/ UNCHANGED batchVars
  <2>1. CASE AnswerWithCalls(r)
    <3>1. PICK kinds \in Batches : BeginBatch(r, kinds)
      BY <2>1 DEF AnswerWithCalls
    <3>2. kinds \in Seq(Kinds)
      BY BatchAssumption
    <3> QED
      BY <3>1, <3>2 DEF BatchStep
  <2>2. CASE BatchEnds(r)
    <3>1. BeginBatch(r, <<>>) /\ <<>> \in Seq(Kinds)
      BY <2>2 DEF BatchEnds
    <3> QED
      BY <3>1 DEF BatchStep
  <2>3. CASE InitialPoll(r) \/ Inject(r) \/ Answer(r) \/ AnswerBroken(r) \/ Throw(r) \/ Settle(r)
             \/ Pause(r) \/ YieldPoll(r) \/ TakeFollowUps(r) \/ Finish(r)
    BY <2>3 DEF InitialPoll, Inject, Answer, AnswerBroken, Throw, Settle, Pause, YieldPoll,
                TakeFollowUps, Finish
  <2>4. CASE CallStep(r)
    BY <2>4 DEF CallStep, CheckEnds, CallStarts, CallEnds, BatchStep
  <2> QED
    BY <1>3, <2>1, <2>2, <2>3, <2>4 DEF ProducerStep, LoopStep
<1>4. ASSUME NEW r \in Runs, ReadStep(r) PROVE BatchStep \/ UNCHANGED batchVars
  <2>1. CASE Leave(r)
    <3>1. BeginBatch(r, <<>>) /\ <<>> \in Seq(Kinds)
      BY <2>1 DEF Leave
    <3> QED
      BY <3>1 DEF BatchStep
  <2>2. CASE ReadMessage(r) \/ ReadEnd(r) \/ Finally(r) \/ ReadFailure(r)
    BY <2>2 DEF ReadMessage, ReadEnd, Finally, ReadFailure
  <2> QED
    BY <1>4, <2>1, <2>2 DEF ReadStep
<1> QED
  BY <1>1, <1>2, <1>3, <1>4 DEF Next

(* Before the first run there are no calls.                                  *)
LEMMA InitBatch == Init => BatchInv
<1> SUFFICES ASSUME Init PROVE BatchInv
  OBVIOUS
<1>1. Rows
  BY DEF Init, Rows
<1>2. ASSUME NEW r \in Runs PROVE RunBatch(r)
  <2>1. calls[r] = <<>> /\ task[r] = <<>> /\ result[r] = <<>>
    BY DEF Init
  <2>2. Indices(r) = {}
    BY <2>1 DEF Indices
  <2>3. calls[r] \in Seq(Kinds) /\ task[r] \in [Indices(r) -> States]
        /\ result[r] \in [Indices(r) -> Answers]
    BY <2>1, <2>2
  <2> QED
    BY <2>2, <2>3 DEF RunBatch, OrderKept, AnswersKept
<1> QED
  BY <1>1, <1>2 DEF BatchInv

LEMMA StepsKeepBatches == ASSUME BatchInv, [Next]_vars PROVE BatchInv'
<1>1. CASE BatchStep
  BY <1>1, BatchBegins, CallBegins, CallFinishes, CheckFinishes DEF BatchStep
<1>2. CASE UNCHANGED batchVars
  BY <1>2, OtherRuns DEF batchVars, BatchInv, Rows
<1> QED
  BY <1>1, <1>2, StepsOfBatches

(* The batches are in order in every reachable state. *)
THEOREM BatchInvariant == Spec => []BatchInv
<1> QED
  BY InitBatch, StepsKeepBatches, PTL DEF Spec

(* ExclusiveRunsAlone (agent-loop.ts, executeToolCalls): whatever the batch   *)
(* and its scheduling, no other call is under way beside an exclusive one.   *)
THEOREM ExclusiveCallsRunAlone == Spec => []ExclusiveRunsAlone
<1>1. BatchInv => ExclusiveRunsAlone
  <2> SUFFICES ASSUME BatchInv, NEW r \in Runs, NEW i \in Indices(r), NEW j \in Indices(r),
                      i # j, calls[r][i] = "exclusive", InProgress(r, i), InProgress(r, j)
               PROVE  FALSE
    BY DEF ExclusiveRunsAlone
  <2>1. RunBatch(r) /\ i \in Nat /\ j \in Nat
    BY DEF BatchInv, RunBatch, Indices
  <2>2. j < i \/ i < j
    BY <2>1
  <2> QED
    BY <2>1, <2>2 DEF RunBatch, OrderKept, InProgress
<1> QED
  BY <1>1, BatchInvariant, PTL

(* SkippedOnlyForSteering (agent-loop.ts, executeToolCalls): without steering *)
(* every call of a settled batch has the result of its tool.                 *)
THEOREM CallsSkippedOnlyForSteering == Spec => []SkippedOnlyForSteering
<1>1. BatchInv => SkippedOnlyForSteering
  BY DEF BatchInv, RunBatch, AnswersKept, SkippedOnlyForSteering, Settled, Unanswered
<1> QED
  BY <1>1, BatchInvariant, PTL

(***************************************************************************)
(* The transcript: what the invariants of the loop say of its entries.      *)
(***************************************************************************)
Entries ==
  [what : {"user"}, run : 0..MaxRuns, msg : 0..MaxUserMsgs]
    \cup [what : {"assistant"}, run : 0..MaxRuns, calls : Nat]
    \cup [what : {"result"}, run : 0..MaxRuns, call : Nat]
    \cup {AgentEnd, Failure}

Shows(e) == e.what \in {"user", "assistant", "result"}
Messages == Seq(UserMsgs)

Labels == {"none", "start", "turn", "model", "tools", "settle", "settleEnd", "yield", "followUp", "ended"}

(* The types of the queues, of what each run holds, and of its events.       *)
DataOK ==
  /\ steeringQueue \in Messages /\ followUpQueue \in Messages
  /\ pending \in [Runs -> Messages] /\ steering \in [Runs -> Messages]
  /\ check \in [Runs -> [under : BOOLEAN, got : Messages]]
  /\ events \in [Runs -> Seq(Entries)] /\ messages \in Seq(Entries)
  /\ loop \in [Runs -> Labels] /\ reader \in [Runs -> {"none", "reading", "closing", "over"}]
  /\ calls \in [Runs -> Batches \cup {<<>>}]
  /\ skipPoll \subseteq Runs /\ aborted \subseteq Runs /\ abandoned \subseteq Runs
  /\ runs \in 0..MaxRuns /\ issued \in 0..MaxUserMsgs

(* The active run is the latest one, and later ones have not begun; a run   *)
(* has calls and steering in hand only while its tools run; what it emits   *)
(* is its own, and the transcript is made of what the runs have shown.      *)
LatestRun ==
  /\ activeRun = runningPrompt /\ activeRun \in {NoRun, runs}
  /\ isStreaming => activeRun # NoRun
LaterRuns ==
  \A r \in Runs : r > runs => loop[r] = "none" /\ reader[r] = "none" /\ pending[r] = <<>>
HandsEmpty ==
  \A r \in Runs :
    loop[r] # "tools" => calls[r] = <<>> /\ check[r] = NoCheck /\ steering[r] = <<>>
Own(r, es) == es \in Seq(Entries) /\ \A k \in DOMAIN es : Shows(es[k]) => es[k].run = r
EventsOwn == \A r \in Runs : Own(r, events[r])
EntriesShown == \A k \in DOMAIN messages : Shows(messages[k]) /\ messages[k].run <= runs

RunsKept == LatestRun /\ LaterRuns /\ HandsEmpty /\ EventsOwn /\ EntriesShown

(* The user's messages in a sequence of entries, and in one of messages.     *)
ShownIn(es) == {m \in 0..MaxUserMsgs : \E k \in DOMAIN es : es[k].what = "user" /\ es[k].msg = m}
Of(ms) == {m \in 0..MaxUserMsgs : \E k \in DOMAIN ms : ms[k] = m}

(* The order of the steering messages: within entries, within messages, and  *)
(* of one set before another.                                                *)
EntriesOrdered(es, S) ==
  \A p, q \in DOMAIN es :
    p < q /\ es[p].what = "user" /\ es[q].what = "user" /\ {es[p].msg, es[q].msg} \subseteq S
      => es[p].msg < es[q].msg
MessagesOrdered(ms, S) == \A p, q \in DOMAIN ms : p < q /\ {ms[p], ms[q]} \subseteq S => ms[p] < ms[q]

EntriesInOrder(es) == EntriesOrdered(es, steered)
InOrder(ms) == MessagesOrdered(ms, steered)
Before(M, N) == \A m \in M \cap steered, n \in N \cap steered : m < n

(* What run r has taken from the queues and not emitted. *)
InHand(p, s, c) == Of(p) \cup Of(s) \cup Of(c.got)
Held(r) == InHand(pending[r], steering[r], check[r])

IssuedKept ==
  /\ steered \subseteq 1..issued
  /\ \A m \in Of(steeringQueue) \cup Of(followUpQueue) \cup ShownIn(messages) : m <= issued
  /\ \A r \in Runs : \A m \in ShownIn(events[r]) \cup Held(r) : m <= issued
  /\ Of(steeringQueue) \subseteq steered /\ Of(followUpQueue) \cap steered = {}

(* Steering messages pass from the queue through the hands and the events of *)
(* the active run into the transcript, and never overtake each other there.  *)
Ordered(r) ==
  /\ EntriesInOrder(events[r]) /\ InOrder(steeringQueue)
  /\ InOrder(pending[r]) /\ InOrder(steering[r]) /\ InOrder(check[r].got)
  /\ Before(ShownIn(events[r]), Held(r))
  /\ Before(ShownIn(events[r]), Of(steeringQueue))
  /\ Before(Held(r), Of(steeringQueue))

SteeringKept ==
  /\ InOrder(steeringQueue) /\ EntriesInOrder(messages)
  /\ Before(ShownIn(messages), Of(steeringQueue))
  /\ activeRun # NoRun =>
       /\ Ordered(activeRun)
       /\ Before(ShownIn(messages), ShownIn(events[activeRun]) \cup Held(activeRun))

AgentInv == BatchInv /\ DataOK /\ RunsKept /\ RunsDoNotMix /\ IssuedKept /\ SteeringKept

(***************************************************************************)
(* Sequences of entries and of messages                                    *)
(***************************************************************************)
(* What two sequences make together. *)
LEMMA Joined ==
  ASSUME NEW S, NEW a \in Seq(S), NEW b \in Seq(S)
  PROVE  /\ a \o b \in Seq(S) /\ DOMAIN (a \o b) = 1..(Len(a) + Len(b))
         /\ \A k \in 1..(Len(a) + Len(b)) : (a \o b)[k] = IF k <= Len(a) THEN a[k] ELSE b[k - Len(a)]
OBVIOUS

(* Every element of the one comes before those of the other. *)
LEMMA JoinedPlaces ==
  ASSUME NEW S, NEW a \in Seq(S), NEW b \in Seq(S)
  PROVE  /\ \A k \in DOMAIN a : k \in DOMAIN (a \o b) /\ (a \o b)[k] = a[k]
         /\ \A k \in DOMAIN b : k + Len(a) \in DOMAIN (a \o b) /\ (a \o b)[k + Len(a)] = b[k]
         /\ \A k \in DOMAIN (a \o b) :
              \/ k \in DOMAIN a /\ (a \o b)[k] = a[k]
              \/ k - Len(a) \in DOMAIN b /\ (a \o b)[k] = b[k - Len(a)]
<1> DEFINE c == a \o b
<1>1. /\ DOMAIN c = 1..(Len(a) + Len(b)) /\ DOMAIN a = 1..Len(a) /\ DOMAIN b = 1..Len(b)
      /\ Len(a) \in Nat /\ Len(b) \in Nat
      /\ \A k \in 1..(Len(a) + Len(b)) : c[k] = IF k <= Len(a) THEN a[k] ELSE b[k - Len(a)]
  BY Joined
<1> HIDE DEF c
<1>2. \A k \in DOMAIN a : k \in DOMAIN c /\ c[k] = a[k]
  BY <1>1
<1>3. ASSUME NEW k \in DOMAIN b PROVE k + Len(a) \in DOMAIN c /\ c[k + Len(a)] = b[k]
  <2>1. k + Len(a) \in 1..(Len(a) + Len(b)) /\ ~(k + Len(a) <= Len(a)) /\ (k + Len(a)) - Len(a) = k
    BY <1>1
  <2> QED
    BY <1>1, <2>1
<1>4. ASSUME NEW k \in DOMAIN c
      PROVE  \/ k \in DOMAIN a /\ c[k] = a[k]
             \/ k - Len(a) \in DOMAIN b /\ c[k] = b[k - Len(a)]
  <2>1. CASE k <= Len(a)
    BY <1>1, <2>1
  <2>2. CASE k > Len(a)
    <3>1. k - Len(a) \in 1..Len(b) /\ ~(k <= Len(a))
      BY <1>1, <2>2
    <3> QED
      BY <1>1, <3>1
  <2> QED
    BY <1>1, <2>1, <2>2
<1> QED
  BY <1>2, <1>3, <1>4 DEF c

(* The entries of a run. *)
LEMMA EntryKinds ==
  ASSUME NEW r \in 0..MaxRuns
  PROVE  /\ \A m \in 0..MaxUserMsgs :
              /\ User(r, m) \in Entries /\ User(r, m).what = "user"
              /\ User(r, m).run = r /\ User(r, m).msg = m
         /\ \A n \in Nat :
              /\ Assistant(r, n) \in Entries /\ Assistant(r, n).what = "assistant"
              /\ Assistant(r, n).run = r
              /\ Result(r, n) \in Entries /\ Result(r, n).what = "result" /\ Result(r, n).run = r
         /\ AgentEnd \in Entries /\ AgentEnd.what = "end"
         /\ Failure \in Entries /\ Failure.what = "fail"
BY DEF Entries, User, Assistant, Result, AgentEnd, Failure

LEMMA UserEntries ==
  ASSUME NEW e \in Entries, e.what = "user" PROVE e.msg \in 0..MaxUserMsgs
BY DEF Entries, AgentEnd, Failure

(* The messages in joined, shortened and single sequences. *)
LEMMA JoinedShow ==
  ASSUME NEW a \in Seq(Entries), NEW b \in Seq(Entries)
  PROVE  ShownIn(a \o b) = ShownIn(a) \cup ShownIn(b)
<1>1. \A k \in DOMAIN a : k \in DOMAIN (a \o b) /\ (a \o b)[k] = a[k]
  BY JoinedPlaces
<1>2. \A k \in DOMAIN b : k + Len(a) \in DOMAIN (a \o b) /\ (a \o b)[k + Len(a)] = b[k]
  BY JoinedPlaces
<1>3. \A k \in DOMAIN (a \o b) :
              \/ k \in DOMAIN a /\ (a \o b)[k] = a[k]
              \/ k - Len(a) \in DOMAIN b /\ (a \o b)[k] = b[k - Len(a)]
  BY JoinedPlaces
<1> DEFINE c == a \o b
<1> HIDE DEF c
<1>4. ASSUME NEW m \in 0..MaxUserMsgs PROVE m \in ShownIn(c) <=> m \in ShownIn(a) \/ m \in ShownIn(b)
  <2>1. m \in ShownIn(a) \/ m \in ShownIn(b) => m \in ShownIn(c)
    BY <1>1, <1>2 DEF ShownIn, c
  <2>2. m \in ShownIn(c) => m \in ShownIn(a) \/ m \in ShownIn(b)
    BY <1>3 DEF ShownIn, c
  <2> QED
    BY <2>1, <2>2
<1>5. /\ ShownIn(a) \subseteq 0..MaxUserMsgs /\ ShownIn(b) \subseteq 0..MaxUserMsgs
      /\ ShownIn(c) \subseteq 0..MaxUserMsgs
  BY DEF ShownIn
<1>6. ShownIn(c) = ShownIn(a) \cup ShownIn(b)
  BY <1>4, <1>5
<1> QED
  BY <1>6 DEF c

LEMMA JoinedOrder ==
  ASSUME NEW a \in Seq(Entries), NEW b \in Seq(Entries),
         EntriesInOrder(a), EntriesInOrder(b), Before(ShownIn(a), ShownIn(b))
  PROVE  EntriesInOrder(a \o b)
<1> DEFINE c == a \o b
<1>1. ASSUME NEW k \in DOMAIN c
      PROVE  \/ k \in DOMAIN a /\ c[k] = a[k]
             \/ k - Len(a) \in DOMAIN b /\ c[k] = b[k - Len(a)]
  BY JoinedPlaces
<1> SUFFICES ASSUME NEW p \in DOMAIN c, NEW q \in DOMAIN c, p < q, c[p].what = "user", c[q].what = "user",
                    c[p].msg \in steered, c[q].msg \in steered
             PROVE  c[p].msg < c[q].msg
  BY DEF EntriesInOrder, EntriesOrdered
<1>2. c \in Seq(Entries) /\ p \in Nat /\ q \in Nat /\ DOMAIN a = 1..Len(a) /\ DOMAIN b = 1..Len(b) /\ Len(a) \in Nat
  OBVIOUS
<1>3. c[p].msg \in 0..MaxUserMsgs /\ c[q].msg \in 0..MaxUserMsgs
  BY <1>2, UserEntries
<1> HIDE DEF c
<1>4. CASE p \in DOMAIN a /\ q \in DOMAIN a /\ c[p] = a[p] /\ c[q] = a[q]
  BY <1>4 DEF EntriesInOrder, EntriesOrdered
<1>5. CASE p \in DOMAIN a /\ q - Len(a) \in DOMAIN b /\ c[p] = a[p] /\ c[q] = b[q - Len(a)]
  <2>1. c[p].msg \in ShownIn(a) /\ c[q].msg \in ShownIn(b)
    BY <1>3, <1>5 DEF ShownIn
  <2> QED
    BY <2>1 DEF Before
<1>6. CASE p - Len(a) \in DOMAIN b /\ q - Len(a) \in DOMAIN b /\ c[p] = b[p - Len(a)] /\ c[q] = b[q - Len(a)]
  <2>1. p - Len(a) < q - Len(a)
    BY <1>2
  <2> QED
    BY <1>6, <2>1 DEF EntriesInOrder, EntriesOrdered
<1>7. ~(p - Len(a) \in DOMAIN b /\ q \in DOMAIN a)
  BY <1>2
<1> QED
  BY <1>1, <1>4, <1>5, <1>6, <1>7

(* The head of a sequence of entries, and the rest. *)
LEMMA HeadShown ==
  ASSUME NEW a \in Seq(Entries), a # <<>>
  PROVE  /\ Head(a) \in Entries /\ Tail(a) \in Seq(Entries) /\ Head(a) = a[1]
         /\ \A k \in DOMAIN Tail(a) : k + 1 \in DOMAIN a /\ Tail(a)[k] = a[k + 1]
         /\ ShownIn(Tail(a)) \subseteq ShownIn(a)
         /\ ShownIn(<<Head(a)>>) \subseteq ShownIn(a)
<1>1. Head(a) \in Entries /\ Tail(a) \in Seq(Entries) /\ Head(a) = a[1] /\ 1 \in DOMAIN a
  OBVIOUS
<1>2. \A k \in DOMAIN Tail(a) : k + 1 \in DOMAIN a /\ Tail(a)[k] = a[k + 1]
  OBVIOUS
<1>3. ShownIn(Tail(a)) \subseteq ShownIn(a)
  BY <1>2 DEF ShownIn
<1>4. ShownIn(<<Head(a)>>) \subseteq ShownIn(a)
  <2>1. \A k \in DOMAIN <<Head(a)>> : <<Head(a)>>[k] = a[1]
    BY <1>1
  <2> QED
    BY <1>1, <2>1 DEF ShownIn
<1> QED
  BY <1>1, <1>2, <1>3, <1>4

LEMMA HeadOrder ==
  ASSUME NEW a \in Seq(Entries), a # <<>>, EntriesInOrder(a)
  PROVE  /\ EntriesInOrder(Tail(a)) /\ EntriesInOrder(<<Head(a)>>)
         /\ Before(ShownIn(<<Head(a)>>), ShownIn(Tail(a)))
<1> DEFINE t == Tail(a)
<1>1. /\ \A k \in DOMAIN t : k \in Nat /\ k + 1 \in DOMAIN a /\ t[k] = a[k + 1]
      /\ Head(a) = a[1] /\ 1 \in DOMAIN a
  <2>1. \A k \in DOMAIN t : k \in Nat
    OBVIOUS
  <2> QED
    BY <2>1, HeadShown
<1>2. \A k \in DOMAIN <<Head(a)>> : k = 1 /\ <<Head(a)>>[k] = a[1]
  BY <1>1
<1> HIDE DEF t
<1>3. EntriesInOrder(t)
  <2> SUFFICES ASSUME NEW p \in DOMAIN t, NEW q \in DOMAIN t, p < q, t[p].what = "user", t[q].what = "user",
                      t[p].msg \in steered, t[q].msg \in steered
               PROVE  t[p].msg < t[q].msg
    BY DEF EntriesInOrder, EntriesOrdered
  <2>1. p + 1 < q + 1
    BY <1>1
  <2> QED
    BY <1>1, <2>1 DEF EntriesInOrder, EntriesOrdered
<1>4. EntriesInOrder(<<Head(a)>>)
  BY <1>2 DEF EntriesInOrder, EntriesOrdered
<1>5. Before(ShownIn(<<Head(a)>>), ShownIn(t))
  <2> SUFFICES ASSUME NEW m \in ShownIn(<<Head(a)>>) \cap steered, NEW n \in ShownIn(t) \cap steered
               PROVE  m < n
    BY DEF Before
  <2>1. a[1].what = "user" /\ a[1].msg = m
    BY <1>2 DEF ShownIn
  <2>2. PICK k \in DOMAIN t : t[k].what = "user" /\ t[k].msg = n
    BY DEF ShownIn
  <2>3. 1 < k + 1
    <3>1. k \in Nat /\ k >= 1
      BY DEF t
    <3> QED
      BY <3>1
  <2> QED
    BY <1>1, <2>1, <2>2, <2>3 DEF EntriesInOrder, EntriesOrdered
<1> QED
  BY <1>3, <1>4, <1>5 DEF t

(* What a run shows of the messages it injects. *)
LEMMA UsersShown ==
  ASSUME NEW r \in 0..MaxRuns, NEW ms \in Messages
  PROVE  /\ Users(r, ms) \in Seq(Entries) /\ ShownIn(Users(r, ms)) = Of(ms)
         /\ \A k \in DOMAIN Users(r, ms) : Users(r, ms)[k].run = r
         /\ InOrder(ms) => EntriesInOrder(Users(r, ms))
<1> DEFINE es == Users(r, ms)
<1>1. DOMAIN es = DOMAIN ms /\ \A k \in DOMAIN ms : es[k] = User(r, ms[k]) /\ ms[k] \in 0..MaxUserMsgs
  BY BatchAssumption DEF Users, Messages, UserMsgs
<1>2. \A k \in DOMAIN ms : es[k] \in Entries /\ es[k].what = "user" /\ es[k].run = r /\ es[k].msg = ms[k]
  BY <1>1, EntryKinds
<1>3. es \in Seq(Entries)
  <2>1. es = [k \in 1..Len(ms) |-> es[k]] /\ Len(ms) \in Nat /\ DOMAIN ms = 1..Len(ms)
    BY <1>1 DEF Messages, Users
  <2> HIDE DEF es
  <2>2. es \in [1..Len(ms) -> Entries]
    BY <1>2, <2>1
  <2> QED
    BY <2>1, <2>2
<1> HIDE DEF es
<1> QED
  BY <1>1, <1>2, <1>3 DEF es, ShownIn, Of, InOrder, MessagesOrdered, EntriesInOrder, EntriesOrdered

(* What is taken from a queue comes before what is left in it. *)
LEMMA SplitQueue ==
  ASSUME NEW q \in Messages
  PROVE  /\ Taken(q) \in Messages /\ Left(q) \in Messages
         /\ Of(Taken(q)) \subseteq Of(q) /\ Of(Left(q)) \subseteq Of(q)
         /\ InOrder(q) => InOrder(Taken(q)) /\ InOrder(Left(q)) /\ Before(Of(Taken(q)), Of(Left(q)))
<1>1. CASE ~OneAtATime
  <2>1. Taken(q) = q
    BY <1>1 DEF Taken
  <2>2. Left(q) = SubSeq(q, Len(q) + 1, Len(q))
    BY <2>1 DEF Left
  <2>3. Left(q) = <<>>
    BY <2>2 DEF Messages
  <2>4. DOMAIN Left(q) = {} /\ Left(q) \in Messages
    BY <2>3 DEF Messages
  <2> QED
    BY <2>1, <2>4 DEF Of, InOrder, MessagesOrdered, Before
<1>2. CASE q = <<>>
  <2>1. Taken(q) = <<>> /\ Left(q) = <<>>
    BY <1>2 DEF Taken, Left
  <2>2. <<>> \in Messages /\ DOMAIN <<>> = {}
    BY DEF Messages
  <2>3. Of(<<>>) = {} /\ InOrder(<<>>)
    BY <2>2 DEF Of, InOrder, MessagesOrdered
  <2> QED
    BY <1>2, <2>1, <2>2, <2>3 DEF Before
<1>3. CASE OneAtATime /\ q # <<>>
  <2> DEFINE t == Taken(q)
             l == Left(q)
  <2>1. t = SubSeq(q, 1, 1) /\ Len(q) \in Nat /\ Len(q) >= 1
    BY <1>3 DEF Taken, Messages
  <2>2. t \in Messages /\ Len(t) = 1 /\ DOMAIN t = {1} /\ t[1] = q[1] /\ 1 \in DOMAIN q
    BY <2>1 DEF Messages
  <2>3. l = SubSeq(q, 2, Len(q))
    BY <2>2 DEF Left
  <2>4. l \in Messages /\ \A k \in DOMAIN l : k \in Nat /\ k >= 1 /\ k + 1 \in DOMAIN q /\ l[k] = q[k + 1]
    BY <2>1, <2>3 DEF Messages
  <2> HIDE DEF t, l
  <2>5. Of(t) \subseteq Of(q) /\ Of(l) \subseteq Of(q)
    BY <2>2, <2>4 DEF Of
  <2>6. ASSUME InOrder(q) PROVE InOrder(t) /\ InOrder(l) /\ Before(Of(t), Of(l))
    <3>1. InOrder(t)
      BY <2>2 DEF InOrder, MessagesOrdered
    <3>2. ASSUME NEW i \in DOMAIN l, NEW j \in DOMAIN l, i < j, l[i] \in steered, l[j] \in steered PROVE l[i] < l[j]
      <4>1. i + 1 < j + 1 /\ i + 1 \in DOMAIN q /\ j + 1 \in DOMAIN q /\ l[i] = q[i + 1] /\ l[j] = q[j + 1]
        BY <2>4, <3>2
      <4> QED
        BY <2>6, <3>2, <4>1 DEF InOrder, MessagesOrdered
    <3>3. ASSUME NEW m \in Of(t) \cap steered, NEW n \in Of(l) \cap steered PROVE m < n
      <4>1. m = q[1]
        BY <2>2 DEF Of
      <4>2. PICK k \in DOMAIN l : l[k] = n
        BY DEF Of
      <4>3. 1 < k + 1 /\ k + 1 \in DOMAIN q /\ n = q[k + 1]
        BY <2>4, <4>2
      <4> QED
        BY <2>2, <2>6, <4>1, <4>3 DEF InOrder, MessagesOrdered
    <3> QED
      BY <3>1, <3>2, <3>3 DEF InOrder, MessagesOrdered, Before
  <2> QED
    BY <2>2, <2>4, <2>5, <2>6 DEF t, l
<1> QED
  BY <1>1, <1>2, <1>3, BatchAssumption

(***************************************************************************)
(* The results of a batch                                                  *)
(***************************************************************************)
(* A non-empty set of numbers has a least element. *)
LEMMA Least ==
  ASSUME NEW b \in Nat, NEW S \in SUBSET (1..b), S # {}
  PROVE  \E m \in S : \A n \in S : m <= n
<1> DEFINE D == {b - m : m \in S}
<1>1. D \in SUBSET (0..b) /\ D # {}
  <2>1. \A m \in S : b - m \in 0..b
    OBVIOUS
  <2> QED
    BY <2>1
<1>2. PICK d \in D : \A e \in D : e <= d
  <2> HIDE DEF D
  <2> QED
    BY <1>1, Greatest
<1>3. PICK m \in S : d = b - m
  OBVIOUS
<1>4. ASSUME NEW n \in S PROVE m <= n
  <2>1. b - n \in D /\ n \in 1..b /\ m \in 1..b
    OBVIOUS
  <2>2. b - n <= b - m
    BY <1>2, <1>3, <2>1
  <2> QED
    BY <2>1, <2>2
<1> QED
  BY <1>4

(* Sets of numbers are finite. *)
LEMMA FiniteNumbers ==
  ASSUME NEW b \in Nat, NEW U \in SUBSET (1..b)
  PROVE  IsFiniteSet(U) /\ Cardinality(U) \in Nat
<1>1. IsFiniteSet(1..b)
  <2>1. 1 \in Int /\ b \in Int
    OBVIOUS
  <2> QED
    BY <2>1, FS_Interval
<1>2. IsFiniteSet(U)
  BY <1>1, FS_Subset
<1> QED
  BY <1>2, FS_CardinalityType

(* A finite set of numbers has an element of every rank. *)
LEMMA Ranked ==
  ASSUME NEW b \in Nat, NEW U \in SUBSET (1..b), NEW k \in 1..Cardinality(U)
  PROVE  \E i \in U : Cardinality({j \in U : j <= i}) = k
<1> DEFINE upTo(i) == {j \in U : j <= i}
           V == {i \in U : Cardinality(upTo(i)) >= k}
<1>1. IsFiniteSet(U) /\ Cardinality(U) \in Nat /\ k \in Nat /\ k >= 1
  <2>1. IsFiniteSet(U) /\ Cardinality(U) \in Nat
    BY FiniteNumbers
  <2> QED
    BY <2>1
<1>2. \A i \in U : upTo(i) \subseteq U /\ IsFiniteSet(upTo(i)) /\ Cardinality(upTo(i)) \in Nat
  BY <1>1, FS_Subset, FS_CardinalityType
<1>3. V # {}
  <2>1. U # {}
    BY <1>1, FS_EmptySet
  <2>2. U \in SUBSET (0..b)
    OBVIOUS
  <2>3. PICK m \in U : \A n \in U : n <= m
    BY <2>1, <2>2, Greatest
  <2>4. upTo(m) = U
    BY <2>3
  <2> QED
    BY <1>1, <2>4
<1>4. V \in SUBSET (1..b)
  OBVIOUS
<1>5. PICK i \in V : \A n \in V : i <= n
  <2> HIDE DEF V
  <2> QED
    BY <1>3, <1>4, Least
<1>6. ASSUME Cardinality(upTo(i)) > k PROVE FALSE
  <2> DEFINE W == upTo(i) \ {i}
  <2>1. i \in upTo(i) /\ i \in U
    OBVIOUS
  <2>2. IsFiniteSet(W) /\ Cardinality(W) = Cardinality(upTo(i)) - 1
    BY <1>2, <2>1, FS_RemoveElement
  <2>3. Cardinality(W) >= k
    BY <1>1, <1>2, <1>6, <2>1, <2>2
  <2>4. W # {}
    <3> HIDE DEF W, upTo
    <3> QED
      BY <1>1, <2>3, FS_EmptySet
  <2>5. W \in SUBSET (0..b)
    <3>1. W \subseteq U /\ 1..b \subseteq 0..b
      OBVIOUS
    <3> HIDE DEF W, upTo
    <3> QED
      BY <3>1
  <2>6. PICK m \in W : \A n \in W : n <= m
    <3> HIDE DEF W
    <3> QED
      BY <2>4, <2>5, Greatest
  <2>7. upTo(m) = W
    <3>1. i \in Nat /\ m \in Nat /\ m < i /\ \A j \in U : j \in Nat
      OBVIOUS
    <3>2. \A j \in U : j <= m => j <= i /\ j # i
      BY <3>1
    <3>3. \A j \in W : j <= m
      BY <2>6
    <3> QED
      BY <3>2, <3>3
  <2>8. m \in V
    BY <2>3, <2>7
  <2>9. i <= m
    BY <1>5, <2>8
  <2> QED
    BY <2>9
<1>7. Cardinality(upTo(i)) = k
  <2>1. i \in U /\ Cardinality(upTo(i)) >= k
    OBVIOUS
  <2> HIDE DEF V, upTo
  <2> QED
    BY <1>1, <1>2, <1>6, <2>1
<1> QED
  BY <1>7

(* The sweep gives each call without a result one. *)
LEMMA SweepResults ==
  ASSUME NEW r \in Runs, calls[r] \in Seq(Kinds)
  PROVE  /\ Sweep(r) \in Seq(Entries)
         /\ \A k \in DOMAIN Sweep(r) : Sweep(r)[k].what = "result" /\ Sweep(r)[k].run = r
<1> DEFINE U == Unanswered(r)
           n == Cardinality(U)
           nth(k) == CHOOSE i \in U : Cardinality({j \in U : j <= i}) = k
<1>1. U \in SUBSET (1..Len(calls[r])) /\ Len(calls[r]) \in Nat
  BY DEF Unanswered, Indices
<1>2. n \in Nat
  <2> HIDE DEF U
  <2> QED
    BY <1>1, FiniteNumbers
<1>3. ASSUME NEW k \in 1..n PROVE nth(k) \in U
  <2>1. \E i \in U : Cardinality({j \in U : j <= i}) = k
    <3> HIDE DEF U
    <3> QED
      BY <1>1, <1>2, Ranked
  <2> HIDE DEF U
  <2> QED
    BY <2>1
<1>4. Sweep(r) = [k \in 1..n |-> Result(r, nth(k))]
  BY DEF Sweep
<1> HIDE DEF nth
<1>5. \A k \in 1..n : nth(k) \in Nat
  BY <1>1, <1>3
<1>6. r \in 0..MaxRuns
  BY DEF Runs
<1> HIDE DEF n, U
<1>7. \A k \in 1..n : /\ Result(r, nth(k)) \in Entries /\ Result(r, nth(k)).what = "result"
                      /\ Result(r, nth(k)).run = r
  BY <1>5, <1>6, EntryKinds
<1> QED
  BY <1>2, <1>4, <1>7

(* The results of a broken answer. *)
LEMMA PlainResults ==
  ASSUME NEW r \in Runs, NEW n \in Nat
  PROVE  /\ Results(r, n) \in Seq(Entries)
         /\ \A k \in DOMAIN Results(r, n) : Results(r, n)[k].what = "result" /\ Results(r, n)[k].run = r
<1>1. r \in 0..MaxRuns
  BY DEF Runs
<1>2. \A k \in 1..n : /\ Result(r, k) \in Entries /\ Result(r, k).what = "result" /\ Result(r, k).run = r
  BY <1>1, EntryKinds
<1>3. Results(r, n) = [i \in 1..n |-> Result(r, i)]
  BY DEF Results
<1> QED
  BY <1>2, <1>3

(***************************************************************************)
(* What a run may emit                                                     *)
(***************************************************************************)
(* Entries among which no message of the user is. *)
Silent(es) == ShownIn(es) = {} /\ EntriesInOrder(es)

(* Entries that are not the user's. *)
LEMMA SilentEntries ==
  ASSUME NEW es, \A k \in DOMAIN es : es[k].what # "user" PROVE Silent(es)
BY DEF Silent, ShownIn, EntriesInOrder, EntriesOrdered

LEMMA NothingSilent == Silent(<<>>) /\ Of(<<>>) = {} /\ InOrder(<<>>) /\ <<>> \in Messages
<1>1. DOMAIN <<>> = {}
  OBVIOUS
<1>2. \A k \in DOMAIN <<>> : <<>>[k].what # "user"
  BY <1>1
<1> QED
  BY <1>1, <1>2, SilentEntries DEF Of, InOrder, MessagesOrdered, Messages

LEMMA OwnJoined ==
  ASSUME NEW r, NEW a, NEW b, Own(r, a), Own(r, b) PROVE Own(r, a \o b)
<1>1. a \in Seq(Entries) /\ b \in Seq(Entries)
  BY DEF Own
<1>2. a \o b \in Seq(Entries)
  BY <1>1
<1> DEFINE c == a \o b
<1>3. ASSUME NEW k \in DOMAIN c
      PROVE  (k \in DOMAIN a /\ c[k] = a[k]) \/ (k - Len(a) \in DOMAIN b /\ c[k] = b[k - Len(a)])
  BY <1>1, JoinedPlaces
<1> HIDE DEF c
<1>4. \A k \in DOMAIN c : Shows(c[k]) => c[k].run = r
  BY <1>3 DEF Own
<1> QED
  BY <1>2, <1>4 DEF Own, c

LEMMA SilentJoined ==
  ASSUME NEW a \in Seq(Entries), NEW b \in Seq(Entries), Silent(a), Silent(b) PROVE Silent(a \o b)
BY JoinedShow, JoinedOrder DEF Silent, Before

LEMMA OwnOne ==
  ASSUME NEW r \in Runs, NEW e \in Entries, Shows(e) => e.run = r, e.what # "user"
  PROVE  Own(r, <<e>>) /\ Silent(<<e>>)
<1>1. \A k \in DOMAIN <<e>> : <<e>>[k] = e
  OBVIOUS
<1> QED
  BY <1>1, SilentEntries DEF Own

(* What the loop emits. *)
LEMMA OwnEntries ==
  ASSUME NEW r \in Runs
  PROVE  /\ Own(r, <<>>) /\ Own(r, <<AgentEnd>>) /\ Own(r, <<Failure>>)
         /\ Silent(<<AgentEnd>>) /\ Silent(<<Failure>>)
         /\ \A n \in Nat : /\ Own(r, <<Assistant(r, n)>>) /\ Silent(<<Assistant(r, n)>>)
                           /\ Own(r, <<Result(r, n)>>) /\ Silent(<<Result(r, n)>>)
         /\ \A ms \in Messages : Own(r, Users(r, ms))
<1>1. r \in 0..MaxRuns
  BY DEF Runs
<1>2. Own(r, <<>>)
  BY DEF Own
<1>3. \A n \in Nat : /\ Own(r, <<Assistant(r, n)>>) /\ Silent(<<Assistant(r, n)>>)
                     /\ Own(r, <<Result(r, n)>>) /\ Silent(<<Result(r, n)>>)
  BY <1>1, EntryKinds, OwnOne
<1>4. Own(r, <<AgentEnd>>) /\ Silent(<<AgentEnd>>) /\ Own(r, <<Failure>>) /\ Silent(<<Failure>>)
  BY <1>1, EntryKinds, OwnOne DEF Shows
<1>5. \A ms \in Messages : Own(r, Users(r, ms))
  BY <1>1, UsersShown DEF Own
<1> QED
  BY <1>2, <1>3, <1>4, <1>5

(* A broken answer and its placeholder results. *)
LEMMA OwnBroken ==
  ASSUME NEW r \in Runs, NEW n \in Nat
  PROVE  LET es == <<Assistant(r, n)>> \o Results(r, n) \o <<AgentEnd>> IN Own(r, es) /\ Silent(es)
<1> DEFINE a == <<Assistant(r, n)>>
           b == Results(r, n)
           c == <<AgentEnd>>
<1>1. Own(r, a) /\ Silent(a) /\ Own(r, c) /\ Silent(c)
  BY OwnEntries
<1>2. Own(r, b) /\ Silent(b)
  BY PlainResults, SilentEntries DEF Own
<1> HIDE DEF a, b, c
<1>3. Own(r, a \o b) /\ Silent(a \o b)
  BY <1>1, <1>2, OwnJoined, SilentJoined DEF Own
<1>4. Own(r, (a \o b) \o c) /\ Silent((a \o b) \o c)
  <2> DEFINE d == a \o b
  <2>1. Own(r, d) /\ Silent(d)
    BY <1>3
  <2> HIDE DEF d
  <2>2. Own(r, d \o c) /\ Silent(d \o c)
    BY <1>1, <2>1, OwnJoined, SilentJoined DEF Own
  <2> QED
    BY <2>2 DEF d
<1> QED
  BY <1>4 DEF a, b, c

(* The sweep's results. *)
LEMMA OwnSweep ==
  ASSUME NEW r \in Runs, calls[r] \in Seq(Kinds) PROVE Own(r, Sweep(r)) /\ Silent(Sweep(r))
BY SweepResults, SilentEntries DEF Own

(* What Push does to the events of its run. *)
LEMMA Pushed ==
  ASSUME events \in [Runs -> Seq(Entries)], NEW r \in Runs, Own(r, events[r]),
         NEW es, Own(r, es), Push(r, es)
  PROVE  /\ events' \in [Runs -> Seq(Entries)]
         /\ \A q \in Runs : q # r => events'[q] = events[q]
         /\ Own(r, events'[r])
         /\ ShownIn(events'[r]) \subseteq ShownIn(events[r]) \cup ShownIn(es)
         /\ EntriesInOrder(events[r]) /\ EntriesInOrder(es) /\ Before(ShownIn(events[r]), ShownIn(es))
              => EntriesInOrder(events'[r])
<1>1. CASE reader[r] = "over"
  <2>1. events' = [events EXCEPT ![r] = <<>>]
    BY <1>1 DEF Push
  <2> QED
    BY <2>1, OwnEntries, NothingSilent DEF Silent
<1>2. CASE reader[r] # "over"
  <2>1. events' = [events EXCEPT ![r] = events[r] \o es]
    BY <1>2 DEF Push
  <2>2. events[r] \in Seq(Entries) /\ es \in Seq(Entries) /\ events[r] \o es \in Seq(Entries)
    BY DEF Own
  <2>3. Own(r, events[r] \o es)
    BY OwnJoined
  <2>4. ShownIn(events[r] \o es) = ShownIn(events[r]) \cup ShownIn(es)
    BY <2>2, JoinedShow
  <2> QED
    BY <2>1, <2>2, <2>3, <2>4, JoinedOrder
<1> QED
  BY <1>1, <1>2

(* What a poll takes from the queue. *)
LEMMA Polls ==
  ASSUME steeringQueue \in Messages, NEW r \in Runs
  PROVE  /\ Polled(r) \in Messages /\ Of(Polled(r)) \subseteq Of(steeringQueue)
         /\ InOrder(steeringQueue) => InOrder(Polled(r))
         /\ activeRun # r => Polled(r) = <<>>
BY SplitQueue, NothingSilent DEF Polled

LEMMA PollTakes ==
  ASSUME steeringQueue \in Messages, skipPoll \subseteq Runs, NEW r \in Runs, PollEffect(r)
  PROVE  /\ steeringQueue' \in Messages /\ Of(steeringQueue') \subseteq Of(steeringQueue)
         /\ skipPoll' \subseteq Runs
         /\ InOrder(steeringQueue) =>
              InOrder(steeringQueue') /\ Before(Of(Polled(r)), Of(steeringQueue'))
         /\ activeRun # r => steeringQueue' = steeringQueue
<1>1. CASE activeRun = r /\ r \notin skipPoll
  <2>1. Polled(r) = Taken(steeringQueue) /\ steeringQueue' = Left(steeringQueue)
    BY <1>1 DEF Polled, PollEffect
  <2>2. skipPoll' \subseteq Runs
    BY DEF PollEffect
  <2> QED
    BY <1>1, <2>1, <2>2, SplitQueue
<1>2. CASE ~(activeRun = r /\ r \notin skipPoll)
  <2>1. Polled(r) = <<>> /\ steeringQueue' = steeringQueue
    BY <1>2 DEF Polled, PollEffect
  <2>2. skipPoll' \subseteq Runs
    BY DEF PollEffect
  <2> QED
    BY <1>2, <2>1, <2>2, NothingSilent DEF Before
<1> QED
  BY <1>1, <1>2

(***************************************************************************)
(* The types                                                               *)
(***************************************************************************)
LEMMA CallNumbers == {0} \cup {Len(kinds) : kinds \in Batches} \subseteq Nat
<1>1. \A kinds \in Batches : Len(kinds) \in Nat
  BY BatchAssumption
<1> QED
  BY <1>1

(* What BeginBatch and BeginRun leave, and leave alone. *)
LEMMA BatchBegun ==
  ASSUME DataOK, NEW r \in Runs, NEW kinds \in Batches \cup {<<>>}, BeginBatch(r, kinds)
  PROVE  /\ calls' \in [Runs -> Batches \cup {<<>>}] /\ calls'[r] = kinds
         /\ check' \in [Runs -> [under : BOOLEAN, got : Messages]] /\ check'[r] = NoCheck
         /\ steering' \in [Runs -> Messages] /\ steering'[r] = <<>>
         /\ \A q \in Runs : q # r => /\ calls'[q] = calls[q] /\ check'[q] = check[q]
                                    /\ steering'[q] = steering[q]
<1>1. NoCheck \in [under : BOOLEAN, got : Messages] /\ <<>> \in Messages
  BY DEF NoCheck, Messages
<1> QED
  BY <1>1 DEF DataOK, BeginBatch

LEMMA RunBegun ==
  ASSUME DataOK, NEW ms \in Messages, BeginRun(ms)
  PROVE  LET r == runs + 1 IN
         /\ r \in Runs /\ runs' = r /\ runs' \in 0..MaxRuns
         /\ runningPrompt' = r /\ activeRun' = r /\ isStreaming' = TRUE
         /\ loop' = [loop EXCEPT ![r] = "start"] /\ reader' = [reader EXCEPT ![r] = "reading"]
         /\ loop' \in [Runs -> Labels]
         /\ reader' \in [Runs -> {"none", "reading", "closing", "over"}]
         /\ events' = [events EXCEPT ![r] = Users(r, ms)] /\ events' \in [Runs -> Seq(Entries)]
         /\ UNCHANGED <<batchVars, messages, aborted, pending, batches, abandoned, lost>>
<1> DEFINE r == runs + 1
<1>1. r \in Runs /\ r \in 0..MaxRuns
  BY BatchAssumption DEF DataOK, BeginRun, Runs
<1>2. runs' = r /\ runningPrompt' = r /\ activeRun' = r /\ isStreaming' = TRUE
  BY DEF BeginRun
<1>3. loop' = [loop EXCEPT ![r] = "start"] /\ reader' = [reader EXCEPT ![r] = "reading"]
  BY DEF BeginRun, Goto
<1>4. loop' \in [Runs -> Labels] /\ reader' \in [Runs -> {"none", "reading", "closing", "over"}]
  BY <1>3 DEF DataOK, Labels
<1>5. events' = [events EXCEPT ![r] = Users(r, ms)]
  BY DEF BeginRun
<1>6. events' \in [Runs -> Seq(Entries)]
  BY <1>1, <1>5, UsersShown DEF DataOK
<1>7. UNCHANGED <<batchVars, messages, aborted, pending, batches, abandoned, lost>>
  BY DEF BeginRun
<1> QED
  BY <1>1, <1>2, <1>3, <1>4, <1>5, <1>6, <1>7

(* The types of what the agent keeps. *)
LEMMA DataStep ==
  ASSUME BatchInv, DataOK, RunsKept, Next
  PROVE  DataOK'
<1>1. \A r \in Runs : Own(r, events[r])
  BY DEF RunsKept, EventsOwn
<1>2. \A r \in Runs : calls[r] \in Seq(Kinds)
  BY DEF BatchInv, RunBatch
<1> USE DEF DataOK
<1>3. ASSUME Prompt PROVE DataOK'
  <2>1. issued + 1 \in UserMsgs /\ issued' = issued + 1 /\ issued' \in 0..MaxUserMsgs
    BY <1>3, BatchAssumption DEF Prompt, NewMessage, UserMsgs
  <2>2. <<issued + 1>> \in Messages
    BY <2>1 DEF Messages
  <2> QED
    BY <1>3, <2>1, <2>2, RunBegun DEF Prompt, batchVars
<1>4. ASSUME ContinueQueued PROVE DataOK'
  <2>1. CASE steeringQueue # <<>>
    <3>1. Taken(steeringQueue) \in Messages /\ Left(steeringQueue) \in Messages
      BY SplitQueue
    <3>2. /\ BeginRun(Taken(steeringQueue)) /\ steeringQueue' = Left(steeringQueue)
          /\ skipPoll' = skipPoll \cup {runs + 1} /\ UNCHANGED <<followUpQueue, issued>>
      BY <1>4, <2>1 DEF ContinueQueued
    <3>3. runs + 1 \in Runs
      BY <3>1, <3>2, RunBegun
    <3>4. skipPoll' \subseteq Runs
      BY <3>2, <3>3
    <3> QED
      BY <3>1, <3>2, <3>4, RunBegun DEF batchVars
  <2>2. CASE steeringQueue = <<>>
    <3>1. Taken(followUpQueue) \in Messages /\ Left(followUpQueue) \in Messages
      BY SplitQueue
    <3>2. /\ BeginRun(Taken(followUpQueue)) /\ followUpQueue' = Left(followUpQueue)
          /\ UNCHANGED <<steeringQueue, skipPoll, issued>>
      BY <1>4, <2>2 DEF ContinueQueued
    <3> QED
      BY <3>1, <3>2, RunBegun DEF batchVars
  <2> QED
    BY <2>1, <2>2
<1>5. ASSUME ContinueTranscript PROVE DataOK'
  BY <1>5, RunBegun, NothingSilent DEF ContinueTranscript, batchVars
<1>6. ASSUME Steer PROVE DataOK'
  <2>1. issued + 1 \in UserMsgs /\ issued' = issued + 1 /\ issued' \in 0..MaxUserMsgs
    BY <1>6, BatchAssumption DEF Steer, NewMessage, UserMsgs
  <2>2. steeringQueue' \in Messages
    BY <1>6, <2>1 DEF Steer, Messages
  <2> QED
    BY <1>6, <2>1, <2>2 DEF Steer, batchVars, agentVars, loopVars, streamVars, queueVars
<1>7. ASSUME FollowUp PROVE DataOK'
  <2>1. issued + 1 \in UserMsgs /\ issued' = issued + 1 /\ issued' \in 0..MaxUserMsgs
    BY <1>7, BatchAssumption DEF FollowUp, NewMessage, UserMsgs
  <2>2. followUpQueue' \in Messages
    BY <1>7, <2>1 DEF FollowUp, Messages
  <2> QED
    BY <1>7, <2>1, <2>2 DEF FollowUp, batchVars, agentVars, loopVars, streamVars, queueVars
<1>8. ASSUME Abort PROVE DataOK'
  <2>1. activeRun \in Runs
    BY <1>8, BatchAssumption DEF Abort, RunsKept, LatestRun, Runs, NoRun
  <2> QED
    BY <1>8, <2>1 DEF Abort, batchVars, agentVars, loopVars, streamVars, queueVars
<1>9. ASSUME ForceAbort PROVE DataOK'
  <2>1. activeRun \in Runs
    BY <1>9, BatchAssumption DEF ForceAbort, RunsKept, LatestRun, Runs, NoRun
  <2> QED
    BY <1>9, <2>1 DEF ForceAbort, batchVars, agentVars, loopVars, streamVars, queueVars
<1>10. ASSUME NEW r \in Runs, InitialPoll(r) PROVE DataOK'
  <2>1. pending' \in [Runs -> Messages]
    BY <1>10, Polls DEF InitialPoll
  <2>2. steeringQueue' \in Messages /\ skipPoll' \subseteq Runs
    BY <1>10, PollTakes DEF InitialPoll
  <2>3. loop' \in [Runs -> Labels]
    BY <1>10 DEF InitialPoll, Goto, Labels
  <2> QED
    BY <1>10, <2>1, <2>2, <2>3 DEF InitialPoll, batchVars, agentVars, loopVars, streamVars, queueVars
<1>11. ASSUME NEW r \in Runs, Inject(r) PROVE DataOK'
  <2>1. events' \in [Runs -> Seq(Entries)]
    BY <1>11, <1>1, OwnEntries, Pushed DEF Inject
  <2>2. pending' \in [Runs -> Messages]
    BY <1>11, NothingSilent DEF Inject
  <2>3. loop' \in [Runs -> Labels]
    BY <1>11 DEF Inject, Goto, Labels
  <2> QED
    BY <1>11, <2>1, <2>2, <2>3 DEF Inject, batchVars, agentVars, loopVars, streamVars, queueVars, Goto, Labels
<1>12. ASSUME NEW r \in Runs, Answer(r) PROVE DataOK'
  <2>1. events' \in [Runs -> Seq(Entries)]
    BY <1>12, <1>1, OwnEntries, Pushed DEF Answer
  <2>2. loop' \in [Runs -> Labels]
    BY <1>12 DEF Answer, Goto, Labels
  <2> QED
    BY <1>12, <2>1, <2>2 DEF Answer, batchVars, agentVars, loopVars, streamVars, queueVars, Goto, Labels
<1>13. ASSUME NEW r \in Runs, AnswerWithCalls(r) PROVE DataOK'
  <2>1. PICK kinds \in Batches : Push(r, <<Assistant(r, Len(kinds))>>) /\ BeginBatch(r, kinds)
    BY <1>13 DEF AnswerWithCalls
  <2>2. Len(kinds) \in Nat
    BY BatchAssumption
  <2>3. events' \in [Runs -> Seq(Entries)]
    BY <1>1, <2>1, <2>2, OwnEntries, Pushed
  <2>4. loop' \in [Runs -> Labels]
    BY <1>13 DEF AnswerWithCalls, Goto, Labels
  <2> QED
    BY <1>13, <2>1, <2>3, <2>4, BatchBegun DEF AnswerWithCalls, agentVars, queueVars
<1>14. ASSUME NEW r \in Runs, AnswerBroken(r) PROVE DataOK'
  <2>1. PICK n \in Nat : Push(r, <<Assistant(r, n)>> \o Results(r, n) \o <<AgentEnd>>)
    BY <1>14, CallNumbers DEF AnswerBroken
  <2>2. events' \in [Runs -> Seq(Entries)]
    BY <1>1, <2>1, OwnBroken, Pushed
  <2>3. loop' \in [Runs -> Labels]
    BY <1>14 DEF AnswerBroken, Goto, Labels
  <2> QED
    BY <1>14, <2>2, <2>3 DEF AnswerBroken, batchVars, agentVars, queueVars
<1>15. ASSUME NEW r \in Runs, Throw(r) PROVE DataOK'
  <2>1. events' \in [Runs -> Seq(Entries)]
    BY <1>15, <1>1, OwnEntries, Pushed DEF Throw
  <2>2. loop' \in [Runs -> Labels]
    BY <1>15 DEF Throw, Goto, Labels
  <2> QED
    BY <1>15, <2>1, <2>2 DEF Throw, batchVars, agentVars, loopVars, streamVars, queueVars, Goto, Labels
<1>16. ASSUME NEW r \in Runs, BatchEnds(r) PROVE DataOK'
  <2>1. events' \in [Runs -> Seq(Entries)]
    BY <1>16, <1>1, <1>2, OwnSweep, Pushed DEF BatchEnds
  <2>2. BeginBatch(r, <<>>)
    BY <1>16 DEF BatchEnds
  <2>3. loop' \in [Runs -> Labels]
    BY <1>16 DEF BatchEnds, Goto, Labels
  <2>4. pending' \in [Runs -> Messages]
    BY <1>16 DEF BatchEnds
  <2> QED
    BY <1>16, <2>1, <2>2, <2>3, <2>4, BatchBegun DEF BatchEnds, agentVars, queueVars
<1>17. ASSUME NEW r \in Runs, Settle(r) PROVE DataOK'
  <2>1. pending' \in [Runs -> Messages]
    BY <1>17, Polls DEF Settle
  <2>2. steeringQueue' \in Messages /\ skipPoll' \subseteq Runs
    BY <1>17, PollTakes DEF Settle
  <2>3. loop' \in [Runs -> Labels]
    BY <1>17 DEF Settle, Goto, Labels
  <2> QED
    BY <1>17, <2>1, <2>2, <2>3 DEF Settle, batchVars, agentVars, loopVars, streamVars, queueVars
<1>18. ASSUME NEW r \in Runs, Pause(r) PROVE DataOK'
  <2>1. events' \in [Runs -> Seq(Entries)]
    BY <1>18, <1>1, OwnEntries, Pushed DEF Pause
  <2>2. steeringQueue' \in Messages /\ skipPoll' \subseteq Runs
    BY <1>18, PollTakes DEF Pause
  <2>3. loop' \in [Runs -> Labels]
    BY <1>18 DEF Pause, Goto, Labels
  <2> QED
    BY <1>18, <2>1, <2>2, <2>3 DEF Pause, batchVars, agentVars, loopVars, streamVars, queueVars, Goto, Labels
<1>19. ASSUME NEW r \in Runs, YieldPoll(r) PROVE DataOK'
  <2>1. pending' \in [Runs -> Messages]
    BY <1>19, Polls DEF YieldPoll
  <2>2. steeringQueue' \in Messages /\ skipPoll' \subseteq Runs
    BY <1>19, PollTakes DEF YieldPoll
  <2>3. loop' \in [Runs -> Labels]
    BY <1>19 DEF YieldPoll, Goto, Labels
  <2> QED
    BY <1>19, <2>1, <2>2, <2>3 DEF YieldPoll, batchVars, agentVars, loopVars, streamVars, queueVars
<1>20. ASSUME NEW r \in Runs, TakeFollowUps(r) PROVE DataOK'
  <2>1. pending' \in [Runs -> Messages] /\ followUpQueue' \in Messages
    BY <1>20, SplitQueue DEF TakeFollowUps
  <2>2. loop' \in [Runs -> Labels]
    BY <1>20 DEF TakeFollowUps, Goto, Labels
  <2> QED
    BY <1>20, <2>1, <2>2 DEF TakeFollowUps, batchVars, agentVars, loopVars, streamVars, queueVars
<1>21. ASSUME NEW r \in Runs, Finish(r) PROVE DataOK'
  <2>1. events' \in [Runs -> Seq(Entries)]
    BY <1>21, <1>1, OwnEntries, Pushed DEF Finish
  <2>2. loop' \in [Runs -> Labels]
    BY <1>21 DEF Finish, Goto, Labels
  <2> QED
    BY <1>21, <2>1, <2>2 DEF Finish, batchVars, agentVars, loopVars, streamVars, queueVars, Goto, Labels
<1>22. ASSUME NEW r \in Runs, CheckEnds(r) PROVE DataOK'
  <2>1. check[r] \in [under : BOOLEAN, got : Messages] /\ NoCheck \in [under : BOOLEAN, got : Messages]
    BY NothingSilent DEF NoCheck
  <2>2. check' \in [Runs -> [under : BOOLEAN, got : Messages]] /\ steering' \in [Runs -> Messages]
    BY <1>22, <2>1 DEF CheckEnds, EndCheck
  <2> QED
    BY <1>22, <2>2 DEF CheckEnds, EndCheck, batchVars, agentVars, loopVars, streamVars, queueVars
<1>23. ASSUME NEW r \in Runs, NEW i \in Indices(r), CallStarts(r, i) PROVE DataOK'
  BY <1>23 DEF CallStarts, StartCall, batchVars, agentVars, loopVars, streamVars, queueVars
<1>24. ASSUME NEW r \in Runs, NEW i \in Indices(r), CallEnds(r, i) PROVE DataOK'
  <2>1. i \in Nat
    BY <1>2 DEF Indices
  <2>2. events' \in [Runs -> Seq(Entries)]
    BY <1>24, <1>1, <2>1, OwnEntries, Pushed DEF CallEnds
  <2>3. check' \in [Runs -> [under : BOOLEAN, got : Messages]]
    <3>1. [under |-> TRUE, got |-> Polled(r)] \in [under : BOOLEAN, got : Messages]
      BY Polls
    <3>2. \/ check' = check \/ check' = [check EXCEPT ![r] = [under |-> TRUE, got |-> Polled(r)]]
      BY <1>24 DEF CallEnds, EndCall
    <3> QED
      BY <3>1, <3>2
  <2>4. steeringQueue' \in Messages /\ skipPoll' \subseteq Runs
    BY <1>24, PollTakes DEF CallEnds, EndCall
  <2> QED
    BY <1>24, <2>2, <2>3, <2>4 DEF CallEnds, EndCall, batchVars, agentVars, loopVars, streamVars, queueVars
<1>25. ASSUME NEW r \in Runs, ReadMessage(r) PROVE DataOK'
  <2>1. events[r] \in Seq(Entries) /\ events[r] # <<>>
    BY <1>25 DEF ReadMessage
  <2>2. events' \in [Runs -> Seq(Entries)]
    BY <1>25, <2>1, HeadShown DEF ReadMessage, Consumed
  <2>3. messages' \in Seq(Entries)
    BY <1>25, <2>1, HeadShown DEF ReadMessage
  <2> QED
    BY <1>25, <2>2, <2>3 DEF ReadMessage, batchVars, agentVars, loopVars, streamVars, queueVars
<1>26. ASSUME NEW r \in Runs, ReadEnd(r) PROVE DataOK'
  <2>1. events[r] \in Seq(Entries) /\ events[r] # <<>>
    BY <1>26 DEF ReadEnd
  <2>2. events' \in [Runs -> Seq(Entries)]
    BY <1>26, <2>1, HeadShown DEF ReadEnd, Consumed
  <2> QED
    BY <1>26, <2>2 DEF ReadEnd, batchVars, agentVars, loopVars, streamVars, queueVars
<1>27. ASSUME NEW r \in Runs, Finally(r) PROVE DataOK'
  BY <1>27 DEF Finally, Finalize, batchVars, agentVars, loopVars, streamVars, queueVars
<1>28. ASSUME NEW r \in Runs, ReadFailure(r) PROVE DataOK'
  <2>1. events[r] \in Seq(Entries) /\ events[r] # <<>>
    BY <1>28 DEF ReadFailure
  <2>2. events' \in [Runs -> Seq(Entries)]
    BY <1>28, <2>1, HeadShown DEF ReadFailure, Consumed
  <2>3. Assistant(r, 0) \in Entries
    BY EntryKinds DEF Runs
  <2>4. messages' \in Seq(Entries)
    BY <1>28, <2>3 DEF ReadFailure
  <2> QED
    BY <1>28, <2>2, <2>4 DEF ReadFailure, Finalize, batchVars, agentVars, loopVars, streamVars, queueVars
<1>29. ASSUME NEW r \in Runs, Leave(r) PROVE DataOK'
  <2>1. BeginBatch(r, <<>>)
    BY <1>29 DEF Leave
  <2>2. events' \in [Runs -> Seq(Entries)] /\ loop' \in [Runs -> Labels] /\ pending' \in [Runs -> Messages]
    BY <1>29, NothingSilent DEF Leave, Goto, Labels
  <2> QED
    BY <1>29, <2>1, <2>2, BatchBegun DEF Leave, queueVars
<1> QED
  BY <1>3, <1>4, <1>5, <1>6, <1>7, <1>8, <1>9, <1>10, <1>11,
     <1>12, <1>13, <1>14, <1>15, <1>16, <1>17, <1>18, <1>19, <1>20,
     <1>21, <1>22, <1>23, <1>24, <1>25, <1>26, <1>27, <1>28, <1>29
     DEF Next, UserStep, ProducerStep, LoopStep, CallStep, ReadStep

(***************************************************************************)
(* The runs                                                                *)
(***************************************************************************)
(* The loop and its calls leave the transcript and the choice of a run alone. *)
LEMMA LoopLeaves ==
  ASSUME NEW r \in Runs, ProducerStep(r)
  PROVE  UNCHANGED <<messages, isStreaming, runningPrompt, runs, issued, steered, activeRun, reader>>
<1>1. ASSUME LoopStep(r) PROVE UNCHANGED <<messages, isStreaming, runningPrompt, runs, issued, steered, activeRun, reader>>
  BY <1>1 DEF LoopStep, InitialPoll, Inject, Answer, AnswerWithCalls, AnswerBroken, Throw, BatchEnds,
     Settle, Pause, YieldPoll, TakeFollowUps, Finish, agentVars, streamVars, queueVars
<1>2. ASSUME CallStep(r) PROVE UNCHANGED <<messages, isStreaming, runningPrompt, runs, issued, steered, activeRun, reader>>
  BY <1>2 DEF CallStep, CheckEnds, CallStarts, CallEnds, EndCheck, StartCall, EndCall, agentVars, streamVars
<1> QED
  BY <1>1, <1>2 DEF ProducerStep

(* The active run is the latest: a run begins when none streams, and ends or is *)
(* given up before the next one is the active one.                            *)
LEMMA LatestRunStep == ASSUME DataOK, LatestRun, Next PROVE LatestRun'
<1>1. ASSUME UserStep PROVE LatestRun'
  <2>1. ASSUME NEW ms, BeginRun(ms) PROVE LatestRun'
    BY <2>1, BatchAssumption DEF BeginRun, LatestRun, DataOK, NoRun
  <2> QED
    BY <1>1, <2>1 DEF UserStep, Prompt, ContinueQueued, ContinueTranscript, Steer, FollowUp, Abort,
       ForceAbort, LatestRun, queueVars
<1>2. ASSUME NEW r \in Runs, ProducerStep(r) PROVE LatestRun'
  BY <1>2, LoopLeaves DEF LatestRun
<1>3. ASSUME NEW r \in Runs, ReadStep(r) PROVE LatestRun'
  BY <1>3 DEF ReadStep, ReadMessage, ReadEnd, Finally, ReadFailure, Leave, Finalize, LatestRun, queueVars
<1> QED
  BY <1>1, <1>2, <1>3 DEF Next

(* A run that emits, reads or works has begun. *)
LEMMA LaterRunsStep == ASSUME DataOK, LatestRun, LaterRuns, HandsEmpty, Next PROVE LaterRuns'
<1>1. ASSUME UserStep PROVE LaterRuns'
  <2>1. ASSUME NEW ms, BeginRun(ms) PROVE LaterRuns'
    BY <2>1, BatchAssumption DEF BeginRun, Goto, LaterRuns, DataOK, Runs
  <2> QED
    BY <1>1, <2>1 DEF UserStep, Prompt, ContinueQueued, ContinueTranscript, Steer, FollowUp, Abort,
       ForceAbort, LaterRuns, loopVars, streamVars
<1>2. ASSUME NEW r \in Runs, ProducerStep(r) PROVE LaterRuns'
  <2>1. UNCHANGED <<runs, reader>>
    BY <1>2, LoopLeaves
  <2>2. ASSUME LoopStep(r) PROVE loop[r] # "none"
    BY <2>2 DEF LoopStep, InitialPoll, Inject, Answer, AnswerWithCalls, AnswerBroken, Throw, BatchEnds,
       Settle, Pause, YieldPoll, TakeFollowUps, Finish
  <2>3. ASSUME LoopStep(r) PROVE \A q \in Runs : q # r => loop'[q] = loop[q] /\ pending'[q] = pending[q]
    BY <2>3 DEF LoopStep, InitialPoll, Inject, Answer, AnswerWithCalls, AnswerBroken, Throw, BatchEnds,
       Settle, Pause, YieldPoll, TakeFollowUps, Finish, Goto, DataOK
  <2>4. ASSUME CallStep(r) PROVE UNCHANGED <<loop, pending>>
    BY <2>4 DEF CallStep, CheckEnds, CallStarts, CallEnds, loopVars
  <2> QED
    BY <1>2, <2>1, <2>2, <2>3, <2>4 DEF LaterRuns, ProducerStep
<1>3. ASSUME NEW r \in Runs, ReadStep(r) PROVE LaterRuns'
  <2>1. UNCHANGED runs /\ reader[r] # "none"
    BY <1>3 DEF ReadStep, ReadMessage, ReadEnd, Finally, ReadFailure, Leave
  <2>2. \A q \in Runs : q # r => loop'[q] = loop[q] /\ pending'[q] = pending[q] /\ reader'[q] = reader[q]
    BY <1>3 DEF ReadStep, ReadMessage, ReadEnd, Finally, ReadFailure, Leave, Finalize, Goto, DataOK,
       loopVars
  <2> QED
    BY <2>1, <2>2 DEF LaterRuns
<1> QED
  BY <1>1, <1>2, <1>3 DEF Next

(* Calls and steering are in hand only while the tools run. *)
LEMMA HandsEmptyStep == ASSUME DataOK, LaterRuns, HandsEmpty, Next PROVE HandsEmpty'
<1>1. ASSUME UserStep PROVE HandsEmpty'
  <2>1. UNCHANGED <<calls, check, steering>>
    BY <1>1 DEF UserStep, Prompt, ContinueQueued, ContinueTranscript, Steer, FollowUp, Abort, ForceAbort,
       BeginRun, batchVars
  <2>2. ASSUME NEW ms, BeginRun(ms) PROVE HandsEmpty'
    <3>1. runs + 1 \in Runs /\ runs + 1 > runs /\ loop' = [loop EXCEPT ![runs + 1] = "start"]
      BY <2>2, BatchAssumption DEF BeginRun, Goto, DataOK, Runs
    <3> QED
      BY <2>1, <3>1 DEF HandsEmpty, LaterRuns, DataOK
  <2>3. ASSUME UNCHANGED loop PROVE HandsEmpty'
    BY <2>1, <2>3 DEF HandsEmpty
  <2> QED
    BY <1>1, <2>2, <2>3 DEF UserStep, Prompt, ContinueQueued, ContinueTranscript, Steer, FollowUp, Abort,
       ForceAbort, loopVars
<1>2. ASSUME NEW r \in Runs, NEW kinds \in Batches \cup {<<>>}, BeginBatch(r, kinds),
             NEW label, Goto(r, label), label # "tools" => kinds = <<>>
      PROVE  HandsEmpty'
  BY <1>2, BatchBegun DEF HandsEmpty, Goto, DataOK
<1>3. ASSUME NEW r \in Runs, UNCHANGED batchVars, NEW label, Goto(r, label), label # "tools", loop[r] # "tools"
      PROVE  HandsEmpty'
  BY <1>3 DEF HandsEmpty, Goto, DataOK, batchVars
<1>4. ASSUME NEW r \in Runs, LoopStep(r) PROVE HandsEmpty'
  <2>1. CASE AnswerWithCalls(r)
    <3>1. PICK kinds \in Batches : BeginBatch(r, kinds)
      BY <2>1 DEF AnswerWithCalls
    <3>2. Goto(r, "tools")
      BY <2>1 DEF AnswerWithCalls
    <3> QED
      BY <1>2, <3>1, <3>2
  <2>2. CASE BatchEnds(r)
    <3>1. BeginBatch(r, <<>>)
      BY <2>2 DEF BatchEnds
    <3>2. Goto(r, "turn") \/ Goto(r, "settle")
      BY <2>2 DEF BatchEnds
    <3> QED
      BY <1>2, <3>1, <3>2
  <2>3. CASE InitialPoll(r) \/ Inject(r) \/ Answer(r) \/ AnswerBroken(r) \/ Throw(r)
    BY <1>3, <2>3 DEF InitialPoll, Inject, Answer, AnswerBroken, Throw
  <2>4. CASE Pause(r) \/ TakeFollowUps(r) \/ Finish(r)
    BY <1>3, <2>4 DEF Pause, TakeFollowUps, Finish
  <2>5. CASE Settle(r) \/ YieldPoll(r)
    <3>1. UNCHANGED batchVars /\ loop[r] # "tools"
      BY <2>5 DEF Settle, YieldPoll
    <3>2. Goto(r, "turn") \/ Goto(r, "yield") \/ Goto(r, "followUp")
      BY <2>5 DEF Settle, YieldPoll
    <3> QED
      BY <1>3, <3>1, <3>2
  <2> QED
    BY <1>4, <2>1, <2>2, <2>3, <2>4, <2>5 DEF LoopStep
<1>5. ASSUME NEW r \in Runs, CallStep(r) PROVE HandsEmpty'
  <2>1. loop[r] = "tools"
    <3>1. CASE CheckEnds(r)
      BY <3>1 DEF CheckEnds, EndCheck, HandsEmpty, NoCheck
    <3>2. CASE \E i \in Indices(r) : CallStarts(r, i) \/ CallEnds(r, i)
      <4>1. calls[r] # <<>>
        BY <3>2 DEF Indices
      <4> QED
        BY <4>1 DEF HandsEmpty
    <3> QED
      BY <1>5, <3>1, <3>2 DEF CallStep
  <2>2. UNCHANGED loop
    BY <1>5 DEF CallStep, CheckEnds, CallStarts, CallEnds, loopVars
  <2>3. \A q \in Runs : q # r => calls'[q] = calls[q] /\ check'[q] = check[q] /\ steering'[q] = steering[q]
    <3>1. UNCHANGED calls
      BY <1>5 DEF CallStep, CheckEnds, CallStarts, CallEnds, EndCheck, StartCall, EndCall
    <3>2. \A q \in Runs : q # r => steering'[q] = steering[q]
      BY <1>5 DEF CallStep, CheckEnds, CallStarts, CallEnds, EndCheck, StartCall, EndCall, DataOK
    <3>3. \A q \in Runs : q # r => check'[q] = check[q]
      BY <1>5 DEF CallStep, CheckEnds, CallStarts, CallEnds, EndCheck, StartCall, EndCall, DataOK
    <3> QED
      BY <3>1, <3>2, <3>3
  <2> QED
    BY <2>1, <2>2, <2>3 DEF HandsEmpty
<1>6. ASSUME NEW r \in Runs, ReadStep(r) PROVE HandsEmpty'
  <2>1. CASE Leave(r)
    BY <1>2, <2>1 DEF Leave
  <2>2. CASE ReadMessage(r) \/ ReadEnd(r) \/ Finally(r) \/ ReadFailure(r)
    <3>1. UNCHANGED <<calls, check, steering, loop>>
      BY <2>2 DEF ReadMessage, ReadEnd, Finally, ReadFailure, batchVars, loopVars
    <3> QED
      BY <3>1 DEF HandsEmpty
  <2> QED
    BY <1>6, <2>1, <2>2 DEF ReadStep
<1> QED
  BY <1>1, <1>4, <1>5, <1>6 DEF Next, ProducerStep

(***************************************************************************)
(* The flow of messages through a run                                      *)
(***************************************************************************)
(* Sets of which the one comes before the other. *)
LEMMA BeforeParts ==
  ASSUME NEW A, NEW B, Before(A, B)
  PROVE  /\ \A C, D : C \subseteq A /\ D \subseteq B => Before(C, D)
         /\ \A C : Before(C, B) => Before(A \cup C, B)
         /\ \A D : Before(A, D) => Before(A, B \cup D)
BY DEF Before

(* Messages that are not steering are in order with everything. *)
LEMMA NotSteered ==
  ASSUME NEW ms \in Messages, Of(ms) \cap steered = {}
  PROVE  InOrder(ms) /\ \A A : Before(A, Of(ms)) /\ Before(Of(ms), A)
<1>1. \A k \in DOMAIN ms : ms[k] \in Of(ms)
  BY BatchAssumption DEF Messages, UserMsgs, Of
<1> QED
  BY <1>1 DEF InOrder, MessagesOrdered, Before

(* A step of run r leaves the other runs alone; what it emits it had in hand, *)
(* what it takes comes from the queues, and the order of r's steering stays.  *)
Alone(r) ==
  \A q \in Runs : q # r => /\ events'[q] = events[q] /\ pending'[q] = pending[q]
                         /\ steering'[q] = steering[q] /\ check'[q] = check[q]
NewHand(r) == InHand(pending'[r], steering'[r], check'[r])

Flow(r) ==
  /\ Alone(r) /\ Own(r, events'[r])
  /\ ShownIn(events'[r]) \subseteq ShownIn(events[r]) \cup Held(r)
  /\ NewHand(r) \subseteq Held(r) \cup Of(steeringQueue) \cup Of(followUpQueue)
  /\ Of(steeringQueue') \subseteq Of(steeringQueue) /\ Of(followUpQueue') \subseteq Of(followUpQueue)
  /\ activeRun # r => steeringQueue' = steeringQueue
  /\ Ordered(r) => Ordered(r)'

(* The parts of Ordered(r) after a step that emits nothing of the user's. *)
LEMMA OrderStays ==
  ASSUME NEW r, Ordered(r), UNCHANGED steered, Of(followUpQueue) \cap steered = {},
         EntriesInOrder(events'[r]), ShownIn(events'[r]) \subseteq ShownIn(events[r]),
         NewHand(r) \subseteq Held(r) \cup Of(steeringQueue) \cup Of(followUpQueue),
         InOrder(pending'[r]), InOrder(steering'[r]), InOrder(check'[r].got),
         InOrder(steeringQueue'), Of(steeringQueue') \subseteq Of(steeringQueue),
         Before(NewHand(r), Of(steeringQueue'))
  PROVE  Ordered(r)'
<1> DEFINE E == ShownIn(events[r])
           F == ShownIn(events'[r])
           H == Held(r)
           J == NewHand(r)
           Q == Of(steeringQueue)
           R == Of(steeringQueue')
           U == Of(followUpQueue)
<1>1. Before(E, H) /\ Before(E, Q) /\ Before(E, U)
  BY DEF Ordered, Before
<1>2. F \subseteq E /\ J \subseteq H \cup Q \cup U /\ R \subseteq Q /\ Before(J, R)
  OBVIOUS
<1> HIDE DEF E, F, H, J, Q, R, U
<1>3. Before(F, J) /\ Before(F, R)
  BY <1>1, <1>2 DEF Before
<1>4. /\ EntriesInOrder(events[r])' /\ InOrder(steeringQueue)' /\ InOrder(pending[r])'
      /\ InOrder(steering[r])' /\ InOrder(check[r].got)'
  BY DEF EntriesInOrder, EntriesOrdered, InOrder, MessagesOrdered
<1>5. Before(ShownIn(events[r]), Held(r))' /\ Before(ShownIn(events[r]), Of(steeringQueue))'
  BY <1>3 DEF F, J, R, Before, Held, NewHand, InHand, Of, ShownIn
<1>6. Before(Held(r), Of(steeringQueue))'
  BY <1>2 DEF J, R, Before, Held, NewHand, InHand, Of
<1> QED
  BY <1>4, <1>5, <1>6 DEF Ordered

(* A step that only emits entries that are not the user's. *)
LEMMA SilentPush ==
  ASSUME DataOK, EventsOwn, NEW r \in Runs, NEW es, Own(r, es), Silent(es), Push(r, es)
  PROVE  /\ \A q \in Runs : q # r => events'[q] = events[q]
         /\ Own(r, events'[r]) /\ ShownIn(events'[r]) \subseteq ShownIn(events[r])
         /\ EntriesInOrder(events[r]) => EntriesInOrder(events'[r])
<1>1. events \in [Runs -> Seq(Entries)] /\ Own(r, events[r])
  BY DEF DataOK, EventsOwn
<1> QED
  BY <1>1, Pushed DEF Silent, Before

(* Steps that only emit: hands and queues stay, or shrink. *)
LEMMA FlowOfSilent ==
  ASSUME DataOK, RunsKept, IssuedKept, NEW r \in Runs, NEW es, Own(r, es), Silent(es), Push(r, es),
         UNCHANGED <<pending, steering, check, steered, followUpQueue>>,
         Of(steeringQueue') \subseteq Of(steeringQueue), activeRun # r => steeringQueue' = steeringQueue,
         InOrder(steeringQueue) => InOrder(steeringQueue')
  PROVE  Flow(r)
<1>1. /\ \A q \in Runs : q # r => events'[q] = events[q]
      /\ Own(r, events'[r]) /\ ShownIn(events'[r]) \subseteq ShownIn(events[r])
      /\ EntriesInOrder(events[r]) => EntriesInOrder(events'[r])
  BY SilentPush DEF RunsKept
<1>2. NewHand(r) = Held(r) /\ Alone(r) /\ Of(followUpQueue') = Of(followUpQueue)
  BY <1>1 DEF NewHand, Held, Alone
<1>3. ASSUME Ordered(r) PROVE Ordered(r)'
  <2>1. Before(NewHand(r), Of(steeringQueue'))
    BY <1>2, <1>3, BeforeParts DEF Ordered
  <2>2. /\ InOrder(pending'[r]) /\ InOrder(steering'[r]) /\ InOrder(check'[r].got)
        /\ InOrder(steeringQueue') /\ EntriesInOrder(events'[r])
    BY <1>1, <1>3 DEF Ordered
  <2>3. Of(followUpQueue) \cap steered = {}
    BY DEF IssuedKept
  <2> QED
    BY <1>1, <1>2, <1>3, <2>1, <2>2, <2>3, OrderStays
<1> QED
  BY <1>1, <1>2, <1>3 DEF Flow

(* Steps that take messages in hand, or put them from one hand into another, *)
(* and may emit something.                                                   *)
LEMMA FlowOfHands ==
  ASSUME DataOK, RunsKept, IssuedKept, NEW r \in Runs, UNCHANGED steered, Alone(r),
         Own(r, events'[r]), ShownIn(events'[r]) \subseteq ShownIn(events[r]),
         EntriesInOrder(events[r]) => EntriesInOrder(events'[r]),
         NewHand(r) \subseteq Held(r) \cup Of(steeringQueue) \cup Of(followUpQueue),
         Of(steeringQueue') \subseteq Of(steeringQueue), activeRun # r => steeringQueue' = steeringQueue,
         Of(followUpQueue') \subseteq Of(followUpQueue),
         InOrder(steeringQueue) => InOrder(steeringQueue'),
         Ordered(r) => InOrder(pending'[r]) /\ InOrder(steering'[r]) /\ InOrder(check'[r].got),
         Ordered(r) => Before(NewHand(r), Of(steeringQueue'))
  PROVE  Flow(r)
<1>1. ASSUME Ordered(r) PROVE Ordered(r)'
  <2>1. InOrder(steeringQueue') /\ EntriesInOrder(events'[r])
    BY <1>1 DEF Ordered
  <2>2. Of(followUpQueue) \cap steered = {}
    BY DEF IssuedKept
  <2> QED
    BY <1>1, <2>1, <2>2, OrderStays
<1> QED
  BY <1>1 DEF Flow

(* A poll puts what it takes into pending. *)
LEMMA FlowOfPoll ==
  ASSUME DataOK, RunsKept, IssuedKept, NEW r \in Runs, loop[r] # "tools",
         pending' = [pending EXCEPT ![r] = Polled(r)], PollEffect(r),
         UNCHANGED <<steering, check, events, steered, followUpQueue>>
  PROVE  Flow(r)
<1>1. Alone(r) /\ pending'[r] = Polled(r)
  BY DEF DataOK, Alone
<1>2. NewHand(r) \subseteq Held(r) \cup Of(Polled(r))
  BY <1>1 DEF NewHand, Held, InHand
<1>3. steeringQueue \in Messages /\ skipPoll \subseteq Runs
  BY DEF DataOK
<1>4. Of(Polled(r)) \subseteq Of(steeringQueue) /\ (InOrder(steeringQueue) => InOrder(Polled(r)))
  BY <1>3, Polls
<1>5. /\ Of(steeringQueue') \subseteq Of(steeringQueue) /\ (activeRun # r => steeringQueue' = steeringQueue)
      /\ InOrder(steeringQueue) => InOrder(steeringQueue') /\ Before(Of(Polled(r)), Of(steeringQueue'))
  BY <1>3, PollTakes
<1>6. Own(r, events'[r])
  BY DEF RunsKept, EventsOwn
<1>7. ASSUME Ordered(r) PROVE Before(NewHand(r), Of(steeringQueue'))
  <2>1. Before(Held(r), Of(steeringQueue)) /\ Before(Of(Polled(r)), Of(steeringQueue'))
    BY <1>5, <1>7 DEF Ordered
  <2>2. Before(Held(r) \cup Of(Polled(r)), Of(steeringQueue'))
    BY <1>5, <2>1 DEF Before
  <2> QED
    BY <1>2, <2>2, BeforeParts
<1>8. ASSUME Ordered(r) PROVE InOrder(pending'[r]) /\ InOrder(steering'[r]) /\ InOrder(check'[r].got)
  BY <1>1, <1>4, <1>8 DEF Ordered
<1>9. NewHand(r) \subseteq Held(r) \cup Of(steeringQueue) \cup Of(followUpQueue)
  BY <1>2, <1>4
<1> QED
  BY <1>1, <1>5, <1>6, <1>7, <1>8, <1>9, FlowOfHands

(* The polls of the loop. *)
LEMMA FlowOfPolls ==
  ASSUME DataOK, RunsKept, IssuedKept, NEW r \in Runs, InitialPoll(r) \/ Settle(r) \/ YieldPoll(r)
  PROVE  Flow(r)
<1>1. /\ loop[r] # "tools" /\ PollEffect(r) /\ pending' = [pending EXCEPT ![r] = Polled(r)]
      /\ UNCHANGED <<steering, check, events, steered, followUpQueue>>
  BY DEF InitialPoll, Settle, YieldPoll, batchVars, agentVars, streamVars
<1> QED
  BY <1>1, FlowOfPoll

(* Answers without calls, and the ways out of the loop. *)
LEMMA FlowOfEnds ==
  ASSUME DataOK, RunsKept, IssuedKept, NEW r \in Runs,
         Answer(r) \/ AnswerBroken(r) \/ Throw(r) \/ Pause(r) \/ Finish(r)
  PROVE  Flow(r)
<1>1. UNCHANGED <<pending, steering, check, steered, followUpQueue>>
  BY DEF Answer, AnswerBroken, Throw, Pause, Finish, batchVars, agentVars
<1>2. \E es : Own(r, es) /\ Silent(es) /\ Push(r, es)
  <2>1. CASE Answer(r)
    BY <2>1, OwnEntries DEF Answer
  <2>2. CASE AnswerBroken(r)
    <3>1. PICK n \in Nat : Push(r, <<Assistant(r, n)>> \o Results(r, n) \o <<AgentEnd>>)
      BY <2>2, CallNumbers DEF AnswerBroken
    <3> QED
      BY <3>1, OwnBroken
  <2>3. CASE Throw(r)
    BY <2>3, OwnEntries DEF Throw
  <2>4. CASE Pause(r)
    BY <2>4, OwnEntries DEF Pause
  <2>5. CASE Finish(r)
    BY <2>5, OwnEntries DEF Finish
  <2> QED
    BY <2>1, <2>2, <2>3, <2>4, <2>5
<1>3. /\ Of(steeringQueue') \subseteq Of(steeringQueue) /\ (activeRun # r => steeringQueue' = steeringQueue)
      /\ InOrder(steeringQueue) => InOrder(steeringQueue')
  <2>1. CASE PollEffect(r)
    BY <2>1, PollTakes DEF DataOK
  <2>2. CASE UNCHANGED steeringQueue
    BY <2>2
  <2> QED
    BY <2>1, <2>2 DEF Answer, AnswerBroken, Throw, Pause, Finish, queueVars
<1> QED
  BY <1>1, <1>2, <1>3, FlowOfSilent

(* A batch begins or ends: what steered it comes next. *)
LEMMA FlowOfBatches ==
  ASSUME DataOK, RunsKept, IssuedKept, BatchInv, NEW r \in Runs, AnswerWithCalls(r) \/ BatchEnds(r)
  PROVE  Flow(r)
<1>1. UNCHANGED <<steeringQueue, followUpQueue, steered, activeRun>>
  BY DEF AnswerWithCalls, BatchEnds, agentVars, queueVars
<1>2. PICK kinds \in Batches \cup {<<>>} : BeginBatch(r, kinds)
  BY DEF AnswerWithCalls, BatchEnds
<1>3. /\ check'[r] = NoCheck /\ steering'[r] = <<>>
      /\ \A q \in Runs : q # r => check'[q] = check[q] /\ steering'[q] = steering[q]
  BY <1>2, BatchBegun
<1>4. /\ pending'[r] \in {pending[r], steering[r]}
      /\ \A q \in Runs : q # r => pending'[q] = pending[q]
  BY DEF AnswerWithCalls, BatchEnds, DataOK
<1>5. \E es : Own(r, es) /\ Silent(es) /\ Push(r, es)
  <2>1. CASE AnswerWithCalls(r)
    <3>1. PICK ks \in Batches : Push(r, <<Assistant(r, Len(ks))>>)
      BY <2>1 DEF AnswerWithCalls
    <3>2. Len(ks) \in Nat
      BY BatchAssumption
    <3> QED
      BY <3>1, <3>2, OwnEntries
  <2>2. CASE BatchEnds(r)
    <3>1. calls[r] \in Seq(Kinds)
      BY DEF BatchInv, RunBatch
    <3> QED
      BY <2>2, <3>1, OwnSweep DEF BatchEnds
  <2> QED
    BY <2>1, <2>2
<1>6. /\ \A q \in Runs : q # r => events'[q] = events[q]
      /\ Own(r, events'[r]) /\ ShownIn(events'[r]) \subseteq ShownIn(events[r])
      /\ EntriesInOrder(events[r]) => EntriesInOrder(events'[r])
  BY <1>5, SilentPush DEF RunsKept
<1>7. Of(<<>>) = {} /\ InOrder(<<>>) /\ check'[r].got = <<>>
  BY <1>3, NothingSilent DEF NoCheck
<1>8. NewHand(r) \subseteq Held(r) /\ Alone(r)
  BY <1>3, <1>4, <1>6, <1>7 DEF NewHand, Held, InHand, Alone
<1>9. ASSUME Ordered(r)
      PROVE  /\ InOrder(pending'[r]) /\ InOrder(steering'[r]) /\ InOrder(check'[r].got)
             /\ Before(NewHand(r), Of(steeringQueue'))
  <2>1. Before(NewHand(r), Of(steeringQueue'))
    BY <1>1, <1>8, <1>9, BeforeParts DEF Ordered
  <2> QED
    BY <1>3, <1>4, <1>7, <1>9, <2>1 DEF Ordered
<1> QED
  BY <1>1, <1>6, <1>8, <1>9, FlowOfHands

(* The pending messages are emitted: nothing is in hand any more. *)
LEMMA FlowOfInject ==
  ASSUME DataOK, RunsKept, IssuedKept, NEW r \in Runs, Inject(r)
  PROVE  Flow(r)
<1>1. UNCHANGED <<steeringQueue, followUpQueue, steered, activeRun, steering, check>>
  BY DEF Inject, agentVars, queueVars, batchVars
<1>2. pending' = [pending EXCEPT ![r] = <<>>] /\ Push(r, Users(r, pending[r])) /\ loop[r] = "turn"
  BY DEF Inject
<1>3. pending'[r] = <<>> /\ steering'[r] = <<>> /\ check'[r].got = <<>>
  BY <1>1, <1>2 DEF DataOK, RunsKept, HandsEmpty, NoCheck
<1>4. NewHand(r) = {} /\ InOrder(<<>>)
  BY <1>3, NothingSilent DEF NewHand, InHand
<1>5. pending[r] \in Messages /\ events \in [Runs -> Seq(Entries)] /\ Own(r, events[r]) /\ r \in 0..MaxRuns
  BY DEF DataOK, RunsKept, EventsOwn, Runs
<1>6. /\ Own(r, Users(r, pending[r])) /\ ShownIn(Users(r, pending[r])) = Of(pending[r])
      /\ InOrder(pending[r]) => EntriesInOrder(Users(r, pending[r]))
  BY <1>5, UsersShown, OwnEntries
<1>7. /\ \A q \in Runs : q # r => events'[q] = events[q]
      /\ Own(r, events'[r]) /\ ShownIn(events'[r]) \subseteq ShownIn(events[r]) \cup Of(pending[r])
      /\ EntriesInOrder(events[r]) /\ InOrder(pending[r]) /\ Before(ShownIn(events[r]), Of(pending[r]))
           => EntriesInOrder(events'[r])
  BY <1>2, <1>5, <1>6, Pushed
<1>8. Of(pending[r]) \subseteq Held(r)
  BY DEF Held, InHand
<1>9. Alone(r)
  BY <1>1, <1>2, <1>7 DEF Alone, DataOK
<1>10. ASSUME Ordered(r) PROVE Ordered(r)'
  <2>1. Before(ShownIn(events[r]), Of(pending[r]))
    BY <1>8, <1>10, BeforeParts DEF Ordered
  <2>2. EntriesInOrder(events'[r])
    BY <1>7, <1>10, <2>1 DEF Ordered
  <2>3. Before(ShownIn(events[r]) \cup Held(r), Of(steeringQueue))
    BY <1>10, BeforeParts DEF Ordered
  <2>4. Before(ShownIn(events'[r]), Of(steeringQueue'))
    BY <1>1, <1>7, <1>8, <2>3, BeforeParts
  <2>5. /\ EntriesInOrder(events[r])' /\ InOrder(steeringQueue)' /\ InOrder(pending[r])'
        /\ InOrder(steering[r])' /\ InOrder(check[r].got)'
    BY <1>1, <1>3, <1>4, <1>10, <2>2 DEF Ordered, EntriesInOrder, EntriesOrdered, InOrder, MessagesOrdered
  <2>6. Held(r)' = {}
    BY <1>4 DEF NewHand, Held
  <2>7. Before(ShownIn(events[r]), Of(steeringQueue))'
    BY <1>1, <2>4 DEF Before, ShownIn, Of
  <2> QED
    BY <2>5, <2>6, <2>7 DEF Ordered, Before
<1>11. ShownIn(events'[r]) \subseteq ShownIn(events[r]) \cup Held(r)
  BY <1>7, <1>8
<1> QED
  BY <1>1, <1>4, <1>7, <1>9, <1>10, <1>11 DEF Flow

(* Follow-ups are not steering. *)
LEMMA FlowOfFollowUps ==
  ASSUME DataOK, RunsKept, IssuedKept, NEW r \in Runs, TakeFollowUps(r)
  PROVE  Flow(r)
<1>1. UNCHANGED <<steeringQueue, steered, activeRun, steering, check, events>> /\ activeRun = r
  BY DEF TakeFollowUps, queueVars, batchVars, streamVars
<1>2. /\ pending' = [pending EXCEPT ![r] = Taken(followUpQueue)] /\ followUpQueue' = Left(followUpQueue)
  BY DEF TakeFollowUps
<1>3. Alone(r) /\ pending'[r] = Taken(followUpQueue)
  BY <1>1, <1>2 DEF Alone, DataOK
<1>4. /\ Taken(followUpQueue) \in Messages /\ Of(Taken(followUpQueue)) \subseteq Of(followUpQueue)
      /\ Of(followUpQueue') \subseteq Of(followUpQueue)
  BY <1>2, SplitQueue DEF DataOK
<1>5. Of(Taken(followUpQueue)) \cap steered = {}
  BY <1>4 DEF IssuedKept
<1>6. InOrder(Taken(followUpQueue)) /\ \A A : Before(Of(Taken(followUpQueue)), A)
  BY <1>4, <1>5, NotSteered
<1>7. NewHand(r) \subseteq Held(r) \cup Of(Taken(followUpQueue))
  BY <1>1, <1>3 DEF NewHand, Held, InHand
<1>8. Own(r, events'[r])
  BY <1>1 DEF RunsKept, EventsOwn
<1>9. ASSUME Ordered(r)
      PROVE  /\ InOrder(pending'[r]) /\ InOrder(steering'[r]) /\ InOrder(check'[r].got)
             /\ Before(NewHand(r), Of(steeringQueue'))
  <2>1. Before(Held(r) \cup Of(Taken(followUpQueue)), Of(steeringQueue))
    BY <1>6, <1>9, BeforeParts DEF Ordered
  <2>2. Before(NewHand(r), Of(steeringQueue'))
    BY <1>1, <1>7, <2>1, BeforeParts
  <2> QED
    BY <1>1, <1>3, <1>6, <1>9, <2>2 DEF Ordered
<1>10. NewHand(r) \subseteq Held(r) \cup Of(steeringQueue) \cup Of(followUpQueue)
  BY <1>4, <1>7
<1> QED
  BY <1>1, <1>3, <1>4, <1>8, <1>9, <1>10, FlowOfHands

(* The first call that ends takes steering for all; the check hands it over. *)
LEMMA FlowOfCalls ==
  ASSUME DataOK, RunsKept, IssuedKept, BatchInv, NEW r \in Runs, CallStep(r)
  PROVE  Flow(r)
<1>1. UNCHANGED <<pending, steered, followUpQueue, activeRun>>
  BY DEF CallStep, CheckEnds, CallStarts, CallEnds, EndCheck, StartCall, EndCall, agentVars, loopVars
<1>2. Own(r, events[r]) /\ Of(<<>>) = {} /\ InOrder(<<>>) /\ NoCheck.got = <<>>
  BY NothingSilent DEF RunsKept, EventsOwn, NoCheck
<1>3. ASSUME CheckEnds(r) PROVE Flow(r)
  <2>1. UNCHANGED <<steeringQueue, events>>
    BY <1>3 DEF CheckEnds, EndCheck, streamVars
  <2>2. check' = [check EXCEPT ![r] = NoCheck]
    BY <1>3 DEF CheckEnds, EndCheck
  <2>3. steering' = [steering EXCEPT ![r] = IF check[r].got = <<>> THEN steering[r] ELSE check[r].got]
    BY <1>3 DEF CheckEnds, EndCheck
  <2>4. check'[r] = NoCheck /\ steering'[r] \in {steering[r], check[r].got} /\ Alone(r)
    BY <1>1, <2>1, <2>2, <2>3 DEF DataOK, Alone
  <2>5. NewHand(r) \subseteq Held(r)
    BY <1>1, <1>2, <2>4 DEF NewHand, Held, InHand
  <2>6. ASSUME Ordered(r)
        PROVE  /\ InOrder(pending'[r]) /\ InOrder(steering'[r]) /\ InOrder(check'[r].got)
               /\ Before(NewHand(r), Of(steeringQueue'))
    <3>1. Before(NewHand(r), Of(steeringQueue'))
      BY <2>1, <2>5, <2>6, BeforeParts DEF Ordered
    <3> QED
      BY <1>1, <1>2, <2>4, <2>6, <3>1 DEF Ordered
  <2> QED
    BY <1>1, <1>2, <2>1, <2>4, <2>5, <2>6, FlowOfHands
<1>4. ASSUME NEW i \in Indices(r), CallStarts(r, i) PROVE Flow(r)
  <2>1. UNCHANGED <<steeringQueue, events, steering, check>>
    BY <1>4 DEF CallStarts, StartCall, streamVars
  <2>2. Alone(r) /\ NewHand(r) = Held(r)
    BY <1>1, <2>1 DEF Alone, NewHand, Held
  <2>3. ASSUME Ordered(r)
        PROVE  /\ InOrder(pending'[r]) /\ InOrder(steering'[r]) /\ InOrder(check'[r].got)
               /\ Before(NewHand(r), Of(steeringQueue'))
    BY <1>1, <2>1, <2>2, <2>3 DEF Ordered
  <2> QED
    BY <1>1, <1>2, <2>1, <2>2, <2>3, FlowOfHands
<1>5. ASSUME NEW i \in Indices(r), CallEnds(r, i) PROVE Flow(r)
  <2>1. UNCHANGED steering /\ Push(r, <<Result(r, i)>>)
    BY <1>5 DEF CallEnds, EndCall
  <2>2. i \in Nat
    BY DEF BatchInv, RunBatch, Indices
  <2>3. /\ \A q \in Runs : q # r => events'[q] = events[q]
        /\ Own(r, events'[r]) /\ ShownIn(events'[r]) \subseteq ShownIn(events[r])
        /\ EntriesInOrder(events[r]) => EntriesInOrder(events'[r])
    BY <2>1, <2>2, OwnEntries, SilentPush DEF RunsKept
  <2>4. CASE UNCHANGED <<steeringQueue, check>>
    <3>1. Alone(r) /\ NewHand(r) = Held(r)
      BY <1>1, <2>1, <2>3, <2>4 DEF Alone, NewHand, Held
    <3>2. ASSUME Ordered(r)
          PROVE  /\ InOrder(pending'[r]) /\ InOrder(steering'[r]) /\ InOrder(check'[r].got)
                 /\ Before(NewHand(r), Of(steeringQueue'))
      BY <1>1, <2>1, <2>4, <3>1, <3>2 DEF Ordered
    <3> QED
      BY <1>1, <2>3, <2>4, <3>1, <3>2, FlowOfHands
  <2>5. CASE PollEffect(r) /\ check' = [check EXCEPT ![r] = [under |-> TRUE, got |-> Polled(r)]]
    <3>1. check'[r].got = Polled(r) /\ \A q \in Runs : q # r => check'[q] = check[q]
      BY <2>5 DEF DataOK
    <3>2. Alone(r) /\ NewHand(r) \subseteq Held(r) \cup Of(Polled(r))
      BY <1>1, <2>1, <2>3, <3>1 DEF Alone, NewHand, Held, InHand
    <3>3. Of(Polled(r)) \subseteq Of(steeringQueue) /\ (InOrder(steeringQueue) => InOrder(Polled(r)))
      BY Polls DEF DataOK
    <3>4. /\ Of(steeringQueue') \subseteq Of(steeringQueue) /\ (activeRun # r => steeringQueue' = steeringQueue)
          /\ InOrder(steeringQueue) => InOrder(steeringQueue') /\ Before(Of(Polled(r)), Of(steeringQueue'))
      BY <2>5, PollTakes DEF DataOK
    <3>5. ASSUME Ordered(r)
          PROVE  /\ InOrder(pending'[r]) /\ InOrder(steering'[r]) /\ InOrder(check'[r].got)
                 /\ Before(NewHand(r), Of(steeringQueue'))
      <4>1. Before(Held(r), Of(steeringQueue)) /\ Before(Of(Polled(r)), Of(steeringQueue'))
        BY <3>4, <3>5 DEF Ordered
      <4>2. Before(Held(r) \cup Of(Polled(r)), Of(steeringQueue'))
        BY <3>4, <4>1 DEF Before
      <4>3. Before(NewHand(r), Of(steeringQueue'))
        BY <3>2, <4>2, BeforeParts
      <4> QED
        BY <1>1, <2>1, <3>1, <3>3, <3>5, <4>3 DEF Ordered
    <3>6. NewHand(r) \subseteq Held(r) \cup Of(steeringQueue) \cup Of(followUpQueue)
      BY <3>2, <3>3
    <3> QED
      BY <1>1, <2>3, <3>2, <3>4, <3>5, <3>6, FlowOfHands
  <2> QED
    BY <1>5, <2>4, <2>5 DEF CallEnds, EndCall
<1> QED
  BY <1>3, <1>4, <1>5 DEF CallStep

(* Every step of a loop and of its calls is such a flow. *)
LEMMA LoopsFlow ==
  ASSUME DataOK, RunsKept, IssuedKept, BatchInv, NEW r \in Runs, ProducerStep(r)
  PROVE  Flow(r)
BY FlowOfPolls, FlowOfEnds, FlowOfBatches, FlowOfInject, FlowOfFollowUps, FlowOfCalls
   DEF ProducerStep, LoopStep

(***************************************************************************)
(* The transcript                                                          *)
(***************************************************************************)
(* The entry at the front of a run's events. *)
LEMMA HeadRead ==
  ASSUME DataOK, RunsKept, NEW r \in Runs, events[r] # <<>>
  PROVE  /\ Head(events[r]) \in Entries /\ (Shows(Head(events[r])) => Head(events[r]).run = r)
         /\ Tail(events[r]) \in Seq(Entries) /\ Own(r, Tail(events[r]))
         /\ ShownIn(Tail(events[r])) \subseteq ShownIn(events[r])
         /\ ShownIn(<<Head(events[r])>>) \subseteq ShownIn(events[r])
<1>1. Own(r, events[r]) /\ events[r] \in Seq(Entries)
  BY DEF RunsKept, EventsOwn, Own
<1> DEFINE es == events[r]
<1> HIDE DEF es
<1>2. es \in Seq(Entries) /\ es # <<>> /\ Own(r, es)
  BY <1>1 DEF es
<1>3. 1 \in DOMAIN es
  BY <1>2
<1>4. /\ Head(es) \in Entries /\ Tail(es) \in Seq(Entries) /\ Head(es) = es[1]
      /\ \A k \in DOMAIN Tail(es) : k + 1 \in DOMAIN es /\ Tail(es)[k] = es[k + 1]
      /\ ShownIn(Tail(es)) \subseteq ShownIn(es) /\ ShownIn(<<Head(es)>>) \subseteq ShownIn(es)
  BY <1>2, HeadShown
<1>5. (Shows(Head(es)) => Head(es).run = r) /\ Own(r, Tail(es))
  BY <1>2, <1>3, <1>4 DEF Own
<1> QED
  BY <1>4, <1>5 DEF es

(* What a run has emitted bears its number. *)
LEMMA EventsOwnStep ==
  ASSUME DataOK, RunsKept, IssuedKept, BatchInv, Next PROVE EventsOwn'
<1>1. ASSUME UserStep PROVE EventsOwn'
  <2>1. ASSUME NEW ms \in Messages, BeginRun(ms) PROVE EventsOwn'
    <3>1. runs + 1 \in Runs /\ events' = [events EXCEPT ![runs + 1] = Users(runs + 1, ms)]
      BY <2>1, RunBegun
    <3>2. Own(runs + 1, Users(runs + 1, ms))
      BY <3>1, OwnEntries
    <3> QED
      BY <3>1, <3>2 DEF RunsKept, EventsOwn, DataOK
  <2>2. <<issued + 1>> \in Messages \/ ~Prompt
    BY BatchAssumption DEF Prompt, NewMessage, DataOK, Messages, UserMsgs
  <2>3. Taken(steeringQueue) \in Messages /\ Taken(followUpQueue) \in Messages /\ <<>> \in Messages
    BY SplitQueue, NothingSilent DEF DataOK
  <2>4. ASSUME UNCHANGED events PROVE EventsOwn'
    BY <2>4 DEF RunsKept, EventsOwn, Own
  <2>5. UNCHANGED events \/ \E ms \in Messages : BeginRun(ms)
    BY <1>1, <2>2, <2>3 DEF UserStep, Prompt, ContinueQueued, ContinueTranscript, Steer, FollowUp, Abort,
       ForceAbort, streamVars
  <2> QED
    BY <2>1, <2>4, <2>5
<1>2. ASSUME NEW r \in Runs, ProducerStep(r) PROVE EventsOwn'
  BY <1>2, LoopsFlow DEF Flow, Alone, RunsKept, EventsOwn
<1>3. ASSUME NEW r \in Runs, ReadStep(r) PROVE EventsOwn'
  <2>1. \/ UNCHANGED events \/ events' = [events EXCEPT ![r] = <<>>]
        \/ events[r] # <<>> /\ events' = [events EXCEPT ![r] = Tail(events[r])]
    BY <1>3 DEF ReadStep, ReadMessage, ReadEnd, Finally, ReadFailure, Leave, Consumed
  <2>2. Own(r, <<>>)
    BY OwnEntries
  <2> QED
    BY <2>1, <2>2, HeadRead DEF RunsKept, EventsOwn, DataOK
<1> QED
  BY <1>1, <1>2, <1>3 DEF Next

(* Entries enter the transcript from the active run only. *)
LEMMA Entered ==
  ASSUME DataOK, RunsKept, Next, messages' # messages
  PROVE  /\ activeRun # NoRun /\ activeRun \in Runs /\ UNCHANGED <<runs, issued, steered, steeringQueue, followUpQueue>>
         /\ \E e \in Entries :
              /\ messages' = Append(messages, e) /\ Shows(e) /\ e.run = activeRun
              /\ events[activeRun] # <<>> /\ (e = Head(events[activeRun]) \/ e.what # "user")
<1>1. PICK r \in Runs : ReadMessage(r) \/ ReadFailure(r)
  <2>1. ASSUME NEW r \in Runs, ProducerStep(r) PROVE FALSE
    BY <2>1, LoopLeaves
  <2>2. ASSUME UserStep PROVE FALSE
    BY <2>2 DEF UserStep, Prompt, ContinueQueued, ContinueTranscript, Steer, FollowUp, Abort, ForceAbort, BeginRun
  <2>3. ASSUME NEW r \in Runs, ReadStep(r) PROVE ReadMessage(r) \/ ReadFailure(r)
    BY <2>3 DEF ReadStep, ReadEnd, Finally, Leave
  <2> QED
    BY <2>1, <2>2, <2>3 DEF Next
<1>2. activeRun = r /\ events[r] # <<>>
  BY <1>1 DEF ReadMessage, ReadFailure
<1>3. UNCHANGED <<runs, issued, steered, steeringQueue, followUpQueue>>
  BY <1>1 DEF ReadMessage, ReadFailure, queueVars
<1>4. CASE ReadMessage(r)
  <2>1. Head(events[r]) \in Entries /\ Shows(Head(events[r])) /\ messages' = Append(messages, Head(events[r]))
    BY <1>4, <1>2, HeadRead DEF ReadMessage, Shows
  <2>2. r # NoRun
    BY DEF Runs, NoRun
  <2>3. Head(events[r]).run = r
    BY <1>2, <2>1, HeadRead
  <2> DEFINE e == Head(events[r])
  <2> HIDE DEF e
  <2>4. e \in Entries /\ Shows(e) /\ messages' = Append(messages, e) /\ e.run = r
    BY <2>1, <2>3 DEF e
  <2> QED
    BY <1>2, <1>3, <2>2, <2>4 DEF e
<1>5. CASE ReadFailure(r)
  <2>1. r \in 0..MaxRuns /\ r # NoRun
    BY DEF Runs, NoRun
  <2>2. /\ Assistant(r, 0) \in Entries /\ Shows(Assistant(r, 0)) /\ Assistant(r, 0).run = r
        /\ Assistant(r, 0).what # "user"
    BY <2>1, EntryKinds DEF Shows
  <2>3. messages' = Append(messages, Assistant(r, 0))
    BY <1>5 DEF ReadFailure
  <2> QED
    BY <1>2, <1>3, <2>1, <2>2, <2>3
<1> QED
  BY <1>1, <1>4, <1>5

(* What a sequence is with one element more. *)
LEMMA LastPlace ==
  ASSUME NEW S, NEW a \in Seq(S), NEW e \in S
  PROVE  /\ Append(a, e) \in Seq(S) /\ Len(a) \in Nat
         /\ \A k \in DOMAIN Append(a, e) : \/ k \in DOMAIN a /\ Append(a, e)[k] = a[k] /\ k <= Len(a)
                                           \/ k = Len(a) + 1 /\ Append(a, e)[k] = e
OBVIOUS

(* The transcript takes entries of the active run, which is the latest. *)
LEMMA EntriesShownStep ==
  ASSUME DataOK, RunsKept, RunsDoNotMix, Next PROVE EntriesShown' /\ RunsDoNotMix'
<1>1. CASE messages' = messages
  <2>1. runs' \in Nat /\ runs \in Nat /\ runs <= runs'
    <3>1. ASSUME UserStep PROVE runs' \in {runs, runs + 1}
      BY <3>1 DEF UserStep, Prompt, ContinueQueued, ContinueTranscript, Steer, FollowUp, Abort,
         ForceAbort, BeginRun
    <3>2. ASSUME NEW r \in Runs, ProducerStep(r) PROVE runs' = runs
      BY <3>2, LoopLeaves
    <3>3. ASSUME NEW r \in Runs, ReadStep(r) PROVE runs' = runs
      BY <3>3 DEF ReadStep, ReadMessage, ReadEnd, Finally, ReadFailure, Leave
    <3>4. runs' \in {runs, runs + 1}
      BY <3>1, <3>2, <3>3 DEF Next
    <3>5. runs \in Nat
      BY BatchAssumption DEF DataOK
    <3> QED
      BY <3>4, <3>5
  <2>2. \A k \in DOMAIN messages : messages[k].run \in Nat
    <3>1. ASSUME NEW e \in Entries, Shows(e) PROVE e.run \in Nat
      BY <3>1, BatchAssumption DEF Entries, Shows, AgentEnd, Failure
    <3> QED
      BY <3>1 DEF RunsKept, EntriesShown, DataOK
  <2> QED
    BY <1>1, <2>1, <2>2 DEF RunsKept, EntriesShown, RunsDoNotMix
<1>2. CASE messages' # messages
  <2>1. PICK e \in Entries : messages' = Append(messages, e) /\ Shows(e) /\ e.run = activeRun
    BY <1>2, Entered
  <2>2. activeRun = runs /\ UNCHANGED runs /\ runs \in Nat
    BY <1>2, Entered DEF RunsKept, LatestRun, DataOK
  <2>3. messages \in Seq(Entries)
    BY DEF DataOK
  <2>4. \A k \in DOMAIN messages' :
          \/ k \in DOMAIN messages /\ messages'[k] = messages[k] /\ k <= Len(messages)
          \/ k = Len(messages) + 1 /\ messages'[k] = e
    BY <2>1, <2>3, LastPlace
  <2>5. \A k \in DOMAIN messages' : Shows(messages'[k]) /\ messages'[k].run <= runs
    BY <2>1, <2>2, <2>4 DEF RunsKept, EntriesShown
  <2>6. ASSUME NEW p \in DOMAIN messages', NEW q \in DOMAIN messages', p < q
        PROVE  messages'[p].run <= messages'[q].run
    <3>1. p \in Nat /\ q \in Nat /\ Len(messages) \in Nat
      BY <2>1, <2>3, LastPlace
    <3>2. p \in DOMAIN messages /\ messages'[p] = messages[p]
      <4>1. Len(messages') = Len(messages) + 1 /\ DOMAIN messages' = 1..Len(messages')
        BY <2>1, <2>3
      <4> QED
        BY <2>4, <2>6, <3>1, <4>1
    <3>3. CASE q \in DOMAIN messages /\ messages'[q] = messages[q]
      BY <2>6, <3>2, <3>3 DEF RunsDoNotMix
    <3>4. CASE messages'[q] = e
      BY <2>1, <2>2, <3>2, <3>4 DEF RunsKept, EntriesShown
    <3> QED
      BY <2>4, <3>3, <3>4
  <2> QED
    BY <2>2, <2>5, <2>6 DEF EntriesShown, RunsDoNotMix
<1> QED
  BY <1>1, <1>2

(* The runs stay apart. *)
LEMMA RunsKeptStep ==
  ASSUME DataOK, RunsKept, RunsDoNotMix, IssuedKept, BatchInv, Next PROVE RunsKept' /\ RunsDoNotMix'
BY LatestRunStep, LaterRunsStep, HandsEmptyStep, EventsOwnStep, EntriesShownStep DEF RunsKept

(***************************************************************************)
(* Messages are issued first                                               *)
(***************************************************************************)
(* One message or entry more. *)
LEMMA OneMore ==
  ASSUME NEW ms \in Messages, NEW n \in UserMsgs
  PROVE  Append(ms, n) \in Messages /\ Of(Append(ms, n)) = Of(ms) \cup {n}
<1> DEFINE a == Append(ms, n)
<1>1. a \in Messages /\ Len(ms) \in Nat /\ n \in 0..MaxUserMsgs
  BY BatchAssumption DEF Messages, UserMsgs
<1>2. /\ \A k \in DOMAIN a : (k \in DOMAIN ms /\ a[k] = ms[k]) \/ (k = Len(ms) + 1 /\ a[k] = n)
      /\ \A k \in DOMAIN ms : k \in DOMAIN a /\ a[k] = ms[k]
      /\ Len(ms) + 1 \in DOMAIN a /\ a[Len(ms) + 1] = n
  BY DEF Messages
<1> HIDE DEF a
<1>3. Of(a) = Of(ms) \cup {n}
  BY <1>1, <1>2 DEF Of
<1> QED
  BY <1>1, <1>3 DEF a

LEMMA OneShown ==
  ASSUME NEW es \in Seq(Entries), NEW e \in Entries
  PROVE  /\ ShownIn(Append(es, e)) = ShownIn(es) \cup ShownIn(<<e>>)
         /\ e.what # "user" => ShownIn(<<e>>) = {} /\ EntriesInOrder(<<e>>)
         /\ EntriesInOrder(es) /\ EntriesInOrder(<<e>>) /\ Before(ShownIn(es), ShownIn(<<e>>))
              => EntriesInOrder(Append(es, e))
<1>1. Append(es, e) = es \o <<e>> /\ <<e>> \in Seq(Entries)
  OBVIOUS
<1>2. e.what # "user" => Silent(<<e>>)
  <2>1. ASSUME e.what # "user" PROVE \A k \in DOMAIN <<e>> : <<e>>[k].what # "user"
    BY <2>1
  <2> QED
    BY <2>1, SilentEntries
<1>3. ShownIn(Append(es, e)) = ShownIn(es) \cup ShownIn(<<e>>)
  BY <1>1, JoinedShow
<1>4. ASSUME EntriesInOrder(es), EntriesInOrder(<<e>>), Before(ShownIn(es), ShownIn(<<e>>))
      PROVE  EntriesInOrder(Append(es, e))
  <2>1. EntriesInOrder(es \o <<e>>)
    BY <1>1, <1>4, JoinedOrder
  <2> QED
    BY <1>1, <2>1
<1> QED
  BY <1>2, <1>3, <1>4 DEF Silent

(* A run that begins has nothing in hand, and emits what it begins with. *)
LEMMA Begins ==
  ASSUME DataOK, RunsKept, NEW ms \in Messages, BeginRun(ms)
  PROVE  LET r == runs + 1 IN
         /\ r \in Runs /\ r # NoRun /\ activeRun' = r /\ events'[r] = Users(r, ms)
         /\ ShownIn(events'[r]) = Of(ms) /\ (InOrder(ms) => EntriesInOrder(events'[r]))
         /\ NewHand(r) = {} /\ pending'[r] = <<>> /\ steering'[r] = <<>> /\ check'[r].got = <<>>
         /\ UNCHANGED <<messages, pending, steering, check>>
         /\ \A q \in Runs : q # r => events'[q] = events[q]
<1> DEFINE r == runs + 1
<1>1. /\ r \in Runs /\ activeRun' = r /\ events' = [events EXCEPT ![r] = Users(r, ms)]
      /\ UNCHANGED <<messages, pending, steering, check>>
  BY RunBegun DEF batchVars
<1>2. r # NoRun /\ r \in 0..MaxRuns /\ r > runs
  BY <1>1, BatchAssumption DEF Runs, NoRun, DataOK
<1>3. events'[r] = Users(r, ms) /\ \A q \in Runs : q # r => events'[q] = events[q]
  BY <1>1 DEF DataOK
<1>4. ShownIn(events'[r]) = Of(ms) /\ (InOrder(ms) => EntriesInOrder(events'[r]))
  BY <1>2, <1>3, UsersShown
<1>5. pending'[r] = <<>> /\ loop[r] = "none"
  BY <1>1, <1>2 DEF RunsKept, LaterRuns
<1>6. steering'[r] = <<>> /\ check'[r] = NoCheck
  BY <1>1, <1>5 DEF RunsKept, HandsEmpty
<1>7. check'[r].got = <<>>
  BY <1>6 DEF NoCheck
<1>8. NewHand(r) = {}
  BY <1>5, <1>6, <1>7, NothingSilent DEF NewHand, InHand
<1> QED
  BY <1>1, <1>2, <1>3, <1>4, <1>5, <1>6, <1>7, <1>8

(* What run r has taken of the messages. *)
Sent(r) == ShownIn(events[r]) \cup Held(r)

(* Messages in the queues, in hand and shown have been sent. *)
LEMMA IssuedKeptStep ==
  ASSUME DataOK, RunsKept, IssuedKept, BatchInv, Next PROVE IssuedKept'
<1>0. issued \in Nat /\ steered \subseteq Nat
  BY BatchAssumption DEF DataOK, IssuedKept
<1>1. ASSUME UserStep PROVE IssuedKept'
  <2>1. ASSUME NEW ms \in Messages, BeginRun(ms), issued' \in Nat, issued <= issued', UNCHANGED steered,
               \A m \in Of(ms) : m <= issued',
               Of(steeringQueue') \subseteq Of(steeringQueue), Of(followUpQueue') \subseteq Of(followUpQueue)
        PROVE  IssuedKept'
    <3> DEFINE r == runs + 1
    <3>1. /\ r \in Runs /\ ShownIn(events'[r]) = Of(ms) /\ NewHand(r) = {}
          /\ UNCHANGED <<messages, pending, steering, check>>
          /\ \A q \in Runs : q # r => events'[q] = events[q]
      BY <2>1, Begins
    <3>2. \A q \in Runs : \A m \in ShownIn(events'[q]) \cup NewHand(q) : m <= issued'
      <4>1. ASSUME NEW q \in Runs, q # r PROVE ShownIn(events'[q]) \cup NewHand(q) = Sent(q)
        BY <3>1, <4>1 DEF NewHand, Sent, Held
      <4>2. \A q \in Runs : \A m \in Sent(q) : m \in Nat /\ m <= issued
        BY BatchAssumption DEF Sent, IssuedKept, ShownIn, Held, InHand, Of
      <4> QED
        BY <1>0, <2>1, <3>1, <4>1, <4>2
    <3>3. \A m \in Of(steeringQueue') \cup Of(followUpQueue') \cup ShownIn(messages') : m <= issued'
      <4>1. \A m \in Of(steeringQueue) \cup Of(followUpQueue) \cup ShownIn(messages) : m \in Nat /\ m <= issued
        BY BatchAssumption DEF IssuedKept, ShownIn, Of
      <4> QED
        BY <1>0, <2>1, <3>1, <4>1
    <3>4. steered' \subseteq 1..issued'
      BY <1>0, <2>1 DEF IssuedKept
    <3>5. Of(steeringQueue') \subseteq steered' /\ Of(followUpQueue') \cap steered' = {}
      BY <2>1 DEF IssuedKept
    <3> QED
      BY <3>2, <3>3, <3>4, <3>5 DEF IssuedKept, NewHand, Held
  <2>2. CASE Prompt
    <3>1. issued + 1 \in UserMsgs /\ issued' = issued + 1
      BY <1>0, <2>2, BatchAssumption DEF Prompt, NewMessage, UserMsgs, DataOK
    <3>2. <<issued + 1>> \in Messages /\ Of(<<issued + 1>>) = {issued + 1}
      BY <3>1, BatchAssumption DEF Messages, Of, UserMsgs
    <3> QED
      BY <1>0, <2>1, <2>2, <3>1, <3>2 DEF Prompt
  <2>3. CASE ContinueQueued
    <3>1. /\ Taken(steeringQueue) \in Messages /\ Of(Taken(steeringQueue)) \subseteq Of(steeringQueue)
          /\ Of(Left(steeringQueue)) \subseteq Of(steeringQueue)
          /\ Taken(followUpQueue) \in Messages /\ Of(Taken(followUpQueue)) \subseteq Of(followUpQueue)
          /\ Of(Left(followUpQueue)) \subseteq Of(followUpQueue)
      BY SplitQueue DEF DataOK
    <3>2. \A m \in Of(steeringQueue) \cup Of(followUpQueue) : m <= issued
      BY DEF IssuedKept
    <3>3. CASE steeringQueue # <<>>
      BY <1>0, <2>1, <2>3, <3>1, <3>2, <3>3 DEF ContinueQueued
    <3>4. CASE steeringQueue = <<>>
      BY <1>0, <2>1, <2>3, <3>1, <3>2, <3>4 DEF ContinueQueued
    <3> QED
      BY <3>3, <3>4
  <2>4. CASE ContinueTranscript
    BY <1>0, <2>1, <2>4, NothingSilent DEF ContinueTranscript
  <2>5. CASE Steer
    <3>1. /\ issued + 1 \in UserMsgs /\ issued' = issued + 1 /\ steered' = steered \cup {issued + 1}
          /\ UNCHANGED <<followUpQueue, messages, events, pending, steering, check>>
      BY <1>0, <2>5, BatchAssumption DEF Steer, NewMessage, UserMsgs, DataOK, batchVars, loopVars, streamVars
    <3>2. Of(steeringQueue') = Of(steeringQueue) \cup {issued + 1}
      BY <2>5, <3>1, OneMore DEF Steer, DataOK
    <3>3. \A m \in Of(steeringQueue) \cup Of(followUpQueue) \cup ShownIn(messages) : m \in Nat /\ m <= issued
      BY BatchAssumption DEF IssuedKept, ShownIn, Of
    <3>4. \A r \in Runs : \A m \in ShownIn(events[r]) \cup Held(r) : m \in Nat /\ m <= issued
      BY BatchAssumption DEF IssuedKept, ShownIn, Held, InHand, Of
    <3>5. steered' \subseteq 1..issued'
      BY <1>0, <3>1 DEF IssuedKept
    <3>6. Of(steeringQueue') \subseteq steered' /\ Of(followUpQueue') \cap steered' = {}
      BY <1>0, <3>1, <3>2, <3>3 DEF IssuedKept
    <3>7. \A m \in Of(steeringQueue') \cup Of(followUpQueue') \cup ShownIn(messages') : m <= issued'
      BY <1>0, <3>1, <3>2, <3>3
    <3>8. \A r \in Runs : ShownIn(events'[r]) \cup NewHand(r) = ShownIn(events[r]) \cup Held(r)
      BY <3>1 DEF NewHand, Held
    <3>9. \A r \in Runs : \A m \in ShownIn(events'[r]) \cup NewHand(r) : m <= issued'
      BY <1>0, <3>1, <3>4, <3>8
    <3> QED
      BY <3>5, <3>6, <3>7, <3>9 DEF IssuedKept, NewHand, Held
  <2>6. CASE FollowUp
    <3>1. /\ issued + 1 \in UserMsgs /\ issued' = issued + 1
          /\ UNCHANGED <<steered, steeringQueue, messages, events, pending, steering, check>>
      BY <1>0, <2>6, BatchAssumption DEF FollowUp, NewMessage, UserMsgs, DataOK, batchVars, loopVars,
         streamVars, queueVars
    <3>2. Of(followUpQueue') = Of(followUpQueue) \cup {issued + 1}
      BY <2>6, <3>1, OneMore DEF FollowUp, DataOK
    <3>3. \A m \in Of(steeringQueue) \cup Of(followUpQueue) \cup ShownIn(messages) : m \in Nat /\ m <= issued
      BY BatchAssumption DEF IssuedKept, ShownIn, Of
    <3>4. \A r \in Runs : \A m \in ShownIn(events[r]) \cup Held(r) : m \in Nat /\ m <= issued
      BY BatchAssumption DEF IssuedKept, ShownIn, Held, InHand, Of
    <3>5. steered' \subseteq 1..issued' /\ issued + 1 \notin steered
      BY <1>0, <3>1 DEF IssuedKept
    <3>6. Of(steeringQueue') \subseteq steered' /\ Of(followUpQueue') \cap steered' = {}
      BY <3>1, <3>2, <3>5 DEF IssuedKept
    <3>7. \A m \in Of(steeringQueue') \cup Of(followUpQueue') \cup ShownIn(messages') : m <= issued'
      BY <1>0, <3>1, <3>2, <3>3
    <3>8. \A r \in Runs : ShownIn(events'[r]) \cup NewHand(r) = ShownIn(events[r]) \cup Held(r)
      BY <3>1 DEF NewHand, Held
    <3>9. \A r \in Runs : \A m \in ShownIn(events'[r]) \cup NewHand(r) : m <= issued'
      BY <1>0, <3>1, <3>4, <3>8
    <3> QED
      BY <3>5, <3>6, <3>7, <3>9 DEF IssuedKept, NewHand, Held
  <2>7. CASE Abort \/ ForceAbort
    <3>1. UNCHANGED <<issued, steered, steeringQueue, followUpQueue, messages, events, pending, steering, check>>
      BY <2>7 DEF Abort, ForceAbort, batchVars, loopVars, streamVars, queueVars
    <3> QED
      BY <3>1 DEF IssuedKept, Held
  <2> QED
    BY <1>1, <2>2, <2>3, <2>4, <2>5, <2>6, <2>7 DEF UserStep
<1>2. ASSUME NEW r \in Runs, ProducerStep(r) PROVE IssuedKept'
  <2>1. UNCHANGED <<issued, steered, messages>>
    BY <1>2, LoopLeaves
  <2>2. Flow(r)
    BY <1>2, LoopsFlow
  <2>3. \A q \in Runs : q # r => ShownIn(events'[q]) \cup NewHand(q) = ShownIn(events[q]) \cup Held(q)
    BY <2>2 DEF Flow, Alone, NewHand, Held
  <2>4. ShownIn(events'[r]) \cup NewHand(r)
          \subseteq ShownIn(events[r]) \cup Held(r) \cup Of(steeringQueue) \cup Of(followUpQueue)
    BY <2>2 DEF Flow
  <2>5. \A q \in Runs : \A m \in ShownIn(events'[q]) \cup NewHand(q) : m <= issued
    BY <2>3, <2>4 DEF IssuedKept
  <2>6. /\ \A m \in Of(steeringQueue') \cup Of(followUpQueue') \cup ShownIn(messages) : m <= issued
        /\ Of(steeringQueue') \subseteq steered /\ Of(followUpQueue') \cap steered = {}
    BY <2>2 DEF IssuedKept, Flow
  <2> QED
    BY <2>1, <2>5, <2>6 DEF IssuedKept, NewHand, Held
<1>3. ASSUME NEW r \in Runs, ReadStep(r) PROVE IssuedKept'
  <2>1. UNCHANGED <<issued, steered, steeringQueue, followUpQueue>>
    BY <1>3 DEF ReadStep, ReadMessage, ReadEnd, Finally, ReadFailure, Leave, queueVars
  <2>2. \A q \in Runs : ShownIn(events'[q]) \subseteq ShownIn(events[q])
    <3>1. \/ UNCHANGED events \/ events' = [events EXCEPT ![r] = <<>>]
          \/ events[r] # <<>> /\ events' = [events EXCEPT ![r] = Tail(events[r])]
      BY <1>3 DEF ReadStep, ReadMessage, ReadEnd, Finally, ReadFailure, Leave, Consumed
    <3> QED
      BY <3>1, HeadRead, NothingSilent DEF Silent, DataOK
  <2>3. \A q \in Runs : NewHand(q) \subseteq Held(q)
    <3>1. CASE Leave(r)
      <4>1. /\ check'[r] = NoCheck /\ steering'[r] = <<>> /\ pending'[r] = <<>>
            /\ \A q \in Runs : q # r => /\ check'[q] = check[q] /\ steering'[q] = steering[q]
                                        /\ pending'[q] = pending[q]
        BY <3>1, BatchBegun DEF Leave, DataOK
      <4>2. NewHand(r) = {}
        BY <4>1, NothingSilent DEF NewHand, InHand, NoCheck
      <4> QED
        BY <4>1, <4>2 DEF NewHand, Held
    <3>2. CASE ~Leave(r)
      BY <1>3, <3>2 DEF ReadStep, ReadMessage, ReadEnd, Finally, ReadFailure, batchVars, loopVars, NewHand, Held
    <3> QED
      BY <3>1, <3>2
  <2>4. \A m \in ShownIn(messages') : m <= issued
    <3>1. CASE messages' = messages
      BY <3>1 DEF IssuedKept
    <3>2. CASE messages' # messages
      <4>1. PICK e \in Entries : /\ messages' = Append(messages, e) /\ activeRun \in Runs
                                 /\ events[activeRun] # <<>>
                                 /\ (e = Head(events[activeRun]) \/ e.what # "user")
        BY <3>2, Entered
      <4>2. ShownIn(messages') = ShownIn(messages) \cup ShownIn(<<e>>)
        BY <4>1, OneShown DEF DataOK
      <4>3. ShownIn(<<e>>) \subseteq ShownIn(events[activeRun])
        BY <4>1, OneShown, HeadRead DEF DataOK
      <4> QED
        BY <4>1, <4>2, <4>3 DEF IssuedKept
    <3> QED
      BY <3>1, <3>2
  <2>5. \A q \in Runs : \A m \in ShownIn(events'[q]) \cup NewHand(q) : m <= issued
    BY <2>2, <2>3 DEF IssuedKept
  <2>6. \A m \in Of(steeringQueue) \cup Of(followUpQueue) \cup ShownIn(messages') : m <= issued
    BY <2>4 DEF IssuedKept
  <2> QED
    BY <2>1, <2>5, <2>6 DEF IssuedKept, NewHand, Held
<1> QED
  BY <1>1, <1>2, <1>3 DEF Next

(***************************************************************************)
(* The order of steering                                                   *)
(***************************************************************************)
(* With the message issued + 1 steered, the orders of earlier ones stay. *)
LEMMA OrderOfEarlier ==
  ASSUME NEW i \in Nat, NEW S, NEW T, T = S \cup {i + 1}
  PROVE  /\ \A es \in Seq(Entries) :
              (\A m \in ShownIn(es) : m <= i) /\ EntriesOrdered(es, S) => EntriesOrdered(es, T)
         /\ \A ms \in Messages :
              (\A m \in Of(ms) : m <= i) /\ MessagesOrdered(ms, S) => MessagesOrdered(ms, T)
<1>1. ASSUME NEW es \in Seq(Entries), \A m \in ShownIn(es) : m <= i, NEW p \in DOMAIN es, es[p].what = "user"
      PROVE  es[p].msg \in Nat /\ es[p].msg # i + 1
  <2>1. es[p] \in Entries
    OBVIOUS
  <2>2. es[p].msg \in 0..MaxUserMsgs
    BY <1>1, <2>1, UserEntries
  <2>3. es[p].msg \in ShownIn(es)
    BY <1>1, <2>2 DEF ShownIn
  <2> QED
    BY <1>1, <2>2, <2>3, BatchAssumption
<1>2. ASSUME NEW ms \in Messages, \A m \in Of(ms) : m <= i, NEW p \in DOMAIN ms
      PROVE  ms[p] \in Nat /\ ms[p] # i + 1
  <2>1. ms[p] \in 0..MaxUserMsgs
    BY BatchAssumption DEF Messages, UserMsgs
  <2>2. ms[p] \in Of(ms)
    BY <2>1 DEF Of
  <2> QED
    BY <1>2, <2>1, <2>2, BatchAssumption
<1> QED
  BY <1>1, <1>2 DEF EntriesOrdered, MessagesOrdered

(* Sets of earlier messages before each other, and before the new one. *)
LEMMA SetsOfEarlier ==
  ASSUME NEW i \in Nat, NEW S, NEW T, T = S \cup {i + 1}, NEW A \in SUBSET Nat, NEW B \in SUBSET Nat,
         \A a \in A : a <= i, \A b \in B : b <= i, \A a \in A \cap S, b \in B \cap S : a < b
  PROVE  /\ \A a \in A \cap T, b \in B \cap T : a < b
         /\ \A a \in A \cap T, b \in (B \cup {i + 1}) \cap T : a < b
OBVIOUS

(* The queue after steer(): the new message is the last of it. *)
LEMMA QueueSteered ==
  ASSUME NEW q \in Messages, NEW i \in Nat, i + 1 \in UserMsgs, \A m \in Of(q) : m <= i,
         NEW S, NEW T, T = S \cup {i + 1},
         MessagesOrdered(q, S)
  PROVE  MessagesOrdered(Append(q, i + 1), T)
<1> DEFINE a == Append(q, i + 1)
<1>1. /\ \A k \in DOMAIN a : k \in Nat /\ (\/ k \in DOMAIN q /\ a[k] = q[k] /\ k <= Len(q)
                                           \/ k = Len(q) + 1 /\ a[k] = i + 1)
      /\ Len(q) \in Nat
  BY DEF Messages
<1>2. \A k \in DOMAIN q : q[k] \in Nat /\ q[k] <= i
  <2>1. \A k \in DOMAIN q : q[k] \in 0..MaxUserMsgs
    BY BatchAssumption DEF Messages, UserMsgs
  <2>2. \A k \in DOMAIN q : q[k] \in Of(q)
    BY <2>1 DEF Of
  <2> QED
    BY <2>1, <2>2, BatchAssumption
<1> HIDE DEF a
<1>3. ASSUME NEW j \in DOMAIN a, NEW k \in DOMAIN a, j < k, {a[j], a[k]} \subseteq T PROVE a[j] < a[k]
  <2>1. j \in DOMAIN q /\ a[j] = q[j] /\ q[j] \in Nat /\ q[j] <= i /\ q[j] \in S
    <3>1. j \in DOMAIN q /\ a[j] = q[j]
      BY <1>1, <1>3
    <3> QED
      BY <1>2, <1>3, <3>1
  <2>2. CASE k \in DOMAIN q /\ a[k] = q[k]
    <3>1. q[k] \in S
      BY <1>2, <1>3, <2>2
    <3> QED
      BY <1>3, <2>1, <2>2, <3>1 DEF MessagesOrdered
  <2>3. CASE a[k] = i + 1
    BY <2>1, <2>3
  <2> QED
    BY <1>1, <2>2, <2>3
<1> QED
  BY <1>3 DEF a, MessagesOrdered

(* A run begins with messages that come after the transcript's. *)
LEMMA SteeringBegins ==
  ASSUME DataOK, RunsKept, SteeringKept, NEW ms \in Messages, BeginRun(ms), UNCHANGED steered,
         InOrder(ms), InOrder(steeringQueue'), Of(steeringQueue') \subseteq Of(steeringQueue),
         Before(ShownIn(messages), Of(ms)), Before(Of(ms), Of(steeringQueue'))
  PROVE  SteeringKept'
<1> DEFINE r == runs + 1
<1>1. /\ r # NoRun /\ activeRun' = r /\ ShownIn(events'[r]) = Of(ms) /\ EntriesInOrder(events'[r])
      /\ NewHand(r) = {} /\ pending'[r] = <<>> /\ steering'[r] = <<>> /\ check'[r].got = <<>>
      /\ UNCHANGED messages
  BY Begins
<1> HIDE DEF r
<1>2. InOrder(<<>>)
  BY NothingSilent
<1>3. Before(ShownIn(messages), Of(steeringQueue'))
  BY BeforeParts DEF SteeringKept
<1>4. /\ EntriesInOrder(events'[r]) /\ InOrder(steeringQueue') /\ InOrder(pending'[r])
      /\ InOrder(steering'[r]) /\ InOrder(check'[r].got)
      /\ Before(ShownIn(events'[r]), NewHand(r)) /\ Before(ShownIn(events'[r]), Of(steeringQueue'))
      /\ Before(NewHand(r), Of(steeringQueue'))
  BY <1>1, <1>2 DEF Before
<1>5. Ordered(activeRun)'
  BY <1>1, <1>4 DEF Ordered, EntriesInOrder, EntriesOrdered, InOrder, MessagesOrdered, Before, NewHand, Held
<1>6. Before(ShownIn(messages'), ShownIn(events'[r]) \cup NewHand(r)) /\ EntriesInOrder(messages')
  BY <1>1 DEF SteeringKept
<1>7. activeRun' = r /\ InOrder(steeringQueue') /\ Before(ShownIn(messages'), Of(steeringQueue'))
  BY <1>1, <1>3
<1> QED
  BY <1>5, <1>6, <1>7 DEF SteeringKept, EntriesInOrder, EntriesOrdered, InOrder, MessagesOrdered, Before, NewHand, Held

(* Steering stays in order, whoever moves. *)
LEMMA SteeringKeptStep ==
  ASSUME DataOK, RunsKept, IssuedKept, SteeringKept, BatchInv, Next PROVE SteeringKept'
<1>0. /\ issued \in Nat /\ steered \subseteq Nat /\ (activeRun # NoRun => activeRun \in Runs)
      /\ steeringQueue \in Messages /\ followUpQueue \in Messages /\ messages \in Seq(Entries)
  BY BatchAssumption DEF DataOK, IssuedKept, RunsKept, LatestRun, Runs, NoRun
<1>1. CASE Prompt
  <2>1. issued + 1 \in UserMsgs
    BY <1>0, <1>1, BatchAssumption DEF Prompt, NewMessage, UserMsgs, DataOK
  <2>2. <<issued + 1>> \in Messages /\ Of(<<issued + 1>>) = {issued + 1}
    BY <2>1, BatchAssumption DEF Messages, Of, UserMsgs
  <2>3. Of(<<issued + 1>>) \cap steered = {}
    BY <1>0, <2>2 DEF IssuedKept
  <2>4. InOrder(<<issued + 1>>) /\ \A A : Before(A, Of(<<issued + 1>>)) /\ Before(Of(<<issued + 1>>), A)
    BY <2>2, <2>3, NotSteered
  <2>5. BeginRun(<<issued + 1>>) /\ UNCHANGED <<steeringQueue, steered>>
    BY <1>1 DEF Prompt
  <2> QED
    BY <2>2, <2>4, <2>5, SteeringBegins DEF SteeringKept
<1>2. CASE ContinueQueued
  <2>1. CASE steeringQueue # <<>>
    <3>1. BeginRun(Taken(steeringQueue)) /\ steeringQueue' = Left(steeringQueue) /\ UNCHANGED steered
      BY <1>2, <2>1 DEF ContinueQueued
    <3>2. InOrder(steeringQueue) /\ Before(ShownIn(messages), Of(steeringQueue))
      BY DEF SteeringKept
    <3>3. /\ Taken(steeringQueue) \in Messages /\ Of(Taken(steeringQueue)) \subseteq Of(steeringQueue)
          /\ Of(steeringQueue') \subseteq Of(steeringQueue)
          /\ InOrder(Taken(steeringQueue)) /\ InOrder(steeringQueue')
          /\ Before(Of(Taken(steeringQueue)), Of(steeringQueue'))
      BY <1>0, <3>1, <3>2, SplitQueue
    <3>4. Before(ShownIn(messages), Of(Taken(steeringQueue)))
      BY <3>2, <3>3, BeforeParts
    <3> QED
      BY <3>1, <3>3, <3>4, SteeringBegins
  <2>2. CASE steeringQueue = <<>>
    <3>1. BeginRun(Taken(followUpQueue)) /\ UNCHANGED <<steeringQueue, steered>>
      BY <1>2, <2>2 DEF ContinueQueued
    <3>2. Taken(followUpQueue) \in Messages /\ Of(Taken(followUpQueue)) \cap steered = {}
      BY <1>0, SplitQueue DEF IssuedKept
    <3>3. /\ InOrder(Taken(followUpQueue))
          /\ \A A : Before(A, Of(Taken(followUpQueue))) /\ Before(Of(Taken(followUpQueue)), A)
      BY <3>2, NotSteered
    <3> QED
      BY <3>1, <3>2, <3>3, SteeringBegins DEF SteeringKept
  <2> QED
    BY <2>1, <2>2
<1>3. CASE ContinueTranscript
  <2>1. BeginRun(<<>>) /\ UNCHANGED <<steeringQueue, steered>>
    BY <1>3 DEF ContinueTranscript
  <2>2. <<>> \in Messages /\ InOrder(<<>>) /\ \A A : Before(A, Of(<<>>)) /\ Before(Of(<<>>), A)
    BY NothingSilent DEF Before
  <2> QED
    BY <2>1, <2>2, SteeringBegins DEF SteeringKept
<1>4. CASE Steer
  <2>1. /\ issued + 1 \in UserMsgs /\ steered' = steered \cup {issued + 1}
        /\ steeringQueue' = Append(steeringQueue, issued + 1)
        /\ UNCHANGED <<activeRun, messages, events, pending, steering, check>>
    BY <1>0, <1>4, BatchAssumption DEF Steer, NewMessage, UserMsgs, DataOK, batchVars, loopVars, streamVars
  <2>2. Of(steeringQueue') = Of(steeringQueue) \cup {issued + 1}
    BY <1>0, <2>1, OneMore
  <2>3. /\ \A m \in Of(steeringQueue) \cup ShownIn(messages) : m \in Nat /\ m <= issued
        /\ \A r \in Runs : \A m \in ShownIn(events[r]) \cup Held(r) : m \in Nat /\ m <= issued
    BY BatchAssumption DEF IssuedKept, ShownIn, Held, InHand, Of
  <2>4. InOrder(steeringQueue)'
    BY <1>0, <2>1, <2>3, QueueSteered DEF SteeringKept, InOrder
  <2>5. EntriesInOrder(messages)'
    BY <1>0, <2>1, <2>3, OrderOfEarlier DEF SteeringKept, EntriesInOrder
  <2>6. Before(ShownIn(messages), Of(steeringQueue))'
    <3> DEFINE A == ShownIn(messages)
               B == Of(steeringQueue)
    <3>1. \A a \in A \cap steered, b \in B \cap steered : a < b
      BY DEF SteeringKept, Before
    <3>2. \A a \in A \cap steered', b \in (B \cup {issued + 1}) \cap steered' : a < b
      BY <1>0, <2>1, <2>3, <3>1, SetsOfEarlier
    <3>3. ShownIn(messages)' = A /\ Of(steeringQueue)' = B \cup {issued + 1}
      BY <2>1, <2>2 DEF ShownIn, Of
    <3> QED
      BY <3>2, <3>3 DEF Before
  <2>7. ASSUME activeRun # NoRun
        PROVE  /\ Ordered(activeRun)'
               /\ Before(ShownIn(messages), ShownIn(events[activeRun]) \cup Held(activeRun))'
    <3> DEFINE r == activeRun
               M == ShownIn(messages)
               E == ShownIn(events[r])
               H == Held(r)
               Q == Of(steeringQueue)
    <3>1. r \in Runs /\ Ordered(r) /\ Before(M, E \cup H)
      BY <1>0, <2>7 DEF SteeringKept
    <3>2. \A m \in M \cup E \cup H \cup Q : m \in Nat /\ m <= issued
      BY <2>3, <3>1
    <3>3. events[r] \in Seq(Entries) /\ pending[r] \in Messages /\ steering[r] \in Messages /\ check[r].got \in Messages
      BY <3>1 DEF DataOK
    <3>4. /\ \A m \in Of(pending[r]) : m <= issued
          /\ \A m \in Of(steering[r]) : m <= issued
          /\ \A m \in Of(check[r].got) : m <= issued
      BY <3>2 DEF Held, InHand
    <3>5. /\ EntriesInOrder(events[r]) /\ InOrder(pending[r]) /\ InOrder(steering[r]) /\ InOrder(check[r].got)
          /\ Before(E, H) /\ Before(E, Q) /\ Before(H, Q)
      BY <3>1 DEF Ordered
    <3>6. EntriesInOrder(events[activeRun])'
      BY <1>0, <2>1, <3>2, <3>3, <3>5, OrderOfEarlier DEF EntriesInOrder
    <3>7. InOrder(pending[activeRun])' /\ InOrder(steering[activeRun])' /\ InOrder(check[activeRun].got)'
      BY <1>0, <2>1, <3>3, <3>4, <3>5, OrderOfEarlier DEF InOrder
    <3>8. /\ ShownIn(messages)' = M /\ ShownIn(events[activeRun])' = E /\ Held(activeRun)' = H
          /\ Of(steeringQueue)' = Q \cup {issued + 1}
      BY <2>1, <2>2 DEF ShownIn, Held, InHand, Of
    <3> HIDE DEF M, E, H, Q
    <3>9. \A a \in E \cap steered', b \in H \cap steered' : a < b
      BY <1>0, <2>1, <3>2, <3>5, SetsOfEarlier DEF Before
    <3>10. \A a \in E \cap steered', b \in (Q \cup {issued + 1}) \cap steered' : a < b
      BY <1>0, <2>1, <3>2, <3>5, SetsOfEarlier DEF Before
    <3>11. \A a \in H \cap steered', b \in (Q \cup {issued + 1}) \cap steered' : a < b
      BY <1>0, <2>1, <3>2, <3>5, SetsOfEarlier DEF Before
    <3>12. \A a \in M \cap steered', b \in (E \cup H) \cap steered' : a < b
      <4>1. (E \cup H) \in SUBSET Nat /\ M \in SUBSET Nat /\ \A m \in M \cup (E \cup H) : m <= issued
        BY <3>2
      <4>2. \A a \in M \cap steered, b \in (E \cup H) \cap steered : a < b
        BY <3>1 DEF Before
      <4> QED
        BY <1>0, <2>1, <4>1, <4>2, SetsOfEarlier
    <3>13. /\ Before(ShownIn(events[activeRun]), Held(activeRun))'
           /\ Before(ShownIn(events[activeRun]), Of(steeringQueue))'
           /\ Before(Held(activeRun), Of(steeringQueue))'
           /\ Before(ShownIn(messages), ShownIn(events[activeRun]) \cup Held(activeRun))'
      BY <3>8, <3>9, <3>10, <3>11, <3>12 DEF Before
    <3> QED
      BY <2>4, <3>6, <3>7, <3>13 DEF Ordered
  <2> QED
    BY <2>1, <2>4, <2>5, <2>6, <2>7 DEF SteeringKept
<1>5. CASE FollowUp \/ Abort
  <2>1. UNCHANGED <<activeRun, steered, steeringQueue, messages, events, pending, steering, check>>
    BY <1>5 DEF FollowUp, Abort, batchVars, loopVars, streamVars, queueVars
  <2> QED
    BY <2>1 DEF SteeringKept, Ordered, EntriesInOrder, EntriesOrdered, InOrder, MessagesOrdered, Before, ShownIn, Held, InHand, Of
<1>6. CASE ForceAbort
  <2>1. UNCHANGED <<steered, steeringQueue, messages>> /\ activeRun' = NoRun
    BY <1>6 DEF ForceAbort
  <2> QED
    BY <2>1 DEF SteeringKept, EntriesInOrder, EntriesOrdered, InOrder, MessagesOrdered, Before, ShownIn, Of
<1>7. ASSUME NEW r \in Runs, ProducerStep(r) PROVE SteeringKept'
  <2>1. UNCHANGED <<steered, messages, activeRun>>
    BY <1>7, LoopLeaves
  <2>2. Flow(r)
    BY <1>7, LoopsFlow
  <2>3. InOrder(steeringQueue') /\ Before(ShownIn(messages), Of(steeringQueue'))
    <3>1. Before(ShownIn(messages), Of(steeringQueue'))
      BY <2>2, BeforeParts DEF SteeringKept, Flow
    <3>2. CASE activeRun # r
      BY <2>2, <3>1, <3>2 DEF SteeringKept, Flow
    <3>3. CASE activeRun = r
      <4>1. Ordered(r)
        BY <3>3 DEF SteeringKept, Runs, NoRun
      <4>2. Ordered(r)'
        BY <2>2, <4>1 DEF Flow
      <4>3. InOrder(steeringQueue)'
        BY <4>2 DEF Ordered
      <4> QED
        BY <2>1, <3>1, <4>3 DEF InOrder, MessagesOrdered
    <3> QED
      BY <3>2, <3>3
  <2>4. ASSUME activeRun # NoRun
        PROVE  /\ Ordered(activeRun)'
               /\ Before(ShownIn(messages), ShownIn(events'[activeRun]) \cup NewHand(activeRun))
    <3>1. Ordered(activeRun) /\ Before(ShownIn(messages), ShownIn(events[activeRun]) \cup Held(activeRun))
      BY <2>4 DEF SteeringKept
    <3>2. CASE activeRun # r
      <4>1. /\ events'[activeRun] = events[activeRun] /\ pending'[activeRun] = pending[activeRun]
            /\ steering'[activeRun] = steering[activeRun] /\ check'[activeRun] = check[activeRun]
            /\ steeringQueue' = steeringQueue
        BY <1>0, <2>2, <2>4, <3>2 DEF Flow, Alone
      <4> QED
        BY <2>1, <3>1, <4>1 DEF Ordered, EntriesInOrder, EntriesOrdered, InOrder, MessagesOrdered, Before, ShownIn, NewHand, Held, InHand, Of
    <3>3. CASE activeRun = r
      <4>1. Ordered(r)'
        BY <2>2, <3>1, <3>3 DEF Flow
      <4>2. Ordered(activeRun)'
        BY <2>1, <3>3, <4>1
      <4>3. Before(ShownIn(messages), Of(followUpQueue)) /\ Before(ShownIn(messages), Of(steeringQueue))
        BY <1>0, NotSteered DEF IssuedKept, SteeringKept
      <4> DEFINE Z == ShownIn(events[r]) \cup Held(r) \cup Of(steeringQueue) \cup Of(followUpQueue)
      <4>4. Before(ShownIn(messages), Z)
        BY <3>1, <3>3, <4>3 DEF Before
      <4>5. ShownIn(events'[r]) \cup NewHand(r) \subseteq Z
        BY <2>2 DEF Flow
      <4> HIDE DEF Z
      <4> QED
        BY <3>3, <4>2, <4>4, <4>5, BeforeParts
    <3> QED
      BY <3>2, <3>3
  <2>5. EntriesInOrder(messages)
    BY DEF SteeringKept
  <2> QED
    BY <2>1, <2>3, <2>4, <2>5 DEF SteeringKept, EntriesInOrder, EntriesOrdered, InOrder, MessagesOrdered, Before, NewHand, Held
<1>8. ASSUME NEW r \in Runs, ReadMessage(r) \/ ReadEnd(r) PROVE SteeringKept'
  <2> DEFINE es == events[r]
             M == ShownIn(messages)
             E == ShownIn(events[r])
             H == Held(r)
             Q == Of(steeringQueue)
             T == ShownIn(Tail(events[r]))
             N == ShownIn(<<Head(events[r])>>)
  <2>1. /\ es # <<>> /\ activeRun = r /\ events' = [events EXCEPT ![r] = Tail(es)]
        /\ UNCHANGED <<activeRun, steered, steeringQueue, pending, steering, check>>
    BY <1>8 DEF ReadMessage, ReadEnd, Consumed, batchVars, loopVars, queueVars
  <2>2. r # NoRun
    BY DEF Runs, NoRun
  <2>3. /\ Ordered(r) /\ Before(M, E \cup H) /\ EntriesInOrder(messages) /\ Before(M, Q)
        /\ InOrder(steeringQueue)
    BY <2>1, <2>2 DEF SteeringKept
  <2>4. /\ EntriesInOrder(es) /\ Before(E, H) /\ Before(E, Q) /\ Before(H, Q)
        /\ InOrder(pending[r]) /\ InOrder(steering[r]) /\ InOrder(check[r].got)
    BY <2>3 DEF Ordered
  <2>5. T \subseteq E /\ N \subseteq E /\ Head(es) \in Entries
    BY <2>1, HeadRead
  <2>6. EntriesInOrder(Tail(es)) /\ EntriesInOrder(<<Head(es)>>) /\ Before(N, T)
    <3>1. es \in Seq(Entries)
      BY DEF DataOK
    <3> QED
      BY <2>1, <2>4, <3>1, HeadOrder
  <2>7. events'[r] = Tail(es)
    BY <2>1 DEF DataOK
  <2>8. /\ Before(T, H) /\ Before(T, Q) /\ Before(M \cup N, Q) /\ Before(M \cup N, T \cup H)
        /\ Before(M, T \cup H) /\ Before(M, N)
    <3> HIDE DEF M, N, T, E, H, Q
    <3> QED
      BY <2>3, <2>4, <2>5, <2>6 DEF Before
  <2>9. /\ EntriesInOrder(messages')
        /\ Before(ShownIn(messages'), Q) /\ Before(ShownIn(messages'), T \cup H)
    <3>1. CASE messages' = messages
      BY <2>3, <2>8, <3>1
    <3>2. CASE messages' = Append(messages, Head(es))
      <4>1. ShownIn(messages') = M \cup N /\ EntriesInOrder(messages')
        BY <1>0, <2>3, <2>5, <2>6, <2>8, <3>2, OneShown
      <4> QED
        BY <2>8, <4>1
    <3> QED
      BY <1>8, <3>1, <3>2 DEF ReadMessage, ReadEnd
  <2>10. Ordered(activeRun)'
    <3>1. activeRun' = r
      BY <2>1
    <3>2. /\ EntriesInOrder(events'[r]) /\ InOrder(steeringQueue') /\ InOrder(pending'[r])
          /\ InOrder(steering'[r]) /\ InOrder(check'[r].got)
      BY <2>1, <2>3, <2>4, <2>6, <2>7
    <3>3. NewHand(r) = H /\ Of(steeringQueue') = Q /\ ShownIn(events'[r]) = T
      BY <2>1, <2>7 DEF NewHand, Held
    <3>4. /\ Before(ShownIn(events'[r]), NewHand(r)) /\ Before(ShownIn(events'[r]), Of(steeringQueue'))
          /\ Before(NewHand(r), Of(steeringQueue'))
      BY <2>4, <2>8, <3>3
    <3> QED
      BY <2>1, <3>1, <3>2, <3>4 DEF Ordered, EntriesInOrder, EntriesOrdered, InOrder, MessagesOrdered,
         Before, NewHand, Held
  <2>11. Before(ShownIn(messages), ShownIn(events[activeRun]) \cup Held(activeRun))'
    <3>1. NewHand(r) = H /\ ShownIn(events'[r]) = T /\ activeRun' = r
      BY <2>1, <2>7 DEF NewHand, Held
    <3>2. Before(ShownIn(messages'), ShownIn(events'[r]) \cup NewHand(r))
      BY <2>9, <3>1
    <3> QED
      BY <2>1, <3>1, <3>2 DEF Before, NewHand, Held
  <2>12. /\ EntriesInOrder(messages)' /\ InOrder(steeringQueue)'
         /\ Before(ShownIn(messages), Of(steeringQueue))'
    BY <2>1, <2>3, <2>9 DEF EntriesInOrder, EntriesOrdered, InOrder, MessagesOrdered, Before
  <2> QED
    BY <2>10, <2>11, <2>12 DEF SteeringKept
<1>9. ASSUME NEW r \in Runs, Finally(r) PROVE SteeringKept'
  <2>1. UNCHANGED <<steered, steeringQueue, messages, events, pending, steering, check>>
    BY <1>9 DEF Finally, batchVars, loopVars
  <2>2. activeRun' = NoRun \/ activeRun' = activeRun
    BY <1>9 DEF Finally, Finalize
  <2> QED
    BY <2>1, <2>2 DEF SteeringKept, Ordered, EntriesInOrder, EntriesOrdered, InOrder, MessagesOrdered,
       Before, ShownIn, Held, InHand, Of
<1>10. ASSUME NEW r \in Runs, ReadFailure(r) PROVE SteeringKept'
  <2>1. UNCHANGED <<steered, steeringQueue>> /\ activeRun' = NoRun /\ messages' = Append(messages, Assistant(r, 0))
    BY <1>10 DEF ReadFailure, Finalize
  <2>2. Assistant(r, 0) \in Entries /\ Assistant(r, 0).what # "user"
    BY EntryKinds DEF Runs
  <2>3. /\ ShownIn(<<Assistant(r, 0)>>) = {} /\ EntriesInOrder(<<Assistant(r, 0)>>)
        /\ ShownIn(messages') = ShownIn(messages) \cup ShownIn(<<Assistant(r, 0)>>)
    BY <1>0, <2>1, <2>2, OneShown
  <2>4. Before(ShownIn(messages), ShownIn(<<Assistant(r, 0)>>)) /\ ShownIn(messages') = ShownIn(messages)
    BY <2>3 DEF Before
  <2>5. EntriesInOrder(messages')
    BY <1>0, <2>1, <2>2, <2>3, <2>4, OneShown DEF SteeringKept
  <2>6. /\ EntriesInOrder(messages)' /\ InOrder(steeringQueue)'
        /\ Before(ShownIn(messages), Of(steeringQueue))'
    BY <2>1, <2>4, <2>5 DEF SteeringKept, EntriesInOrder, EntriesOrdered, InOrder, MessagesOrdered, Before
  <2> QED
    BY <2>1, <2>6 DEF SteeringKept
<1>11. ASSUME NEW r \in Runs, Leave(r) PROVE SteeringKept'
  <2>1. UNCHANGED <<steered, steeringQueue, messages, activeRun>> /\ activeRun # r
    BY <1>11 DEF Leave, queueVars
  <2>2. \A q \in Runs : q # r => /\ check'[q] = check[q] /\ steering'[q] = steering[q]
                               /\ pending'[q] = pending[q] /\ events'[q] = events[q]
    BY <1>11, BatchBegun DEF Leave, DataOK
  <2>3. CASE activeRun = NoRun
    BY <2>1, <2>3 DEF SteeringKept, EntriesInOrder, EntriesOrdered, InOrder, MessagesOrdered, Before,
       ShownIn, Of
  <2>4. CASE activeRun # NoRun
    <3>1. /\ check'[activeRun] = check[activeRun] /\ steering'[activeRun] = steering[activeRun]
          /\ pending'[activeRun] = pending[activeRun] /\ events'[activeRun] = events[activeRun]
      BY <1>0, <2>1, <2>2, <2>4
    <3> QED
      BY <2>1, <2>4, <3>1 DEF SteeringKept, Ordered, EntriesInOrder, EntriesOrdered, InOrder,
         MessagesOrdered, Before, ShownIn, Held, InHand, Of
  <2> QED
    BY <2>3, <2>4
<1> QED
  BY <1>1, <1>2, <1>3, <1>4, <1>5, <1>6, <1>7, <1>8, <1>9, <1>10, <1>11 DEF Next, UserStep, ReadStep

(* AgentInv is inductive. *)
LEMMA AgentStep == ASSUME AgentInv, [Next]_vars PROVE AgentInv'
<1>1. CASE Next
  <2>1. BatchInv'
    BY StepsKeepBatches DEF AgentInv
  <2> QED
    BY <1>1, <2>1, DataStep, RunsKeptStep, IssuedKeptStep, SteeringKeptStep DEF AgentInv
<1>2. CASE UNCHANGED vars
  <2>1. BatchInv'
    BY StepsKeepBatches DEF AgentInv
  <2>2. DataOK'
    BY <1>2 DEF AgentInv, DataOK, vars, batchVars, queueVars, agentVars, loopVars, streamVars
  <2>3. RunsKept'
    BY <1>2 DEF AgentInv, RunsKept, LatestRun, LaterRuns, HandsEmpty, EventsOwn, EntriesShown, vars,
       batchVars, queueVars, agentVars, loopVars, streamVars
  <2>4. RunsDoNotMix'
    BY <1>2 DEF AgentInv, RunsDoNotMix, vars, agentVars
  <2>5. IssuedKept'
    BY <1>2 DEF AgentInv, IssuedKept, ShownIn, Of, Held, InHand, vars, batchVars, queueVars, agentVars,
       loopVars, streamVars
  <2>6. SteeringKept'
    BY <1>2 DEF AgentInv, SteeringKept, Ordered, EntriesInOrder, EntriesOrdered, InOrder, MessagesOrdered,
       Before, ShownIn, Of, Held, InHand, vars, batchVars, queueVars, agentVars, loopVars, streamVars
  <2> QED
    BY <2>1, <2>2, <2>3, <2>4, <2>5, <2>6 DEF AgentInv
<1> QED
  BY <1>1, <1>2

LEMMA InitAgent == Init => AgentInv
<1> SUFFICES ASSUME Init PROVE AgentInv
  OBVIOUS
<1>1. BatchInv
  BY InitBatch
<1>2. /\ <<>> \in Messages /\ Of(<<>>) = {} /\ InOrder(<<>>) /\ Silent(<<>>)
      /\ NoCheck \in [under : BOOLEAN, got : Messages] /\ NoCheck.got = <<>>
  BY NothingSilent DEF NoCheck
<1>3. User(NoRun, 0) \in Entries /\ User(NoRun, 0).run = 0 /\ User(NoRun, 0).msg = 0 /\ Shows(User(NoRun, 0))
  BY BatchAssumption, EntryKinds DEF NoRun, Shows
<1>4. messages = <<User(NoRun, 0)>> /\ messages \in Seq(Entries)
  BY <1>3 DEF Init
<1>5. DataOK
  <2>1. /\ steeringQueue \in Messages /\ followUpQueue \in Messages
        /\ pending \in [Runs -> Messages] /\ steering \in [Runs -> Messages]
        /\ check \in [Runs -> [under : BOOLEAN, got : Messages]]
    BY <1>2 DEF Init
  <2>2. events \in [Runs -> Seq(Entries)]
    BY DEF Init
  <2>3. loop \in [Runs -> Labels] /\ reader \in [Runs -> {"none", "reading", "closing", "over"}]
    BY DEF Init, Labels
  <2>4. calls \in [Runs -> Batches \cup {<<>>}]
    BY DEF Init
  <2>5. skipPoll \subseteq Runs /\ aborted \subseteq Runs /\ abandoned \subseteq Runs
    BY DEF Init
  <2>6. runs \in 0..MaxRuns /\ issued \in 0..MaxUserMsgs
    BY BatchAssumption DEF Init
  <2> QED
    BY <1>4, <2>1, <2>2, <2>3, <2>4, <2>5, <2>6 DEF DataOK
<1>6. RunsKept
  <2>1. LatestRun /\ LaterRuns /\ HandsEmpty
    BY DEF Init, LatestRun, LaterRuns, HandsEmpty, NoRun
  <2>2. EventsOwn
    BY OwnEntries DEF Init, EventsOwn
  <2>3. EntriesShown
    BY <1>3, <1>4 DEF Init, EntriesShown
  <2> QED
    BY <2>1, <2>2, <2>3 DEF RunsKept
<1>7. RunsDoNotMix
  BY <1>3, <1>4 DEF RunsDoNotMix
<1>8. IssuedKept
  <2>1. ShownIn(messages) \subseteq {0}
    BY <1>3, <1>4 DEF ShownIn
  <2>2. \A r \in Runs : ShownIn(events[r]) \cup Held(r) = {}
    BY <1>2 DEF Init, Silent, Held, InHand
  <2> QED
    BY <1>2, <2>1, <2>2 DEF Init, IssuedKept
<1>9. SteeringKept
  <2>1. steered = {} /\ activeRun = NoRun
    BY DEF Init
  <2> QED
    BY <2>1 DEF SteeringKept, EntriesInOrder, EntriesOrdered, InOrder, MessagesOrdered, Before
<1> QED
  BY <1>1, <1>5, <1>6, <1>7, <1>8, <1>9 DEF AgentInv

(* AgentInv holds in every reachable state. *)
THEOREM AgentInvariant == Spec => []AgentInv
<1> QED
  BY InitAgent, AgentStep, PTL DEF Spec

(* LoopInv (agent.ts, #runLoop): the agent has one run at a time, whose data  *)
(* have their types, and nothing of an abandoned run enters the transcript   *)
(* of its successor.                                                         *)
THEOREM LoopKept == Spec => []LoopInv
<1>1. ASSUME AgentInv PROVE LoopInv
  <2>1. NoRun \notin Runs /\ (activeRun \in Runs \cup {NoRun})
    BY <1>1, BatchAssumption DEF AgentInv, RunsKept, LatestRun, DataOK, Runs, NoRun
  <2>2. /\ activeRun = runningPrompt /\ (isStreaming => activeRun # NoRun)
        /\ runs \in 0..MaxRuns /\ issued \in 0..MaxUserMsgs
        /\ aborted \cup abandoned \cup skipPoll \subseteq Runs
    BY <1>1 DEF AgentInv, RunsKept, LatestRun, DataOK
  <2>3. ASSUME NEW r \in Runs
        PROVE  /\ loop[r] \in Labels /\ reader[r] \in {"none", "reading", "closing", "over"}
               /\ calls[r] \in Batches \cup {<<>>}
    BY <1>1 DEF AgentInv, DataOK
  <2>4. ASSUME NEW r \in Runs
        PROVE  /\ task[r] \in [Indices(r) -> {"waiting", "running", "checking", "done"}]
               /\ result[r] \in [Indices(r) -> {"none", "tool", "skipped"}]
    BY <1>1 DEF AgentInv, BatchInv, RunBatch, States, Answers
  <2> QED
    BY <1>1, <2>1, <2>2, <2>3, <2>4 DEF LoopInv, TypeOK, AgentInv, Labels
<1> QED
  BY <1>1, AgentInvariant, PTL

(* SteeringInOrder (agent.ts, #dequeueSteeringMessages; agent-loop.ts): what   *)
(* the user steers with reaches the transcript in the order it was sent, over *)
(* polls, checks among tools, aborted, abandoned and continued runs.          *)
THEOREM SteeringShownInOrder == Spec => []SteeringInOrder
<1>1. ASSUME AgentInv PROVE SteeringInOrder
  BY <1>1 DEF AgentInv, SteeringKept, EntriesInOrder, EntriesOrdered, SteeringInOrder
<1> QED
  BY <1>1, AgentInvariant, PTL

(***************************************************************************)
(* Counting messages                                                       *)
(***************************************************************************)
(* How many elements of a sequence are in X: what Times and TimesShown count. *)
Count(s, X) == Cardinality({k \in DOMAIN s : s[k] \in X})
Shown(m) == {e \in Entries : e.what = "user" /\ e.msg = m}

(* Counts are numbers. *)
LEMMA CountFinite ==
  ASSUME NEW S, NEW s \in Seq(S), NEW X
  PROVE  IsFiniteSet({k \in DOMAIN s : s[k] \in X}) /\ Count(s, X) \in Nat
<1> DEFINE D == {k \in DOMAIN s : s[k] \in X}
<1>1. Len(s) \in Nat /\ D \in SUBSET (1..Len(s))
  OBVIOUS
<1> HIDE DEF D
<1>2. IsFiniteSet(D) /\ Cardinality(D) \in Nat
  BY <1>1, FiniteNumbers
<1> QED
  BY <1>2 DEF D, Count

(* Sets moved along the numbers are as large as before. *)
LEMMA Shifted ==
  ASSUME NEW B \in SUBSET Nat, IsFiniteSet(B), NEW n \in Nat
  PROVE  IsFiniteSet({k + n : k \in B}) /\ Cardinality({k + n : k \in B}) = Cardinality(B)
<1> DEFINE T == {k + n : k \in B}
           f == [k \in B |-> k + n]
<1>1. f \in [B -> T] /\ (\A a, b \in B : f[a] = f[b] => a = b) /\ \A t \in T : \E k \in B : f[k] = t
  OBVIOUS
<1> HIDE DEF f, T
<1>2. f \in Bijection(B, T)
  BY <1>1, Fun_IsBij
<1>3. ExistsBijection(B, T)
  BY <1>2 DEF ExistsBijection
<1>4. IsFiniteSet(T) /\ Cardinality(T) = Cardinality(B)
  BY <1>3, FS_Bijection
<1> QED
  BY <1>4 DEF T

(* A joined sequence has the elements of both. *)
LEMMA CountJoined ==
  ASSUME NEW S, NEW a \in Seq(S), NEW b \in Seq(S), NEW X
  PROVE  Count(a \o b, X) = Count(a, X) + Count(b, X)
<1> DEFINE c == a \o b
           A == {k \in DOMAIN a : a[k] \in X}
           B == {k \in DOMAIN b : b[k] \in X}
           C == {k \in DOMAIN c : c[k] \in X}
           D == {k + Len(a) : k \in B}
<1>1. /\ \A k \in DOMAIN a : k \in DOMAIN c /\ c[k] = a[k]
      /\ \A k \in DOMAIN b : k + Len(a) \in DOMAIN c /\ c[k + Len(a)] = b[k]
      /\ \A k \in DOMAIN c :
           (k \in DOMAIN a /\ c[k] = a[k]) \/ (k - Len(a) \in DOMAIN b /\ c[k] = b[k - Len(a)])
  BY JoinedPlaces
<1>2. /\ Len(a) \in Nat /\ Len(b) \in Nat /\ DOMAIN a = 1..Len(a) /\ DOMAIN b = 1..Len(b)
      /\ DOMAIN c \subseteq Nat
  BY Joined
<1> HIDE DEF c
<1>3. C = A \cup D
  <2>1. ASSUME NEW k \in C PROVE k \in A \cup D
    <3>1. CASE k \in DOMAIN a /\ c[k] = a[k]
      BY <3>1
    <3>2. CASE k - Len(a) \in DOMAIN b /\ c[k] = b[k - Len(a)]
      <4>1. k - Len(a) \in B /\ k = (k - Len(a)) + Len(a)
        BY <1>2, <3>2
      <4> QED
        BY <4>1
    <3> QED
      BY <1>1, <3>1, <3>2
  <2>2. A \subseteq C
    BY <1>1
  <2>3. D \subseteq C
    BY <1>1
  <2> QED
    BY <2>1, <2>2, <2>3
<1>4. A \cap D = {}
  BY <1>2
<1>5. IsFiniteSet(A) /\ IsFiniteSet(B) /\ Cardinality(A) \in Nat /\ Cardinality(B) \in Nat
  BY CountFinite DEF Count
<1>6. B \in SUBSET Nat
  BY <1>2
<1> HIDE DEF A, B, C
<1>7. IsFiniteSet(D) /\ Cardinality(D) = Cardinality(B)
  BY <1>2, <1>5, <1>6, Shifted
<1> HIDE DEF D
<1>8. Cardinality(C) = Cardinality(A) + Cardinality(D) - Cardinality({})
  BY <1>3, <1>4, <1>5, <1>7, FS_Union
<1>9. Cardinality({}) = 0
  BY FS_EmptySet
<1>10. Cardinality(C) = Cardinality(A) + Cardinality(B)
  BY <1>5, <1>7, <1>8, <1>9
<1> QED
  BY <1>10 DEF A, B, C, c, Count

(* Sequences without such elements, and of one. *)
LEMMA CountNone ==
  ASSUME NEW s, NEW X, \A k \in DOMAIN s : s[k] \notin X PROVE Count(s, X) = 0
<1>1. {k \in DOMAIN s : s[k] \in X} = {}
  OBVIOUS
<1> QED
  BY <1>1, FS_EmptySet DEF Count

LEMMA CountOne ==
  ASSUME NEW x, NEW X PROVE Count(<<x>>, X) = IF x \in X THEN 1 ELSE 0
<1>1. CASE x \in X
  <2>1. {k \in DOMAIN <<x>> : <<x>>[k] \in X} = {1}
    BY <1>1
  <2> QED
    BY <1>1, <2>1, FS_Singleton DEF Count
<1>2. CASE x \notin X
  <2>1. \A k \in DOMAIN <<x>> : <<x>>[k] \notin X
    BY <1>2
  <2> QED
    BY <1>2, <2>1, CountNone
<1> QED
  BY <1>1, <1>2

(* Sequences in two parts: a queue of which something is taken, and events   *)
(* of which the first is read.                                               *)
LEMMA TwoParts ==
  ASSUME NEW S, NEW s \in Seq(S), s # <<>>
  PROVE  s = <<Head(s)>> \o Tail(s) /\ Tail(s) \in Seq(S) /\ <<Head(s)>> \in Seq(S)
<1> DEFINE t == <<Head(s)>> \o Tail(s)
<1>1. t \in Seq(S) /\ Len(t) = Len(s) /\ \A i \in 1..Len(s) : s[i] = t[i]
  OBVIOUS
<1> HIDE DEF t
<1>2. s = t
  BY <1>1, SeqEqual
<1> QED
  BY <1>2 DEF t

(* A queue is what is taken of it and what is left. *)
LEMMA TakenAndLeft == ASSUME NEW q \in Messages PROVE q = Taken(q) \o Left(q)
<1>1. q \in Seq(UserMsgs) /\ Len(q) \in Nat
  BY DEF Messages
<1>2. CASE ~OneAtATime
  <2>1. Taken(q) = q
    BY <1>2 DEF Taken
  <2>2. Left(q) = SubSeq(q, Len(q) + 1, Len(q))
    BY <2>1 DEF Left
  <2>3. Left(q) = <<>>
    BY <1>1, <2>2, SubSeqEmpty
  <2> QED
    BY <1>1, <2>1, <2>3, ConcatEmptySeq
<1>3. CASE OneAtATime /\ q = <<>>
  <2>1. Taken(q) = SubSeq(<<>>, 1, 0)
    BY <1>3 DEF Taken
  <2>2. Taken(q) = <<>>
    BY <2>1, SubSeqEmpty
  <2>3. Left(q) = SubSeq(<<>>, 1, 0)
    BY <1>3, <2>2 DEF Left
  <2>4. Left(q) = <<>>
    BY <2>3, SubSeqEmpty
  <2> QED
    BY <1>1, <1>3, <2>2, <2>4, ConcatEmptySeq
<1>4. CASE OneAtATime /\ q # <<>>
  <2>1. Taken(q) = SubSeq(q, 1, 1) /\ Len(q) >= 1
    BY <1>1, <1>4 DEF Taken
  <2>2. Taken(q) = <<q[1]>>
    <3>1. SubSeq(q, 1, 1) = <<q[1]>> \o SubSeq(q, 1 + 1, 1)
      <4>1. 1 \in 1..Len(q) /\ 1 \in 1..1
        BY <1>1, <2>1
      <4> QED
        BY <1>1, <4>1, SubSeqRecursiveFirst
    <3>2. SubSeq(q, 1 + 1, 1) = <<>>
      BY SubSeqEmpty
    <3>3. <<q[1]>> \in Seq(UserMsgs)
      BY <1>1, <2>1
    <3> QED
      BY <2>1, <3>1, <3>2, <3>3, ConcatEmptySeq
  <2>3. Left(q) = SubSeq(q, 2, Len(q))
    BY <2>2 DEF Left
  <2>4. 1 \in 1..Len(q) /\ Len(q) \in 1..Len(q)
    BY <1>1, <2>1
  <2>5. SubSeq(q, 1, Len(q)) = <<q[1]>> \o SubSeq(q, 1 + 1, Len(q))
    BY <1>1, <2>4, SubSeqRecursiveFirst
  <2>6. SubSeq(q, 1, Len(q)) = q
    BY <1>1, SubSeqFull
  <2> QED
    BY <2>2, <2>3, <2>5, <2>6
<1> QED
  BY <1>2, <1>3, <1>4, BatchAssumption

(***************************************************************************)
(* Where the messages are                                                  *)
(***************************************************************************)
LEMMA TimesCounted ==
  ASSUME NEW m, NEW ms PROVE Times(m, ms) = Count(ms, {m})
BY DEF Times, Count

LEMMA ShownCounted ==
  ASSUME NEW m, NEW es \in Seq(Entries) PROVE TimesShown(m, es) = Count(es, Shown(m))
<1>1. \A k \in DOMAIN es : es[k] \in Shown(m) <=> es[k].what = "user" /\ es[k].msg = m
  BY DEF Shown
<1>2. {k \in DOMAIN es : es[k].what = "user" /\ es[k].msg = m} = {k \in DOMAIN es : es[k] \in Shown(m)}
  BY <1>1
<1> QED
  BY <1>2 DEF TimesShown, Count

(* How often a message is in a sequence of messages, ... *)
LEMMA TimesIn ==
  ASSUME NEW m \in UserMsgs, NEW ms \in Messages
  PROVE  /\ Times(m, ms) \in Nat /\ Times(m, <<>>) = 0
         /\ m \notin Of(ms) => Times(m, ms) = 0
         /\ m \in Of(ms) => Times(m, ms) > 0
         /\ \A n \in UserMsgs : /\ Times(m, Append(ms, n)) = Times(m, ms) + (IF n = m THEN 1 ELSE 0)
                                /\ Times(m, <<n>>) = IF n = m THEN 1 ELSE 0
         /\ Times(m, Taken(ms)) + Times(m, Left(ms)) = Times(m, ms)
<1>1. ms \in Seq(UserMsgs) /\ m \in 0..MaxUserMsgs
  BY BatchAssumption DEF Messages, UserMsgs
<1>2. Count(ms, {m}) \in Nat /\ IsFiniteSet({k \in DOMAIN ms : ms[k] \in {m}})
  BY <1>1, CountFinite
<1>3. Count(<<>>, {m}) = 0
  BY CountNone
<1>4. ASSUME m \notin Of(ms) PROVE Count(ms, {m}) = 0
  BY <1>1, <1>4, CountNone DEF Of
<1>5. ASSUME m \in Of(ms) PROVE Count(ms, {m}) > 0
  <2>1. {k \in DOMAIN ms : ms[k] \in {m}} # {}
    BY <1>5 DEF Of
  <2>2. Count(ms, {m}) # 0
    BY <1>2, <2>1, FS_EmptySet DEF Count
  <2> QED
    BY <1>2, <2>2
<1>6. ASSUME NEW n \in UserMsgs
      PROVE  /\ Count(Append(ms, n), {m}) = Count(ms, {m}) + (IF n = m THEN 1 ELSE 0)
             /\ Count(<<n>>, {m}) = IF n = m THEN 1 ELSE 0
  <2> DEFINE one == <<n>>
             X == {m}
  <2>1. Append(ms, n) = ms \o one /\ one \in Seq(UserMsgs)
    BY <1>1
  <2>2. Count(one, X) = IF n = m THEN 1 ELSE 0
    BY CountOne
  <2> HIDE DEF one, X
  <2>3. Count(ms \o one, X) = Count(ms, X) + Count(one, X)
    BY <1>1, <2>1, CountJoined
  <2> QED
    BY <2>1, <2>2, <2>3 DEF one, X
<1>7. Count(Taken(ms), {m}) + Count(Left(ms), {m}) = Count(ms, {m})
  <2>1. Taken(ms) \in Seq(UserMsgs) /\ Left(ms) \in Seq(UserMsgs)
    BY SplitQueue DEF Messages
  <2>2. ms = Taken(ms) \o Left(ms)
    BY TakenAndLeft
  <2>3. Count(Taken(ms) \o Left(ms), {m}) = Count(Taken(ms), {m}) + Count(Left(ms), {m})
    BY <2>1, CountJoined
  <2> QED
    BY <2>2, <2>3
<1> QED
  BY <1>2, <1>3, <1>4, <1>5, <1>6, <1>7, TimesCounted

(* ... and in one of entries. *)
LEMMA TimesShownIn ==
  ASSUME NEW m \in UserMsgs, NEW es \in Seq(Entries)
  PROVE  /\ TimesShown(m, es) \in Nat /\ TimesShown(m, <<>>) = 0
         /\ m \notin ShownIn(es) => TimesShown(m, es) = 0
         /\ \A fs \in Seq(Entries) : TimesShown(m, es \o fs) = TimesShown(m, es) + TimesShown(m, fs)
         /\ \A e \in Entries : TimesShown(m, Append(es, e)) = TimesShown(m, es) + TimesShown(m, <<e>>)
         /\ es # <<>> => TimesShown(m, <<Head(es)>>) + TimesShown(m, Tail(es)) = TimesShown(m, es)
<1>1. m \in 0..MaxUserMsgs
  BY BatchAssumption DEF UserMsgs
<1>2. Count(es, Shown(m)) \in Nat
  BY CountFinite
<1>3. Count(<<>>, Shown(m)) = 0
  BY CountNone
<1>4. ASSUME m \notin ShownIn(es) PROVE Count(es, Shown(m)) = 0
  <2>1. \A k \in DOMAIN es : es[k] \notin Shown(m)
    BY <1>1, <1>4 DEF ShownIn, Shown
  <2> QED
    BY <2>1, CountNone
<1>5. \A fs \in Seq(Entries) : Count(es \o fs, Shown(m)) = Count(es, Shown(m)) + Count(fs, Shown(m))
  BY CountJoined
<1>6. \A fs \in Seq(Entries) :
        /\ es \o fs \in Seq(Entries) /\ TimesShown(m, fs) = Count(fs, Shown(m))
        /\ TimesShown(m, es \o fs) = TimesShown(m, es) + TimesShown(m, fs)
  <2>1. \A fs \in Seq(Entries) : es \o fs \in Seq(Entries)
    BY Joined
  <2> QED
    BY <1>5, <2>1, ShownCounted
<1>7. \A e \in Entries : <<e>> \in Seq(Entries) /\ Append(es, e) = es \o <<e>>
  OBVIOUS
<1>8. ASSUME es # <<>>
      PROVE  TimesShown(m, <<Head(es)>>) + TimesShown(m, Tail(es)) = TimesShown(m, es)
  <2>1. es = <<Head(es)>> \o Tail(es) /\ Tail(es) \in Seq(Entries) /\ <<Head(es)>> \in Seq(Entries)
    BY <1>8, TwoParts
  <2>2. Count(<<Head(es)>> \o Tail(es), Shown(m)) = Count(<<Head(es)>>, Shown(m)) + Count(Tail(es), Shown(m))
    BY <2>1, CountJoined
  <2>3. Count(es, Shown(m)) = Count(<<Head(es)>>, Shown(m)) + Count(Tail(es), Shown(m))
    BY <2>1, <2>2
  <2> QED
    BY <2>1, <2>3, ShownCounted
<1>9. <<>> \in Seq(Entries)
  OBVIOUS
<1> QED
  BY <1>2, <1>3, <1>4, <1>6, <1>7, <1>8, <1>9, ShownCounted

(* What a run shows of the messages it injects, and of other entries. *)
LEMMA TimesInjected ==
  ASSUME NEW m \in UserMsgs, NEW r \in Runs, NEW ms \in Messages
  PROVE  TimesShown(m, Users(r, ms)) = Times(m, ms)
<1>1. DOMAIN Users(r, ms) = DOMAIN ms
  BY DEF Users
<1>2. \A k \in DOMAIN ms : Users(r, ms)[k].what = "user" /\ Users(r, ms)[k].msg = ms[k]
  BY DEF Users, User
<1>3. {k \in DOMAIN Users(r, ms) : Users(r, ms)[k].what = "user" /\ Users(r, ms)[k].msg = m}
        = {k \in DOMAIN ms : ms[k] = m}
  BY <1>1, <1>2
<1> QED
  BY <1>3 DEF TimesShown, Times

(* Entries that are not the user's show nothing. *)
LEMMA TimesSilent ==
  ASSUME NEW m \in UserMsgs, NEW es \in Seq(Entries), Silent(es) PROVE TimesShown(m, es) = 0
BY TimesShownIn DEF Silent

(***************************************************************************)
(* Where a run can have messages                                           *)
(***************************************************************************)
(* Where the messages of a run can be: pendingMessages only before a turn, a *)
(* check's steering only while calls wait for it and nothing was found yet,  *)
(* and nothing is to be emitted any more when the reader has seen the end.   *)
PendingReady == \A r \in Runs : loop[r] # "turn" => pending[r] = <<>>
CheckReady(r) ==
  /\ check[r].under => steering[r] = <<>> /\ \E i \in Indices(r) : task[r][i] = "checking"
  /\ ~check[r].under => check[r].got = <<>>
ChecksReady == \A r \in Runs : CheckReady(r)
AllShow(es) == \A k \in DOMAIN es : Shows(es[k])
EndReady(r) ==
  /\ reader[r] \in {"closing", "over"} => loop[r] = "ended"
  /\ loop[r] # "ended" => AllShow(events[r])
EndsReady == \A r \in Runs : EndReady(r)
LaterEvents == \A r \in Runs : r > runs => events[r] = <<>>
LostIssued == lost \subseteq 1..issued

PlacesReady == PendingReady /\ ChecksReady /\ EndsReady /\ LaterEvents /\ LostIssued

(* Polls fill pendingMessages and lead to a turn, which empties it. *)
LEMMA PendingReadyStep == ASSUME DataOK, LaterRuns, PendingReady, Next PROVE PendingReady'
<1>1. ASSUME UserStep PROVE PendingReady'
  <2>1. UNCHANGED pending
    BY <1>1 DEF UserStep, Prompt, ContinueQueued, ContinueTranscript, Steer, FollowUp, Abort, ForceAbort,
       BeginRun, loopVars
  <2>2. ASSUME NEW ms, BeginRun(ms) PROVE PendingReady'
    <3>1. runs + 1 \in Runs /\ runs + 1 > runs /\ loop' = [loop EXCEPT ![runs + 1] = "start"]
      BY <2>2, BatchAssumption DEF BeginRun, Goto, DataOK, Runs
    <3> QED
      BY <2>1, <3>1 DEF PendingReady, LaterRuns, DataOK
  <2>3. ASSUME UNCHANGED loop PROVE PendingReady'
    BY <2>1, <2>3 DEF PendingReady
  <2> QED
    BY <1>1, <2>2, <2>3 DEF UserStep, Prompt, ContinueQueued, ContinueTranscript, Steer, FollowUp, Abort,
       ForceAbort, loopVars
<1>2. ASSUME NEW r \in Runs, NEW label, Goto(r, label), NEW ms, pending' = [pending EXCEPT ![r] = ms],
             label # "turn" => ms = <<>>
      PROVE  PendingReady'
  BY <1>2 DEF PendingReady, Goto, DataOK
<1>3. ASSUME NEW r \in Runs, NEW label, Goto(r, label), UNCHANGED pending, loop[r] # "turn"
      PROVE  PendingReady'
  BY <1>3 DEF PendingReady, Goto, DataOK
<1>4. ASSUME NEW r \in Runs, LoopStep(r) PROVE PendingReady'
  <2>1. CASE InitialPoll(r)
    BY <1>2, <2>1 DEF InitialPoll
  <2>2. CASE Inject(r)
    BY <1>2, <2>2 DEF Inject
  <2>3. CASE Answer(r) \/ AnswerWithCalls(r) \/ AnswerBroken(r) \/ Throw(r) \/ Pause(r) \/ Finish(r)
    BY <1>3, <2>3 DEF Answer, AnswerWithCalls, AnswerBroken, Throw, Pause, Finish
  <2>4. CASE BatchEnds(r)
    <3>1. /\ Goto(r, IF triggered(r) THEN "turn" ELSE "settle")
          /\ pending' = [pending EXCEPT ![r] = steering[r]]
      BY <2>4 DEF BatchEnds
    <3> QED
      BY <1>2, <3>1 DEF triggered
  <2>5. CASE Settle(r)
    <3>1. /\ Goto(r, IF Polled(r) # <<>> \/ loop[r] = "settle" THEN "turn" ELSE "yield")
          /\ pending' = [pending EXCEPT ![r] = Polled(r)]
      BY <2>5 DEF Settle
    <3> QED
      BY <1>2, <3>1
  <2>6. CASE YieldPoll(r)
    <3>1. /\ Goto(r, IF Polled(r) # <<>> THEN "turn" ELSE "followUp")
          /\ pending' = [pending EXCEPT ![r] = Polled(r)]
      BY <2>6 DEF YieldPoll
    <3> QED
      BY <1>2, <3>1
  <2>7. CASE TakeFollowUps(r)
    BY <1>2, <2>7 DEF TakeFollowUps
  <2> QED
    BY <1>4, <2>1, <2>2, <2>3, <2>4, <2>5, <2>6, <2>7 DEF LoopStep
<1>5. ASSUME NEW r \in Runs, CallStep(r) PROVE PendingReady'
  <2>1. UNCHANGED <<loop, pending>>
    BY <1>5 DEF CallStep, CheckEnds, CallStarts, CallEnds, loopVars
  <2> QED
    BY <2>1 DEF PendingReady
<1>6. ASSUME NEW r \in Runs, ReadStep(r) PROVE PendingReady'
  <2>1. CASE Leave(r)
    BY <1>2, <2>1 DEF Leave
  <2>2. CASE ReadMessage(r) \/ ReadEnd(r) \/ Finally(r) \/ ReadFailure(r)
    <3>1. UNCHANGED <<loop, pending>>
      BY <2>2 DEF ReadMessage, ReadEnd, Finally, ReadFailure, loopVars
    <3> QED
      BY <3>1 DEF PendingReady
  <2> QED
    BY <1>6, <2>1, <2>2 DEF ReadStep
<1> QED
  BY <1>1, <1>4, <1>5, <1>6 DEF Next, ProducerStep

(* A step of one run's check leaves those of the others alone. *)
LEMMA OtherChecks ==
  ASSUME NEW q \in Runs, CheckReady(q),
         calls'[q] = calls[q], task'[q] = task[q], check'[q] = check[q], steering'[q] = steering[q]
  PROVE  CheckReady(q)'
BY DEF CheckReady, Indices

(* A check begins when nothing was found yet, and the call that began it waits. *)
LEMMA ChecksReadyStep == ASSUME DataOK, BatchInv, ChecksReady, [Next]_vars PROVE ChecksReady'
<1>1. ASSUME UNCHANGED batchVars PROVE ChecksReady'
  BY <1>1 DEF ChecksReady, CheckReady, Indices, batchVars
<1>2. ASSUME NEW r \in Runs, NEW kinds \in Seq(Kinds), BeginBatch(r, kinds) PROVE ChecksReady'
  <2>1. check' = [check EXCEPT ![r] = NoCheck]
    BY <1>2 DEF BeginBatch
  <2>2. check'[r] = NoCheck /\ \A q \in Runs : q # r => check'[q] = check[q]
    BY <2>1 DEF DataOK
  <2>3. /\ calls' = [calls EXCEPT ![r] = kinds] /\ steering' = [steering EXCEPT ![r] = <<>>]
        /\ task' = [task EXCEPT ![r] = [i \in DOMAIN kinds |-> "waiting"]]
    BY <1>2 DEF BeginBatch
  <2>4. \A q \in Runs : q # r => calls'[q] = calls[q] /\ steering'[q] = steering[q] /\ task'[q] = task[q]
    BY <2>3 DEF DataOK, BatchInv, Rows
  <2>5. ~check'[r].under /\ check'[r].got = <<>>
    BY <2>2 DEF NoCheck
  <2> QED
    BY <2>2, <2>4, <2>5 DEF ChecksReady, CheckReady, Indices
<1>3. ASSUME NEW r \in Runs, NEW i \in Indices(r), StartCall(r, i) PROVE ChecksReady'
  <2> DEFINE next == IF triggered(r) THEN "done" ELSE "running"
  <2>1. UNCHANGED <<calls, check, steering>> /\ task[r][i] = "waiting"
        /\ task' = [task EXCEPT ![r] = [task[r] EXCEPT ![i] = next]]
    BY <1>3 DEF StartCall
  <2>2. RunBatch(r)
    BY DEF BatchInv
  <2> HIDE DEF next
  <2>3. /\ task'[r] = [task[r] EXCEPT ![i] = next]
        /\ \A q \in Runs : q # r => task'[q] = task[q]
    BY <2>1, Update DEF BatchInv, Rows
  <2>4. \A k \in Indices(r) : k # i => task'[r][k] = task[r][k]
    BY <2>2, <2>3 DEF RunBatch
  <2>5. CheckReady(r)'
    BY <2>1, <2>4 DEF ChecksReady, CheckReady, Indices
  <2> QED
    BY <2>1, <2>3, <2>5 DEF ChecksReady, CheckReady, Indices
<1>4. ASSUME NEW r \in Runs, NEW i \in Indices(r), EndCall(r, i) PROVE ChecksReady'
  <2>1. PICK next \in {"done", "checking"} :
          /\ task' = [task EXCEPT ![r] = [task[r] EXCEPT ![i] = next]]
          /\ \/ UNCHANGED check
             \/ /\ ~triggered(r) /\ next = "checking"
                /\ check' = [check EXCEPT ![r] = [under |-> TRUE, got |-> Polled(r)]]
    BY <1>4 DEF EndCall
  <2>2. UNCHANGED <<calls, steering>> /\ task[r][i] = "running"
    BY <1>4 DEF EndCall
  <2>3. RunBatch(r)
    BY DEF BatchInv
  <2>4. /\ task'[r] = [task[r] EXCEPT ![i] = next]
        /\ \A q \in Runs : q # r => task'[q] = task[q]
    BY <2>1, Update DEF BatchInv, Rows
  <2>5. task'[r][i] = next /\ \A k \in Indices(r) : k # i => task'[r][k] = task[r][k]
    BY <2>3, <2>4 DEF RunBatch
  <2>6. CASE UNCHANGED check
    <3>1. CheckReady(r)'
      BY <2>2, <2>5, <2>6 DEF ChecksReady, CheckReady, Indices
    <3> QED
      BY <2>2, <2>4, <2>6, <3>1, OtherChecks DEF ChecksReady
  <2>7. CASE /\ ~triggered(r) /\ next = "checking"
             /\ check' = [check EXCEPT ![r] = [under |-> TRUE, got |-> Polled(r)]]
    <3>1. check'[r] = [under |-> TRUE, got |-> Polled(r)] /\ \A q \in Runs : q # r => check'[q] = check[q]
      BY <2>7 DEF DataOK
    <3>2. CheckReady(r)'
      <4>1. check'[r].under = TRUE /\ steering'[r] = <<>> /\ i \in Indices(r)' /\ task'[r][i] = "checking"
        BY <2>2, <2>5, <2>7, <3>1 DEF triggered, Indices
      <4> QED
        BY <4>1 DEF CheckReady, Indices
    <3> QED
      BY <2>2, <2>4, <3>1, <3>2, OtherChecks DEF ChecksReady
  <2> QED
    BY <2>1, <2>6, <2>7
<1>5. ASSUME NEW r \in Runs, EndCheck(r) PROVE ChecksReady'
  <2>1. check' = [check EXCEPT ![r] = NoCheck] /\ UNCHANGED calls
    BY <1>5 DEF EndCheck
  <2>2. check'[r] = NoCheck /\ \A q \in Runs : q # r => check'[q] = check[q]
    BY <2>1 DEF DataOK
  <2> DEFINE nexts == [i \in Indices(r) |-> IF task[r][i] = "checking" THEN "done" ELSE task[r][i]]
             found == IF check[r].got = <<>> THEN steering[r] ELSE check[r].got
  <2>3. steering' = [steering EXCEPT ![r] = found] /\ task' = [task EXCEPT ![r] = nexts]
    BY <1>5 DEF EndCheck
  <2> HIDE DEF nexts, found
  <2>4. \A q \in Runs : q # r => steering'[q] = steering[q] /\ task'[q] = task[q]
    BY <2>3 DEF DataOK, BatchInv, Rows
  <2>5. ~check'[r].under /\ check'[r].got = <<>>
    BY <2>2 DEF NoCheck
  <2> QED
    BY <2>1, <2>2, <2>4, <2>5 DEF ChecksReady, CheckReady, Indices
<1> QED
  BY <1>1, <1>2, <1>3, <1>4, <1>5, StepsOfBatches DEF BatchStep

(* What a loop emits before it ends. *)
LEMMA AllShowJoined ==
  ASSUME NEW a \in Seq(Entries), NEW b \in Seq(Entries), AllShow(a), AllShow(b) PROVE AllShow(a \o b)
<1>1. ASSUME NEW k \in DOMAIN (a \o b)
      PROVE  \/ k \in DOMAIN a /\ (a \o b)[k] = a[k]
             \/ k - Len(a) \in DOMAIN b /\ (a \o b)[k] = b[k - Len(a)]
  BY JoinedPlaces
<1> QED
  BY <1>1 DEF AllShow

LEMMA ShownEntries ==
  ASSUME NEW r \in Runs
  PROVE  /\ \A n \in Nat : AllShow(<<Assistant(r, n)>>) /\ AllShow(<<Result(r, n)>>)
         /\ \A ms \in Messages : AllShow(Users(r, ms))
         /\ calls[r] \in Seq(Kinds) => AllShow(Sweep(r))
<1>1. \A n \in Nat : Shows(Assistant(r, n)) /\ Shows(Result(r, n))
  BY EntryKinds DEF Runs, Shows
<1>2. \A e : Shows(e) => AllShow(<<e>>)
  BY DEF AllShow
<1>3. ASSUME NEW ms \in Messages PROVE AllShow(Users(r, ms))
  BY DEF AllShow, Shows, Users, User
<1>4. calls[r] \in Seq(Kinds) => AllShow(Sweep(r))
  BY SweepResults DEF AllShow, Shows
<1> QED
  BY <1>1, <1>2, <1>3, <1>4

(* While the loop has not ended, all of its events are messages. *)
LEMMA EndsReadyStep ==
  ASSUME BatchInv, DataOK, LaterRuns, LaterEvents, EventsOwn, EndsReady, Next PROVE EndsReady'
<1>0. \A r \in Runs : calls[r] \in Seq(Kinds) /\ events[r] \in Seq(Entries) /\ Own(r, events[r])
  BY DEF BatchInv, RunBatch, EventsOwn, Own
<1>1. ASSUME UserStep PROVE EndsReady'
  <2>1. ASSUME NEW ms \in Messages, BeginRun(ms) PROVE EndsReady'
    <3>1. /\ runs + 1 \in Runs
          /\ loop' = [loop EXCEPT ![runs + 1] = "start"] /\ reader' = [reader EXCEPT ![runs + 1] = "reading"]
          /\ events' = [events EXCEPT ![runs + 1] = Users(runs + 1, ms)]
      BY <2>1, RunBegun
    <3>2. AllShow(Users(runs + 1, ms))
      BY <3>1, ShownEntries
    <3>3. /\ loop'[runs + 1] = "start" /\ reader'[runs + 1] = "reading" /\ AllShow(events'[runs + 1])
          /\ \A q \in Runs : q # runs + 1 =>
               loop'[q] = loop[q] /\ reader'[q] = reader[q] /\ events'[q] = events[q]
      BY <3>1, <3>2 DEF DataOK
    <3> QED
      BY <3>3 DEF EndsReady, EndReady, AllShow
  <2>2. ASSUME UNCHANGED <<loop, reader, events>> PROVE EndsReady'
    BY <2>2 DEF EndsReady, EndReady, AllShow
  <2>3. \A n \in UserMsgs : <<n>> \in Messages
    BY DEF Messages
  <2>4. Taken(steeringQueue) \in Messages /\ Taken(followUpQueue) \in Messages /\ <<>> \in Messages
    BY SplitQueue, NothingSilent DEF DataOK
  <2>5. NewMessage => issued + 1 \in UserMsgs
    BY BatchAssumption DEF NewMessage, UserMsgs, DataOK
  <2> QED
    BY <1>1, <2>1, <2>2, <2>3, <2>4, <2>5 DEF UserStep, Prompt, ContinueQueued, ContinueTranscript, Steer,
       FollowUp, Abort, ForceAbort, loopVars, streamVars
<1>2. ASSUME NEW r \in Runs, loop[r] # "ended", UNCHANGED reader, NEW label, Goto(r, label),
             NEW es \in Seq(Entries), Push(r, es), label # "ended" => AllShow(es)
      PROVE  EndsReady'
  <2>1. /\ loop'[r] = label /\ events'[r] \in {<<>>, events[r] \o es}
        /\ \A q \in Runs : q # r => loop'[q] = loop[q] /\ events'[q] = events[q]
    BY <1>2 DEF Goto, Push, DataOK
  <2>2. AllShow(<<>>) /\ (AllShow(es) => AllShow(events[r] \o es))
    <3>1. AllShow(events[r])
      BY <1>2 DEF EndsReady, EndReady
    <3>2. AllShow(<<>>)
      BY DEF AllShow
    <3> QED
      BY <1>0, <3>1, <3>2, AllShowJoined
  <2>3. reader'[r] \notin {"closing", "over"}
    BY <1>2 DEF EndsReady, EndReady
  <2>4. label # "ended" => AllShow(events'[r])
    BY <1>2, <2>1, <2>2
  <2> QED
    BY <1>2, <2>1, <2>3, <2>4 DEF EndsReady, EndReady, AllShow
<1>3. ASSUME NEW r \in Runs, loop[r] # "ended", UNCHANGED <<reader, events>>, NEW label, Goto(r, label)
      PROVE  EndsReady'
  BY <1>3 DEF Goto, DataOK, EndsReady, EndReady, AllShow
<1>4. ASSUME NEW r \in Runs, LoopStep(r) PROVE EndsReady'
  <2>1. loop[r] # "ended" /\ UNCHANGED reader
    BY <1>4 DEF LoopStep, InitialPoll, Inject, Answer, AnswerWithCalls, AnswerBroken, Throw, BatchEnds,
       Settle, Pause, YieldPoll, TakeFollowUps, Finish, streamVars
  <2>2. CASE InitialPoll(r) \/ Settle(r) \/ YieldPoll(r) \/ TakeFollowUps(r)
    <3>1. UNCHANGED events /\ \E label : Goto(r, label)
      BY <2>2 DEF InitialPoll, Settle, YieldPoll, TakeFollowUps, streamVars
    <3> QED
      BY <1>3, <2>1, <3>1
  <2>3. CASE Inject(r)
    <3>1. Users(r, pending[r]) \in Seq(Entries) /\ AllShow(Users(r, pending[r]))
      <4>1. pending[r] \in Messages /\ r \in 0..MaxRuns
        BY DEF DataOK, Runs
      <4> QED
        BY <4>1, UsersShown, ShownEntries
    <3> QED
      BY <1>2, <2>1, <2>3, <3>1 DEF Inject
  <2>4. CASE Answer(r)
    <3>1. <<Assistant(r, 0)>> \in Seq(Entries) /\ AllShow(<<Assistant(r, 0)>>)
      BY OwnEntries, ShownEntries DEF Own
    <3> QED
      BY <1>2, <2>1, <2>4, <3>1 DEF Answer
  <2>5. CASE AnswerWithCalls(r)
    <3>1. PICK n \in Nat : Push(r, <<Assistant(r, n)>>)
      BY <2>5, CallNumbers DEF AnswerWithCalls
    <3>2. <<Assistant(r, n)>> \in Seq(Entries) /\ AllShow(<<Assistant(r, n)>>) /\ Goto(r, "tools")
      BY <2>5, OwnEntries, ShownEntries DEF Own, AnswerWithCalls
    <3> QED
      BY <1>2, <2>1, <3>1, <3>2
  <2>6. CASE AnswerBroken(r)
    <3>1. PICK n \in Nat : Push(r, <<Assistant(r, n)>> \o Results(r, n) \o <<AgentEnd>>)
      BY <2>6, CallNumbers DEF AnswerBroken
    <3>2. <<Assistant(r, n)>> \o Results(r, n) \o <<AgentEnd>> \in Seq(Entries) /\ Goto(r, "ended")
      BY <2>6, OwnBroken DEF Own, AnswerBroken
    <3> QED
      BY <1>2, <2>1, <3>1, <3>2
  <2>7. CASE Throw(r) \/ Pause(r) \/ Finish(r)
    <3>1. PICK es \in {<<AgentEnd>>, <<Failure>>} : Push(r, es)
      BY <2>7 DEF Throw, Pause, Finish
    <3>2. es \in Seq(Entries) /\ Goto(r, "ended")
      BY <2>7, OwnEntries DEF Own, Throw, Pause, Finish
    <3> QED
      BY <1>2, <2>1, <3>1, <3>2
  <2>8. CASE BatchEnds(r)
    <3>1. Sweep(r) \in Seq(Entries) /\ AllShow(Sweep(r))
      BY <1>0, OwnSweep, ShownEntries DEF Own
    <3>2. Push(r, Sweep(r)) /\ \E label : Goto(r, label)
      BY <2>8 DEF BatchEnds
    <3> QED
      BY <1>2, <2>1, <3>1, <3>2
  <2> QED
    BY <1>4, <2>2, <2>3, <2>4, <2>5, <2>6, <2>7, <2>8 DEF LoopStep
<1>5. ASSUME NEW r \in Runs, CallStep(r) PROVE EndsReady'
  <2>1. UNCHANGED <<loop, reader>>
    BY <1>5 DEF CallStep, CheckEnds, CallStarts, CallEnds, loopVars, streamVars
  <2>2. CASE UNCHANGED events
    BY <2>1, <2>2 DEF EndsReady, EndReady, AllShow
  <2>3. CASE \E i \in Indices(r) : CallEnds(r, i)
    <3>1. PICK i \in Indices(r) : Push(r, <<Result(r, i)>>)
      BY <2>3 DEF CallEnds
    <3>2. i \in Nat
      BY <1>0 DEF Indices
    <3>3. <<Result(r, i)>> \in Seq(Entries) /\ AllShow(<<Result(r, i)>>)
      BY <3>2, OwnEntries, ShownEntries DEF Own
    <3>4. /\ events'[r] \in {<<>>, events[r] \o <<Result(r, i)>>}
          /\ \A q \in Runs : q # r => events'[q] = events[q]
      BY <3>1 DEF Push, DataOK
    <3>5. AllShow(<<>>) /\ (AllShow(events[r]) => AllShow(events[r] \o <<Result(r, i)>>))
      <4>1. AllShow(<<>>)
        BY DEF AllShow
      <4> QED
        BY <1>0, <3>3, <4>1, AllShowJoined
    <3>6. loop[r] # "ended" => AllShow(events'[r])
      BY <3>4, <3>5 DEF EndsReady, EndReady
    <3> QED
      BY <2>1, <3>4, <3>6 DEF EndsReady, EndReady, AllShow
  <2> QED
    BY <1>5, <2>2, <2>3 DEF CallStep, CheckEnds, CallStarts, streamVars
<1>6. ASSUME NEW r \in Runs, ReadStep(r) PROVE EndsReady'
  <2>1. CASE Leave(r)
    <3>1. loop'[r] = "ended" /\ \A q \in Runs : q # r => /\ loop'[q] = loop[q] /\ reader'[q] = reader[q]
                                                       /\ events'[q] = events[q]
      BY <2>1 DEF Leave, Goto, DataOK
    <3> QED
      BY <3>1 DEF EndsReady, EndReady, AllShow
  <2>2. CASE Finally(r)
    <3>1. /\ reader[r] = "closing" /\ UNCHANGED <<loop, events>>
          /\ \A q \in Runs : q # r => reader'[q] = reader[q]
      BY <2>2 DEF Finally, Finalize, loopVars, DataOK
    <3> QED
      BY <3>1 DEF EndsReady, EndReady, AllShow
  <2>3. CASE ReadMessage(r) \/ ReadEnd(r) \/ ReadFailure(r)
    <3>1. /\ events[r] # <<>> /\ events' = [events EXCEPT ![r] = Tail(events[r])] /\ UNCHANGED loop
      BY <2>3 DEF ReadMessage, ReadEnd, ReadFailure, Consumed, loopVars
    <3>2. /\ events'[r] = Tail(events[r]) /\ \A q \in Runs : q # r => events'[q] = events[q]
      BY <3>1 DEF DataOK
    <3>3. /\ Head(events[r]) = events[r][1] /\ 1 \in DOMAIN events[r]
          /\ \A k \in DOMAIN Tail(events[r]) : k + 1 \in DOMAIN events[r] /\ Tail(events[r])[k] = events[r][k + 1]
      <4> DEFINE a == events[r]
      <4>1. a \in Seq(Entries) /\ a # <<>>
        BY <1>0, <3>1
      <4> HIDE DEF a
      <4>2. Head(a) = a[1] /\ 1 \in DOMAIN a /\ \A k \in DOMAIN Tail(a) : k + 1 \in DOMAIN a /\ Tail(a)[k] = a[k + 1]
        BY <4>1, HeadShown
      <4> QED
        BY <4>2 DEF a
    <3>4. AllShow(events[r]) => AllShow(events'[r])
      BY <3>2, <3>3 DEF AllShow
    <3>5. /\ \A q \in Runs : q # r => reader'[q] = reader[q]
          /\ ReadMessage(r) => UNCHANGED reader
      BY <2>3 DEF ReadMessage, ReadEnd, ReadFailure, Finalize, DataOK
    <3>6. ReadEnd(r) \/ ReadFailure(r) => loop[r] = "ended"
      <4>1. ReadEnd(r) \/ ReadFailure(r) => ~Shows(Head(events[r]))
        BY DEF ReadEnd, ReadFailure, AgentEnd, Failure, Shows
      <4>2. ~Shows(Head(events[r])) => ~AllShow(events[r])
        BY <3>3 DEF AllShow
      <4> QED
        BY <4>1, <4>2 DEF EndsReady, EndReady
    <3>7. EndReady(r)'
      BY <2>3, <3>1, <3>4, <3>5, <3>6 DEF EndsReady, EndReady, AllShow
    <3> QED
      BY <3>1, <3>2, <3>5, <3>7 DEF EndsReady, EndReady, AllShow
  <2> QED
    BY <1>6, <2>1, <2>2, <2>3 DEF ReadStep
<1> QED
  BY <1>1, <1>4, <1>5, <1>6 DEF Next, ProducerStep

(* Only runs that have begun emit anything. *)
LEMMA LaterEventsStep == ASSUME DataOK, RunsKept, LaterEvents, Next PROVE LaterEvents'
<1>1. ASSUME UserStep PROVE LaterEvents'
  <2>1. ASSUME NEW ms, BeginRun(ms) PROVE LaterEvents'
    BY <2>1, BatchAssumption DEF BeginRun, LaterEvents, DataOK, Runs
  <2> QED
    BY <1>1, <2>1 DEF UserStep, Prompt, ContinueQueued, ContinueTranscript, Steer, FollowUp, Abort,
       ForceAbort, LaterEvents, streamVars
<1>2. ASSUME NEW r \in Runs, ProducerStep(r) PROVE LaterEvents'
  <2>1. UNCHANGED runs
    BY <1>2, LoopLeaves
  <2>2. UNCHANGED events \/ \E es : Push(r, es)
    BY <1>2 DEF ProducerStep, LoopStep, CallStep, CheckEnds, CallStarts, CallEnds, InitialPoll, Inject, Answer,
       AnswerWithCalls, AnswerBroken, Throw, BatchEnds, Settle, Pause, YieldPoll, TakeFollowUps, Finish, streamVars
  <2>3. UNCHANGED events \/ ~(r > runs)
    <3>1. ASSUME LoopStep(r) PROVE loop[r] # "none"
      BY <3>1 DEF LoopStep, InitialPoll, Inject, Answer, AnswerWithCalls, AnswerBroken, Throw, BatchEnds,
         Settle, Pause, YieldPoll, TakeFollowUps, Finish
    <3>2. ASSUME NEW i \in Indices(r) PROVE loop[r] # "none"
      BY DEF Indices, RunsKept, HandsEmpty
    <3> QED
      BY <1>2, <3>1, <3>2 DEF ProducerStep, CallStep, CheckEnds, streamVars, RunsKept, LaterRuns
  <2>4. \A q \in Runs : q # r => events'[q] = events[q]
    BY <2>2 DEF Push, DataOK
  <2> QED
    BY <2>1, <2>3, <2>4 DEF LaterEvents
<1>3. ASSUME NEW r \in Runs, ReadStep(r) PROVE LaterEvents'
  <2>1. UNCHANGED runs /\ reader[r] # "none"
    BY <1>3 DEF ReadStep, ReadMessage, ReadEnd, Finally, ReadFailure, Leave
  <2>2. \A q \in Runs : q # r => events'[q] = events[q]
    BY <1>3 DEF ReadStep, ReadMessage, ReadEnd, Finally, ReadFailure, Leave, Consumed, DataOK
  <2> QED
    BY <2>1, <2>2 DEF LaterEvents, RunsKept, LaterRuns
<1> QED
  BY <1>1, <1>2, <1>3 DEF Next

(***************************************************************************)
(* No message is lost or shown twice                                       *)
(***************************************************************************)
(* How often a message is where is a number. *)
LEMMA HeldCounted ==
  ASSUME DataOK, NEW m \in UserMsgs
  PROVE  /\ Times(m, steeringQueue) \in Nat /\ Times(m, followUpQueue) \in Nat
         /\ TimesShown(m, messages) \in Nat /\ Outside(m) \in Nat
         /\ \A r \in Runs : /\ Times(m, pending[r]) \in Nat /\ Times(m, steering[r]) \in Nat
                            /\ Times(m, check[r].got) \in Nat /\ TimesShown(m, events[r]) \in Nat
                            /\ HeldBy(r, m) \in Nat
<1>1. Times(m, steeringQueue) \in Nat /\ Times(m, followUpQueue) \in Nat /\ TimesShown(m, messages) \in Nat
  BY TimesIn, TimesShownIn DEF DataOK
<1>2. ASSUME NEW r \in Runs
      PROVE  /\ Times(m, pending[r]) \in Nat /\ Times(m, steering[r]) \in Nat
             /\ Times(m, check[r].got) \in Nat /\ TimesShown(m, events[r]) \in Nat
  <2>1. /\ pending[r] \in Messages /\ steering[r] \in Messages /\ check[r].got \in Messages
        /\ events[r] \in Seq(Entries)
    BY DEF DataOK
  <2> QED
    BY <2>1, TimesIn, TimesShownIn
<1> QED
  BY <1>1, <1>2 DEF Outside, HeldBy

(* The same after a step. *)
LEMMA HeldCountedNext ==
  ASSUME DataOK', NEW m \in UserMsgs
  PROVE  Outside(m)' \in Nat /\ \A r \in Runs : HeldBy(r, m)' \in Nat
<1>1. Times(m, steeringQueue') \in Nat /\ Times(m, followUpQueue') \in Nat /\ TimesShown(m, messages') \in Nat
  BY TimesIn, TimesShownIn DEF DataOK
<1>2. ASSUME NEW r \in Runs PROVE HeldBy(r, m)' \in Nat
  <2>1. /\ pending'[r] \in Messages /\ steering'[r] \in Messages /\ check'[r].got \in Messages
        /\ events'[r] \in Seq(Entries)
    BY DEF DataOK
  <2>2. /\ Times(m, pending'[r]) \in Nat /\ Times(m, steering'[r]) \in Nat
        /\ Times(m, check'[r].got) \in Nat /\ TimesShown(m, events'[r]) \in Nat
    BY <2>1, TimesIn, TimesShownIn
  <2> QED
    BY <2>2 DEF HeldBy
<1>3. Outside(m)' \in Nat
  BY <1>1 DEF Outside
<1> QED
  BY <1>2, <1>3

(* A step that moves messages between the queues and the transcript on the   *)
(* one side and run r on the other, and loses none.                          *)
LEMMA KeptByMove ==
  ASSUME DataOK, DataOK', MessageKept, NEW r \in Runs, UNCHANGED <<issued, lost>>,
         \A m \in UserMsgs : Outside(m)' + HeldBy(r, m)' = Outside(m) + HeldBy(r, m),
         \A m \in UserMsgs : \A q \in Runs : q # r => HeldBy(q, m)' = HeldBy(q, m)
  PROVE  MessageKept'
<1> SUFFICES ASSUME NEW m \in 1..issued
             PROVE  IF m \in lost THEN Outside(m)' = 0 /\ HeldOnlyBy({}, m)' ELSE InOnePlace(m)'
  BY DEF MessageKept
<1>1. m \in UserMsgs
  BY BatchAssumption DEF DataOK, UserMsgs
<1>2. /\ Outside(m) \in Nat /\ HeldBy(r, m) \in Nat
      /\ Outside(m)' \in Nat /\ HeldBy(r, m)' \in Nat
  BY <1>1, HeldCounted, HeldCountedNext
<1>3. /\ Outside(m)' + HeldBy(r, m)' = Outside(m) + HeldBy(r, m)
      /\ \A q \in Runs : q # r => HeldBy(q, m)' = HeldBy(q, m)
  BY <1>1
<1>4. IF m \in lost THEN Outside(m) = 0 /\ HeldOnlyBy({}, m) ELSE InOnePlace(m)
  BY DEF MessageKept
<1>5. CASE m \in lost
  <2>1. Outside(m) = 0 /\ HeldBy(r, m) = 0
    BY <1>4, <1>5 DEF HeldOnlyBy
  <2>2. Outside(m)' = 0 /\ HeldBy(r, m)' = 0
    BY <1>2, <1>3, <2>1
  <2> QED
    BY <1>3, <1>4, <1>5, <2>2 DEF HeldOnlyBy
<1>6. CASE m \notin lost /\ Outside(m) = 1 /\ HeldOnlyBy({}, m)
  <2>1. HeldBy(r, m) = 0
    BY <1>6 DEF HeldOnlyBy
  <2>2. (Outside(m)' = 1 /\ HeldBy(r, m)' = 0) \/ (Outside(m)' = 0 /\ HeldBy(r, m)' = 1)
    BY <1>2, <1>3, <1>6, <2>1
  <2>3. HeldOnlyBy({}, m)' \/ (Outside(m)' = 0 /\ HeldOnlyBy({r}, m)')
    BY <1>3, <1>6, <2>2 DEF HeldOnlyBy
  <2>4. HeldOnlyBy({}, m)' => Outside(m)' = 1
    BY <2>2 DEF HeldOnlyBy
  <2> QED
    BY <1>6, <2>3, <2>4 DEF InOnePlace
<1>7. ASSUME m \notin lost, Outside(m) = 0, NEW q \in Runs, HeldOnlyBy({q}, m) PROVE InOnePlace(m)'
  <2>1. CASE q = r
    <3>1. HeldBy(r, m) = 1
      BY <1>7, <2>1 DEF HeldOnlyBy
    <3>2. (Outside(m)' = 1 /\ HeldBy(r, m)' = 0) \/ (Outside(m)' = 0 /\ HeldBy(r, m)' = 1)
      BY <1>2, <1>3, <1>7, <3>1
    <3>3. (Outside(m)' = 1 /\ HeldOnlyBy({}, m)') \/ (Outside(m)' = 0 /\ HeldOnlyBy({r}, m)')
      BY <1>3, <1>7, <2>1, <3>2 DEF HeldOnlyBy
    <3> QED
      BY <3>3 DEF InOnePlace
  <2>2. CASE q # r
    <3>1. HeldBy(r, m) = 0
      BY <1>7, <2>2 DEF HeldOnlyBy
    <3>2. Outside(m)' = 0 /\ HeldBy(r, m)' = 0
      BY <1>2, <1>3, <1>7, <3>1
    <3>3. HeldOnlyBy({q}, m)'
      BY <1>3, <1>7, <2>2, <3>2 DEF HeldOnlyBy
    <3> QED
      BY <3>2, <3>3 DEF InOnePlace
  <2> QED
    BY <2>1, <2>2
<1>8. InOnePlace(m) => m \in lost \/ InOnePlace(m)'
  BY <1>6, <1>7 DEF InOnePlace
<1> QED
  BY <1>4, <1>5, <1>8

(* Messages not yet sent are nowhere. *)
LEMMA NotSentYet ==
  ASSUME DataOK, IssuedKept, LostIssued, NEW m \in UserMsgs, m > issued
  PROVE  /\ Times(m, steeringQueue) = 0 /\ Times(m, followUpQueue) = 0 /\ TimesShown(m, messages) = 0
         /\ Outside(m) = 0 /\ m \notin lost
         /\ \A r \in Runs : HeldBy(r, m) = 0
<1>0. issued \in Nat /\ m \in Nat
  BY BatchAssumption DEF DataOK, UserMsgs
<1>1. m \notin Of(steeringQueue) /\ m \notin Of(followUpQueue) /\ m \notin ShownIn(messages)
  BY <1>0 DEF IssuedKept
<1>2. Times(m, steeringQueue) = 0 /\ Times(m, followUpQueue) = 0 /\ TimesShown(m, messages) = 0
  BY <1>1, TimesIn, TimesShownIn DEF DataOK
<1>3. ASSUME NEW r \in Runs PROVE HeldBy(r, m) = 0
  <2>1. /\ pending[r] \in Messages /\ steering[r] \in Messages /\ check[r].got \in Messages
        /\ events[r] \in Seq(Entries)
    BY DEF DataOK
  <2>2. /\ m \notin Of(pending[r]) /\ m \notin Of(steering[r]) /\ m \notin Of(check[r].got)
        /\ m \notin ShownIn(events[r])
    BY <1>0 DEF IssuedKept, Held, InHand
  <2>3. /\ Times(m, pending[r]) = 0 /\ Times(m, steering[r]) = 0 /\ Times(m, check[r].got) = 0
        /\ TimesShown(m, events[r]) = 0
    BY <2>1, <2>2, TimesIn, TimesShownIn
  <2> QED
    BY <2>3 DEF HeldBy
<1>4. m \notin lost
  BY <1>0 DEF LostIssued
<1> QED
  BY <1>2, <1>3, <1>4 DEF Outside

(* A step that sends a message and puts it into one place. *)
LEMMA KeptBySend ==
  ASSUME DataOK, DataOK', IssuedKept, LostIssued, MessageKept, UNCHANGED lost,
         NEW n \in UserMsgs, n = issued + 1, issued' = n,
         NEW R \in SUBSET Runs, \A q, r \in R : q = r,
         \A m \in UserMsgs : m # n =>
           Outside(m)' = Outside(m) /\ \A q \in Runs : HeldBy(q, m)' = HeldBy(q, m),
         Outside(n)' = (IF R = {} THEN 1 ELSE 0),
         \A q \in Runs : HeldBy(q, n)' = (IF q \in R THEN 1 ELSE 0)
  PROVE  MessageKept'
<1> SUFFICES ASSUME NEW m \in 1..issued'
             PROVE  IF m \in lost THEN Outside(m)' = 0 /\ HeldOnlyBy({}, m)' ELSE InOnePlace(m)'
  BY DEF MessageKept
<1>0. issued \in Nat /\ issued' \in 0..MaxUserMsgs
  BY BatchAssumption DEF DataOK
<1>1. m \in UserMsgs
  BY <1>0, BatchAssumption DEF UserMsgs
<1>2. CASE m = n
  <2>1. m \notin lost
    BY <1>0, <1>1, <1>2, NotSentYet
  <2>2. CASE R = {}
    <3>1. Outside(m)' = 1 /\ HeldOnlyBy({}, m)'
      BY <1>2, <2>2 DEF HeldOnlyBy
    <3> QED
      BY <2>1, <3>1 DEF InOnePlace
  <2>3. CASE R # {}
    <3>1. PICK r \in R : R = {r}
      BY <2>3
    <3>2. Outside(m)' = 0 /\ r \in Runs /\ HeldOnlyBy({r}, m)'
      BY <1>2, <2>3, <3>1 DEF HeldOnlyBy
    <3> QED
      BY <2>1, <3>2 DEF InOnePlace
  <2> QED
    BY <2>2, <2>3
<1>3. CASE m # n
  <2>1. m \in 1..issued
    BY <1>0, <1>3
  <2>2. IF m \in lost THEN Outside(m) = 0 /\ HeldOnlyBy({}, m) ELSE InOnePlace(m)
    BY <2>1 DEF MessageKept
  <2>3. Outside(m)' = Outside(m) /\ \A q \in Runs : HeldBy(q, m)' = HeldBy(q, m)
    BY <1>1, <1>3
  <2>4. \A S : HeldOnlyBy(S, m) => HeldOnlyBy(S, m)'
    BY <2>3 DEF HeldOnlyBy
  <2> QED
    BY <2>2, <2>3, <2>4 DEF InOnePlace
<1> QED
  BY <1>2, <1>3

(* A step that only moves messages between the queues, the transcript and r. *)
Moves(r) ==
  /\ \A m \in UserMsgs : Outside(m)' + HeldBy(r, m)' = Outside(m) + HeldBy(r, m)
  /\ \A m \in UserMsgs : \A q \in Runs : q # r => HeldBy(q, m)' = HeldBy(q, m)

(* What the other runs hold. *)
LEMMA OthersHold ==
  ASSUME NEW r, Alone(r), NEW m, NEW q \in Runs, q # r PROVE HeldBy(q, m)' = HeldBy(q, m)
BY DEF Alone, HeldBy

(* What is emitted is held until it is read. *)
LEMMA PushedTimes ==
  ASSUME DataOK, NEW r \in Runs, reader[r] # "over", NEW es \in Seq(Entries), Push(r, es), NEW m \in UserMsgs
  PROVE  TimesShown(m, events'[r]) = TimesShown(m, events[r]) + TimesShown(m, es)
<1> DEFINE old == events[r]
<1>1. events'[r] = old \o es /\ old \in Seq(Entries)
  BY DEF Push, DataOK
<1> HIDE DEF old
<1>2. TimesShown(m, old \o es) = TimesShown(m, old) + TimesShown(m, es)
  BY <1>1, TimesShownIn
<1> QED
  BY <1>1, <1>2 DEF old

(* What a poll returns is missing from the queue. *)
LEMMA PollTimes ==
  ASSUME DataOK, NEW r, PollEffect(r), NEW m \in UserMsgs
  PROVE  Times(m, Polled(r)) + Times(m, steeringQueue') = Times(m, steeringQueue)
<1>1. /\ Times(m, Taken(steeringQueue)) + Times(m, Left(steeringQueue)) = Times(m, steeringQueue)
      /\ Times(m, <<>>) = 0 /\ Times(m, steeringQueue) \in Nat
  BY TimesIn DEF DataOK
<1> QED
  BY <1>1 DEF PollEffect, Polled

(* The polls of the loop. *)
LEMMA MovesOfPolls ==
  ASSUME DataOK, RunsKept, PlacesReady, NEW r \in Runs, Alone(r), UNCHANGED messages,
         InitialPoll(r) \/ Settle(r) \/ YieldPoll(r)
  PROVE  Moves(r)
<1>1. /\ loop[r] # "turn" /\ PollEffect(r) /\ pending' = [pending EXCEPT ![r] = Polled(r)]
      /\ UNCHANGED <<steering, check, events, followUpQueue>>
  BY DEF InitialPoll, Settle, YieldPoll, batchVars, agentVars, streamVars
<1>2. pending[r] = <<>> /\ pending'[r] = Polled(r)
  BY <1>1 DEF PlacesReady, PendingReady, DataOK
<1>3. ASSUME NEW m \in UserMsgs PROVE Outside(m)' + HeldBy(r, m)' = Outside(m) + HeldBy(r, m)
  <2>1. Times(m, Polled(r)) + Times(m, steeringQueue') = Times(m, steeringQueue) /\ Times(m, <<>>) = 0
    BY <1>1, PollTimes, TimesIn DEF DataOK
  <2>2. Times(m, Polled(r)) \in Nat /\ Times(m, steeringQueue') \in Nat
    BY <1>1, Polls, PollTakes, TimesIn DEF DataOK
  <2>3. /\ Times(m, followUpQueue) \in Nat /\ TimesShown(m, messages) \in Nat
        /\ Times(m, steering[r]) \in Nat /\ Times(m, check[r].got) \in Nat /\ TimesShown(m, events[r]) \in Nat
    BY HeldCounted
  <2>4. /\ Outside(m)' = Times(m, steeringQueue') + Times(m, followUpQueue) + TimesShown(m, messages)
        /\ HeldBy(r, m)' = Times(m, Polled(r)) + Times(m, check[r].got) + TimesShown(m, events[r])
                             + Times(m, steering[r])
    BY <1>1, <1>2 DEF Outside, HeldBy
  <2>5. /\ Outside(m) = Times(m, steeringQueue) + Times(m, followUpQueue) + TimesShown(m, messages)
        /\ HeldBy(r, m) = 0 + Times(m, check[r].got) + TimesShown(m, events[r]) + Times(m, steering[r])
    BY <1>2, <2>1 DEF Outside, HeldBy
  <2> QED
    BY <2>1, <2>2, <2>3, <2>4, <2>5
<1> QED
  BY <1>3, OthersHold DEF Moves

(* Answers without calls, and the ways out of the loop. *)
LEMMA MovesOfEnds ==
  ASSUME DataOK, RunsKept, PlacesReady, NEW r \in Runs, Alone(r), UNCHANGED messages, reader[r] # "over",
         Answer(r) \/ AnswerBroken(r) \/ Throw(r) \/ Pause(r) \/ Finish(r)
  PROVE  Moves(r)
<1>1. UNCHANGED <<pending, steering, check, followUpQueue>>
  BY DEF Answer, AnswerBroken, Throw, Pause, Finish, batchVars, agentVars
<1>2. PICK es : Own(r, es) /\ Silent(es) /\ Push(r, es)
  <2>1. CASE Answer(r)
    BY <2>1, OwnEntries DEF Answer
  <2>2. CASE AnswerBroken(r)
    <3>1. PICK n \in Nat : Push(r, <<Assistant(r, n)>> \o Results(r, n) \o <<AgentEnd>>)
      BY <2>2, CallNumbers DEF AnswerBroken
    <3> QED
      BY <3>1, OwnBroken
  <2>3. CASE Throw(r)
    BY <2>3, OwnEntries DEF Throw
  <2>4. CASE Pause(r)
    BY <2>4, OwnEntries DEF Pause
  <2>5. CASE Finish(r)
    BY <2>5, OwnEntries DEF Finish
  <2> QED
    BY <2>1, <2>2, <2>3, <2>4, <2>5
<1>3. ASSUME NEW m \in UserMsgs PROVE Outside(m)' + HeldBy(r, m)' = Outside(m) + HeldBy(r, m)
  <2>1. Times(m, steeringQueue') = Times(m, steeringQueue)
    <3>1. CASE PollEffect(r) /\ Polled(r) = <<>>
      <4>1. Times(m, Polled(r)) + Times(m, steeringQueue') = Times(m, steeringQueue) /\ Times(m, <<>>) = 0
        BY <3>1, PollTimes, TimesIn DEF DataOK
      <4>2. Times(m, steeringQueue') \in Nat
        BY <3>1, PollTakes, TimesIn DEF DataOK
      <4> QED
        BY <3>1, <4>1, <4>2
    <3>2. CASE UNCHANGED steeringQueue
      BY <3>2
    <3> QED
      BY <3>1, <3>2 DEF Answer, AnswerBroken, Throw, Pause, Finish, queueVars
  <2>2. TimesShown(m, events'[r]) = TimesShown(m, events[r])
    <3>1. es \in Seq(Entries) /\ TimesShown(m, es) = 0 /\ TimesShown(m, events[r]) \in Nat
      BY <1>2, TimesSilent, HeldCounted DEF Own
    <3>2. TimesShown(m, events'[r]) = TimesShown(m, events[r]) + TimesShown(m, es)
      BY <1>2, <3>1, PushedTimes
    <3> QED
      BY <3>1, <3>2
  <2> QED
    BY <1>1, <2>1, <2>2 DEF Outside, HeldBy
<1> QED
  BY <1>3, OthersHold DEF Moves

(* A batch begins or ends: steering becomes pending. *)
LEMMA MovesOfBatches ==
  ASSUME DataOK, RunsKept, BatchInv, PlacesReady, NEW r \in Runs, Alone(r), UNCHANGED messages,
         reader[r] # "over", AnswerWithCalls(r) \/ BatchEnds(r)
  PROVE  Moves(r)
<1>1. UNCHANGED <<steeringQueue, followUpQueue>> /\ loop[r] # "turn"
  BY DEF AnswerWithCalls, BatchEnds, agentVars, queueVars
<1>2. PICK kinds \in Batches \cup {<<>>} : BeginBatch(r, kinds)
  BY DEF AnswerWithCalls, BatchEnds
<1>3. check'[r] = NoCheck /\ steering'[r] = <<>>
  BY <1>2, BatchBegun
<1>4. pending[r] = <<>>
  BY <1>1 DEF PlacesReady, PendingReady
<1>5. check[r].got = <<>>
  <2>1. CASE AnswerWithCalls(r)
    BY <2>1 DEF AnswerWithCalls, RunsKept, HandsEmpty, NoCheck
  <2>2. CASE BatchEnds(r)
    <3>1. \A i \in Indices(r) : task[r][i] # "checking"
      BY <2>2 DEF BatchEnds, Settled
    <3> QED
      BY <3>1 DEF PlacesReady, ChecksReady, CheckReady, DataOK
  <2> QED
    BY <2>1, <2>2
<1>6. pending'[r] = steering[r]
  <2>1. CASE AnswerWithCalls(r)
    <3>1. steering[r] = <<>> /\ UNCHANGED pending
      BY <2>1 DEF AnswerWithCalls, RunsKept, HandsEmpty
    <3> QED
      BY <1>4, <3>1
  <2>2. CASE BatchEnds(r)
    BY <2>2 DEF BatchEnds, DataOK
  <2> QED
    BY <2>1, <2>2
<1>7. PICK es : Own(r, es) /\ Silent(es) /\ Push(r, es)
  <2>1. CASE AnswerWithCalls(r)
    <3>1. PICK n \in Nat : Push(r, <<Assistant(r, n)>>)
      BY <2>1, CallNumbers DEF AnswerWithCalls
    <3> QED
      BY <3>1, OwnEntries
  <2>2. CASE BatchEnds(r)
    <3>1. calls[r] \in Seq(Kinds)
      BY DEF BatchInv, RunBatch
    <3> QED
      BY <2>2, <3>1, OwnSweep DEF BatchEnds
  <2> QED
    BY <2>1, <2>2
<1>8. ASSUME NEW m \in UserMsgs PROVE Outside(m)' + HeldBy(r, m)' = Outside(m) + HeldBy(r, m)
  <2>1. TimesShown(m, events'[r]) = TimesShown(m, events[r]) /\ TimesShown(m, events[r]) \in Nat
    <3>1. es \in Seq(Entries) /\ TimesShown(m, es) = 0 /\ TimesShown(m, events[r]) \in Nat
      BY <1>7, TimesSilent, HeldCounted DEF Own
    <3>2. TimesShown(m, events'[r]) = TimesShown(m, events[r]) + TimesShown(m, es)
      BY <1>7, <3>1, PushedTimes
    <3> QED
      BY <3>1, <3>2
  <2>2. Times(m, <<>>) = 0 /\ Times(m, steering[r]) \in Nat
    BY TimesIn, HeldCounted DEF DataOK
  <2>3. check'[r].got = <<>>
    BY <1>3 DEF NoCheck
  <2>4. HeldBy(r, m)' = Times(m, steering[r]) + 0 + TimesShown(m, events[r]) + 0
    BY <1>3, <1>6, <2>1, <2>2, <2>3 DEF HeldBy
  <2>5. HeldBy(r, m) = 0 + 0 + TimesShown(m, events[r]) + Times(m, steering[r])
    BY <1>4, <1>5, <2>2 DEF HeldBy
  <2>6. HeldBy(r, m)' = HeldBy(r, m)
    BY <2>1, <2>2, <2>4, <2>5
  <2> QED
    BY <1>1, <2>6 DEF Outside
<1> QED
  BY <1>8, OthersHold DEF Moves

(* Pending messages are emitted. *)
LEMMA MovesOfInject ==
  ASSUME DataOK, RunsKept, PlacesReady, NEW r \in Runs, Alone(r), UNCHANGED messages,
         reader[r] # "over", Inject(r)
  PROVE  Moves(r)
<1>1. UNCHANGED <<steeringQueue, followUpQueue, steering, check>> /\ Push(r, Users(r, pending[r]))
  BY DEF Inject, agentVars, queueVars, batchVars
<1>2. pending'[r] = <<>> /\ pending[r] \in Messages /\ r \in 0..MaxRuns
  BY DEF Inject, DataOK, Runs
<1>3. ASSUME NEW m \in UserMsgs PROVE Outside(m)' + HeldBy(r, m)' = Outside(m) + HeldBy(r, m)
  <2>1. Users(r, pending[r]) \in Seq(Entries) /\ TimesShown(m, Users(r, pending[r])) = Times(m, pending[r])
    BY <1>2, UsersShown, TimesInjected
  <2>2. TimesShown(m, events'[r]) = TimesShown(m, events[r]) + TimesShown(m, Users(r, pending[r]))
    BY <1>1, <2>1, PushedTimes
  <2>3. /\ Times(m, <<>>) = 0 /\ Times(m, pending[r]) \in Nat /\ TimesShown(m, events[r]) \in Nat
        /\ Times(m, check[r].got) \in Nat /\ Times(m, steering[r]) \in Nat
    BY <1>2, TimesIn, HeldCounted
  <2>4. HeldBy(r, m)' = 0 + Times(m, check[r].got) + (TimesShown(m, events[r]) + Times(m, pending[r]))
                          + Times(m, steering[r])
    BY <1>1, <1>2, <2>1, <2>2, <2>3 DEF HeldBy
  <2>5. HeldBy(r, m)' = HeldBy(r, m)
    BY <2>3, <2>4 DEF HeldBy
  <2> QED
    BY <1>1, <2>5 DEF Outside
<1> QED
  BY <1>3, OthersHold DEF Moves

(* Follow-ups become pending. *)
LEMMA MovesOfFollowUps ==
  ASSUME DataOK, RunsKept, PlacesReady, NEW r \in Runs, Alone(r), UNCHANGED messages, TakeFollowUps(r)
  PROVE  Moves(r)
<1>1. UNCHANGED <<steeringQueue, steering, check, events>> /\ loop[r] # "turn"
  BY DEF TakeFollowUps, queueVars, batchVars, streamVars
<1>2. pending'[r] = Taken(followUpQueue) /\ followUpQueue' = Left(followUpQueue) /\ pending[r] = <<>>
  BY <1>1 DEF TakeFollowUps, DataOK, PlacesReady, PendingReady
<1>3. ASSUME NEW m \in UserMsgs PROVE Outside(m)' + HeldBy(r, m)' = Outside(m) + HeldBy(r, m)
  <2> DEFINE t == Times(m, Taken(followUpQueue))
             l == Times(m, Left(followUpQueue))
  <2>1. /\ t + l = Times(m, followUpQueue) /\ Times(m, <<>>) = 0
        /\ t \in Nat /\ l \in Nat
    BY SplitQueue, TimesIn DEF DataOK
  <2>2. /\ Times(m, steeringQueue) \in Nat /\ TimesShown(m, messages) \in Nat
        /\ TimesShown(m, events[r]) \in Nat /\ Times(m, check[r].got) \in Nat /\ Times(m, steering[r]) \in Nat
    BY HeldCounted
  <2>3. /\ HeldBy(r, m)' = t + Times(m, check[r].got) + TimesShown(m, events[r]) + Times(m, steering[r])
        /\ Outside(m)' = Times(m, steeringQueue) + l + TimesShown(m, messages)
    BY <1>1, <1>2 DEF HeldBy, Outside
  <2>4. /\ HeldBy(r, m) = 0 + Times(m, check[r].got) + TimesShown(m, events[r]) + Times(m, steering[r])
        /\ Outside(m) = Times(m, steeringQueue) + (t + l) + TimesShown(m, messages)
    BY <1>2, <2>1 DEF HeldBy, Outside
  <2> HIDE DEF t, l
  <2> QED
    BY <2>1, <2>2, <2>3, <2>4
<1> QED
  BY <1>3, OthersHold DEF Moves

(* The first call that ends polls for all; the check hands over what it took. *)
LEMMA MovesOfCalls ==
  ASSUME DataOK, RunsKept, BatchInv, PlacesReady, NEW r \in Runs, Alone(r), UNCHANGED messages,
         reader[r] # "over", CallStep(r)
  PROVE  Moves(r)
<1>1. UNCHANGED <<pending, followUpQueue>>
  BY DEF CallStep, CheckEnds, CallStarts, CallEnds, EndCheck, StartCall, EndCall, agentVars, loopVars
<1>2. ASSUME CheckEnds(r) PROVE Moves(r)
  <2>1. UNCHANGED <<steeringQueue, events>> /\ check' = [check EXCEPT ![r] = NoCheck]
        /\ check[r].under
    BY <1>2 DEF CheckEnds, EndCheck, streamVars
  <2>2. steering[r] = <<>>
    BY <2>1 DEF PlacesReady, ChecksReady, CheckReady
  <2>3. steering' = [steering EXCEPT ![r] = IF check[r].got = <<>> THEN steering[r] ELSE check[r].got]
    BY <1>2 DEF CheckEnds, EndCheck
  <2>4. steering'[r] = check[r].got /\ check'[r] = NoCheck
    BY <2>1, <2>2, <2>3 DEF DataOK
  <2>5. ASSUME NEW m \in UserMsgs PROVE HeldBy(r, m)' = HeldBy(r, m)
    <3>1. /\ Times(m, pending[r]) \in Nat /\ TimesShown(m, events[r]) \in Nat
          /\ Times(m, check[r].got) \in Nat /\ Times(m, <<>>) = 0
      BY HeldCounted, TimesIn DEF DataOK
    <3>2. HeldBy(r, m)' = Times(m, pending[r]) + 0 + TimesShown(m, events[r]) + Times(m, check[r].got)
      BY <1>1, <2>1, <2>4, <3>1 DEF HeldBy, NoCheck
    <3>3. HeldBy(r, m) = Times(m, pending[r]) + Times(m, check[r].got) + TimesShown(m, events[r]) + 0
      BY <2>2, <3>1 DEF HeldBy
    <3> QED
      BY <3>1, <3>2, <3>3
  <2>6. \A m \in UserMsgs : Outside(m)' = Outside(m)
    BY <1>1, <2>1 DEF Outside
  <2> QED
    BY <2>5, <2>6, OthersHold DEF Moves
<1>3. ASSUME NEW i \in Indices(r), CallStarts(r, i) PROVE Moves(r)
  <2>1. UNCHANGED <<steeringQueue, events, steering, check>>
    BY <1>3 DEF CallStarts, StartCall, streamVars
  <2>2. \A m \in UserMsgs : Outside(m)' = Outside(m) /\ HeldBy(r, m)' = HeldBy(r, m)
    BY <1>1, <2>1 DEF Outside, HeldBy
  <2> QED
    BY <2>2, OthersHold DEF Moves
<1>4. ASSUME NEW i \in Indices(r), CallEnds(r, i) PROVE Moves(r)
  <2>1. UNCHANGED steering /\ Push(r, <<Result(r, i)>>)
    BY <1>4 DEF CallEnds, EndCall
  <2>2. i \in Nat
    BY DEF BatchInv, RunBatch, Indices
  <2>3. ASSUME NEW m \in UserMsgs
        PROVE  TimesShown(m, events'[r]) = TimesShown(m, events[r]) /\ TimesShown(m, events[r]) \in Nat
    <3> DEFINE es == <<Result(r, i)>>
    <3>1. Own(r, es) /\ Silent(es) /\ Push(r, es)
      BY <2>1, <2>2, OwnEntries
    <3> HIDE DEF es
    <3>2. es \in Seq(Entries) /\ TimesShown(m, es) = 0 /\ TimesShown(m, events[r]) \in Nat
      BY <3>1, TimesSilent, HeldCounted DEF Own
    <3>3. TimesShown(m, events'[r]) = TimesShown(m, events[r]) + TimesShown(m, es)
      BY <3>1, <3>2, PushedTimes
    <3> QED
      BY <3>2, <3>3
  <2>4. CASE UNCHANGED <<steeringQueue, check>>
    <3>1. \A m \in UserMsgs : Outside(m)' = Outside(m) /\ HeldBy(r, m)' = HeldBy(r, m)
      BY <1>1, <2>1, <2>3, <2>4 DEF Outside, HeldBy
    <3> QED
      BY <3>1, OthersHold DEF Moves
  <2>5. CASE /\ ~check[r].under /\ PollEffect(r)
             /\ check' = [check EXCEPT ![r] = [under |-> TRUE, got |-> Polled(r)]]
    <3>1. check'[r].got = Polled(r) /\ check[r].got = <<>>
      BY <2>5 DEF DataOK, PlacesReady, ChecksReady, CheckReady
    <3>2. ASSUME NEW m \in UserMsgs PROVE Outside(m)' + HeldBy(r, m)' = Outside(m) + HeldBy(r, m)
      <4>1. Times(m, Polled(r)) + Times(m, steeringQueue') = Times(m, steeringQueue) /\ Times(m, <<>>) = 0
        BY <2>5, PollTimes, TimesIn DEF DataOK
      <4>2. Times(m, Polled(r)) \in Nat /\ Times(m, steeringQueue') \in Nat
        BY <2>5, Polls, PollTakes, TimesIn DEF DataOK
      <4>3. /\ Times(m, followUpQueue) \in Nat /\ TimesShown(m, messages) \in Nat
            /\ Times(m, steering[r]) \in Nat /\ Times(m, pending[r]) \in Nat
        BY HeldCounted
      <4>4. /\ Outside(m)' = Times(m, steeringQueue') + Times(m, followUpQueue) + TimesShown(m, messages)
            /\ HeldBy(r, m)' = Times(m, pending[r]) + Times(m, Polled(r)) + TimesShown(m, events[r])
                                 + Times(m, steering[r])
        BY <1>1, <2>1, <2>3, <3>1 DEF Outside, HeldBy
      <4>5. /\ Outside(m) = Times(m, steeringQueue) + Times(m, followUpQueue) + TimesShown(m, messages)
            /\ HeldBy(r, m) = Times(m, pending[r]) + 0 + TimesShown(m, events[r]) + Times(m, steering[r])
        BY <3>1, <4>1 DEF Outside, HeldBy
      <4> QED
        BY <2>3, <4>1, <4>2, <4>3, <4>4, <4>5
    <3> QED
      BY <3>2, OthersHold DEF Moves
  <2> QED
    BY <1>4, <2>4, <2>5 DEF CallEnds, EndCall
<1> QED
  BY <1>2, <1>3, <1>4 DEF CallStep

(* Every step of a loop and of its calls only moves messages. *)
LEMMA LoopsMove ==
  ASSUME DataOK, RunsKept, IssuedKept, BatchInv, PlacesReady, NEW r \in Runs, ProducerStep(r)
  PROVE  Moves(r)
<1>1. Alone(r) /\ UNCHANGED messages
  BY LoopsFlow, LoopLeaves DEF Flow
<1>2. reader[r] # "over"
  <2>1. ASSUME LoopStep(r) PROVE loop[r] # "ended"
    BY <2>1 DEF LoopStep, InitialPoll, Inject, Answer, AnswerWithCalls, AnswerBroken, Throw, BatchEnds,
       Settle, Pause, YieldPoll, TakeFollowUps, Finish
  <2>2. ASSUME CallStep(r) PROVE loop[r] # "ended"
    <3>1. CASE CheckEnds(r)
      BY <3>1 DEF CheckEnds, EndCheck, RunsKept, HandsEmpty, NoCheck
    <3>2. CASE \E i \in Indices(r) : CallStarts(r, i) \/ CallEnds(r, i)
      BY <3>2 DEF Indices, RunsKept, HandsEmpty
    <3> QED
      BY <2>2, <3>1, <3>2 DEF CallStep
  <2> QED
    BY <2>1, <2>2 DEF ProducerStep, PlacesReady, EndsReady, EndReady
<1> QED
  BY <1>1, <1>2, MovesOfPolls, MovesOfEnds, MovesOfBatches, MovesOfInject, MovesOfFollowUps, MovesOfCalls
     DEF ProducerStep, LoopStep

(* A run begins with the messages it is given, and no others. *)
LEMMA BeginsWith ==
  ASSUME DataOK, RunsKept, PlacesReady, NEW ms \in Messages, BeginRun(ms), NEW r, r = runs + 1, NEW m \in UserMsgs
  PROVE  /\ r \in Runs /\ HeldBy(r, m) = 0 /\ HeldBy(r, m)' = Times(m, ms)
         /\ \A q \in Runs : q # r => HeldBy(q, m)' = HeldBy(q, m)
         /\ TimesShown(m, messages') = TimesShown(m, messages)
<1>1. /\ r \in Runs /\ events'[r] = Users(r, ms)
      /\ pending'[r] = <<>> /\ steering'[r] = <<>> /\ check'[r].got = <<>>
      /\ UNCHANGED <<messages, pending, steering, check>>
      /\ \A q \in Runs : q # r => events'[q] = events[q]
  BY Begins
<1>2. r > runs
  BY BatchAssumption DEF DataOK
<1>3. events[r] = <<>>
  BY <1>1, <1>2 DEF PlacesReady, LaterEvents
<1>4. Times(m, <<>>) = 0 /\ TimesShown(m, <<>>) = 0 /\ Times(m, ms) \in Nat
  BY TimesIn, TimesShownIn DEF DataOK
<1>5. pending[r] = <<>> /\ steering[r] = <<>> /\ check[r].got = <<>>
  BY <1>1
<1>6. HeldBy(r, m) = 0
  BY <1>3, <1>4, <1>5 DEF HeldBy
<1>7. TimesShown(m, events'[r]) = Times(m, ms)
  BY <1>1, TimesInjected
<1>8. HeldBy(r, m)' = Times(m, ms)
  BY <1>1, <1>4, <1>7 DEF HeldBy
<1>9. \A q \in Runs : q # r => HeldBy(q, m)' = HeldBy(q, m)
  BY <1>1 DEF HeldBy
<1> QED
  BY <1>1, <1>6, <1>8, <1>9

(* The user's steps send a message, begin a run with messages, or move none. *)
LEMMA KeptByUser ==
  ASSUME DataOK, DataOK', RunsKept, IssuedKept, PlacesReady, MessageKept, UserStep PROVE MessageKept'
<1>0. issued \in Nat /\ steeringQueue \in Messages /\ followUpQueue \in Messages /\ LostIssued
  BY BatchAssumption DEF DataOK, PlacesReady
<1>1. CASE Prompt
  <2>1. PICK n \in UserMsgs : n = issued + 1 /\ issued' = n
    BY <1>0, <1>1, BatchAssumption DEF Prompt, NewMessage, UserMsgs, DataOK
  <2>2. BeginRun(<<n>>) /\ <<n>> \in Messages /\ UNCHANGED <<steeringQueue, followUpQueue, lost>>
    BY <1>1, <2>1 DEF Prompt, BeginRun, Messages
  <2>3. PICK r : r = runs + 1
    OBVIOUS
  <2>4. \A m \in UserMsgs :
           /\ r \in Runs /\ HeldBy(r, m) = 0 /\ HeldBy(r, m)' = Times(m, <<n>>)
           /\ \A q \in Runs : q # r => HeldBy(q, m)' = HeldBy(q, m)
           /\ TimesShown(m, messages') = TimesShown(m, messages)
    BY <2>2, <2>3, BeginsWith
  <2>5. \A m \in UserMsgs : Outside(m)' = Outside(m)
    BY <2>2, <2>4 DEF Outside
  <2>6. \A m \in UserMsgs : Times(m, <<n>>) = IF n = m THEN 1 ELSE 0
    BY <1>0, TimesIn
  <2>7. \A q \in Runs : HeldBy(q, n) = 0 /\ Outside(n) = 0
    BY <1>0, <2>1, NotSentYet
  <2>8. {r} \in SUBSET Runs
    BY <2>1, <2>4
  <2>9. \A m \in UserMsgs : m # n =>
           Outside(m)' = Outside(m) /\ \A q \in Runs : HeldBy(q, m)' = HeldBy(q, m)
    BY <2>4, <2>5, <2>6
  <2>10. Outside(n)' = 0 /\ \A q \in Runs : HeldBy(q, n)' = (IF q \in {r} THEN 1 ELSE 0)
    BY <2>4, <2>5, <2>6, <2>7, <2>8
  <2> QED
    BY <1>0, <2>1, <2>2, <2>8, <2>9, <2>10, KeptBySend
<1>2. CASE Steer \/ FollowUp
  <2>1. PICK n \in UserMsgs : n = issued + 1 /\ issued' = n
    BY <1>0, <1>2, BatchAssumption DEF Steer, FollowUp, NewMessage, UserMsgs, DataOK
  <2>2. UNCHANGED <<lost, messages, events, pending, steering, check>>
    BY <1>2 DEF Steer, FollowUp, batchVars, loopVars, streamVars
  <2>3. \/ steeringQueue' = Append(steeringQueue, n) /\ UNCHANGED followUpQueue
        \/ followUpQueue' = Append(followUpQueue, n) /\ UNCHANGED steeringQueue
    BY <1>2, <2>1 DEF Steer, FollowUp, queueVars
  <2>4. \A m \in UserMsgs : \A q \in Runs : HeldBy(q, m)' = HeldBy(q, m)
    BY <2>2 DEF HeldBy
  <2>5. ASSUME NEW m \in UserMsgs PROVE Outside(m)' = Outside(m) + (IF n = m THEN 1 ELSE 0)
    <3>1. /\ Times(m, Append(steeringQueue, n)) = Times(m, steeringQueue) + (IF n = m THEN 1 ELSE 0)
          /\ Times(m, Append(followUpQueue, n)) = Times(m, followUpQueue) + (IF n = m THEN 1 ELSE 0)
      BY <1>0, TimesIn
    <3>2. Times(m, steeringQueue) \in Nat /\ Times(m, followUpQueue) \in Nat /\ TimesShown(m, messages) \in Nat
      BY HeldCounted
    <3>3. Outside(m)' = Times(m, steeringQueue') + Times(m, followUpQueue') + TimesShown(m, messages)
      BY <2>2 DEF Outside
    <3>4. Outside(m) = Times(m, steeringQueue) + Times(m, followUpQueue) + TimesShown(m, messages)
      BY DEF Outside
    <3>5. Times(m, steeringQueue') + Times(m, followUpQueue')
            = Times(m, steeringQueue) + Times(m, followUpQueue) + (IF n = m THEN 1 ELSE 0)
      <4>1. CASE steeringQueue' = Append(steeringQueue, n) /\ UNCHANGED followUpQueue
        BY <3>1, <3>2, <4>1
      <4>2. CASE followUpQueue' = Append(followUpQueue, n) /\ UNCHANGED steeringQueue
        BY <3>1, <3>2, <4>2
      <4> QED
        BY <2>3, <4>1, <4>2
    <3>6. Times(m, steeringQueue') \in Nat /\ Times(m, followUpQueue') \in Nat
      BY TimesIn DEF DataOK
    <3> QED
      BY <3>2, <3>3, <3>4, <3>5, <3>6
  <2>6. Outside(n) = 0 /\ \A q \in Runs : HeldBy(q, n) = 0
    BY <1>0, <2>1, NotSentYet
  <2>7. \A m \in UserMsgs : m # n =>
           Outside(m)' = Outside(m) /\ \A q \in Runs : HeldBy(q, m)' = HeldBy(q, m)
    BY <2>4, <2>5, HeldCounted
  <2>8. Outside(n)' = 1 /\ \A q \in Runs : HeldBy(q, n)' = (IF q \in {} THEN 1 ELSE 0)
    BY <2>4, <2>5, <2>6
  <2> DEFINE R == {}
  <2>9. R \in SUBSET Runs /\ (\A q, r \in R : q = r) /\ Outside(n)' = (IF R = {} THEN 1 ELSE 0)
    BY <2>8
  <2>10. \A q \in Runs : HeldBy(q, n)' = (IF q \in R THEN 1 ELSE 0)
    BY <2>8
  <2> HIDE DEF R
  <2> QED
    BY <1>0, <2>1, <2>2, <2>7, <2>9, <2>10, KeptBySend
<1>3. ASSUME NEW ms \in Messages, BeginRun(ms), UNCHANGED issued,
             \A m \in UserMsgs : Times(m, ms) + Times(m, steeringQueue') + Times(m, followUpQueue')
                                   = Times(m, steeringQueue) + Times(m, followUpQueue),
             steeringQueue' \in Messages, followUpQueue' \in Messages
      PROVE  MessageKept'
  <2>1. PICK r : r = runs + 1
    OBVIOUS
  <2>2. \A m \in UserMsgs :
           /\ r \in Runs /\ HeldBy(r, m) = 0 /\ HeldBy(r, m)' = Times(m, ms)
           /\ \A q \in Runs : q # r => HeldBy(q, m)' = HeldBy(q, m)
           /\ TimesShown(m, messages') = TimesShown(m, messages)
    BY <1>3, <2>1, BeginsWith
  <2>3. r \in Runs /\ UNCHANGED lost
    BY <1>3, <2>1, Begins DEF BeginRun
  <2>4. ASSUME NEW m \in UserMsgs PROVE Outside(m)' + HeldBy(r, m)' = Outside(m) + HeldBy(r, m)
    <3>1. /\ Times(m, ms) \in Nat /\ Times(m, steeringQueue') \in Nat /\ Times(m, followUpQueue') \in Nat
          /\ Times(m, steeringQueue) \in Nat /\ Times(m, followUpQueue) \in Nat /\ TimesShown(m, messages) \in Nat
      BY <1>0, <1>3, TimesIn, HeldCounted
    <3>2. Outside(m)' = Times(m, steeringQueue') + Times(m, followUpQueue') + TimesShown(m, messages)
      BY <2>2 DEF Outside
    <3>3. Outside(m) = Times(m, steeringQueue) + Times(m, followUpQueue) + TimesShown(m, messages)
      BY DEF Outside
    <3>4. HeldBy(r, m) = 0 /\ HeldBy(r, m)' = Times(m, ms)
      BY <2>2
    <3>5. Times(m, ms) + Times(m, steeringQueue') + Times(m, followUpQueue')
            = Times(m, steeringQueue) + Times(m, followUpQueue)
      BY <1>3
    <3> QED
      BY <3>1, <3>2, <3>3, <3>4, <3>5
  <2> QED
    BY <1>3, <2>2, <2>3, <2>4, KeptByMove
<1>4. CASE ContinueQueued
  <2>1. CASE steeringQueue # <<>>
    <3>1. /\ BeginRun(Taken(steeringQueue)) /\ steeringQueue' = Left(steeringQueue)
          /\ UNCHANGED <<followUpQueue, issued>>
      BY <1>4, <2>1 DEF ContinueQueued
    <3>2. Taken(steeringQueue) \in Messages /\ Left(steeringQueue) \in Messages
      BY <1>0, SplitQueue
    <3>3. \A m \in UserMsgs : Times(m, Taken(steeringQueue)) + Times(m, Left(steeringQueue)) = Times(m, steeringQueue)
      BY <1>0, TimesIn
    <3> QED
      BY <1>0, <1>3, <3>1, <3>2, <3>3
  <2>2. CASE steeringQueue = <<>>
    <3>1. /\ BeginRun(Taken(followUpQueue)) /\ followUpQueue' = Left(followUpQueue)
          /\ UNCHANGED <<steeringQueue, issued>>
      BY <1>4, <2>2 DEF ContinueQueued
    <3>2. Taken(followUpQueue) \in Messages /\ Left(followUpQueue) \in Messages
      BY <1>0, SplitQueue
    <3>3. ASSUME NEW m \in UserMsgs
          PROVE  Times(m, Taken(followUpQueue)) + Times(m, steeringQueue') + Times(m, followUpQueue')
                   = Times(m, steeringQueue) + Times(m, followUpQueue)
      <4>1. Times(m, Taken(followUpQueue)) + Times(m, Left(followUpQueue)) = Times(m, followUpQueue)
        BY <1>0, TimesIn
      <4>2. /\ Times(m, Taken(followUpQueue)) \in Nat /\ Times(m, Left(followUpQueue)) \in Nat
            /\ Times(m, steeringQueue) \in Nat
        BY <1>0, <3>2, TimesIn
      <4> QED
        BY <3>1, <4>1, <4>2
    <3> QED
      BY <1>0, <1>3, <3>1, <3>2, <3>3
  <2> QED
    BY <2>1, <2>2
<1>5. CASE ContinueTranscript
  <2>1. BeginRun(<<>>) /\ UNCHANGED <<steeringQueue, followUpQueue, issued>> /\ <<>> \in Messages
    BY <1>5, NothingSilent DEF ContinueTranscript
  <2>2. \A m \in UserMsgs : /\ Times(m, <<>>) = 0
                            /\ Times(m, steeringQueue) \in Nat /\ Times(m, followUpQueue) \in Nat
    BY <1>0, TimesIn
  <2> QED
    BY <1>0, <1>3, <2>1, <2>2
<1>6. CASE Abort \/ ForceAbort
  <2>1. UNCHANGED <<issued, lost, steeringQueue, followUpQueue, messages, events, pending, steering, check>>
    BY <1>6 DEF Abort, ForceAbort, batchVars, loopVars, streamVars, queueVars
  <2> QED
    BY <2>1 DEF MessageKept, InOnePlace, HeldOnlyBy, HeldBy, Outside
<1> QED
  BY <1>1, <1>2, <1>4, <1>5, <1>6 DEF UserStep

(* What is read of a run's events enters the transcript, or is no message. *)
LEMMA KeptByReader ==
  ASSUME DataOK, DataOK', MessageKept, NEW r \in Runs, ReadMessage(r) \/ ReadEnd(r) \/ ReadFailure(r)
  PROVE  MessageKept'
<1> DEFINE es == events[r]
           h == Head(events[r])
           t == Tail(events[r])
<1>1. /\ UNCHANGED <<issued, lost, steeringQueue, followUpQueue, pending, steering, check>>
      /\ es # <<>> /\ events' = [events EXCEPT ![r] = t]
  BY DEF ReadMessage, ReadEnd, ReadFailure, Consumed, batchVars, loopVars, queueVars
<1>2. es \in Seq(Entries) /\ messages \in Seq(Entries)
  BY DEF DataOK
<1>3. events'[r] = t /\ \A q \in Runs : q # r => events'[q] = events[q]
  BY <1>1 DEF DataOK
<1>4. h \in Entries
  BY <1>1, <1>2
<1>5. \A m \in UserMsgs : /\ TimesShown(m, <<h>>) + TimesShown(m, t) = TimesShown(m, es)
                          /\ TimesShown(m, es) \in Nat /\ TimesShown(m, t) \in Nat
  <2> HIDE DEF es
  <2>1. \A m \in UserMsgs : /\ TimesShown(m, <<Head(es)>>) + TimesShown(m, Tail(es)) = TimesShown(m, es)
                            /\ TimesShown(m, es) \in Nat /\ TimesShown(m, Tail(es)) \in Nat
    <3>1. Tail(es) \in Seq(Entries)
      BY <1>1, <1>2
    <3> QED
      BY <1>1, <1>2, <3>1, TimesShownIn
  <2> QED
    BY <2>1 DEF es
<1> HIDE DEF es, h, t
<1>6. ASSUME NEW m \in UserMsgs
      PROVE  TimesShown(m, messages') = TimesShown(m, messages) + TimesShown(m, <<h>>)
  <2>1. TimesShown(m, Append(messages, h)) = TimesShown(m, messages) + TimesShown(m, <<h>>)
    BY <1>2, <1>4, TimesShownIn
  <2>2. \A e : e.what # "user" => TimesShown(m, <<e>>) = 0
    <3>1. ASSUME NEW e, e.what # "user" PROVE TimesShown(m, <<e>>) = 0
      <4>1. {k \in DOMAIN <<e>> : <<e>>[k].what = "user" /\ <<e>>[k].msg = m} = {}
        BY <3>1
      <4> QED
        BY <4>1, FS_EmptySet DEF TimesShown
    <3> QED
      BY <3>1
  <2>3. TimesShown(m, messages) \in Nat
    BY <1>2, TimesShownIn
  <2>4. CASE ReadMessage(r)
    BY <2>1, <2>4 DEF ReadMessage, h
  <2>5. CASE ReadEnd(r)
    <3>1. h.what # "user" /\ UNCHANGED messages
      BY <2>5 DEF ReadEnd, AgentEnd, h
    <3> QED
      BY <2>2, <2>3, <3>1
  <2>6. CASE ReadFailure(r)
    <3>1. h.what # "user" /\ messages' = Append(messages, Assistant(r, 0))
      BY <2>6 DEF ReadFailure, Failure, h
    <3>2. Assistant(r, 0) \in Entries /\ Assistant(r, 0).what # "user"
      BY EntryKinds DEF Runs
    <3>3. TimesShown(m, Append(messages, Assistant(r, 0)))
            = TimesShown(m, messages) + TimesShown(m, <<Assistant(r, 0)>>)
      BY <1>2, <3>2, TimesShownIn
    <3> QED
      BY <2>2, <2>3, <3>1, <3>2, <3>3
  <2> QED
    BY <2>4, <2>5, <2>6
<1>7. ASSUME NEW m \in UserMsgs PROVE Outside(m)' + HeldBy(r, m)' = Outside(m) + HeldBy(r, m)
  <2>1. /\ TimesShown(m, messages') = TimesShown(m, messages) + TimesShown(m, <<h>>)
        /\ TimesShown(m, <<h>>) + TimesShown(m, t) = TimesShown(m, es)
        /\ TimesShown(m, es) \in Nat /\ TimesShown(m, t) \in Nat
    BY <1>5, <1>6
  <2>2. TimesShown(m, <<h>>) \in Nat
    <3>1. <<h>> \in Seq(Entries)
      BY <1>4
    <3> QED
      BY <3>1, TimesShownIn
  <2>3. /\ Times(m, steeringQueue) \in Nat /\ Times(m, followUpQueue) \in Nat /\ TimesShown(m, messages) \in Nat
        /\ Times(m, pending[r]) \in Nat /\ Times(m, steering[r]) \in Nat /\ Times(m, check[r].got) \in Nat
    BY HeldCounted
  <2>4. /\ Outside(m)' = Times(m, steeringQueue) + Times(m, followUpQueue) + TimesShown(m, messages')
        /\ HeldBy(r, m)' = Times(m, pending[r]) + Times(m, check[r].got) + TimesShown(m, t) + Times(m, steering[r])
    BY <1>1, <1>3 DEF Outside, HeldBy
  <2>5. /\ Outside(m) = Times(m, steeringQueue) + Times(m, followUpQueue) + TimesShown(m, messages)
        /\ HeldBy(r, m) = Times(m, pending[r]) + Times(m, check[r].got) + TimesShown(m, es) + Times(m, steering[r])
    BY DEF Outside, HeldBy, es
  <2> QED
    BY <2>1, <2>2, <2>3, <2>4, <2>5
<1>8. \A m \in UserMsgs : \A q \in Runs : q # r => HeldBy(q, m)' = HeldBy(q, m)
  BY <1>1, <1>3 DEF HeldBy
<1> QED
  BY <1>1, <1>7, <1>8, KeptByMove

(* An abandoned run takes what it holds with it. *)
LEMMA KeptByLeave ==
  ASSUME DataOK, DataOK', MessageKept, NEW r \in Runs, Leave(r)
  PROVE  MessageKept'
<1>1. /\ UNCHANGED <<issued, steeringQueue, followUpQueue, messages>>
      /\ lost' = lost \cup {m \in UserMsgs : HeldBy(r, m) > 0} /\ BeginBatch(r, <<>>)
  BY DEF Leave, queueVars
<1>2. /\ pending'[r] = <<>> /\ events'[r] = <<>>
      /\ \A q \in Runs : q # r => pending'[q] = pending[q] /\ events'[q] = events[q]
  BY DEF Leave, DataOK
<1>3. /\ check'[r] = NoCheck /\ steering'[r] = <<>>
      /\ \A q \in Runs : q # r => check'[q] = check[q] /\ steering'[q] = steering[q]
  BY <1>1, BatchBegun
<1> SUFFICES ASSUME NEW m \in 1..issued
             PROVE  IF m \in lost' THEN Outside(m)' = 0 /\ HeldOnlyBy({}, m)' ELSE InOnePlace(m)'
  BY <1>1 DEF MessageKept
<1>4. m \in UserMsgs
  BY BatchAssumption DEF DataOK, UserMsgs
<1>5. IF m \in lost THEN Outside(m) = 0 /\ HeldOnlyBy({}, m) ELSE InOnePlace(m)
  BY DEF MessageKept
<1>6. Outside(m)' = Outside(m) /\ \A q \in Runs : q # r => HeldBy(q, m)' = HeldBy(q, m)
  BY <1>1, <1>2, <1>3 DEF Outside, HeldBy
<1>7. HeldBy(r, m)' = 0
  <2>1. Times(m, <<>>) = 0 /\ TimesShown(m, <<>>) = 0
    BY <1>4, TimesIn, TimesShownIn DEF DataOK
  <2> QED
    BY <1>2, <1>3, <2>1 DEF HeldBy, NoCheck
<1>8. m \in lost' <=> m \in lost \/ HeldBy(r, m) > 0
  BY <1>1, <1>4
<1>9. CASE m \in lost
  BY <1>5, <1>6, <1>7, <1>8, <1>9 DEF HeldOnlyBy
<1>10. CASE m \notin lost /\ HeldBy(r, m) = 0
  <2>1. \A q \in Runs : HeldBy(q, m)' = HeldBy(q, m)
    BY <1>6, <1>7, <1>10
  <2>2. \A S : HeldOnlyBy(S, m) => HeldOnlyBy(S, m)'
    BY <2>1 DEF HeldOnlyBy
  <2>3. m \notin lost'
    BY <1>8, <1>10
  <2>4. InOnePlace(m) => InOnePlace(m)'
    BY <1>6, <2>2 DEF InOnePlace
  <2> QED
    BY <1>5, <1>10, <2>3, <2>4
<1>11. CASE m \notin lost /\ HeldBy(r, m) # 0
  <2>1. Outside(m) = 0
    BY <1>5, <1>11 DEF InOnePlace, HeldOnlyBy
  <2>2. PICK q \in Runs : HeldOnlyBy({q}, m)
    BY <1>5, <1>11 DEF InOnePlace, HeldOnlyBy
  <2>3. q = r /\ HeldBy(r, m) = 1
    BY <1>11, <2>2 DEF HeldOnlyBy
  <2>4. HeldOnlyBy({}, m)'
    BY <1>6, <1>7, <2>2, <2>3 DEF HeldOnlyBy
  <2> QED
    BY <1>6, <1>8, <2>1, <2>3, <2>4
<1> QED
  BY <1>9, <1>10, <1>11

(* No step loses a message. *)
LEMMA MessageKeptStep ==
  ASSUME AgentInv, AgentInv', PlacesReady, MessageKept, Next PROVE MessageKept'
<1>0. DataOK /\ DataOK' /\ RunsKept /\ IssuedKept /\ BatchInv
  BY DEF AgentInv
<1>1. CASE UserStep
  BY <1>0, <1>1, KeptByUser
<1>2. ASSUME NEW r \in Runs, ProducerStep(r) PROVE MessageKept'
  <2>1. UNCHANGED issued
    BY <1>2, LoopLeaves
  <2>2. UNCHANGED lost
    BY <1>2 DEF ProducerStep, LoopStep, CallStep, CheckEnds, CallStarts, CallEnds, InitialPoll, Inject, Answer,
       AnswerWithCalls, AnswerBroken, Throw, BatchEnds, Settle, Pause, YieldPoll, TakeFollowUps, Finish, agentVars
  <2>3. Moves(r)
    BY <1>0, <1>2, LoopsMove
  <2> QED
    BY <1>0, <2>1, <2>2, <2>3, KeptByMove DEF Moves
<1>3. ASSUME NEW r \in Runs, ReadMessage(r) \/ ReadEnd(r) \/ ReadFailure(r) PROVE MessageKept'
  BY <1>0, <1>3, KeptByReader
<1>4. ASSUME NEW r \in Runs, Leave(r) PROVE MessageKept'
  BY <1>0, <1>4, KeptByLeave
<1>5. ASSUME NEW r \in Runs, Finally(r) PROVE MessageKept'
  <2>1. UNCHANGED <<issued, lost, steeringQueue, followUpQueue, messages, events, pending, steering, check>>
    BY <1>5 DEF Finally, batchVars, loopVars
  <2> QED
    BY <2>1 DEF MessageKept, InOnePlace, HeldOnlyBy, HeldBy, Outside
<1> QED
  BY <1>1, <1>2, <1>3, <1>4, <1>5 DEF Next, ReadStep

(* What is lost has been sent. *)
LEMMA LostIssuedStep == ASSUME DataOK, DataOK', IssuedKept, LostIssued, Next PROVE LostIssued'
<1>1. issued \in Nat /\ issued' \in Nat /\ issued <= issued'
  <2>1. issued \in Nat /\ issued' \in Nat
    BY BatchAssumption DEF DataOK
  <2>2. issued' = issued + 1 \/ issued' = issued
    <3>1. CASE UserStep
      BY <3>1 DEF UserStep, Prompt, ContinueQueued, ContinueTranscript, Steer, FollowUp, Abort, ForceAbort, NewMessage
    <3>2. ASSUME NEW r \in Runs, ProducerStep(r) PROVE issued' = issued
      BY <3>2, LoopLeaves
    <3>3. ASSUME NEW r \in Runs, ReadStep(r) PROVE issued' = issued
      BY <3>3 DEF ReadStep, ReadMessage, ReadEnd, Finally, ReadFailure, Leave
    <3> QED
      BY <3>1, <3>2, <3>3 DEF Next
  <2> QED
    BY <2>1, <2>2
<1>2. UNCHANGED lost \/ \E r \in Runs : lost' = lost \cup {m \in UserMsgs : HeldBy(r, m) > 0}
  <2>1. CASE UserStep
    BY <2>1 DEF UserStep, Prompt, ContinueQueued, ContinueTranscript, Steer, FollowUp, Abort, ForceAbort, BeginRun
  <2>2. ASSUME NEW r \in Runs, ProducerStep(r) PROVE UNCHANGED lost
    BY <2>2 DEF ProducerStep, LoopStep, CallStep, CheckEnds, CallStarts, CallEnds, InitialPoll, Inject, Answer,
       AnswerWithCalls, AnswerBroken, Throw, BatchEnds, Settle, Pause, YieldPoll, TakeFollowUps, Finish, agentVars
  <2>3. ASSUME NEW r \in Runs, ReadStep(r)
        PROVE  UNCHANGED lost \/ lost' = lost \cup {m \in UserMsgs : HeldBy(r, m) > 0}
    BY <2>3 DEF ReadStep, ReadMessage, ReadEnd, Finally, ReadFailure, Leave
  <2> QED
    BY <2>1, <2>2, <2>3 DEF Next
<1>3. ASSUME NEW m \in UserMsgs, m > issued PROVE m \notin lost /\ \A r \in Runs : HeldBy(r, m) = 0
  BY <1>3, NotSentYet
<1>4. \A m \in UserMsgs : \A r \in Runs : HeldBy(r, m) > 0 => m \in 1..issued
  BY <1>1, <1>3, BatchAssumption DEF UserMsgs
<1>5. lost' \subseteq 1..issued
  BY <1>2, <1>4 DEF LostIssued
<1> QED
  BY <1>1, <1>5 DEF LostIssued

KeptInv == AgentInv /\ PlacesReady /\ MessageKept

(* KeptInv is inductive. *)
LEMMA KeptStep == ASSUME KeptInv, [Next]_vars PROVE KeptInv'
<1>1. AgentInv'
  BY AgentStep DEF KeptInv
<1>2. CASE Next
  <2>1. /\ DataOK /\ DataOK' /\ RunsKept /\ IssuedKept /\ BatchInv /\ LaterRuns /\ EventsOwn
        /\ PendingReady /\ ChecksReady /\ EndsReady /\ LaterEvents /\ LostIssued
    BY <1>1 DEF KeptInv, AgentInv, RunsKept, PlacesReady
  <2>2. PlacesReady'
    BY <1>2, <2>1, PendingReadyStep, ChecksReadyStep, EndsReadyStep, LaterEventsStep, LostIssuedStep
       DEF PlacesReady
  <2>3. MessageKept'
    BY <1>1, <1>2, MessageKeptStep DEF KeptInv
  <2> QED
    BY <1>1, <2>2, <2>3 DEF KeptInv
<1>3. CASE UNCHANGED vars
  <2>1. PlacesReady'
    BY <1>3 DEF KeptInv, PlacesReady, PendingReady, ChecksReady, CheckReady, Indices, EndsReady, EndReady, AllShow,
       LaterEvents, LostIssued, vars, batchVars, queueVars, agentVars, loopVars, streamVars
  <2>2. MessageKept'
    BY <1>3 DEF KeptInv, MessageKept, InOnePlace, HeldOnlyBy, HeldBy, Outside, vars, batchVars, queueVars, agentVars,
       loopVars, streamVars
  <2> QED
    BY <1>1, <2>1, <2>2 DEF KeptInv
<1> QED
  BY <1>2, <1>3

(* And holds initially. *)
LEMMA InitKept == Init => KeptInv
<1> SUFFICES ASSUME Init PROVE KeptInv
  OBVIOUS
<1>1. AgentInv
  BY InitAgent
<1>2. PlacesReady
  <2>1. PendingReady /\ LaterEvents /\ LostIssued
    BY DEF Init, PendingReady, LaterEvents, LostIssued
  <2>2. ChecksReady
    BY DEF Init, ChecksReady, CheckReady, NoCheck
  <2>3. EndsReady
    BY DEF Init, EndsReady, EndReady, AllShow
  <2> QED
    BY <2>1, <2>2, <2>3 DEF PlacesReady
<1>3. MessageKept
  BY DEF Init, MessageKept
<1> QED
  BY <1>1, <1>2, <1>3 DEF KeptInv

(* MessageKept (agent.ts, the queues and #runLoop; agent-loop.ts, the polls): *)
(* no message of the user is lost or shown twice, whatever is polled, checked, *)
(* aborted or thrown, except those a run given up by forceAbort has taken.   *)
THEOREM NoMessageIsLost == Spec => []MessageKept
<1>1. KeptInv => MessageKept
  BY DEF KeptInv
<1> QED
  BY <1>1, InitKept, KeptStep, PTL DEF Spec

(***************************************************************************)
(* Every call has its result                                               *)
(***************************************************************************)
(* Paired, but for the calls of the runs in A and those at the places in X. *)
PairedBut(es, A, X) ==
  \A p \in DOMAIN es :
    /\ es[p].what = "assistant" /\ es[p].run \notin A /\ p \notin X => AnsweredAt(es, p)
    /\ es[p].what = "result" => BelongsAt(es, p)

(* The elements of a sequence from place p to place q. *)
Span(es, p, q) == {es[k] : k \in p..q}
ResultsOf(r, S) == {Result(r, i) : i \in S}

(* The message at place p asks for n calls, and those in S have results behind it, *)
(* at the end of the sequence.                                               *)
Open(es, A, p, r, n, S) ==
  /\ p \in DOMAIN es /\ es[p] = Assistant(r, n) /\ PairedBut(es, A, {p})
  /\ Len(es) = p + Cardinality(S) /\ Span(es, p + 1, Len(es)) = ResultsOf(r, S)

HasOpen(es, A, r, n, S) == \E p \in DOMAIN es : Open(es, A, p, r, n, S)

LEMMA Pairing == \A es : Paired(es) <=> PairedBut(es, abandoned, {})
BY DEF Paired, PairedBut

LEMMA AnsweredSpan ==
  ASSUME NEW es, NEW p
  PROVE  AnsweredAt(es, p) <=> /\ p + es[p].calls <= Len(es)
                               /\ Span(es, p + 1, p + es[p].calls) = ResultsOf(es[p].run, 1..es[p].calls)
BY DEF AnsweredAt, Span, ResultsOf

LEMMA ResultEntries ==
  ASSUME NEW r, NEW S, NEW e \in ResultsOf(r, S) PROVE e.what = "result" /\ e.run = r
<1>1. PICK i \in S : e = Result(r, i)
  BY DEF ResultsOf
<1> QED
  BY <1>1 DEF Result

(* An assistant message has a number of calls. *)
LEMMA AssistantCalls ==
  ASSUME NEW e \in Entries, e.what = "assistant" PROVE e.calls \in Nat
BY DEF Entries, AgentEnd, Failure

(* The span of the first of two sequences, and of the second. *)
LEMMA SpanFront ==
  ASSUME NEW S, NEW a \in Seq(S), NEW b \in Seq(S), NEW p \in Nat, NEW q \in Nat, p >= 1, q <= Len(a)
  PROVE  Span(a \o b, p, q) = Span(a, p, q)
<1> DEFINE c == a \o b
<1>1. \A k \in DOMAIN a : c[k] = a[k]
  BY JoinedPlaces
<1>2. \A k \in p..q : k \in DOMAIN a
  OBVIOUS
<1> HIDE DEF c
<1>3. Span(c, p, q) = Span(a, p, q)
  BY <1>1, <1>2 DEF Span
<1> QED
  BY <1>3 DEF c

LEMMA SpanBack ==
  ASSUME NEW S, NEW a \in Seq(S), NEW b \in Seq(S), NEW p \in Nat, NEW q \in Nat, p >= 1, q <= Len(b)
  PROVE  Span(a \o b, p + Len(a), q + Len(a)) = Span(b, p, q)
<1> DEFINE c == a \o b
<1>1. \A k \in DOMAIN b : c[k + Len(a)] = b[k]
  BY JoinedPlaces
<1>2. Len(a) \in Nat /\ DOMAIN b = 1..Len(b) /\ Len(b) \in Nat
  OBVIOUS
<1> HIDE DEF c
<1>3. ASSUME NEW k \in p..q PROVE k \in DOMAIN b /\ k + Len(a) \in (p + Len(a))..(q + Len(a))
  BY <1>2
<1>4. ASSUME NEW k \in (p + Len(a))..(q + Len(a)) PROVE k - Len(a) \in p..q /\ k = (k - Len(a)) + Len(a)
  BY <1>2
<1>5. Span(b, p, q) \subseteq Span(c, p + Len(a), q + Len(a))
  BY <1>1, <1>3 DEF Span
<1>6. ASSUME NEW k \in (p + Len(a))..(q + Len(a)) PROVE c[k] \in Span(b, p, q)
  <2> DEFINE j == k - Len(a)
  <2>1. j \in p..q /\ k = j + Len(a) /\ j \in DOMAIN b
    BY <1>3, <1>4
  <2> HIDE DEF j
  <2>2. c[k] = b[j]
    BY <1>1, <2>1
  <2> QED
    BY <2>1, <2>2 DEF Span
<1>7. Span(c, p + Len(a), q + Len(a)) \subseteq Span(b, p, q)
  BY <1>6 DEF Span
<1> QED
  BY <1>5, <1>7 DEF c

(* A span in two parts. *)
LEMMA SpanParts ==
  ASSUME NEW es, NEW p \in Nat, NEW q \in Nat, NEW s \in Nat, p <= q + 1, q <= s
  PROVE  Span(es, p, s) = Span(es, p, q) \cup Span(es, q + 1, s)
<1>1. p..s = (p..q) \cup ((q + 1)..s)
  OBVIOUS
<1> QED
  BY <1>1 DEF Span

(* Answered and belonging in the first of two sequences, and in the second.  *)
LEMMA AnsweredFront ==
  ASSUME NEW a \in Seq(Entries), NEW b \in Seq(Entries), NEW p \in DOMAIN a, a[p].what = "assistant",
         AnsweredAt(a, p)
  PROVE  AnsweredAt(a \o b, p)
<1> DEFINE c == a \o b
<1>1. /\ c \in Seq(Entries) /\ Len(c) = Len(a) + Len(b) /\ Len(a) \in Nat /\ Len(b) \in Nat /\ c[p] = a[p]
      /\ p \in Nat /\ p >= 1 /\ a[p] \in Entries
  OBVIOUS
<1>2. a[p].calls \in Nat
  BY <1>1, AssistantCalls
<1> DEFINE n == a[p].calls
<1>3. p + n <= Len(a) /\ Span(a, p + 1, p + n) = ResultsOf(a[p].run, 1..n)
  BY AnsweredSpan
<1>4. Span(c, p + 1, p + n) = Span(a, p + 1, p + n)
  BY <1>1, <1>2, <1>3, SpanFront
<1>5. p + n <= Len(c)
  <2> HIDE DEF c, n
  <2> QED
    BY <1>1, <1>2, <1>3 DEF n
<1> HIDE DEF c
<1>6. AnsweredAt(c, p)
  BY <1>1, <1>3, <1>4, <1>5, AnsweredSpan
<1> QED
  BY <1>6 DEF c

LEMMA AnsweredBack ==
  ASSUME NEW a \in Seq(Entries), NEW b \in Seq(Entries), NEW p \in DOMAIN b, b[p].what = "assistant",
         AnsweredAt(b, p)
  PROVE  AnsweredAt(a \o b, p + Len(a))
<1> DEFINE c == a \o b
           l == Len(a)
           n == b[p].calls
<1>1. /\ c \in Seq(Entries) /\ Len(c) = l + Len(b) /\ l \in Nat /\ Len(b) \in Nat
      /\ p \in Nat /\ p >= 1 /\ b[p] \in Entries
  OBVIOUS
<1>2. c[p + l] = b[p]
  BY JoinedPlaces
<1>3. n \in Nat
  BY <1>1, AssistantCalls
<1>4. p + n <= Len(b) /\ Span(b, p + 1, p + n) = ResultsOf(b[p].run, 1..n)
  BY AnsweredSpan DEF n
<1> HIDE DEF n
<1>5. Span(c, (p + 1) + l, (p + n) + l) = Span(b, p + 1, p + n)
  <2>1. p + 1 \in Nat /\ p + n \in Nat /\ p + 1 >= 1 /\ p + n <= Len(b)
    BY <1>1, <1>3, <1>4
  <2> QED
    BY <2>1, SpanBack
<1> HIDE DEF c, l
<1>6. (p + l) + 1 = (p + 1) + l /\ (p + l) + n = (p + n) + l /\ (p + l) + n <= Len(c)
  <2>1. \A x, y, m, k, d \in Nat : x + y <= k /\ d = m + k =>
          (x + m) + 1 = (x + 1) + m /\ (x + m) + y = (x + y) + m /\ (x + m) + y <= d
    OBVIOUS
  <2>2. p \in Nat /\ n \in Nat /\ l \in Nat /\ Len(b) \in Nat /\ Len(c) \in Nat
    BY <1>1, <1>3
  <2> QED
    BY <1>1, <1>4, <2>1, <2>2
<1>7. Span(c, (p + l) + 1, (p + l) + n) = ResultsOf(b[p].run, 1..n)
  BY <1>4, <1>5, <1>6
<1>8. c[p + l].calls = n /\ c[p + l].run = b[p].run
  BY <1>2 DEF n
<1>9. AnsweredAt(c, p + l)
  BY <1>6, <1>7, <1>8, AnsweredSpan
<1> QED
  BY <1>9 DEF c, l

LEMMA BelongsFront ==
  ASSUME NEW S, NEW a \in Seq(S), NEW b \in Seq(S), NEW p \in DOMAIN a
  PROVE  BelongsAt(a \o b, p) <=> BelongsAt(a, p)
<1> DEFINE c == a \o b
<1>1. \A k \in DOMAIN a : c[k] = a[k]
  BY JoinedPlaces
<1>2. DOMAIN a = 1..Len(a) /\ Len(a) \in Nat
  OBVIOUS
<1> HIDE DEF c
<1>3. c[p] = a[p] /\ \A q \in 1..(p - 1) : c[q] = a[q]
  BY <1>1, <1>2
<1>4. \A q \in 1..(p - 1) : \A k \in (q + 1)..(p - 1) : k \in 1..(p - 1)
  BY <1>2
<1>5. ASSUME BelongsAt(c, p) PROVE BelongsAt(a, p)
  <2>1. PICK q \in 1..(p - 1) : /\ c[q].what = "assistant" /\ c[q].run = c[p].run /\ p - q <= c[q].calls
                                /\ \A k \in (q + 1)..(p - 1) : c[k].what = "result"
    BY <1>5 DEF BelongsAt
  <2>2. \A k \in (q + 1)..(p - 1) : c[k] = a[k]
    BY <1>3, <1>4
  <2> QED
    BY <1>3, <2>1, <2>2 DEF BelongsAt
<1>6. ASSUME BelongsAt(a, p) PROVE BelongsAt(c, p)
  <2>1. PICK q \in 1..(p - 1) : /\ a[q].what = "assistant" /\ a[q].run = a[p].run /\ p - q <= a[q].calls
                                /\ \A k \in (q + 1)..(p - 1) : a[k].what = "result"
    BY <1>6 DEF BelongsAt
  <2>2. \A k \in (q + 1)..(p - 1) : c[k] = a[k]
    BY <1>3, <1>4
  <2> QED
    BY <1>3, <2>1, <2>2 DEF BelongsAt
<1>7. BelongsAt(c, p) <=> BelongsAt(a, p)
  BY <1>5, <1>6
<1> QED
  BY <1>7 DEF c

LEMMA BelongsBack ==
  ASSUME NEW S, NEW a \in Seq(S), NEW b \in Seq(S), NEW p \in DOMAIN b, BelongsAt(b, p)
  PROVE  BelongsAt(a \o b, p + Len(a))
<1> DEFINE c == a \o b
           l == Len(a)
<1>1. \A k \in DOMAIN b : c[k + l] = b[k]
  BY JoinedPlaces
<1>2. DOMAIN b = 1..Len(b) /\ Len(b) \in Nat /\ l \in Nat /\ p \in Nat
  OBVIOUS
<1> HIDE DEF c, l
<1>3. PICK q \in 1..(p - 1) : /\ b[q].what = "assistant" /\ b[q].run = b[p].run /\ p - q <= b[q].calls
                              /\ \A k \in (q + 1)..(p - 1) : b[k].what = "result"
  BY DEF BelongsAt
<1>4. q \in DOMAIN b /\ q + l \in 1..((p + l) - 1) /\ (p + l) - (q + l) = p - q
  BY <1>2
<1>5. c[q + l] = b[q] /\ c[p + l] = b[p]
  BY <1>1, <1>4
<1>6. ASSUME NEW k \in ((q + l) + 1)..((p + l) - 1) PROVE c[k].what = "result"
  <2> DEFINE j == k - l
  <2>1. j \in (q + 1)..(p - 1) /\ j \in DOMAIN b /\ k = j + l
    BY <1>2
  <2> HIDE DEF j
  <2> QED
    BY <1>1, <1>3, <2>1
<1>7. BelongsAt(c, p + l)
  BY <1>3, <1>4, <1>5, <1>6 DEF BelongsAt
<1> QED
  BY <1>7 DEF c, l

(* Two paired sequences are paired together. *)
LEMMA PairedJoined ==
  ASSUME NEW a \in Seq(Entries), NEW b \in Seq(Entries), NEW A, NEW X, NEW Y,
         PairedBut(a, A, X), PairedBut(b, A, Y), \A y \in Y : y + Len(a) \in X
  PROVE  PairedBut(a \o b, A, X)
<1> DEFINE c == a \o b
<1>1. ASSUME NEW p \in DOMAIN a PROVE /\ AnsweredAt(a, p) /\ a[p].what = "assistant" => AnsweredAt(c, p)
                                      /\ BelongsAt(a, p) => BelongsAt(c, p)
  BY AnsweredFront, BelongsFront
<1>2. ASSUME NEW p \in DOMAIN b PROVE /\ AnsweredAt(b, p) /\ b[p].what = "assistant" => AnsweredAt(c, p + Len(a))
                                      /\ BelongsAt(b, p) => BelongsAt(c, p + Len(a))
  BY AnsweredBack, BelongsBack
<1>3. ASSUME NEW p \in DOMAIN c
      PROVE  \/ p \in DOMAIN a /\ c[p] = a[p]
             \/ p - Len(a) \in DOMAIN b /\ c[p] = b[p - Len(a)] /\ p = (p - Len(a)) + Len(a)
  <2>1. p \in Nat /\ Len(a) \in Nat
    OBVIOUS
  <2>2. p = (p - Len(a)) + Len(a)
    BY <2>1
  <2> QED
    BY <2>2, JoinedPlaces
<1> HIDE DEF c
<1>4. ASSUME NEW p \in DOMAIN c
      PROVE  /\ c[p].what = "assistant" /\ c[p].run \notin A /\ p \notin X => AnsweredAt(c, p)
             /\ c[p].what = "result" => BelongsAt(c, p)
  <2>1. CASE p \in DOMAIN a /\ c[p] = a[p]
    BY <2>1, <1>1 DEF PairedBut
  <2>2. CASE p - Len(a) \in DOMAIN b /\ c[p] = b[p - Len(a)] /\ p = (p - Len(a)) + Len(a)
    <3> DEFINE q == p - Len(a)
    <3>1. q \in DOMAIN b /\ c[p] = b[q] /\ p = q + Len(a)
      BY <2>2
    <3> HIDE DEF q
    <3>2. p \notin X => q \notin Y
      BY <3>1
    <3> QED
      BY <1>2, <3>1, <3>2 DEF PairedBut
  <2> QED
    BY <1>3, <2>1, <2>2
<1>5. PairedBut(c, A, X)
  BY <1>4 DEF PairedBut
<1> QED
  BY <1>5 DEF c

(* The first part of a paired sequence is paired, but for the runs of the    *)
(* results in the second.                                                    *)
LEMMA PairedFront ==
  ASSUME NEW a \in Seq(Entries), NEW b \in Seq(Entries), NEW A, NEW X, NEW B,
         PairedBut(a \o b, A, X), A \subseteq B,
         \A k \in DOMAIN b : b[k].what = "result" => b[k].run \in B,
         \A p \in X : p \in DOMAIN a => a[p].run \in B
  PROVE  PairedBut(a, B, {})
<1> DEFINE c == a \o b
<1>1. \A k \in DOMAIN a : k \in DOMAIN c /\ c[k] = a[k]
  BY JoinedPlaces
<1>2. \A k \in DOMAIN c :
        \/ k \in DOMAIN a /\ c[k] = a[k]
        \/ k - Len(a) \in DOMAIN b /\ c[k] = b[k - Len(a)]
  BY JoinedPlaces
<1>3. /\ DOMAIN a = 1..Len(a) /\ Len(a) \in Nat /\ Len(c) = Len(a) + Len(b) /\ Len(b) \in Nat
      /\ DOMAIN c = 1..Len(c)
  OBVIOUS
<1>4. PairedBut(c, A, X)
  OBVIOUS
<1>5. ASSUME NEW p \in DOMAIN a, a[p].what = "result" PROVE BelongsAt(a, p)
  <2>1. BelongsAt(c, p)
    BY <1>1, <1>4, <1>5 DEF PairedBut
  <2> QED
    BY <2>1, BelongsFront
<1>6. ASSUME NEW p \in DOMAIN a, a[p].what = "assistant", a[p].run \notin B PROVE AnsweredAt(a, p)
  <2> DEFINE n == a[p].calls
  <2>1. n \in Nat /\ p \in Nat /\ p >= 1
    BY <1>6, AssistantCalls
  <2>2. AnsweredAt(c, p) /\ c[p] = a[p]
    BY <1>1, <1>4, <1>6 DEF PairedBut
  <2> HIDE DEF c, n
  <2>3. p + n <= Len(c) /\ Span(c, p + 1, p + n) = ResultsOf(a[p].run, 1..n)
    BY <2>2, AnsweredSpan DEF n
  <2>4. ASSUME p + n > Len(a) PROVE FALSE
    <3>1. p + n \in DOMAIN c /\ p + n \notin DOMAIN a /\ p + n \in (p + 1)..(p + n)
      BY <1>3, <1>6, <2>1, <2>3, <2>4
    <3>2. c[p + n] \in ResultsOf(a[p].run, 1..n)
      BY <2>3, <3>1 DEF Span
    <3>3. c[p + n].what = "result" /\ c[p + n].run = a[p].run
      BY <3>2, ResultEntries
    <3>4. (p + n) - Len(a) \in DOMAIN b /\ c[p + n] = b[(p + n) - Len(a)]
      BY <1>2, <3>1
    <3>5. c[p + n].run \in B
      BY <3>3, <3>4
    <3> QED
      BY <1>6, <3>3, <3>5
  <2>5. p + n <= Len(a)
    BY <1>3, <2>1, <2>4
  <2>6. Span(a, p + 1, p + n) = ResultsOf(a[p].run, 1..n)
    <3>1. p + 1 \in Nat /\ p + n \in Nat /\ p + 1 >= 1
      BY <2>1
    <3>2. Span(c, p + 1, p + n) = Span(a, p + 1, p + n)
      BY <2>5, <3>1, SpanFront DEF c
    <3> QED
      BY <2>3, <3>2
  <2> QED
    BY <2>5, <2>6, AnsweredSpan DEF n
<1> QED
  BY <1>5, <1>6 DEF PairedBut

(* What is paired is paired when fewer calls count. *)
LEMMA PairedMore ==
  ASSUME NEW es, NEW A, NEW B, NEW X, NEW Y, PairedBut(es, A, X), A \subseteq B, X \subseteq Y
  PROVE  PairedBut(es, B, Y)
BY DEF PairedBut

(* Entries without calls and results are paired. *)
LEMMA PairedPlain ==
  ASSUME NEW es, NEW A,
         \A k \in DOMAIN es : es[k].what \notin {"assistant", "result"}
  PROVE  PairedBut(es, A, {})
BY DEF PairedBut

LEMMA JoinedLength ==
  ASSUME NEW S, NEW a \in Seq(S), NEW b \in Seq(S)
  PROVE  Len(a \o b) = Len(a) + Len(b) /\ Len(a) \in Nat /\ Len(b) \in Nat
OBVIOUS

(* An assistant message opens its calls. *)
LEMMA OpenBegins ==
  ASSUME NEW es \in Seq(Entries), NEW A, PairedBut(es, A, {}), NEW r \in Runs, NEW n \in Nat
  PROVE  Open(es \o <<Assistant(r, n)>>, A, Len(es) + 1, r, n, {})
<1> DEFINE b == <<Assistant(r, n)>>
           p == Len(es) + 1
           c == es \o b
<1>1. b \in Seq(Entries) /\ Len(b) = 1 /\ b[1] = Assistant(r, n) /\ Assistant(r, n).what = "assistant"
  <2>1. r \in 0..MaxRuns
    BY DEF Runs
  <2>2. Assistant(r, n) \in Entries /\ Assistant(r, n).what = "assistant"
    BY <2>1, EntryKinds
  <2> QED
    BY <2>2
<1>2. PairedBut(b, A, {1})
  <2>1. \A k \in DOMAIN b : k = 1
    OBVIOUS
  <2> QED
    BY <1>1, <2>1 DEF PairedBut
<1>3. PairedBut(es, A, {p})
  BY PairedMore
<1>4. Len(es) \in Nat /\ 1 + Len(es) = p
  OBVIOUS
<1> HIDE DEF b
<1>5. PairedBut(c, A, {p})
  BY <1>1, <1>2, <1>3, <1>4, PairedJoined
<1>6. p \in DOMAIN c /\ c[p] = Assistant(r, n) /\ Len(c) = p
  <2>1. c[1 + Len(es)] = b[1] /\ 1 + Len(es) \in DOMAIN c
    <3>1. 1 \in DOMAIN b
      BY <1>1
    <3>2. \A k \in DOMAIN b : k + Len(es) \in DOMAIN c /\ c[k + Len(es)] = b[k]
      BY <1>1, JoinedPlaces
    <3> QED
      BY <3>1, <3>2
  <2>2. Len(c) = Len(es) + 1
    <3>1. Len(c) = Len(es) + Len(b)
      BY <1>1, JoinedLength
    <3> QED
      BY <1>1, <3>1
  <2> HIDE DEF c, p
  <2> QED
    BY <1>1, <1>4, <2>1, <2>2 DEF p
<1> HIDE DEF c, p
<1>7. Span(c, p + 1, Len(c)) = {} /\ ResultsOf(r, {}) = {}
  <2>1. (p + 1)..p = {}
    BY <1>4
  <2> QED
    BY <1>6, <2>1 DEF Span, ResultsOf
<1>8. Len(c) = p + Cardinality({})
  <2>1. Cardinality({}) = 0
    BY FS_EmptySet
  <2> QED
    BY <1>4, <1>6, <2>1
<1>9. Open(c, A, p, r, n, {})
  BY <1>5, <1>6, <1>7, <1>8 DEF Open
<1> QED
  BY <1>9 DEF c, p, b

(* The numbers of two sets of calls. *)
LEMMA CallsTogether ==
  ASSUME NEW n \in Nat, NEW S \in SUBSET (1..n), NEW T \in SUBSET (1..n), S \cap T = {}
  PROVE  /\ Cardinality(S) \in Nat /\ Cardinality(T) \in Nat
         /\ Cardinality(S \cup T) = Cardinality(S) + Cardinality(T)
         /\ Cardinality(S) + Cardinality(T) <= n
<1>1. IsFiniteSet(1..n) /\ Cardinality(1..n) = n
  BY FS_Interval
<1>2. IsFiniteSet(S) /\ IsFiniteSet(T) /\ IsFiniteSet(S \cup T)
  BY <1>1, FS_Subset
<1>3. Cardinality(S) \in Nat /\ Cardinality(T) \in Nat /\ Cardinality(S \cup T) <= n
  BY <1>1, <1>2, FS_Subset, FS_CardinalityType
<1>4. Cardinality(S \cup T) = Cardinality(S) + Cardinality(T)
  <2>1. Cardinality(S \cup T) = Cardinality(S) + Cardinality(T) - Cardinality({})
    BY <1>2, FS_Union
  <2>2. Cardinality({}) = 0
    BY FS_EmptySet
  <2> QED
    BY <1>3, <2>1, <2>2
<1> QED
  BY <1>3, <1>4

(* Results of other calls of the message that is open. *)
LEMMA OpenGrows ==
  ASSUME NEW a \in Seq(Entries), NEW A, NEW p, NEW r, NEW n \in Nat, NEW S \in SUBSET (1..n),
         Open(a, A, p, r, n, S),
         NEW T \in SUBSET (1..n), S \cap T = {}, NEW b \in Seq(Entries), Len(b) = Cardinality(T),
         Span(b, 1, Len(b)) = ResultsOf(r, T)
  PROVE  Open(a \o b, A, p, r, n, S \cup T)
<1> DEFINE c == a \o b
           l == Len(a)
           m == Len(b)
<1>1. /\ Cardinality(S) \in Nat /\ Cardinality(T) \in Nat
      /\ Cardinality(S \cup T) = Cardinality(S) + Cardinality(T)
      /\ Cardinality(S) + Cardinality(T) <= n
  BY CallsTogether
<1>2. /\ p \in DOMAIN a /\ a[p] = Assistant(r, n) /\ PairedBut(a, A, {p})
      /\ l = p + Cardinality(S) /\ Span(a, p + 1, l) = ResultsOf(r, S)
  BY DEF Open
<1>3. /\ c \in Seq(Entries) /\ Len(c) = l + m /\ l \in Nat /\ m \in Nat /\ DOMAIN a = 1..l
      /\ DOMAIN c = 1..(l + m) /\ DOMAIN b = 1..m
  OBVIOUS
<1>4. p \in Nat /\ p >= 1 /\ p <= l
  BY <1>2, <1>3
<1>5. \A k \in DOMAIN a : k \in DOMAIN c /\ c[k] = a[k]
  BY JoinedPlaces
<1>6. ASSUME NEW k \in DOMAIN c
      PROVE  (k \in DOMAIN a /\ c[k] = a[k]) \/ (k - l \in DOMAIN b /\ c[k] = b[k - l])
  BY JoinedPlaces
<1>7. Span(c, p + 1, l) = Span(a, p + 1, l)
  <2>1. p + 1 \in Nat /\ p + 1 >= 1
    BY <1>4
  <2> HIDE DEF c
  <2> QED
    BY <1>3, <2>1, SpanFront DEF c
<1>8. Span(c, 1 + l, m + l) = Span(b, 1, m)
  BY <1>3, SpanBack
<1>9. \A k \in DOMAIN a : BelongsAt(a, k) => BelongsAt(c, k)
  BY BelongsFront
<1>10. \A k \in DOMAIN a : AnsweredAt(a, k) /\ a[k].what = "assistant" => AnsweredAt(c, k)
  BY AnsweredFront
<1>11. m = Cardinality(T) /\ Span(b, 1, m) = ResultsOf(r, T)
  OBVIOUS
<1> HIDE DEF c, l, m
<1>12. Span(c, p + 1, l + m) = Span(c, p + 1, l) \cup Span(c, l + 1, l + m)
  <2>1. p + 1 \in Nat /\ p + 1 <= l + 1 /\ l <= l + m /\ l + m \in Nat /\ l \in Nat
    BY <1>3, <1>4
  <2>2. \A x, y, z \in Nat : x <= y + 1 /\ y <= z => Span(c, x, z) = Span(c, x, y) \cup Span(c, y + 1, z)
    BY SpanParts
  <2> QED
    BY <2>1, <2>2
<1>13. 1 + l = l + 1 /\ m + l = l + m
  BY <1>3
<1>14. Span(c, p + 1, l + m) = ResultsOf(r, S \cup T)
  <2>1. ResultsOf(r, S \cup T) = ResultsOf(r, S) \cup ResultsOf(r, T)
    BY DEF ResultsOf
  <2> QED
    BY <1>2, <1>7, <1>8, <1>11, <1>12, <1>13, <2>1
<1>15. Len(c) = p + Cardinality(S \cup T)
  BY <1>1, <1>2, <1>3, <1>4, <1>11
<1>16. c[p] = Assistant(r, n) /\ Assistant(r, n).what = "assistant" /\ Assistant(r, n).run = r
       /\ Assistant(r, n).calls = n
  BY <1>2, <1>5 DEF Assistant
<1>17. \A k \in (p + 1)..(l + m) : c[k].what = "result" /\ c[k].run = r
  <2> SUFFICES ASSUME NEW k \in (p + 1)..(l + m) PROVE c[k].what = "result" /\ c[k].run = r
    OBVIOUS
  <2>1. c[k] \in ResultsOf(r, S \cup T)
    BY <1>14 DEF Span
  <2> QED
    BY <2>1, ResultEntries
<1>18. ASSUME NEW k \in (p + 1)..(l + m) PROVE BelongsAt(c, k)
  <2>1. p \in 1..(k - 1) /\ k - p <= n /\ k \in Nat
    <3>1. k \in Nat /\ p + 1 <= k /\ k <= l + m /\ l + m \in Nat
      BY <1>3, <1>4
    <3>2. l + m <= p + n
      BY <1>1, <1>2, <1>4, <1>11
    <3> QED
      BY <1>4, <3>1, <3>2
  <2>2. \A j \in (p + 1)..(k - 1) : j \in (p + 1)..(l + m)
    BY <1>3, <1>4, <2>1
  <2> QED
    BY <1>16, <1>17, <2>1, <2>2 DEF BelongsAt
<1>19. PairedBut(c, A, {p})
  <2> SUFFICES ASSUME NEW k \in DOMAIN c
               PROVE  /\ c[k].what = "assistant" /\ c[k].run \notin A /\ k \notin {p} => AnsweredAt(c, k)
                      /\ c[k].what = "result" => BelongsAt(c, k)
    BY DEF PairedBut
  <2>1. CASE k \in DOMAIN a
    BY <2>1, <1>2, <1>5, <1>9, <1>10 DEF PairedBut
  <2>2. CASE k \notin DOMAIN a
    <3>1. k \in (p + 1)..(l + m)
      BY <1>3, <1>4, <2>2
    <3> QED
      BY <1>17, <1>18, <3>1
  <2> QED
    BY <2>1, <2>2
<1>20. p \in DOMAIN c
  BY <1>2, <1>5
<1>21. Open(c, A, p, r, n, S \cup T)
  BY <1>3, <1>14, <1>15, <1>16, <1>19, <1>20 DEF Open
<1> QED
  BY <1>21 DEF c

(* A message all of whose calls have results is closed. *)
LEMMA OpenCloses ==
  ASSUME NEW es \in Seq(Entries), NEW A, NEW p, NEW r, NEW n \in Nat, Open(es, A, p, r, n, 1..n)
  PROVE  PairedBut(es, A, {})
<1>1. /\ p \in DOMAIN es /\ es[p] = Assistant(r, n) /\ PairedBut(es, A, {p})
      /\ Len(es) = p + n /\ Span(es, p + 1, Len(es)) = ResultsOf(r, 1..n)
  <2>1. Cardinality(1..n) = n
    BY FS_Interval
  <2> QED
    BY <2>1 DEF Open
<1>2. es[p].run = r /\ es[p].calls = n /\ p + n <= Len(es)
  <2>1. p + n \in Nat
    BY <1>1
  <2> QED
    BY <1>1, <2>1 DEF Assistant
<1>3. AnsweredAt(es, p)
  BY <1>1, <1>2, AnsweredSpan
<1> QED
  BY <1>1, <1>3 DEF PairedBut

(* The sweep holds one result for each call that has none. *)
LEMMA RankedOnce ==
  ASSUME NEW b \in Nat, NEW U \in SUBSET (1..b), NEW i \in U, NEW j \in U, i < j
  PROVE  Cardinality({k \in U : k <= i}) # Cardinality({k \in U : k <= j})
<1> DEFINE V == {k \in U : k <= i}
           W == {k \in U : k <= j}
<1>1. IsFiniteSet(U) /\ V \subseteq U /\ W \subseteq U /\ j \in W
  <2>1. IsFiniteSet(U)
    BY FiniteNumbers
  <2> QED
    BY <2>1
<1>2. V \subseteq W \ {j}
  <2>1. \A k \in U : k <= i => k <= j /\ k # j
    OBVIOUS
  <2> QED
    BY <2>1
<1> HIDE DEF V, W
<1>3. IsFiniteSet(V) /\ IsFiniteSet(W) /\ Cardinality(V) \in Nat /\ Cardinality(W) \in Nat
  BY <1>1, FS_Subset, FS_CardinalityType
<1>4. IsFiniteSet(W \ {j}) /\ Cardinality(W \ {j}) = Cardinality(W) - 1
  BY <1>1, <1>3, FS_RemoveElement
<1>5. Cardinality(V) <= Cardinality(W \ {j})
  BY <1>2, <1>4, FS_Subset
<1>6. Cardinality(V) # Cardinality(W)
  BY <1>3, <1>4, <1>5
<1> QED
  BY <1>6 DEF V, W

LEMMA SweepAnswers ==
  ASSUME NEW r \in Runs, calls[r] \in Seq(Kinds)
  PROVE  /\ Len(Sweep(r)) = Cardinality(Unanswered(r))
         /\ Span(Sweep(r), 1, Len(Sweep(r))) = ResultsOf(r, Unanswered(r))
<1> DEFINE U == Unanswered(r)
           n == Cardinality(U)
           rank(i) == Cardinality({j \in U : j <= i})
           nth(k) == CHOOSE i \in U : rank(i) = k
           b == Len(calls[r])
<1>1. U \in SUBSET (1..b) /\ b \in Nat
  BY DEF Unanswered, Indices
<1>2. n \in Nat /\ IsFiniteSet(U)
  <2> HIDE DEF U
  <2> QED
    BY <1>1, FiniteNumbers
<1>3. ASSUME NEW k \in 1..n PROVE nth(k) \in U /\ rank(nth(k)) = k
  <2>1. \E i \in U : rank(i) = k
    <3> HIDE DEF U, b
    <3> QED
      BY <1>1, <1>2, Ranked
  <2> HIDE DEF U, rank
  <2> QED
    BY <2>1
<1>4. ASSUME NEW i \in U PROVE rank(i) \in 1..n
  <2> DEFINE V == {j \in U : j <= i}
  <2>1. V \subseteq U /\ i \in V
    BY <1>1
  <2> HIDE DEF U, V
  <2>2. IsFiniteSet(V) /\ Cardinality(V) \in Nat /\ Cardinality(V) <= n /\ Cardinality(V) # 0
    BY <1>2, <2>1, FS_Subset, FS_CardinalityType, FS_EmptySet
  <2>3. Cardinality(V) \in 1..n
    BY <1>2, <2>2
  <2> QED
    BY <2>3 DEF V
<1>5. ASSUME NEW i \in U, NEW j \in U, rank(i) = rank(j) PROVE i = j
  <2>1. i \in Nat /\ j \in Nat
    BY <1>1
  <2>2. ~(i < j)
    <3> HIDE DEF U, b
    <3> QED
      BY <1>1, <1>5, RankedOnce
  <2>3. ~(j < i)
    <3> HIDE DEF U, b
    <3> QED
      BY <1>1, <1>5, RankedOnce
  <2> QED
    BY <2>1, <2>2, <2>3
<1>6. Sweep(r) = [k \in 1..n |-> Result(r, nth(k))]
  BY DEF Sweep
<1> HIDE DEF nth, rank, U, b, n
<1>7. \A i \in U : nth(rank(i)) = i
  BY <1>3, <1>4, <1>5
<1>8. DOMAIN Sweep(r) = 1..n /\ \A k \in 1..n : Sweep(r)[k] = Result(r, nth(k))
  BY <1>6
<1>9. Len(Sweep(r)) = n
  BY <1>2, <1>6
<1>10. Span(Sweep(r), 1, n) = ResultsOf(r, U)
  <2>1. Span(Sweep(r), 1, n) \subseteq ResultsOf(r, U)
    BY <1>3, <1>8 DEF Span, ResultsOf
  <2>2. ASSUME NEW i \in U PROVE Result(r, i) \in Span(Sweep(r), 1, n)
    <3>1. rank(i) \in 1..n /\ Sweep(r)[rank(i)] = Result(r, i)
      BY <1>4, <1>7, <1>8
    <3> QED
      BY <3>1 DEF Span
  <2> QED
    BY <2>1, <2>2 DEF ResultsOf
<1> QED
  BY <1>9, <1>10 DEF U, n

(* What the loop emits is last in its stream when it is not for the transcript, *)
(* a stream has been read when its reader closes, and the active run is read  *)
(* until the agent does not stream any more.                                 *)
EndLast(es) == \A k \in DOMAIN es : ~Shows(es[k]) => k = Len(es)
EndsLast == \A r \in Runs : EndLast(events[r])
ClosedEmpty == \A r \in Runs : reader[r] = "closing" => events[r] = <<>>
ActiveRead ==
  activeRun # NoRun => /\ activeRun \in Runs /\ reader[activeRun] \in {"reading", "closing"}
                       /\ ~isStreaming => reader[activeRun] = "closing"
(* A call has no result before its tool has ended. *)
ResultsLate ==
  \A r \in Runs : \A i \in Indices(r) : task[r][i] \in {"waiting", "running"} => result[r][i] = "none"

LEMMA EndLastJoined ==
  ASSUME NEW a \in Seq(Entries), NEW b \in Seq(Entries), AllShow(a), EndLast(b)
  PROVE  EndLast(a \o b)
<1> DEFINE c == a \o b
<1>1. ASSUME NEW k \in DOMAIN c
      PROVE  (k \in DOMAIN a /\ c[k] = a[k]) \/ (k - Len(a) \in DOMAIN b /\ c[k] = b[k - Len(a)])
  BY JoinedPlaces
<1>2. Len(c) = Len(a) + Len(b) /\ Len(a) \in Nat /\ Len(b) \in Nat
  BY JoinedLength
<1>3. \A k \in DOMAIN c : k \in Nat
  OBVIOUS
<1> HIDE DEF c
<1>4. ASSUME NEW k \in DOMAIN c, ~Shows(c[k]) PROVE k = Len(c)
  <2>1. k - Len(a) \in DOMAIN b /\ c[k] = b[k - Len(a)]
    BY <1>1, <1>4 DEF AllShow
  <2>2. k - Len(a) = Len(b)
    BY <1>4, <2>1 DEF EndLast
  <2> QED
    BY <1>2, <1>3, <2>2
<1> QED
  BY <1>4 DEF EndLast, c

LEMMA EndLastOne ==
  /\ \A es : AllShow(es) => EndLast(es)
  /\ \A e : EndLast(<<e>>)
  /\ EndLast(<<>>) /\ AllShow(<<>>)
BY DEF EndLast, AllShow

(* What a loop emits. *)
LEMMA BrokenEntries ==
  ASSUME NEW r \in Runs, NEW n \in Nat
  PROVE  /\ <<Assistant(r, n)>> \o Results(r, n) \in Seq(Entries)
         /\ AllShow(<<Assistant(r, n)>> \o Results(r, n))
         /\ EndLast(<<Assistant(r, n)>> \o Results(r, n) \o <<AgentEnd>>)
<1> DEFINE a == <<Assistant(r, n)>>
           b == Results(r, n)
           c == <<AgentEnd>>
<1>1. a \in Seq(Entries) /\ c \in Seq(Entries)
  BY OwnEntries DEF Own
<1>2. b \in Seq(Entries) /\ AllShow(b)
  BY PlainResults DEF AllShow, Shows
<1>3. AllShow(a) /\ EndLast(c)
  BY ShownEntries, EndLastOne
<1> HIDE DEF a, b, c
<1>4. AllShow(a \o b) /\ a \o b \in Seq(Entries)
  BY <1>1, <1>2, <1>3, AllShowJoined
<1>5. EndLast((a \o b) \o c)
  BY <1>1, <1>3, <1>4, EndLastJoined
<1> QED
  BY <1>4, <1>5 DEF a, b, c

LEMMA Emitted ==
  ASSUME DataOK, BatchInv, HandsEmpty, NEW r \in Runs, ProducerStep(r)
  PROVE  \/ UNCHANGED events
         \/ loop[r] # "ended" /\ \E es \in Seq(Entries) : EndLast(es) /\ Push(r, es)
<1>0. calls[r] \in Seq(Kinds) /\ pending[r] \in Messages
  BY DEF BatchInv, RunBatch, DataOK
<1> DEFINE Q == \/ UNCHANGED events
                \/ loop[r] # "ended" /\ \E es \in Seq(Entries) : EndLast(es) /\ Push(r, es)
<1>1. CASE InitialPoll(r) \/ Settle(r) \/ YieldPoll(r) \/ TakeFollowUps(r) \/ CheckEnds(r)
           \/ \E i \in Indices(r) : CallStarts(r, i)
  BY <1>1 DEF InitialPoll, Settle, YieldPoll, TakeFollowUps, CheckEnds, CallStarts, streamVars
<1>2. CASE Inject(r)
  <2>1. Users(r, pending[r]) \in Seq(Entries) /\ EndLast(Users(r, pending[r]))
    BY <1>0, OwnEntries, ShownEntries, EndLastOne DEF Own
  <2> QED
    BY <1>2, <2>1 DEF Inject
<1>3. CASE Answer(r)
  <2>1. <<Assistant(r, 0)>> \in Seq(Entries) /\ EndLast(<<Assistant(r, 0)>>)
    BY OwnEntries, EndLastOne DEF Own
  <2> QED
    BY <1>3, <2>1 DEF Answer
<1>4. CASE AnswerWithCalls(r)
  <2>1. PICK n \in Nat : Push(r, <<Assistant(r, n)>>)
    BY <1>4, CallNumbers DEF AnswerWithCalls
  <2>2. <<Assistant(r, n)>> \in Seq(Entries) /\ EndLast(<<Assistant(r, n)>>) /\ loop[r] # "ended"
    BY <1>4, OwnEntries, EndLastOne DEF Own, AnswerWithCalls
  <2> QED
    BY <2>1, <2>2
<1>5. CASE AnswerBroken(r)
  <2>1. PICK n \in Nat : Push(r, <<Assistant(r, n)>> \o Results(r, n) \o <<AgentEnd>>)
    BY <1>5, CallNumbers DEF AnswerBroken
  <2>2. /\ <<Assistant(r, n)>> \o Results(r, n) \o <<AgentEnd>> \in Seq(Entries)
        /\ EndLast(<<Assistant(r, n)>> \o Results(r, n) \o <<AgentEnd>>) /\ loop[r] # "ended"
    BY <1>5, OwnBroken, BrokenEntries DEF Own, AnswerBroken
  <2> QED
    BY <2>1, <2>2
<1>6. CASE Throw(r) \/ Pause(r) \/ Finish(r)
  <2>1. PICK es \in {<<AgentEnd>>, <<Failure>>} : Push(r, es)
    BY <1>6 DEF Throw, Pause, Finish
  <2>2. es \in Seq(Entries) /\ EndLast(es) /\ loop[r] # "ended"
    BY <1>6, OwnEntries, EndLastOne DEF Own, Throw, Pause, Finish
  <2> QED
    BY <2>1, <2>2
<1>7. CASE BatchEnds(r)
  <2>1. Sweep(r) \in Seq(Entries) /\ EndLast(Sweep(r))
    BY <1>0, OwnSweep, ShownEntries, EndLastOne DEF Own
  <2> QED
    BY <1>7, <2>1 DEF BatchEnds
<1>8. ASSUME NEW i \in Indices(r), CallEnds(r, i) PROVE Q
  <2>1. loop[r] # "ended" /\ i \in Nat
    BY <1>0 DEF HandsEmpty, Indices
  <2>2. <<Result(r, i)>> \in Seq(Entries) /\ EndLast(<<Result(r, i)>>)
    BY <2>1, OwnEntries, EndLastOne DEF Own
  <2> QED
    BY <1>8, <2>1, <2>2 DEF CallEnds
<1> QED
  BY <1>1, <1>2, <1>3, <1>4, <1>5, <1>6, <1>7, <1>8 DEF ProducerStep, LoopStep, CallStep

(* Nothing follows the end of a stream. *)
LEMMA EndsLastStep ==
  ASSUME DataOK, BatchInv, HandsEmpty, EndsReady, EndsLast, Next PROVE EndsLast'
<1>1. ASSUME UserStep PROVE EndsLast'
  <2>1. ASSUME NEW ms \in Messages, BeginRun(ms) PROVE EndsLast'
    <3>1. runs + 1 \in Runs /\ events' = [events EXCEPT ![runs + 1] = Users(runs + 1, ms)]
      BY <2>1, RunBegun
    <3>2. EndLast(Users(runs + 1, ms))
      BY <3>1, ShownEntries, EndLastOne
    <3> QED
      BY <3>1, <3>2 DEF DataOK, EndsLast, EndLast
  <2>2. <<issued + 1>> \in Messages \/ ~Prompt
    BY BatchAssumption DEF Prompt, NewMessage, DataOK, Messages, UserMsgs
  <2>3. Taken(steeringQueue) \in Messages /\ Taken(followUpQueue) \in Messages /\ <<>> \in Messages
    BY SplitQueue, NothingSilent DEF DataOK
  <2>4. ASSUME UNCHANGED events PROVE EndsLast'
    BY <2>4 DEF EndsLast, EndLast
  <2>5. UNCHANGED events \/ \E ms \in Messages : BeginRun(ms)
    BY <1>1, <2>2, <2>3 DEF UserStep, Prompt, ContinueQueued, ContinueTranscript, Steer, FollowUp, Abort,
       ForceAbort, streamVars
  <2> QED
    BY <2>1, <2>4, <2>5
<1>2. ASSUME NEW r \in Runs, ProducerStep(r) PROVE EndsLast'
  <2>1. CASE UNCHANGED events
    BY <2>1 DEF EndsLast, EndLast
  <2>2. ASSUME NEW es \in Seq(Entries), EndLast(es), Push(r, es), loop[r] # "ended" PROVE EndsLast'
    <3>1. events[r] \in Seq(Entries) /\ AllShow(events[r])
      BY <2>2 DEF DataOK, EndsReady, EndReady
    <3>2. EndLast(events[r] \o es) /\ EndLast(<<>>)
      BY <2>2, <3>1, EndLastJoined, EndLastOne
    <3>3. /\ events'[r] \in {<<>>, events[r] \o es}
          /\ \A q \in Runs : q # r => events'[q] = events[q]
      BY <2>2 DEF Push, DataOK
    <3> QED
      BY <3>2, <3>3 DEF EndsLast, EndLast
  <2> QED
    BY <1>2, <2>1, <2>2, Emitted
<1>3. ASSUME NEW r \in Runs, ReadStep(r) PROVE EndsLast'
  <2>1. \/ UNCHANGED events \/ events' = [events EXCEPT ![r] = <<>>]
        \/ events[r] # <<>> /\ events' = [events EXCEPT ![r] = Tail(events[r])]
    BY <1>3 DEF ReadStep, ReadMessage, ReadEnd, Finally, ReadFailure, Leave, Consumed
  <2>2. events[r] # <<>> => EndLast(Tail(events[r]))
    <3> DEFINE a == events[r]
    <3>1. a \in Seq(Entries) /\ EndLast(a)
      BY DEF DataOK, EndsLast
    <3> HIDE DEF a
    <3> SUFFICES ASSUME a # <<>> PROVE EndLast(Tail(a))
      BY DEF a
    <3>2. \A k \in DOMAIN Tail(a) : k + 1 \in DOMAIN a /\ Tail(a)[k] = a[k + 1]
      BY <3>1, HeadShown
    <3>3. Len(Tail(a)) + 1 = Len(a) /\ Len(a) \in Nat /\ Len(Tail(a)) \in Nat /\ \A k \in DOMAIN Tail(a) : k \in Nat
      BY <3>1
    <3>4. ASSUME NEW k \in DOMAIN Tail(a), ~Shows(Tail(a)[k]) PROVE k = Len(Tail(a))
      <4>1. k + 1 = Len(a)
        BY <3>1, <3>2, <3>4 DEF EndLast
      <4> QED
        BY <3>3, <4>1
    <3> QED
      BY <3>4 DEF EndLast
  <2>3. EndLast(<<>>)
    BY EndLastOne
  <2> QED
    BY <2>1, <2>2, <2>3 DEF EndsLast, EndLast, DataOK
<1> QED
  BY <1>1, <1>2, <1>3 DEF Next

LEMMA OneLong == ASSUME NEW S, NEW a \in Seq(S), Len(a) = 1 PROVE a = <<Head(a)>> /\ Tail(a) = <<>>
<1>1. a = <<Head(a)>>
  OBVIOUS
<1>2. Tail(a) = <<>>
  <2>1. a # <<>>
    OBVIOUS
  <2>2. Len(Tail(a)) = 0 /\ Tail(a) \in Seq(S)
    BY <2>1
  <2> DEFINE t == Tail(a)
  <2> HIDE DEF t
  <2>3. t = <<>>
    BY <2>2, EmptySeq DEF t
  <2> QED
    BY <2>3 DEF t
<1> QED
  BY <1>1, <1>2

(* The end of a stream is alone in it when it is read. *)
LEMMA EndRead ==
  ASSUME DataOK, EndsLast, EndsReady, NEW r \in Runs, events[r] # <<>>, ~Shows(Head(events[r]))
  PROVE  events[r] = <<Head(events[r])>> /\ Tail(events[r]) = <<>> /\ loop[r] = "ended"
<1> DEFINE a == events[r]
<1>1. a \in Seq(Entries) /\ EndLast(a) /\ a # <<>> /\ ~Shows(Head(a)) /\ (loop[r] # "ended" => AllShow(a))
  BY DEF DataOK, EndsLast, EndsReady, EndReady
<1> HIDE DEF a
<1>2. Head(a) = a[1] /\ 1 \in DOMAIN a
  BY <1>1
<1>3. Len(a) = 1
  BY <1>1, <1>2 DEF EndLast
<1>4. a = <<Head(a)>> /\ Tail(a) = <<>>
  BY <1>1, <1>3, OneLong
<1>5. loop[r] = "ended"
  BY <1>1, <1>2 DEF AllShow
<1> QED
  BY <1>4, <1>5 DEF a

LEMMA EndKinds == /\ ~Shows(AgentEnd) /\ ~Shows(Failure) /\ AgentEnd.what # "result" /\ Failure.what # "result"
BY DEF Shows, AgentEnd, Failure

(* A closing reader has read its stream to the end. *)
LEMMA ClosedEmptyStep ==
  ASSUME DataOK, BatchInv, LaterRuns, HandsEmpty, EndsReady, EndsLast, ClosedEmpty, Next PROVE ClosedEmpty'
<1>1. ASSUME UserStep PROVE ClosedEmpty'
  <2>1. ASSUME NEW ms \in Messages, BeginRun(ms) PROVE ClosedEmpty'
    <3>1. /\ runs + 1 \in Runs /\ reader' = [reader EXCEPT ![runs + 1] = "reading"]
          /\ events' = [events EXCEPT ![runs + 1] = Users(runs + 1, ms)]
      BY <2>1, RunBegun
    <3> QED
      BY <3>1 DEF DataOK, ClosedEmpty
  <2>2. <<issued + 1>> \in Messages \/ ~Prompt
    BY BatchAssumption DEF Prompt, NewMessage, DataOK, Messages, UserMsgs
  <2>3. Taken(steeringQueue) \in Messages /\ Taken(followUpQueue) \in Messages /\ <<>> \in Messages
    BY SplitQueue, NothingSilent DEF DataOK
  <2>4. ASSUME UNCHANGED <<events, reader>> PROVE ClosedEmpty'
    BY <2>4 DEF ClosedEmpty
  <2>5. UNCHANGED <<events, reader>> \/ \E ms \in Messages : BeginRun(ms)
    BY <1>1, <2>2, <2>3 DEF UserStep, Prompt, ContinueQueued, ContinueTranscript, Steer, FollowUp, Abort,
       ForceAbort, streamVars
  <2> QED
    BY <2>1, <2>4, <2>5
<1>2. ASSUME NEW r \in Runs, ProducerStep(r) PROVE ClosedEmpty'
  <2>1. UNCHANGED reader
    BY <1>2, LoopLeaves
  <2>2. CASE UNCHANGED events
    BY <2>1, <2>2 DEF ClosedEmpty
  <2>3. ASSUME NEW es, Push(r, es), loop[r] # "ended" PROVE ClosedEmpty'
    <3>1. reader[r] # "closing" /\ \A q \in Runs : q # r => events'[q] = events[q]
      BY <2>3 DEF EndsReady, EndReady, Push, DataOK
    <3> QED
      BY <2>1, <3>1 DEF ClosedEmpty
  <2> QED
    BY <1>2, <2>2, <2>3, Emitted
<1>3. ASSUME NEW r \in Runs, ReadStep(r) PROVE ClosedEmpty'
  <2>1. \A q \in Runs : q # r => events'[q] = events[q] /\ reader'[q] = reader[q]
    BY <1>3 DEF ReadStep, ReadMessage, ReadEnd, Finally, ReadFailure, Leave, Finalize, Consumed, DataOK
  <2>2. reader'[r] # "closing" \/ ReadEnd(r)
    BY <1>3 DEF ReadStep, ReadMessage, Finally, ReadFailure, Leave, Finalize, DataOK
  <2>3. ASSUME ReadEnd(r) PROVE events'[r] = <<>>
    <3>1. events[r] # <<>> /\ Head(events[r]) = AgentEnd /\ events' = [events EXCEPT ![r] = Tail(events[r])]
      BY <2>3 DEF ReadEnd, Consumed
    <3>2. Tail(events[r]) = <<>>
      BY <3>1, EndRead, EndKinds
    <3> QED
      BY <3>1, <3>2 DEF DataOK
  <2> QED
    BY <2>1, <2>2, <2>3 DEF ClosedEmpty
<1> QED
  BY <1>1, <1>2, <1>3 DEF Next

(* The active run is read to its end. *)
LEMMA ActiveReadStep == ASSUME DataOK, LatestRun, ActiveRead, Next PROVE ActiveRead'
<1>1. ASSUME UserStep PROVE ActiveRead'
  <2>1. ASSUME NEW ms, BeginRun(ms) PROVE ActiveRead'
    <3>1. /\ activeRun' = runs + 1 /\ isStreaming' = TRUE /\ runs + 1 \in Runs
          /\ reader' = [reader EXCEPT ![runs + 1] = "reading"]
      BY <2>1, BatchAssumption DEF BeginRun, DataOK, Runs
    <3>2. reader'[runs + 1] = "reading"
      BY <3>1 DEF DataOK
    <3> QED
      BY <3>1, <3>2 DEF ActiveRead
  <2>2. ASSUME UNCHANGED <<activeRun, isStreaming, reader>> PROVE ActiveRead'
    BY <2>2 DEF ActiveRead
  <2>3. \/ UNCHANGED <<activeRun, isStreaming, reader>> \/ activeRun' = NoRun \/ \E ms : BeginRun(ms)
    BY <1>1 DEF UserStep, Prompt, ContinueQueued, ContinueTranscript, Steer, FollowUp, Abort, ForceAbort,
       streamVars, queueVars
  <2>4. activeRun' = NoRun => ActiveRead'
    BY DEF ActiveRead
  <2> QED
    BY <2>1, <2>2, <2>3, <2>4
<1>2. ASSUME NEW r \in Runs, ProducerStep(r) PROVE ActiveRead'
  BY <1>2, LoopLeaves DEF ActiveRead
<1>3. ASSUME NEW r \in Runs, ReadStep(r) PROVE ActiveRead'
  <2>1. CASE activeRun' = NoRun
    BY <2>1 DEF ActiveRead
  <2>2. CASE ReadMessage(r)
    BY <2>2 DEF ReadMessage, queueVars, ActiveRead
  <2>3. CASE ReadEnd(r)
    <3>1. activeRun' = r /\ reader'[r] = "closing"
      BY <2>3 DEF ReadEnd, queueVars, DataOK
    <3> QED
      BY <3>1 DEF ActiveRead
  <2>4. CASE Finally(r) \/ ReadFailure(r) \/ Leave(r)
    <3>1. activeRun' = NoRun \/ (UNCHANGED <<activeRun, isStreaming>> /\ activeRun # r)
      BY <2>4 DEF Finally, ReadFailure, Finalize, Leave, queueVars
    <3>2. \A q \in Runs : q # r => reader'[q] = reader[q]
      BY <2>4 DEF Finally, ReadFailure, Finalize, Leave, DataOK
    <3> QED
      BY <2>1, <3>1, <3>2 DEF ActiveRead
  <2> QED
    BY <1>3, <2>2, <2>3, <2>4 DEF ReadStep
<1> QED
  BY <1>1, <1>2, <1>3 DEF Next

(* What a step does to the results of a batch. *)
LEMMA ResultsLateStep == ASSUME BatchInv, ResultsLate, [Next]_vars PROVE ResultsLate'
<1> DEFINE Late(r) == \A i \in Indices(r) : task[r][i] \in {"waiting", "running"} => result[r][i] = "none"
<1>0. \A q \in Runs : calls'[q] = calls[q] /\ task'[q] = task[q] /\ result'[q] = result[q] => Late(q)'
  BY DEF ResultsLate, Indices
<1>1. CASE UNCHANGED batchVars
  BY <1>1 DEF batchVars, ResultsLate, Indices
<1>2. ASSUME NEW r \in Runs, NEW kinds \in Seq(Kinds), BeginBatch(r, kinds) PROVE ResultsLate'
  <2> DEFINE waiting == [i \in DOMAIN kinds |-> "waiting"]
             none == [i \in DOMAIN kinds |-> "none"]
  <2>1. /\ calls' = [calls EXCEPT ![r] = kinds] /\ task' = [task EXCEPT ![r] = waiting]
        /\ result' = [result EXCEPT ![r] = none]
    BY <1>2 DEF BeginBatch
  <2> HIDE DEF waiting, none
  <2>2. /\ calls'[r] = kinds /\ result'[r] = none
        /\ \A q \in Runs : q # r => calls'[q] = calls[q] /\ task'[q] = task[q] /\ result'[q] = result[q]
    BY <2>1, Update DEF BatchInv, Rows
  <2>3. Late(r)'
    BY <2>2 DEF Indices, none
  <2> QED
    BY <1>0, <2>2, <2>3 DEF ResultsLate
<1>3. ASSUME NEW r \in Runs, NEW i \in Indices(r), StartCall(r, i) PROVE ResultsLate'
  <2> DEFINE next == IF triggered(r) THEN "done" ELSE "running"
  <2>1. UNCHANGED <<calls, result>> /\ task[r][i] = "waiting"
        /\ task' = [task EXCEPT ![r] = [task[r] EXCEPT ![i] = next]]
    BY <1>3 DEF StartCall
  <2>2. RunBatch(r)
    BY DEF BatchInv
  <2> HIDE DEF next
  <2>3. /\ task'[r] = [task[r] EXCEPT ![i] = next]
        /\ \A q \in Runs : q # r => task'[q] = task[q]
    BY <2>1, Update DEF BatchInv, Rows
  <2>4. \A k \in Indices(r) : k # i => task'[r][k] = task[r][k]
    BY <2>2, <2>3 DEF RunBatch
  <2>5. Late(r)'
    BY <2>1, <2>4 DEF ResultsLate, Indices
  <2> QED
    BY <1>0, <2>1, <2>3, <2>5 DEF ResultsLate
<1>4. ASSUME NEW r \in Runs, NEW i \in Indices(r), EndCall(r, i) PROVE ResultsLate'
  <2> DEFINE answer == IF triggered(r) THEN "skipped" ELSE "tool"
  <2>1. PICK next \in {"done", "checking"} :
          /\ task' = [task EXCEPT ![r] = [task[r] EXCEPT ![i] = next]]
          /\ result' = [result EXCEPT ![r] = [result[r] EXCEPT ![i] = answer]] /\ UNCHANGED calls
    BY <1>4 DEF EndCall
  <2>2. RunBatch(r)
    BY DEF BatchInv
  <2> HIDE DEF answer
  <2>3. /\ task'[r] = [task[r] EXCEPT ![i] = next] /\ result'[r] = [result[r] EXCEPT ![i] = answer]
        /\ \A q \in Runs : q # r => task'[q] = task[q] /\ result'[q] = result[q]
    BY <2>1, Update DEF BatchInv, Rows
  <2>4. /\ task'[r][i] = next
        /\ \A k \in Indices(r) : k # i => task'[r][k] = task[r][k] /\ result'[r][k] = result[r][k]
    BY <2>2, <2>3 DEF RunBatch
  <2>5. Late(r)'
    BY <2>1, <2>4 DEF ResultsLate, Indices
  <2> QED
    BY <1>0, <2>1, <2>3, <2>5 DEF ResultsLate
<1>5. ASSUME NEW r \in Runs, EndCheck(r) PROVE ResultsLate'
  <2> DEFINE nexts == [i \in Indices(r) |-> IF task[r][i] = "checking" THEN "done" ELSE task[r][i]]
  <2>1. UNCHANGED <<calls, result>> /\ task' = [task EXCEPT ![r] = nexts]
    BY <1>5 DEF EndCheck
  <2> HIDE DEF nexts
  <2>2. task'[r] = nexts /\ \A q \in Runs : q # r => task'[q] = task[q]
    BY <2>1, Update DEF BatchInv, Rows
  <2>3. \A k \in Indices(r) : task'[r][k] \in {"waiting", "running"} => task'[r][k] = task[r][k]
    BY <2>2 DEF nexts
  <2>4. Late(r)'
    BY <2>1, <2>3 DEF ResultsLate, Indices
  <2> QED
    BY <1>0, <2>1, <2>2, <2>4 DEF ResultsLate
<1> QED
  BY <1>1, <1>2, <1>3, <1>4, <1>5, StepsOfBatches DEF BatchStep

(* A step of one run leaves the loops and the results of the others alone. *)
Apart(r) ==
  \A q \in Runs : q # r => /\ events'[q] = events[q] /\ loop'[q] = loop[q]
                         /\ calls'[q] = calls[q] /\ result'[q] = result[q]

LEMMA StepsApart ==
  ASSUME DataOK, BatchInv, NEW r \in Runs, ProducerStep(r) \/ ReadStep(r) PROVE Apart(r)
<1>1. \A q \in Runs : q # r => events'[q] = events[q]
  <2>1. UNCHANGED events \/ (\E es : Push(r, es)) \/ (\E es : events' = [events EXCEPT ![r] = es])
    BY DEF ProducerStep, LoopStep, CallStep, CheckEnds, CallStarts, CallEnds, InitialPoll, Inject, Answer,
       AnswerWithCalls, AnswerBroken, Throw, BatchEnds, Settle, Pause, YieldPoll, TakeFollowUps, Finish, streamVars,
       ReadStep, ReadMessage, ReadEnd, Finally, ReadFailure, Leave, Consumed
  <2> QED
    BY <2>1 DEF Push, DataOK
<1>2. \A q \in Runs : q # r => loop'[q] = loop[q]
  <2>1. UNCHANGED loop \/ \E label : Goto(r, label)
    BY DEF ProducerStep, LoopStep, CallStep, CheckEnds, CallStarts, CallEnds, InitialPoll, Inject, Answer,
       AnswerWithCalls, AnswerBroken, Throw, BatchEnds, Settle, Pause, YieldPoll, TakeFollowUps, Finish, loopVars,
       ReadStep, ReadMessage, ReadEnd, Finally, ReadFailure, Leave
  <2> QED
    BY <2>1 DEF Goto, DataOK
<1>3. \A q \in Runs : q # r => calls'[q] = calls[q]
  <2>1. UNCHANGED calls \/ \E kinds : BeginBatch(r, kinds)
    BY DEF ProducerStep, LoopStep, CallStep, CheckEnds, CallStarts, CallEnds, EndCheck, StartCall, EndCall,
       InitialPoll, Inject, Answer, AnswerWithCalls, AnswerBroken, Throw, BatchEnds, Settle, Pause, YieldPoll,
       TakeFollowUps, Finish, batchVars, ReadStep, ReadMessage, ReadEnd, Finally, ReadFailure, Leave
  <2> QED
    BY <2>1 DEF BeginBatch, DataOK
<1>4. \A q \in Runs : q # r => result'[q] = result[q]
  <2>1. UNCHANGED result \/ (\E kinds : BeginBatch(r, kinds)) \/ \E i \in Indices(r) : EndCall(r, i)
    BY DEF ProducerStep, LoopStep, CallStep, CheckEnds, CallStarts, CallEnds, EndCheck, StartCall,
       InitialPoll, Inject, Answer, AnswerWithCalls, AnswerBroken, Throw, BatchEnds, Settle, Pause, YieldPoll,
       TakeFollowUps, Finish, batchVars, ReadStep, ReadMessage, ReadEnd, Finally, ReadFailure, Leave
  <2>2. ASSUME NEW x, result' = [result EXCEPT ![r] = x] PROVE \A q \in Runs : q # r => result'[q] = result[q]
    BY <2>2, Update DEF BatchInv, Rows
  <2>3. (\E kinds : BeginBatch(r, kinds)) => \E x : result' = [result EXCEPT ![r] = x]
    BY DEF BeginBatch
  <2>4. (\E i \in Indices(r) : EndCall(r, i)) => \E x : result' = [result EXCEPT ![r] = x]
    BY DEF EndCall
  <2> QED
    BY <2>1, <2>2, <2>3, <2>4
<1> QED
  BY <1>1, <1>2, <1>3, <1>4 DEF Apart

(* The calls of run r that have a result. *)
Answered(r) == {i \in Indices(r) : result[r][i] # "none"}

(* What the active run has been shown is paired, but for the results its     *)
(* batch still owes; between the runs the transcript is.                     *)
RunPaired(r) ==
  IF loop[r] = "tools" THEN HasOpen(Context(r), abandoned, r, Len(calls[r]), Answered(r))
  ELSE PairedBut(Context(r), abandoned, {})

PairsKept == IF activeRun = NoRun THEN PairedBut(messages, abandoned, {}) ELSE RunPaired(activeRun)

PairsInv == KeptInv /\ EndsLast /\ ClosedEmpty /\ ActiveRead /\ ResultsLate /\ PairsKept

(* What holds when nothing of the active run changes. *)
LEMMA PairsSame ==
  ASSUME ActiveRead, PairsKept, UNCHANGED <<activeRun, messages, abandoned>>,
         activeRun # NoRun => /\ events'[activeRun] = events[activeRun] /\ loop'[activeRun] = loop[activeRun]
                              /\ calls'[activeRun] = calls[activeRun] /\ result'[activeRun] = result[activeRun]
  PROVE  PairsKept'
<1>1. CASE activeRun = NoRun
  BY <1>1 DEF PairsKept
<1>2. CASE activeRun # NoRun
  <2> DEFINE r == activeRun
  <2>1. /\ Context(r)' = Context(r) /\ loop'[r] = loop[r] /\ calls'[r] = calls[r]
        /\ Answered(r)' = Answered(r) /\ abandoned' = abandoned
    BY <1>2 DEF Context, Answered, Indices
  <2>2. RunPaired(r)
    BY <1>2 DEF PairsKept
  <2>3. RunPaired(r)'
    BY <2>1, <2>2 DEF RunPaired
  <2> QED
    BY <1>2, <2>3 DEF PairsKept
<1> QED
  BY <1>1, <1>2

(* An active run whose loop runs no tools and has nothing to be read. *)
LEMMA Unread ==
  ASSUME DataOK, NEW r \in Runs, events[r] = <<>> PROVE Context(r) = messages
<1>1. messages \in Seq(Entries) /\ messages \o <<>> = messages
  BY ConcatEmptySeq DEF DataOK
<1> QED
  BY <1>1 DEF Context

(* The transcript is paired when the stream of the active run is read. *)
LEMMA ClosedPaired ==
  ASSUME DataOK, EndsReady, ClosedEmpty, ActiveRead, PairsKept,
         activeRun # NoRun => reader[activeRun] = "closing"
  PROVE  PairedBut(messages, abandoned, {})
<1>1. CASE activeRun = NoRun
  BY <1>1 DEF PairsKept
<1>2. CASE activeRun # NoRun
  <2>1. activeRun \in Runs /\ loop[activeRun] = "ended" /\ events[activeRun] = <<>>
    BY <1>2 DEF ActiveRead, EndsReady, EndReady, ClosedEmpty
  <2>2. Context(activeRun) = messages
    BY <2>1, Unread
  <2> QED
    BY <1>2, <2>1, <2>2 DEF PairsKept, RunPaired
<1> QED
  BY <1>1, <1>2

(* A run begins when the one before it is read. *)
LEMMA PairsBegin ==
  ASSUME PairsInv, NEW ms \in Messages, BeginRun(ms), ~isStreaming PROVE PairsKept'
<1>0. PICK r : r = runs + 1
  OBVIOUS
<1> DEFINE es == Users(r, ms)
<1>1. DataOK /\ RunsKept /\ EndsReady /\ ClosedEmpty /\ ActiveRead /\ PairsKept
  BY DEF PairsInv, KeptInv, AgentInv, PlacesReady
<1>2. PairedBut(messages, abandoned, {})
  BY <1>1, ClosedPaired DEF ActiveRead
<1>3. r \in Runs /\ r # NoRun /\ activeRun' = r /\ events'[r] = es /\ UNCHANGED messages
  BY <1>0, <1>1, Begins
<1>4. loop' = [loop EXCEPT ![r] = "start"] /\ abandoned' = abandoned
  BY <1>0, <1>1, RunBegun
<1>5. loop'[r] = "start"
  BY <1>1, <1>3, <1>4 DEF DataOK
<1>6. es \in Seq(Entries) /\ \A k \in DOMAIN es : es[k].what = "user"
  <2>1. es \in Seq(Entries)
    BY <1>3, OwnEntries DEF Own
  <2>2. \A k \in DOMAIN es : es[k].what = "user"
    BY DEF Users, User
  <2> QED
    BY <2>1, <2>2
<1> HIDE DEF es
<1>7. PairedBut(es, abandoned, {})
  BY <1>6, PairedPlain
<1>8. PairedBut(messages \o es, abandoned, {})
  <2>1. messages \in Seq(Entries)
    BY <1>1 DEF DataOK
  <2> QED
    BY <1>2, <1>6, <1>7, <2>1, PairedJoined
<1>9. Context(r)' = messages \o es
  BY <1>3 DEF Context
<1>10. RunPaired(r)'
  BY <1>4, <1>5, <1>8, <1>9 DEF RunPaired
<1> QED
  BY <1>3, <1>10 DEF PairsKept

(* A run is given up: its calls do not count any more. *)
LEMMA PairsGivenUp ==
  ASSUME PairsInv, ForceAbort PROVE PairsKept'
<1> DEFINE r == activeRun
           B == abandoned \cup {r}
<1>1. DataOK /\ RunsKept /\ ActiveRead /\ PairsKept
  BY DEF PairsInv, KeptInv, AgentInv
<1>2. /\ r # NoRun /\ activeRun' = NoRun /\ abandoned' = B /\ UNCHANGED messages
  BY <1>1 DEF ForceAbort, RunsKept, LatestRun
<1>3. r \in Runs /\ RunPaired(r)
  BY <1>1, <1>2 DEF ActiveRead, PairsKept
<1> DEFINE b == events[r]
           c == Context(r)
<1>4. messages \in Seq(Entries) /\ b \in Seq(Entries) /\ Own(r, b) /\ c = messages \o b
  BY <1>1, <1>3 DEF DataOK, RunsKept, EventsOwn, Context
<1> HIDE DEF r, b, c
<1>5. \A k \in DOMAIN b : b[k].what = "result" => b[k].run \in B
  BY <1>4 DEF Own, Shows
<1>6. PICK X : PairedBut(c, abandoned, X) /\ \A p \in X : p \in DOMAIN c /\ c[p].run = r
  <2>1. CASE loop[r] = "tools"
    <3>1. PICK p \in DOMAIN c : Open(c, abandoned, p, r, Len(calls[r]), Answered(r))
      BY <1>3, <2>1 DEF RunPaired, HasOpen, c
    <3>2. c[p].run = r /\ PairedBut(c, abandoned, {p})
      BY <3>1 DEF Open, Assistant
    <3> QED
      BY <3>1, <3>2
  <2>2. CASE loop[r] # "tools"
    <3>1. PairedBut(c, abandoned, {})
      BY <1>3, <2>2 DEF RunPaired, c
    <3> QED
      BY <3>1
  <2> QED
    BY <2>1, <2>2
<1>7. \A p \in X : p \in DOMAIN messages => messages[p].run \in B
  <2>1. \A p \in DOMAIN messages : c[p] = messages[p]
    BY <1>4, JoinedPlaces
  <2> QED
    BY <1>6, <2>1
<1>8. PairedBut(messages, B, {})
  <2>1. PairedBut(messages \o b, abandoned, X) /\ abandoned \subseteq B
    BY <1>4, <1>6
  <2> HIDE DEF B
  <2> QED
    BY <1>4, <1>5, <1>7, <2>1, PairedFront
<1> QED
  BY <1>2, <1>8 DEF PairsKept

(* The user's steps. *)
LEMMA PairsOfUser == ASSUME PairsInv, UserStep PROVE PairsKept'
<1>1. DataOK /\ ActiveRead /\ PairsKept
  BY DEF PairsInv, KeptInv, AgentInv
<1>2. CASE Prompt \/ ContinueQueued \/ ContinueTranscript
  <2>1. <<issued + 1>> \in Messages \/ ~Prompt
    BY <1>1, BatchAssumption DEF Prompt, NewMessage, DataOK, Messages, UserMsgs
  <2>2. Taken(steeringQueue) \in Messages /\ Taken(followUpQueue) \in Messages /\ <<>> \in Messages
    BY <1>1, SplitQueue, NothingSilent DEF DataOK
  <2>3. ~isStreaming /\ \E ms \in Messages : BeginRun(ms)
    BY <1>2, <2>1, <2>2 DEF Prompt, ContinueQueued, ContinueTranscript
  <2> QED
    BY <2>3, PairsBegin
<1>3. CASE Steer \/ FollowUp \/ Abort
  <2>1. UNCHANGED <<activeRun, messages, abandoned, events, loop, calls, result>>
    BY <1>3 DEF Steer, FollowUp, Abort, batchVars, loopVars, streamVars, queueVars
  <2> QED
    BY <1>1, <2>1, PairsSame
<1>4. CASE ForceAbort
  BY <1>4, PairsGivenUp
<1> QED
  BY <1>2, <1>3, <1>4 DEF UserStep

LEMMA JoinedThrice ==
  ASSUME NEW S, NEW a \in Seq(S), NEW b \in Seq(S), NEW c \in Seq(S)
  PROVE  a \o (b \o c) = (a \o b) \o c /\ a \o b \in Seq(S)
<1>1. (a \o b) \o c = a \o (b \o c)
  BY ConcatAssociative
<1>2. a \o b \in Seq(S)
  OBVIOUS
<1> QED
  BY <1>1, <1>2

(* What the active run emits is added to what it has been shown. *)
LEMMA ContextPushed ==
  ASSUME DataOK, ActiveRead, NEW r \in Runs, activeRun = r, EndsReady, loop[r] # "ended",
         NEW es \in Seq(Entries), Push(r, es), UNCHANGED messages
  PROVE  Context(r)' = Context(r) \o es /\ Context(r) \in Seq(Entries)
<1>1. r # NoRun /\ reader[r] # "over"
  BY DEF Runs, NoRun, ActiveRead
<1>2. events'[r] = events[r] \o es
  BY <1>1 DEF Push, DataOK
<1>3. messages \in Seq(Entries) /\ events[r] \in Seq(Entries)
  BY DEF DataOK
<1>4. messages \o (events[r] \o es) = (messages \o events[r]) \o es /\ messages \o events[r] \in Seq(Entries)
  <2> DEFINE a == messages
             b == events[r]
  <2>1. a \in Seq(Entries) /\ b \in Seq(Entries)
    BY <1>3
  <2> HIDE DEF a, b
  <2>2. a \o (b \o es) = (a \o b) \o es /\ a \o b \in Seq(Entries)
    BY <2>1, JoinedThrice
  <2> QED
    BY <2>2 DEF a, b
<1> QED
  BY <1>2, <1>4 DEF Context

(* An answer without calls, and a broken one, is paired. *)
LEMMA AnswerPaired ==
  ASSUME NEW r \in Runs, NEW A
  PROVE  /\ PairedBut(<<AgentEnd>>, A, {}) /\ PairedBut(<<Failure>>, A, {})
         /\ PairedBut(<<Assistant(r, 0)>>, A, {})
         /\ \A ms \in Messages : PairedBut(Users(r, ms), A, {})
         /\ \A n \in Nat : PairedBut(<<Assistant(r, n)>> \o Results(r, n) \o <<AgentEnd>>, A, {})
<1>1. PairedBut(<<AgentEnd>>, A, {}) /\ PairedBut(<<Failure>>, A, {})
  <2>1. /\ \A k \in DOMAIN <<AgentEnd>> : <<AgentEnd>>[k].what = "end"
        /\ \A k \in DOMAIN <<Failure>> : <<Failure>>[k].what = "fail"
    BY DEF AgentEnd, Failure
  <2> QED
    BY <2>1, PairedPlain
<1>2. ASSUME NEW n \in Nat PROVE PairedBut(<<Assistant(r, n)>> \o Results(r, n), A, {})
  <2> DEFINE a == <<Assistant(r, n)>>
             b == Results(r, n)
             o == <<>> \o a
  <2>1. a \in Seq(Entries) /\ b \in Seq(Entries)
    BY OwnEntries, PlainResults DEF Own
  <2>2. o = a /\ <<>> \in Seq(Entries) /\ Len(<<>>) + 1 = 1
    BY <2>1, ConcatEmptySeq
  <2>3. PairedBut(<<>>, A, {})
    BY DEF PairedBut
  <2>4. Open(<<>> \o a, A, Len(<<>>) + 1, r, n, {})
    BY <2>2, <2>3, OpenBegins
  <2> HIDE DEF a, o
  <2>5. Open(a, A, 1, r, n, {})
    BY <2>2, <2>4 DEF o
  <2>6. Len(b) = n /\ DOMAIN b = 1..n /\ \A i \in 1..n : b[i] = Result(r, i)
    BY DEF Results
  <2> HIDE DEF b
  <2>7. Span(b, 1, Len(b)) = ResultsOf(r, 1..n)
    BY <2>6 DEF Span, ResultsOf
  <2>8. Cardinality(1..n) = n
    BY FS_Interval
  <2>9. {} \cup (1..n) = 1..n /\ {} \in SUBSET (1..n) /\ 1..n \in SUBSET (1..n) /\ {} \cap (1..n) = {}
    OBVIOUS
  <2>10. Open(a \o b, A, 1, r, n, {} \cup (1..n))
    BY <2>1, <2>5, <2>6, <2>7, <2>8, <2>9, OpenGrows
  <2>11. Open(a \o b, A, 1, r, n, 1..n) /\ a \o b \in Seq(Entries)
    BY <2>1, <2>9, <2>10
  <2>12. PairedBut(a \o b, A, {})
    <3> DEFINE c == a \o b
    <3>1. Open(c, A, 1, r, n, 1..n) /\ c \in Seq(Entries)
      BY <2>11
    <3> HIDE DEF c
    <3>2. PairedBut(c, A, {})
      BY <3>1, OpenCloses
    <3> QED
      BY <3>2 DEF c
  <2> QED
    BY <2>12 DEF a, b
<1>3. ASSUME NEW n \in Nat
      PROVE  PairedBut(<<Assistant(r, n)>> \o Results(r, n) \o <<AgentEnd>>, A, {})
  <2> DEFINE a == <<Assistant(r, n)>> \o Results(r, n)
             b == <<AgentEnd>>
  <2>1. a \in Seq(Entries) /\ b \in Seq(Entries)
    BY BrokenEntries, OwnEntries DEF Own
  <2>2. PairedBut(a, A, {}) /\ PairedBut(b, A, {})
    BY <1>1, <1>2
  <2> HIDE DEF a, b
  <2>3. PairedBut(a \o b, A, {})
    BY <2>1, <2>2, PairedJoined
  <2> QED
    BY <2>3 DEF a, b
<1>4. PairedBut(<<Assistant(r, 0)>>, A, {})
  <2> DEFINE a == <<Assistant(r, 0)>>
  <2>1. PairedBut(a \o Results(r, 0), A, {})
    BY <1>2
  <2>2. Results(r, 0) = <<>>
    BY DEF Results
  <2>3. a \in Seq(Entries)
    BY OwnEntries DEF Own
  <2>4. a \o <<>> = a
    BY <2>3, ConcatEmptySeq
  <2> HIDE DEF a
  <2>5. PairedBut(a, A, {})
    BY <2>1, <2>2, <2>4
  <2> QED
    BY <2>5 DEF a
<1>5. ASSUME NEW ms \in Messages PROVE PairedBut(Users(r, ms), A, {})
  <2>1. \A k \in DOMAIN Users(r, ms) : Users(r, ms)[k].what = "user"
    BY DEF Users, User
  <2> QED
    BY <2>1, PairedPlain
<1> QED
  BY <1>1, <1>3, <1>4, <1>5

(* A loop that runs no tools emits what is paired by itself. *)
LEMMA PairsPlain ==
  ASSUME PairsInv, NEW r \in Runs, activeRun = r, UNCHANGED <<activeRun, messages, abandoned>>,
         loop[r] \notin {"tools", "ended"}, loop'[r] # "tools",
         NEW es \in Seq(Entries), Push(r, es), PairedBut(es, abandoned, {})
  PROVE  PairsKept'
<1>1. DataOK /\ ActiveRead /\ EndsReady /\ PairsKept /\ r # NoRun
  BY DEF PairsInv, KeptInv, AgentInv, PlacesReady, Runs, NoRun
<1>2. Context(r)' = Context(r) \o es /\ Context(r) \in Seq(Entries)
  BY <1>1, ContextPushed
<1>3. PairedBut(Context(r), abandoned, {})
  BY <1>1 DEF PairsKept, RunPaired
<1>4. PairedBut(Context(r) \o es, abandoned, {})
  BY <1>2, <1>3, PairedJoined
<1>5. RunPaired(r)'
  BY <1>2, <1>4 DEF RunPaired
<1> QED
  BY <1>1, <1>5 DEF PairsKept

(* A step that emits nothing and is not about results. *)
LEMMA PairsQuiet ==
  ASSUME PairsInv, NEW r \in Runs, activeRun = r, UNCHANGED <<activeRun, messages, abandoned, events, calls, result>>,
         loop[r] = "tools" <=> loop'[r] = "tools"
  PROVE  PairsKept'
<1>1. PairsKept /\ r # NoRun
  BY DEF PairsInv, Runs, NoRun
<1>2. Context(r)' = Context(r) /\ Answered(r)' = Answered(r)
  BY DEF Context, Answered, Indices
<1>3. RunPaired(r)
  BY <1>1 DEF PairsKept
<1>4. RunPaired(r)'
  BY <1>2, <1>3 DEF RunPaired
<1> QED
  BY <1>1, <1>4 DEF PairsKept

(* The model asks for tools. *)
LEMMA PairsOpen ==
  ASSUME PairsInv, NEW r \in Runs, activeRun = r, AnswerWithCalls(r) PROVE PairsKept'
<1>1. /\ DataOK /\ BatchInv /\ ActiveRead /\ EndsReady /\ PairsKept /\ r # NoRun
  BY DEF PairsInv, KeptInv, AgentInv, PlacesReady, Runs, NoRun
<1>2. PICK kinds \in Batches : Push(r, <<Assistant(r, Len(kinds))>>) /\ BeginBatch(r, kinds)
  BY DEF AnswerWithCalls
<1> DEFINE n == Len(kinds)
           b == <<Assistant(r, n)>>
<1>3. kinds \in Seq(Kinds) /\ n \in Nat /\ DOMAIN kinds = 1..n
  BY BatchAssumption
<1>4. b \in Seq(Entries)
  BY <1>3, OwnEntries DEF Own
<1>5. /\ loop[r] = "model" /\ UNCHANGED <<messages, abandoned, activeRun>>
      /\ loop' = [loop EXCEPT ![r] = "tools"]
  BY DEF AnswerWithCalls, agentVars, queueVars, Goto
<1>6. loop'[r] = "tools"
  BY <1>1, <1>5 DEF DataOK
<1>7. Context(r)' = Context(r) \o b /\ Context(r) \in Seq(Entries)
  BY <1>1, <1>2, <1>4, <1>5, ContextPushed
<1>8. PairedBut(Context(r), abandoned, {})
  BY <1>1, <1>5 DEF PairsKept, RunPaired
<1>9. calls'[r] = kinds /\ Answered(r)' = {}
  <2> DEFINE none == [i \in DOMAIN kinds |-> "none"]
  <2>1. calls' = [calls EXCEPT ![r] = kinds] /\ result' = [result EXCEPT ![r] = none]
    BY <1>2 DEF BeginBatch
  <2> HIDE DEF none
  <2>2. calls'[r] = kinds /\ result'[r] = none
    BY <1>1, <2>1, Update DEF BatchInv, Rows
  <2> QED
    BY <2>2 DEF Answered, Indices, none
<1> HIDE DEF n
<1>10. Open(Context(r) \o b, abandoned, Len(Context(r)) + 1, r, n, {})
  BY <1>3, <1>7, <1>8, OpenBegins
<1> HIDE DEF b
<1>11. HasOpen(Context(r) \o b, abandoned, r, n, {})
  BY <1>10 DEF HasOpen, Open
<1>12. RunPaired(r)'
  BY <1>5, <1>6, <1>7, <1>9, <1>11 DEF RunPaired, n
<1> QED
  BY <1>1, <1>5, <1>12 DEF PairsKept

(* The results in hand of the batch. *)
LEMMA BatchNumbers ==
  ASSUME BatchInv, NEW r \in Runs
  PROVE  /\ calls[r] \in Seq(Kinds) /\ Len(calls[r]) \in Nat /\ Indices(r) = 1..Len(calls[r])
         /\ Answered(r) \in SUBSET (1..Len(calls[r])) /\ Unanswered(r) \in SUBSET (1..Len(calls[r]))
         /\ Answered(r) \cap Unanswered(r) = {} /\ Answered(r) \cup Unanswered(r) = 1..Len(calls[r])
<1>1. calls[r] \in Seq(Kinds)
  BY DEF BatchInv, RunBatch
<1>2. Len(calls[r]) \in Nat /\ Indices(r) = 1..Len(calls[r])
  BY <1>1 DEF Indices
<1> QED
  BY <1>1, <1>2 DEF Answered, Unanswered

(* A call ends: its result is the next one. *)
LEMMA PairsGrow ==
  ASSUME PairsInv, NEW r \in Runs, activeRun = r, NEW i \in Indices(r), CallEnds(r, i) PROVE PairsKept'
<1>1. /\ DataOK /\ BatchInv /\ HandsEmpty /\ ActiveRead /\ EndsReady /\ PairsKept /\ r # NoRun /\ ResultsLate
  BY DEF PairsInv, KeptInv, AgentInv, RunsKept, PlacesReady, Runs, NoRun
<1> DEFINE n == Len(calls[r])
           b == <<Result(r, i)>>
           S == Answered(r)
<1>2. /\ calls[r] \in Seq(Kinds) /\ n \in Nat /\ Indices(r) = 1..n /\ S \in SUBSET (1..n)
  BY <1>1, BatchNumbers
<1>3. loop[r] = "tools" /\ i \in 1..n /\ i \in Nat
  <2>1. i \in 1..n /\ i \in Nat
    BY <1>2
  <2>2. calls[r] # <<>>
    BY DEF Indices
  <2> QED
    BY <1>1, <2>1, <2>2 DEF HandsEmpty
<1>4. /\ Push(r, b) /\ EndCall(r, i) /\ UNCHANGED <<messages, abandoned, loop, calls, activeRun>>
  BY DEF CallEnds, EndCall, agentVars, loopVars
<1>5. b \in Seq(Entries) /\ Len(b) = 1 /\ b[1] = Result(r, i)
  <2>1. b \in Seq(Entries)
    BY <1>3, OwnEntries DEF Own
  <2> QED
    BY <2>1
<1>6. Context(r)' = Context(r) \o b /\ Context(r) \in Seq(Entries)
  BY <1>1, <1>3, <1>4, <1>5, ContextPushed
<1>7. i \notin S
  BY <1>1, <1>4 DEF ResultsLate, EndCall, Answered
<1>8. Answered(r)' = S \cup {i}
  <2> DEFINE answer == IF triggered(r) THEN "skipped" ELSE "tool"
  <2>1. result' = [result EXCEPT ![r] = [result[r] EXCEPT ![i] = answer]] /\ answer # "none"
    BY <1>4 DEF EndCall
  <2> HIDE DEF answer
  <2>2. result'[r] = [result[r] EXCEPT ![i] = answer]
    BY <1>1, <2>1, Update DEF BatchInv, Rows
  <2>3. result[r] \in [Indices(r) -> Answers]
    BY <1>1 DEF BatchInv, RunBatch
  <2>4. result'[r][i] # "none" /\ \A k \in Indices(r) : k # i => result'[r][k] = result[r][k]
    BY <2>1, <2>2, <2>3
  <2> QED
    BY <1>4, <2>4 DEF Answered, Indices
<1> HIDE DEF n, b, S
<1>9. PICK p \in DOMAIN Context(r) : Open(Context(r), abandoned, p, r, n, S)
  BY <1>1, <1>3 DEF PairsKept, RunPaired, HasOpen, n, S
<1>10. /\ {i} \in SUBSET (1..n) /\ S \cap {i} = {} /\ Len(b) = Cardinality({i})
       /\ Span(b, 1, Len(b)) = ResultsOf(r, {i})
  <2>1. Cardinality({i}) = 1
    BY FS_Singleton
  <2>2. 1..1 = {1}
    OBVIOUS
  <2>3. Span(b, 1, 1) = ResultsOf(r, {i})
    BY <1>5, <2>2 DEF Span, ResultsOf
  <2> QED
    BY <1>3, <1>5, <1>7, <2>1, <2>3
<1>11. Open(Context(r) \o b, abandoned, p, r, n, S \cup {i})
  BY <1>2, <1>5, <1>6, <1>9, <1>10, OpenGrows
<1>12. HasOpen(Context(r) \o b, abandoned, r, n, S \cup {i})
  BY <1>11 DEF HasOpen, Open
<1>13. RunPaired(r)'
  BY <1>3, <1>4, <1>6, <1>8, <1>12 DEF RunPaired, n
<1> QED
  BY <1>1, <1>4, <1>13 DEF PairsKept

(* The batch ends: the sweep closes it. *)
LEMMA PairsClose ==
  ASSUME PairsInv, NEW r \in Runs, activeRun = r, BatchEnds(r) PROVE PairsKept'
<1>1. /\ DataOK /\ BatchInv /\ ActiveRead /\ EndsReady /\ PairsKept /\ r # NoRun
  BY DEF PairsInv, KeptInv, AgentInv, PlacesReady, Runs, NoRun
<1> DEFINE n == Len(calls[r])
           b == Sweep(r)
           S == Answered(r)
           T == Unanswered(r)
<1>2. /\ calls[r] \in Seq(Kinds) /\ n \in Nat /\ S \in SUBSET (1..n) /\ T \in SUBSET (1..n)
      /\ S \cap T = {} /\ S \cup T = 1..n
  BY <1>1, BatchNumbers
<1>3. /\ Push(r, b) /\ loop[r] = "tools" /\ UNCHANGED <<messages, abandoned, activeRun>>
      /\ loop' = [loop EXCEPT ![r] = IF triggered(r) THEN "turn" ELSE "settle"]
  BY DEF BatchEnds, agentVars, queueVars, Goto
<1>4. loop'[r] # "tools"
  BY <1>1, <1>3 DEF DataOK
<1>5. b \in Seq(Entries) /\ Len(b) = Cardinality(T) /\ Span(b, 1, Len(b)) = ResultsOf(r, T)
  BY <1>2, OwnSweep, SweepAnswers DEF Own
<1>6. Context(r)' = Context(r) \o b /\ Context(r) \in Seq(Entries)
  BY <1>1, <1>3, <1>5, ContextPushed
<1> HIDE DEF n, b, S, T
<1>7. PICK p \in DOMAIN Context(r) : Open(Context(r), abandoned, p, r, n, S)
  BY <1>1, <1>3 DEF PairsKept, RunPaired, HasOpen, n, S
<1>8. Open(Context(r) \o b, abandoned, p, r, n, S \cup T)
  BY <1>2, <1>5, <1>6, <1>7, OpenGrows
<1> DEFINE c == Context(r) \o b
<1>9. c \in Seq(Entries) /\ Open(c, abandoned, p, r, n, 1..n)
  <2>1. c \in Seq(Entries)
    BY <1>5, <1>6, JoinedThrice
  <2> HIDE DEF c
  <2>2. Open(c, abandoned, p, r, n, S \cup T)
    BY <1>8 DEF c
  <2> QED
    BY <1>2, <2>1, <2>2
<1> HIDE DEF c
<1>10. PairedBut(c, abandoned, {})
  BY <1>2, <1>9, OpenCloses
<1>11. RunPaired(r)'
  BY <1>3, <1>4, <1>6, <1>10 DEF RunPaired, c
<1> QED
  BY <1>1, <1>3, <1>11 DEF PairsKept

(* The steps of the loop and of its batch. *)
LEMMA PairsOfLoop == ASSUME PairsInv, NEW r \in Runs, ProducerStep(r) PROVE PairsKept'
<1>1. /\ DataOK /\ BatchInv /\ ActiveRead /\ PairsKept
  BY DEF PairsInv, KeptInv, AgentInv
<1>2. UNCHANGED <<activeRun, messages>>
  BY LoopLeaves
<1>3. UNCHANGED abandoned
  BY DEF ProducerStep, LoopStep, CallStep, CheckEnds, CallStarts, CallEnds, InitialPoll, Inject, Answer,
     AnswerWithCalls, AnswerBroken, Throw, BatchEnds, Settle, Pause, YieldPoll, TakeFollowUps, Finish, agentVars
<1>4. CASE activeRun # r
  <2>1. Apart(r)
    BY <1>1, StepsApart
  <2> QED
    BY <1>1, <1>2, <1>3, <1>4, <2>1, PairsSame DEF Apart, ActiveRead
<1>5. CASE activeRun = r
  <2>1. ASSUME NEW label, Goto(r, label) PROVE loop'[r] = label
    BY <1>1, <2>1 DEF Goto, DataOK
  <2>2. ASSUME NEW label, Goto(r, label), label # "tools", loop[r] \notin {"tools", "ended"},
               NEW es \in Seq(Entries), Push(r, es), PairedBut(es, abandoned, {})
        PROVE  PairsKept'
    BY <1>2, <1>3, <1>5, <2>1, <2>2, PairsPlain
  <2>3. CASE InitialPoll(r) \/ Settle(r) \/ YieldPoll(r) \/ TakeFollowUps(r)
    <3>1. /\ UNCHANGED <<events, calls, result>> /\ loop[r] # "tools"
          /\ \E label : Goto(r, label) /\ label # "tools"
      BY <2>3 DEF InitialPoll, Settle, YieldPoll, TakeFollowUps, batchVars, streamVars
    <3>2. loop'[r] # "tools"
      BY <2>1, <3>1
    <3> QED
      BY <1>2, <1>3, <1>5, <3>1, <3>2, PairsQuiet
  <2>4. CASE Inject(r)
    <3> DEFINE es == Users(r, pending[r])
    <3>1. pending[r] \in Messages
      BY <1>1 DEF DataOK
    <3>2. es \in Seq(Entries) /\ PairedBut(es, abandoned, {})
      BY <3>1, OwnEntries, AnswerPaired DEF Own
    <3>3. Push(r, es) /\ Goto(r, "model") /\ loop[r] = "turn"
      BY <2>4 DEF Inject
    <3> QED
      BY <2>2, <3>2, <3>3
  <2>5. CASE Answer(r)
    <3> DEFINE es == <<Assistant(r, 0)>>
    <3>1. es \in Seq(Entries) /\ PairedBut(es, abandoned, {})
      BY OwnEntries, AnswerPaired DEF Own
    <3>2. Push(r, es) /\ Goto(r, "settleEnd") /\ loop[r] = "model"
      BY <2>5 DEF Answer
    <3> QED
      BY <2>2, <3>1, <3>2
  <2>6. CASE AnswerWithCalls(r)
    BY <1>5, <2>6, PairsOpen
  <2>7. CASE AnswerBroken(r)
    <3>1. PICK n \in Nat : Push(r, <<Assistant(r, n)>> \o Results(r, n) \o <<AgentEnd>>)
      BY <2>7, CallNumbers DEF AnswerBroken
    <3> DEFINE es == <<Assistant(r, n)>> \o Results(r, n) \o <<AgentEnd>>
    <3>2. es \in Seq(Entries) /\ PairedBut(es, abandoned, {})
      BY OwnBroken, AnswerPaired DEF Own
    <3>3. Push(r, es) /\ Goto(r, "ended") /\ loop[r] = "model"
      BY <2>7, <3>1 DEF AnswerBroken
    <3> HIDE DEF es
    <3> QED
      BY <2>2, <3>2, <3>3
  <2>8. CASE Throw(r) \/ Pause(r) \/ Finish(r)
    <3>1. PICK es \in {<<AgentEnd>>, <<Failure>>} : Push(r, es)
      BY <2>8 DEF Throw, Pause, Finish
    <3>2. es \in Seq(Entries) /\ PairedBut(es, abandoned, {})
      BY <3>1, OwnEntries, AnswerPaired DEF Own
    <3>3. Goto(r, "ended") /\ loop[r] \notin {"tools", "ended"}
      BY <2>8 DEF Throw, Pause, Finish
    <3> QED
      BY <2>2, <3>1, <3>2, <3>3
  <2>9. CASE BatchEnds(r)
    BY <1>5, <2>9, PairsClose
  <2>10. CASE CheckEnds(r) \/ \E i \in Indices(r) : CallStarts(r, i)
    <3>1. UNCHANGED <<events, loop, calls, result>>
      BY <2>10 DEF CheckEnds, CallStarts, EndCheck, StartCall, loopVars, streamVars
    <3> QED
      BY <1>2, <1>3, <1>5, <3>1, PairsQuiet
  <2>11. ASSUME NEW i \in Indices(r), CallEnds(r, i) PROVE PairsKept'
    BY <1>5, <2>11, PairsGrow
  <2> QED
    BY <2>3, <2>4, <2>5, <2>6, <2>7, <2>8, <2>9, <2>10, <2>11 DEF ProducerStep, LoopStep, CallStep
<1> QED
  BY <1>4, <1>5

(* An entry goes from the stream into the transcript. *)
LEMMA HeadMoved ==
  ASSUME NEW S, NEW a \in Seq(S), NEW b \in Seq(S), b # <<>>
  PROVE  Append(a, Head(b)) \o Tail(b) = a \o b
<1> DEFINE h == <<Head(b)>>
           t == Tail(b)
<1>1. Head(b) \in S /\ t \in Seq(S) /\ b = h \o t /\ Append(a, Head(b)) = a \o h
  <2>1. Head(b) \in S /\ t \in Seq(S)
    OBVIOUS
  <2>2. b = h \o t
    OBVIOUS
  <2>3. Append(a, Head(b)) = a \o h
    OBVIOUS
  <2> QED
    BY <2>1, <2>2, <2>3
<1>2. h \in Seq(S) /\ t \in Seq(S)
  BY <1>1
<1> HIDE DEF h, t
<1>3. a \o (h \o t) = (a \o h) \o t
  BY <1>2, JoinedThrice
<1> QED
  BY <1>1, <1>3 DEF t

(* The end of a run is not part of the transcript. *)
LEMMA EndDropped ==
  ASSUME PairsInv, NEW r \in Runs, activeRun = r, events[r] # <<>>, NEW e \in {AgentEnd, Failure},
         Head(events[r]) = e
  PROVE  /\ PairedBut(messages, abandoned, {}) /\ Tail(events[r]) = <<>> /\ loop[r] = "ended"
         /\ messages \in Seq(Entries)
<1>1. /\ DataOK /\ EndsLast /\ EndsReady /\ PairsKept /\ r # NoRun
  BY DEF PairsInv, KeptInv, AgentInv, PlacesReady, Runs, NoRun
<1>2. events[r] = <<e>> /\ Tail(events[r]) = <<>> /\ loop[r] = "ended"
  BY <1>1, EndRead, EndKinds
<1>3. PairedBut(messages \o <<e>>, abandoned, {})
  BY <1>1, <1>2 DEF PairsKept, RunPaired, Context
<1>4. <<e>> \in Seq(Entries) /\ messages \in Seq(Entries)
  BY <1>1, OwnEntries DEF Own, DataOK
<1>5. \A k \in DOMAIN <<e>> : <<e>>[k].what # "result"
  BY EndKinds
<1> DEFINE b == <<e>>
<1>6. b \in Seq(Entries) /\ PairedBut(messages \o b, abandoned, {}) /\ \A k \in DOMAIN b : b[k].what # "result"
  BY <1>3, <1>4, <1>5
<1> HIDE DEF b
<1>7. PairedBut(messages, abandoned, {})
  BY <1>4, <1>6, PairedFront
<1> QED
  BY <1>2, <1>4, <1>7

(* The steps of the reader. *)
LEMMA PairsOfReader == ASSUME PairsInv, NEW r \in Runs, ReadStep(r) PROVE PairsKept'
<1>1. /\ DataOK /\ BatchInv /\ ActiveRead /\ PairsKept /\ EndsReady /\ ClosedEmpty
      /\ r # NoRun
  BY DEF PairsInv, KeptInv, AgentInv, PlacesReady, Runs, NoRun
<1>2. UNCHANGED abandoned
  BY DEF ReadStep, ReadMessage, ReadEnd, Finally, ReadFailure, Leave
<1>3. CASE ReadMessage(r)
  <2>1. /\ events[r] # <<>> /\ activeRun = r /\ UNCHANGED <<activeRun, loop, calls, result>>
        /\ messages' = Append(messages, Head(events[r])) /\ events' = [events EXCEPT ![r] = Tail(events[r])]
    BY <1>3 DEF ReadMessage, Consumed, batchVars, queueVars, loopVars
  <2>2. messages \in Seq(Entries) /\ events[r] \in Seq(Entries) /\ events'[r] = Tail(events[r])
    BY <1>1, <2>1 DEF DataOK
  <2>3. messages' \o events'[r] = messages \o events[r]
    BY <2>1, <2>2, HeadMoved
  <2>4. Context(r)' = Context(r) /\ Answered(r)' = Answered(r)
    BY <2>1, <2>3 DEF Context, Answered, Indices
  <2>5. RunPaired(r)
    BY <1>1, <2>1 DEF PairsKept
  <2>6. RunPaired(r)'
    BY <1>2, <2>1, <2>4, <2>5 DEF RunPaired
  <2> QED
    BY <1>1, <2>1, <2>6 DEF PairsKept
<1>4. CASE ReadEnd(r)
  <2>1. /\ events[r] # <<>> /\ activeRun = r /\ Head(events[r]) = AgentEnd
        /\ UNCHANGED <<activeRun, messages, loop>> /\ events' = [events EXCEPT ![r] = Tail(events[r])]
    BY <1>4 DEF ReadEnd, Consumed, queueVars, loopVars
  <2>2. PairedBut(messages, abandoned, {}) /\ Tail(events[r]) = <<>> /\ loop[r] = "ended" /\ messages \in Seq(Entries)
    BY <2>1, EndDropped
  <2>3. events'[r] = <<>>
    BY <1>1, <2>1, <2>2 DEF DataOK
  <2>4. messages \o <<>> = messages
    BY <2>2, ConcatEmptySeq
  <2>5. Context(r)' = messages
    BY <2>1, <2>3, <2>4 DEF Context
  <2>6. RunPaired(r)'
    BY <1>2, <2>1, <2>2, <2>5 DEF RunPaired
  <2> QED
    BY <1>1, <2>1, <2>6 DEF PairsKept
<1>5. CASE ReadFailure(r)
  <2>1. /\ events[r] # <<>> /\ activeRun = r /\ Head(events[r]) = Failure /\ activeRun' = NoRun
        /\ messages' = Append(messages, Assistant(r, 0))
    BY <1>5 DEF ReadFailure, Finalize
  <2>2. PairedBut(messages, abandoned, {}) /\ messages \in Seq(Entries)
    BY <2>1, EndDropped
  <2> DEFINE b == <<Assistant(r, 0)>>
  <2>3. b \in Seq(Entries) /\ PairedBut(b, abandoned, {})
    BY OwnEntries, AnswerPaired DEF Own
  <2>4. Assistant(r, 0) \in Entries
    BY EntryKinds DEF Runs
  <2>5. messages' = messages \o b
    BY <2>1, <2>2, <2>4
  <2> HIDE DEF b
  <2>6. PairedBut(messages \o b, abandoned, {})
    BY <2>2, <2>3, PairedJoined
  <2> QED
    BY <1>2, <2>1, <2>5, <2>6 DEF PairsKept
<1>6. CASE Finally(r) /\ activeRun = r
  <2>1. activeRun' = NoRun /\ UNCHANGED messages /\ reader[r] = "closing"
    BY <1>6 DEF Finally, Finalize
  <2>2. PairedBut(messages, abandoned, {})
    BY <1>1, <1>6, <2>1, ClosedPaired
  <2> QED
    BY <1>2, <2>1, <2>2 DEF PairsKept
<1>7. CASE (Finally(r) \/ Leave(r)) /\ activeRun # r
  <2>1. UNCHANGED <<activeRun, messages>>
    BY <1>7 DEF Finally, Leave, queueVars
  <2>2. Apart(r)
    BY <1>1, StepsApart
  <2> QED
    BY <1>1, <1>2, <1>7, <2>1, <2>2, PairsSame DEF Apart, ActiveRead
<1>8. Leave(r) => activeRun # r
  BY DEF Leave
<1> QED
  BY <1>3, <1>4, <1>5, <1>6, <1>7, <1>8 DEF ReadStep

(* PairsInv is inductive. *)
LEMMA PairsStep == ASSUME PairsInv, [Next]_vars PROVE PairsInv'
<1>1. KeptInv'
  BY KeptStep DEF PairsInv
<1>2. BatchInv /\ ResultsLate
  BY DEF PairsInv, KeptInv, AgentInv
<1>3. ResultsLate'
  BY <1>2, ResultsLateStep
<1>4. CASE Next
  <2>1. /\ DataOK /\ LatestRun /\ LaterRuns /\ HandsEmpty /\ EndsReady /\ EndsLast /\ ClosedEmpty /\ ActiveRead
    BY DEF PairsInv, KeptInv, AgentInv, RunsKept, PlacesReady
  <2>2. EndsLast'
    BY <1>2, <1>4, <2>1, EndsLastStep
  <2>3. ClosedEmpty'
    BY <1>2, <1>4, <2>1, ClosedEmptyStep
  <2>4. ActiveRead'
    BY <1>4, <2>1, ActiveReadStep
  <2>5. PairsKept'
    BY <1>4, PairsOfUser, PairsOfLoop, PairsOfReader DEF Next
  <2> QED
    BY <1>1, <1>3, <2>2, <2>3, <2>4, <2>5 DEF PairsInv
<1>5. CASE UNCHANGED vars
  <2>1. UNCHANGED <<events, reader, activeRun, isStreaming, messages, abandoned, loop, calls, result>>
    BY <1>5 DEF vars, batchVars, queueVars, agentVars, loopVars, streamVars
  <2>2. EndsLast' /\ ClosedEmpty' /\ ActiveRead'
    BY <2>1 DEF PairsInv, EndsLast, EndLast, ClosedEmpty, ActiveRead
  <2>3. PairsKept'
    BY <2>1, PairsSame DEF PairsInv
  <2> QED
    BY <1>1, <1>3, <2>2, <2>3 DEF PairsInv
<1> QED
  BY <1>4, <1>5

(* And holds initially. *)
LEMMA InitPairs == Init => PairsInv
<1> SUFFICES ASSUME Init PROVE PairsInv
  OBVIOUS
<1>1. KeptInv
  BY InitKept
<1>2. EndsLast /\ ClosedEmpty /\ ActiveRead
  BY EndLastOne DEF Init, EndsLast, ClosedEmpty, ActiveRead
<1>3. ResultsLate
  <2>1. \A r \in Runs : calls[r] = <<>>
    BY DEF Init
  <2> QED
    BY <2>1 DEF ResultsLate, Indices
<1>4. PairedBut(messages, abandoned, {}) /\ activeRun = NoRun
  <2>1. \A k \in DOMAIN messages : messages[k].what = "user"
    BY DEF Init, User
  <2> QED
    BY <2>1, PairedPlain DEF Init
<1> QED
  BY <1>1, <1>2, <1>3, <1>4 DEF PairsInv, PairsKept

(* CallsArePaired (agent-loop.ts): whenever the model is called and whenever  *)
(* the agent is idle, every tool call in the transcript has its one result   *)
(* behind it, over batches, steering, aborts, failures and abandoned runs.   *)
THEOREM EveryCallIsAnswered == Spec => []CallsArePaired
<1>1. ASSUME PairsInv PROVE CallsArePaired
  <2>1. PairsKept
    BY <1>1 DEF PairsInv
  <2>2. activeRun = NoRun => Paired(messages)
    BY <2>1, Pairing DEF PairsKept
  <2>3. activeRun # NoRun /\ loop[activeRun] = "model" => Paired(Context(activeRun))
    BY <2>1, Pairing DEF PairsKept, RunPaired
  <2> QED
    BY <2>2, <2>3 DEF CallsArePaired
<1> QED
  BY <1>1, InitPairs, PairsStep, PTL DEF Spec

(* WaitsEndInTime (agent.ts, #runLoop, forceAbort): a run's promise is resolved *)
(* only when the run is over or given up, and a run that begins before can     *)
(* take its place only once the reader has seen its end.                      *)
THEOREM WaitsEndWhenOver == Spec => [][WaitsEndInTime]_vars
<1>1. ASSUME PairsInv, [Next]_vars PROVE [WaitsEndInTime]_vars
  <2>1. /\ activeRun = runningPrompt /\ DataOK /\ ActiveRead
    BY <1>1 DEF PairsInv, KeptInv, AgentInv, RunsKept, LatestRun
  <2>2. SUFFICES ASSUME Next, NEW r \in Runs, runningPrompt = r, runningPrompt' # r
                 PROVE  IF runningPrompt' = NoRun THEN reader'[r] = "over" \/ r \in abandoned'
                                                  ELSE reader[r] = "closing"
    BY <1>1 DEF WaitsEndInTime
  <2>3. r # NoRun
    BY BatchAssumption DEF Runs, NoRun
  <2>4. ASSUME NEW ms, BeginRun(ms), ~isStreaming PROVE runningPrompt' # NoRun /\ reader[r] = "closing"
    <3>1. runningPrompt' = runs + 1 /\ runs \in Nat
      BY <2>1, <2>4, BatchAssumption DEF BeginRun, DataOK
    <3> QED
      BY <2>1, <2>2, <2>3, <2>4, <3>1 DEF ActiveRead, NoRun
  <2>5. CASE UserStep
    <3>1. CASE ForceAbort
      BY <2>1, <2>2, <3>1 DEF ForceAbort
    <3>2. CASE Prompt \/ ContinueQueued \/ ContinueTranscript
      <4>1. ~isStreaming /\ \E ms : BeginRun(ms)
        BY <3>2 DEF Prompt, ContinueQueued, ContinueTranscript
      <4> QED
        BY <2>4, <4>1
    <3>3. CASE Steer \/ FollowUp \/ Abort
      BY <2>2, <3>3 DEF Steer, FollowUp, Abort
    <3> QED
      BY <2>5, <3>1, <3>2, <3>3 DEF UserStep
  <2>6. ASSUME NEW q \in Runs, ProducerStep(q) PROVE FALSE
    BY <2>2, <2>6, LoopLeaves
  <2>7. ASSUME NEW q \in Runs, ReadStep(q)
        PROVE  q = r /\ runningPrompt' = NoRun /\ reader'[r] = "over"
    <3>1. ~(ReadMessage(q) \/ ReadEnd(q) \/ Leave(q))
      BY <2>2 DEF ReadMessage, ReadEnd, Leave
    <3>2. CASE Finally(q)
      BY <2>1, <2>2, <3>2 DEF Finally, Finalize, DataOK
    <3>3. CASE ReadFailure(q)
      BY <2>1, <2>2, <3>3 DEF ReadFailure, Finalize, DataOK
    <3> QED
      BY <2>7, <3>1, <3>2, <3>3 DEF ReadStep
  <2> QED
    BY <2>2, <2>5, <2>6, <2>7 DEF Next
<1> QED
  BY <1>1, InitPairs, PairsStep, PTL DEF Spec
===============================================================================
