-------------------------- MODULE YieldQueue_proofs --------------------------
(* The way of background results into the transcript, for any number of jobs, *)
(* prompts and generations: what was on its way when a context was cleared    *)
(* stays out, unless a run that began while the clear waited holds it.        *)
EXTENDS YieldQueue, TLAPS

(* A follow-up carries queued results, each in one batch. *)
BatchesKept ==
  /\ \A i \in DOMAIN followUps : \A r \in followUps[i] : result[r] = "followUp"
  /\ \A i, j \in DOMAIN followUps : i # j => followUps[i] \cap followUps[j] = {}

(* Only a run at work holds results. *)
RunsHold == Taken # {} => turn = "loop"

(* A clear that goes on waits for the run, waits for ever, or began before it. *)
ClearWaits ==
  ("clear" \in aborting /\ turn # "idle") => (late \/ awaits["clear"] \cap {"run", "gone"} # {})

(* What may come to the transcript, and what has, was not cleared. *)
Open == UnderWay \union {"none", "injected"}
NothingCleared == \A r \in Result : result[r] \in Open => "clear" \notin since[r]

ClearInv == TypeOK /\ BatchesKept /\ RunsHold /\ ClearWaits /\ NothingCleared

-----------------------------------------------------------------------------
LEMMA InitClear == Init => ClearInv
<1> SUFFICES ASSUME Init PROVE ClearInv
  OBVIOUS
<1>1. followUps = <<>> /\ followUps \in Seq(SUBSET Result) /\ DOMAIN followUps = {}
  BY DEF Init
<1>2. TypeOK
  BY <1>1 DEF Init, TypeOK, Place, Kinds
<1> QED
  BY <1>1, <1>2 DEF Init, ClearInv, BatchesKept, RunsHold, ClearWaits, NothingCleared, Taken

USE DEF resultVars, queueVars, taskVars, runVars, promptVars, abortVars

(* Where the results may be put. *)
LEMMA MovedTypes ==
  ASSUME TypeOK, NEW set, NEW place \in Place PROVE Moved(set, place) \in [Result -> Place]
BY DEF TypeOK, Moved

LEMMA FlushedTypes ==
  ASSUME TypeOK, NEW place \in Place PROVE Flushed(place) \in [Result -> Place]
BY DEF TypeOK, Flushed, Place

(* The first follow-up is taken, the others move up. *)
LEMMA FirstTaken ==
  ASSUME TypeOK, followUps # <<>>, followUps' = Tail(followUps)
  PROVE  /\ Head(followUps) = followUps[1] /\ followUps[1] \in SUBSET Result /\ 1 \in DOMAIN followUps
         /\ followUps' \in Seq(SUBSET Result)
         /\ \A i \in DOMAIN followUps' :
              i + 1 \in DOMAIN followUps /\ i + 1 # 1 /\ followUps'[i] = followUps[i + 1]
         /\ \A i, j \in DOMAIN followUps' : i # j => i + 1 # j + 1
BY DEF TypeOK

(* A run begins: with results of its own, and those of the run before lost. *)
LEMMA RunTypes ==
  ASSUME TypeOK, NEW results \in [Result -> Place], NEW byPrompt \in BOOLEAN,
         BeginRun(byPrompt, results)
  PROVE  /\ result' \in [Result -> Place] /\ turn' = "loop"
         /\ streaming' \in BOOLEAN /\ prompted' \in BOOLEAN /\ late' \in BOOLEAN
         /\ leaving' \in Nat
BY DEF TypeOK, BeginRun, Leaves, Place

LEMMA EndTypes ==
  ASSUME TypeOK, RunEnds
  PROVE  /\ turn' = "idle" /\ streaming' \in BOOLEAN /\ prompted' \in BOOLEAN /\ late' \in BOOLEAN
         /\ leaving' \in Nat /\ awaits' \in [Kinds -> SUBSET {"run", "resume", "gone"}]
<1>1. leaving' \in Nat
  BY DEF TypeOK, RunEnds, Leaves
<1>2. awaits' \in [Kinds -> SUBSET {"run", "resume", "gone"}]
  BY DEF TypeOK, RunEnds
<1> QED
  BY <1>1, <1>2 DEF RunEnds

LEMMA AwaitingTypes ==
  ASSUME TypeOK, NEW begins \in {"run", "resume"}, awaits' = [k \in Kinds |-> Awaiting(k, begins)]
  PROVE  awaits' \in [Kinds -> SUBSET {"run", "resume", "gone"}]
BY DEF TypeOK, Awaiting

(* The types of the state. *)
LEMMA TypesStep ==
  ASSUME TypeOK, Next
  PROVE  TypeOK'
<1> USE DEF TypeOK
<1>1. ASSUME NEW r \in Result, StartJob(r) PROVE TypeOK'
  BY <1>1 DEF StartJob, Place
<1>2. ASSUME NEW r \in Result, Enqueue(r) PROVE TypeOK'
  <2>1. tasks' \in Nat
    BY <1>2 DEF Enqueue, ScheduleIdleFlush
  <2>2. flushPending' \in BOOLEAN
    BY <1>2 DEF Enqueue, ScheduleIdleFlush
  <2>3. result' \in [Result -> Place]
    BY <1>2 DEF Enqueue, Place
  <2> QED
    BY <1>2, <2>1, <2>2, <2>3 DEF Enqueue
<1>3. ASSUME NEW r \in Result, Poll(r) PROVE TypeOK'
  <2>1. result' \in [Result -> Place]
    BY <1>3 DEF Poll, Place
  <2> QED
    BY <1>3, <2>1 DEF Poll
<1>4. ASSUME IdleFlush PROVE TypeOK'
  <2>1. tasks' \in Nat
    BY <1>4 DEF IdleFlush
  <2>2. flushPending' \in BOOLEAN
    BY <1>4 DEF IdleFlush
  <2>3. CASE SessionStreams \/ Survivors = {}
    <3>1. result' \in [Result -> Place]
      BY <1>4, <2>3, FlushedTypes DEF IdleFlush, Place
    <3> QED
      BY <1>4, <2>1, <2>3, <2>2, <3>1 DEF IdleFlush
  <2>4. CASE ~(SessionStreams \/ Survivors = {})
    <3>1. BeginRun(FALSE, Flushed("taken")) /\ awaits' = [k \in Kinds |-> Awaiting(k, "resume")]
      BY <1>4, <2>4 DEF IdleFlush
    <3>2. Flushed("taken") \in [Result -> Place]
      BY FlushedTypes DEF Place
    <3> HIDE DEF TypeOK
    <3>3. awaits' \in [Kinds -> SUBSET {"run", "resume", "gone"}]
      BY <3>1, AwaitingTypes
    <3>4. result' \in [Result -> Place] /\ turn' = "loop" /\ leaving' \in Nat
          /\ streaming' \in BOOLEAN /\ prompted' \in BOOLEAN /\ late' \in BOOLEAN
      BY <3>1, <3>2, RunTypes
    <3> QED
      BY <1>4, <2>1, <2>2, <3>3, <3>4 DEF IdleFlush, TypeOK
  <2> QED
    BY <2>3, <2>4
<1>5. ASSUME Prompt PROVE TypeOK'
  BY <1>5 DEF Prompt
<1>6. ASSUME PromptRuns PROVE TypeOK'
  <2>1. BeginRun(TRUE, result) /\ awaits' = [k \in Kinds |-> Awaiting(k, "resume")]
    BY <1>6 DEF PromptRuns
  <2>2. awaits' \in [Kinds -> SUBSET {"run", "resume", "gone"}]
    BY <2>1, AwaitingTypes
  <2>3. result' \in [Result -> Place] /\ turn' = "loop" /\ leaving' \in Nat
        /\ streaming' \in BOOLEAN /\ prompted' \in BOOLEAN /\ late' \in BOOLEAN
    BY <2>1, RunTypes
  <2> QED
    BY <1>6, <2>2, <2>3 DEF PromptRuns
<1>7. ASSUME PromptFails PROVE TypeOK'
  BY <1>7 DEF PromptFails
<1>8. ASSUME MessageEnds PROVE TypeOK'
  <2>1. result' \in [Result -> Place]
    BY <1>8, MovedTypes DEF MessageEnds, Place
  <2> QED
    BY <1>8, <2>1 DEF MessageEnds
<1>9. ASSUME BeforeYield PROVE TypeOK'
  <2>1. result' \in [Result -> Place]
    BY <1>9, FlushedTypes DEF BeforeYield, Place
  <2>2. followUps' \in Seq(SUBSET Result)
    BY <1>9 DEF BeforeYield, Survivors, Staged
  <2> QED
    BY <1>9, <2>1, <2>2 DEF BeforeYield
<1>10. ASSUME TakesFollowUp PROVE TypeOK'
  <2>1. result' \in [Result -> Place]
    BY <1>10, MovedTypes DEF TakesFollowUp, Place
  <2>2. followUps' \in Seq(SUBSET Result)
    BY <1>10, FirstTaken DEF TakesFollowUp
  <2> QED
    BY <1>10, <2>1, <2>2 DEF TakesFollowUp
<1>11. ASSUME LoopEnds PROVE TypeOK'
  <2>1. RunEnds
    BY <1>11 DEF LoopEnds
  <2>2. /\ turn' = "idle" /\ streaming' \in BOOLEAN /\ prompted' \in BOOLEAN /\ late' \in BOOLEAN
        /\ leaving' \in Nat /\ awaits' \in [Kinds -> SUBSET {"run", "resume", "gone"}]
    BY <2>1, EndTypes
  <2> QED
    BY <1>11, <2>2 DEF LoopEnds, RunEnds
<1>12. ASSUME Steered PROVE TypeOK'
  BY <1>12 DEF Steered
<1>13. ASSUME RunStops PROVE TypeOK'
  <2>1. RunEnds
    BY <1>13 DEF RunStops
  <2>2. /\ turn' = "idle" /\ streaming' \in BOOLEAN /\ prompted' \in BOOLEAN /\ late' \in BOOLEAN
        /\ leaving' \in Nat /\ awaits' \in [Kinds -> SUBSET {"run", "resume", "gone"}]
    BY <2>1, EndTypes
  <2> QED
    BY <1>13, <2>2 DEF RunStops, RunEnds
<1>14. ASSUME EndPrompt PROVE TypeOK'
  <2>1. leaving' \in Nat /\ inFlight' \in Nat
    BY <1>14 DEF EndPrompt
  <2>2. resume' \in BOOLEAN
    BY <1>14 DEF EndPrompt
  <2> QED
    BY <1>14, <2>1, <2>2 DEF EndPrompt
<1>15. ASSUME Continue PROVE TypeOK'
  <2>1. CASE ~streaming /\ followUps # <<>>
    <3>1. /\ BeginRun(FALSE, Moved(Head(followUps), "taken")) /\ followUps' = Tail(followUps)
          /\ awaits' = [k \in Kinds |-> Awaiting(k, "run")]
      BY <1>15, <2>1 DEF Continue
    <3>2. Moved(Head(followUps), "taken") \in [Result -> Place]
      BY MovedTypes DEF Place
    <3>3. followUps' \in Seq(SUBSET Result)
      BY <2>1, <3>1, FirstTaken
    <3> HIDE DEF TypeOK
    <3>4. awaits' \in [Kinds -> SUBSET {"run", "resume", "gone"}]
      BY <3>1, AwaitingTypes
    <3>5. result' \in [Result -> Place] /\ turn' = "loop" /\ leaving' \in Nat
          /\ streaming' \in BOOLEAN /\ prompted' \in BOOLEAN /\ late' \in BOOLEAN
      BY <3>1, <3>2, RunTypes
    <3> QED
      BY <1>15, <3>3, <3>4, <3>5 DEF Continue, TypeOK
  <2>2. CASE ~(~streaming /\ followUps # <<>>)
    BY <1>15, <2>2 DEF Continue
  <2> QED
    BY <2>1, <2>2
<1>16. ASSUME NEW kind \in Kinds, BeginAbort(kind) PROVE TypeOK'
  <2>1. aborting' \subseteq Kinds
    BY <1>16 DEF BeginAbort
  <2>2. awaits' \in [Kinds -> SUBSET {"run", "resume", "gone"}]
    BY <1>16 DEF BeginAbort
  <2>3. tasks' \in Nat /\ setups' \in Nat /\ leaving' \in Nat
    BY <1>16 DEF BeginAbort
  <2> QED
    BY <1>16, <2>1, <2>2, <2>3 DEF BeginAbort
<1>17. ASSUME Aborted PROVE TypeOK'
  BY <1>17 DEF Aborted, AbortEnds
<1>18. ASSUME NewSession PROVE TypeOK'
  <2>1. Replace(Moved(Undelivered \union Queued, "dropped"), Otherwise)
    BY <1>18 DEF NewSession
  <2>2. Moved(Undelivered \union Queued, "dropped") \in [Result -> Place]
    BY MovedTypes DEF Place
  <2>3. gen' \in Nat
    BY <2>1 DEF Replace
  <2>4. result' \in [Result -> Place]
    BY <2>1, <2>2 DEF Replace
  <2>5. since' \in [Result -> SUBSET {"clear", "lateClear", "other"}]
    BY <2>1 DEF Replace, Otherwise
  <2>6. followUps' \in Seq(SUBSET Result)
    BY <1>18 DEF NewSession, Reset
  <2>7. aborting' \subseteq Kinds /\ inFlight' \in Nat
    BY <1>18 DEF NewSession, AbortEnds
  <2> QED
    BY <1>18, <2>3, <2>5, <2>6, <2>7, <2>4 DEF NewSession, Reset
<1>19. ASSUME ClearContext PROVE TypeOK'
  <2>1. Replace(Moved(Undelivered \union Queued \union Staged, "dropped"), Cleared)
    BY <1>19 DEF ClearContext
  <2>2. Moved(Undelivered \union Queued \union Staged, "dropped") \in [Result -> Place]
    BY MovedTypes DEF Place
  <2>3. gen' \in Nat
    BY <2>1 DEF Replace
  <2>4. result' \in [Result -> Place]
    BY <2>1, <2>2 DEF Replace
  <2>5. since' \in [Result -> SUBSET {"clear", "lateClear", "other"}]
    BY <2>1 DEF Replace, Cleared
  <2>6. followUps' \in Seq(SUBSET Result)
    BY <1>19 DEF ClearContext, Reset
  <2>7. aborting' \subseteq Kinds /\ inFlight' \in Nat
    BY <1>19 DEF ClearContext, AbortEnds
  <2> QED
    BY <1>19, <2>3, <2>5, <2>6, <2>7, <2>4 DEF ClearContext, Reset
<1>20. ASSUME Branch PROVE TypeOK'
  <2>1. Replace(Moved(Undelivered, "dropped"), Otherwise)
    BY <1>20 DEF Branch
  <2>2. Moved(Undelivered, "dropped") \in [Result -> Place]
    BY MovedTypes DEF Place
  <2>3. gen' \in Nat /\ result' \in [Result -> Place]
        /\ since' \in [Result -> SUBSET {"clear", "lateClear", "other"}]
    BY <2>1, <2>2 DEF Replace, Otherwise
  <2> QED
    BY <1>20, <2>3 DEF Branch
<1>21. ASSUME CalmDown PROVE TypeOK'
  BY <1>21 DEF CalmDown
<1> QED
  BY <1>1, <1>2, <1>3, <1>4, <1>5, <1>6, <1>7, <1>8, <1>9, <1>10, <1>11,
     <1>12, <1>13, <1>14, <1>15, <1>16, <1>17, <1>18, <1>19, <1>20, <1>21 DEF Next

(* Batches that stay where they are. *)
LEMMA SameBatches ==
  ASSUME TypeOK, BatchesKept, followUps' = followUps,
         \A r \in Result : result[r] = "followUp" => result'[r] = "followUp"
  PROVE  BatchesKept'
<1>1. \A i \in DOMAIN followUps : \A r \in followUps[i] : r \in Result
  BY DEF TypeOK
<1> QED
  BY <1>1 DEF BatchesKept

(* The follow-ups that are left are of other results. *)
LEMMA OthersStay ==
  ASSUME TypeOK, BatchesKept, followUps # <<>>, followUps' = Tail(followUps),
         \A r \in Result : r \notin Head(followUps) /\ result[r] = "followUp" => result'[r] = result[r]
  PROVE  BatchesKept'
<1>1. ASSUME NEW i \in DOMAIN followUps', NEW r \in followUps'[i] PROVE result'[r] = "followUp"
  <2>1. r \in followUps[i + 1] /\ i + 1 \in DOMAIN followUps /\ i + 1 # 1 /\ 1 \in DOMAIN followUps
    BY FirstTaken
  <2>2. r \in Result /\ result[r] = "followUp" /\ r \notin followUps[1]
    BY <2>1 DEF BatchesKept, TypeOK
  <2> QED
    BY <2>2, FirstTaken
<1>2. ASSUME NEW i \in DOMAIN followUps', NEW j \in DOMAIN followUps', i # j
      PROVE  followUps'[i] \cap followUps'[j] = {}
  BY <1>2, FirstTaken DEF BatchesKept
<1> QED
  BY <1>1, <1>2 DEF BatchesKept

(* Results enter and leave the follow-ups by the batch. *)
LEMMA BatchesStep ==
  ASSUME TypeOK, BatchesKept, Next
  PROVE  BatchesKept'
<1> USE DEF BatchesKept
<1>1. ASSUME NEW r \in Result, StartJob(r) PROVE BatchesKept'
  <2>1. followUps' = followUps /\ \A s \in Result : result[s] = "followUp" => result'[s] = "followUp"
    BY <1>1 DEF StartJob
  <2> QED
    BY <2>1, SameBatches
<1>2. ASSUME NEW r \in Result, Enqueue(r) PROVE BatchesKept'
  <2>1. followUps' = followUps /\ \A s \in Result : result[s] = "followUp" => result'[s] = "followUp"
    BY <1>2 DEF Enqueue
  <2> QED
    BY <2>1, SameBatches
<1>3. ASSUME NEW r \in Result, Poll(r) PROVE BatchesKept'
  <2>1. followUps' = followUps /\ \A s \in Result : result[s] = "followUp" => result'[s] = "followUp"
    BY <1>3 DEF Poll
  <2> QED
    BY <2>1, SameBatches
<1>4. ASSUME IdleFlush PROVE BatchesKept'
  <2>1. followUps' = followUps /\ \A r \in Result : result[r] = "followUp" => result'[r] = "followUp"
    BY <1>4 DEF IdleFlush, BeginRun, Flushed, Survivors, Staged, Taken
  <2> QED
    BY <2>1, SameBatches
<1>5. ASSUME Prompt PROVE BatchesKept'
  <2>1. followUps' = followUps /\ \A r \in Result : result[r] = "followUp" => result'[r] = "followUp"
    BY <1>5 DEF Prompt
  <2> QED
    BY <2>1, SameBatches
<1>6. ASSUME PromptRuns PROVE BatchesKept'
  <2>1. followUps' = followUps /\ \A r \in Result : result[r] = "followUp" => result'[r] = "followUp"
    BY <1>6 DEF PromptRuns, BeginRun, Taken
  <2> QED
    BY <2>1, SameBatches
<1>7. ASSUME PromptFails PROVE BatchesKept'
  <2>1. followUps' = followUps /\ \A r \in Result : result[r] = "followUp" => result'[r] = "followUp"
    BY <1>7 DEF PromptFails
  <2> QED
    BY <2>1, SameBatches
<1>8. ASSUME MessageEnds PROVE BatchesKept'
  <2>1. followUps' = followUps /\ \A r \in Result : result[r] = "followUp" => result'[r] = "followUp"
    BY <1>8 DEF MessageEnds, Moved, Taken
  <2> QED
    BY <2>1, SameBatches
<1>9. ASSUME BeforeYield PROVE BatchesKept'
  <2>1. result' = Flushed("followUp")
    BY <1>9 DEF BeforeYield
  <2>2. \A i \in DOMAIN followUps : \A r \in followUps[i] : r \in Result /\ result[r] = "followUp"
    BY DEF TypeOK
  <2>3. CASE Survivors = {}
    <3>1. followUps' = followUps /\ \A r \in Result : result[r] = "followUp" => result'[r] = "followUp"
      BY <1>9, <2>1, <2>3 DEF BeforeYield, Flushed, Staged, Survivors
    <3> QED
      BY <3>1, SameBatches
  <2>4. CASE Survivors # {}
    <3>1. /\ Len(followUps) \in Nat /\ DOMAIN followUps' = 1..(Len(followUps) + 1)
          /\ \A i \in DOMAIN followUps' :
               \/ i \in DOMAIN followUps /\ followUps'[i] = followUps[i]
               \/ i = Len(followUps) + 1 /\ followUps'[i] = Survivors
      BY <1>9, <2>4 DEF BeforeYield, TypeOK
    <3>2. ASSUME NEW i \in DOMAIN followUps', NEW r \in followUps'[i] PROVE result'[r] = "followUp"
      BY <2>1, <2>2, <3>1 DEF Flushed, Survivors, Staged
    <3>3. \A i \in DOMAIN followUps : followUps[i] \cap Survivors = {}
      BY <2>2 DEF Survivors, Staged
    <3>4. ASSUME NEW i \in DOMAIN followUps', NEW j \in DOMAIN followUps', i # j
          PROVE  followUps'[i] \cap followUps'[j] = {}
      BY <3>1, <3>3, <3>4
    <3> QED
      BY <3>2, <3>4
  <2> QED
    BY <2>3, <2>4
<1>10. ASSUME TakesFollowUp PROVE BatchesKept'
  <2>1. followUps # <<>> /\ followUps' = Tail(followUps)
        /\ \A r \in Result : r \notin Head(followUps) => result'[r] = result[r]
    BY <1>10 DEF TakesFollowUp, Moved
  <2> QED
    BY <2>1, OthersStay
<1>11. ASSUME LoopEnds PROVE BatchesKept'
  <2>1. followUps' = followUps /\ \A r \in Result : result[r] = "followUp" => result'[r] = "followUp"
    BY <1>11 DEF LoopEnds
  <2> QED
    BY <2>1, SameBatches
<1>12. ASSUME Steered PROVE BatchesKept'
  <2>1. followUps' = followUps /\ \A r \in Result : result[r] = "followUp" => result'[r] = "followUp"
    BY <1>12 DEF Steered
  <2> QED
    BY <2>1, SameBatches
<1>13. ASSUME RunStops PROVE BatchesKept'
  <2>1. followUps' = followUps /\ \A r \in Result : result[r] = "followUp" => result'[r] = "followUp"
    BY <1>13 DEF RunStops
  <2> QED
    BY <2>1, SameBatches
<1>14. ASSUME EndPrompt PROVE BatchesKept'
  <2>1. followUps' = followUps /\ \A r \in Result : result[r] = "followUp" => result'[r] = "followUp"
    BY <1>14 DEF EndPrompt
  <2> QED
    BY <2>1, SameBatches
<1>15. ASSUME Continue PROVE BatchesKept'
  <2>1. CASE ~streaming /\ followUps # <<>>
    <3>1. followUps' = Tail(followUps)
          /\ \A r \in Result : r \notin Head(followUps) /\ r \notin Taken => result'[r] = result[r]
      BY <1>15, <2>1 DEF Continue, BeginRun, Moved
    <3> QED
      BY <2>1, <3>1, OthersStay DEF Taken
  <2>2. CASE ~(~streaming /\ followUps # <<>>)
    <3>1. followUps' = followUps /\ result' = result
      BY <1>15, <2>2 DEF Continue
    <3> QED
      BY <3>1, SameBatches
  <2> QED
    BY <2>1, <2>2
<1>16. ASSUME NEW kind \in Kinds, BeginAbort(kind) PROVE BatchesKept'
  <2>1. followUps' = followUps /\ \A r \in Result : result[r] = "followUp" => result'[r] = "followUp"
    BY <1>16 DEF BeginAbort
  <2> QED
    BY <2>1, SameBatches
<1>17. ASSUME Aborted PROVE BatchesKept'
  <2>1. followUps' = followUps /\ \A r \in Result : result[r] = "followUp" => result'[r] = "followUp"
    BY <1>17 DEF Aborted
  <2> QED
    BY <2>1, SameBatches
<1>18. ASSUME NewSession PROVE BatchesKept'
  <2>1. followUps' = <<>> /\ DOMAIN followUps' = {}
    BY <1>18 DEF NewSession, Reset
  <2> QED
    BY <2>1
<1>19. ASSUME ClearContext PROVE BatchesKept'
  <2>1. followUps' = <<>> /\ DOMAIN followUps' = {}
    BY <1>19 DEF ClearContext, Reset
  <2> QED
    BY <2>1
<1>20. ASSUME Branch PROVE BatchesKept'
  <2>1. followUps' = followUps /\ \A r \in Result : result[r] = "followUp" => result'[r] = "followUp"
    BY <1>20 DEF Branch, Replace, Moved, Undelivered
  <2> QED
    BY <2>1, SameBatches
<1>21. ASSUME CalmDown PROVE BatchesKept'
  <2>1. followUps' = followUps /\ \A r \in Result : result[r] = "followUp" => result'[r] = "followUp"
    BY <1>21 DEF CalmDown
  <2> QED
    BY <2>1, SameBatches
<1> QED
  BY <1>1, <1>2, <1>3, <1>4, <1>5, <1>6, <1>7, <1>8, <1>9, <1>10, <1>11,
     <1>12, <1>13, <1>14, <1>15, <1>16, <1>17, <1>18, <1>19, <1>20, <1>21 DEF Next

(* Who yields or ends holds nothing. *)
LEMMA RunsStep ==
  ASSUME TypeOK, RunsHold, Next
  PROVE  RunsHold'
<1> USE DEF TypeOK, RunsHold, Taken
<1>1. ASSUME NEW r \in Result, StartJob(r) PROVE RunsHold'
  BY <1>1 DEF StartJob
<1>2. ASSUME NEW r \in Result, Enqueue(r) PROVE RunsHold'
  BY <1>2 DEF Enqueue
<1>3. ASSUME NEW r \in Result, Poll(r) PROVE RunsHold'
  BY <1>3 DEF Poll
<1>4. ASSUME IdleFlush PROVE RunsHold'
  BY <1>4 DEF IdleFlush, BeginRun, Flushed, Survivors, Staged
<1>5. ASSUME Prompt PROVE RunsHold'
  BY <1>5 DEF Prompt
<1>6. ASSUME PromptRuns PROVE RunsHold'
  BY <1>6 DEF PromptRuns, BeginRun
<1>7. ASSUME PromptFails PROVE RunsHold'
  BY <1>7 DEF PromptFails
<1>8. ASSUME MessageEnds PROVE RunsHold'
  BY <1>8 DEF MessageEnds, Moved
<1>9. ASSUME BeforeYield PROVE RunsHold'
  BY <1>9 DEF BeforeYield, Flushed, Survivors, Staged
<1>10. ASSUME TakesFollowUp PROVE RunsHold'
  BY <1>10 DEF TakesFollowUp
<1>11. ASSUME LoopEnds PROVE RunsHold'
  BY <1>11 DEF LoopEnds, RunEnds
<1>12. ASSUME Steered PROVE RunsHold'
  BY <1>12 DEF Steered
<1>13. ASSUME RunStops PROVE RunsHold'
  BY <1>13 DEF RunStops, RunEnds
<1>14. ASSUME EndPrompt PROVE RunsHold'
  BY <1>14 DEF EndPrompt
<1>15. ASSUME Continue PROVE RunsHold'
  BY <1>15 DEF Continue, BeginRun
<1>16. ASSUME NEW kind \in Kinds, BeginAbort(kind) PROVE RunsHold'
  BY <1>16 DEF BeginAbort
<1>17. ASSUME Aborted PROVE RunsHold'
  BY <1>17 DEF Aborted
<1>18. ASSUME NewSession PROVE RunsHold'
  BY <1>18 DEF NewSession, Replace, Moved
<1>19. ASSUME ClearContext PROVE RunsHold'
  BY <1>19 DEF ClearContext, Replace, Moved
<1>20. ASSUME Branch PROVE RunsHold'
  BY <1>20 DEF Branch, Replace, Moved
<1>21. ASSUME CalmDown PROVE RunsHold'
  BY <1>21 DEF CalmDown
<1> QED
  BY <1>1, <1>2, <1>3, <1>4, <1>5, <1>6, <1>7, <1>8, <1>9, <1>10, <1>11,
     <1>12, <1>13, <1>14, <1>15, <1>16, <1>17, <1>18, <1>19, <1>20, <1>21 DEF Next

(* A run that begins while a clear waits is late, a run before it is awaited. *)
LEMMA WaitsStep ==
  ASSUME TypeOK, ClearWaits, Next
  PROVE  ClearWaits'
<1> USE DEF ClearWaits
<1>1. ASSUME NEW r \in Result, StartJob(r) PROVE ClearWaits'
  BY <1>1 DEF StartJob
<1>2. ASSUME NEW r \in Result, Enqueue(r) PROVE ClearWaits'
  BY <1>2 DEF Enqueue
<1>3. ASSUME NEW r \in Result, Poll(r) PROVE ClearWaits'
  BY <1>3 DEF Poll
<1>4. ASSUME IdleFlush PROVE ClearWaits'
  BY <1>4 DEF IdleFlush, BeginRun
<1>5. ASSUME Prompt PROVE ClearWaits'
  BY <1>5 DEF Prompt
<1>6. ASSUME PromptRuns PROVE ClearWaits'
  BY <1>6 DEF PromptRuns, BeginRun
<1>7. ASSUME PromptFails PROVE ClearWaits'
  BY <1>7 DEF PromptFails
<1>8. ASSUME MessageEnds PROVE ClearWaits'
  BY <1>8 DEF MessageEnds
<1>9. ASSUME BeforeYield PROVE ClearWaits'
  BY <1>9 DEF BeforeYield
<1>10. ASSUME TakesFollowUp PROVE ClearWaits'
  BY <1>10 DEF TakesFollowUp
<1>11. ASSUME LoopEnds PROVE ClearWaits'
  BY <1>11 DEF LoopEnds, RunEnds
<1>12. ASSUME Steered PROVE ClearWaits'
  BY <1>12 DEF Steered
<1>13. ASSUME RunStops PROVE ClearWaits'
  BY <1>13 DEF RunStops, RunEnds
<1>14. ASSUME EndPrompt PROVE ClearWaits'
  BY <1>14 DEF EndPrompt
<1>15. ASSUME Continue PROVE ClearWaits'
  <2>1. CASE ~streaming /\ followUps # <<>>
    BY <1>15, <2>1 DEF Continue, BeginRun
  <2>2. CASE ~(~streaming /\ followUps # <<>>)
    <3>1. awaits'["clear"] = awaits["clear"] \ {"resume"} /\ UNCHANGED <<turn, late, aborting>>
      BY <1>15, <2>2 DEF Continue, Kinds
    <3> QED
      BY <3>1
  <2> QED
    BY <2>1, <2>2
<1>16. ASSUME NEW kind \in Kinds, BeginAbort(kind) PROVE ClearWaits'
  <2>1. CASE kind = "clear"
    <3>1. turn # "idle" => "run" \in awaits'["clear"]
      BY <1>16, <2>1 DEF BeginAbort, TypeOK, Kinds
    <3> QED
      BY <1>16, <3>1 DEF BeginAbort
  <2>2. CASE kind # "clear"
    <3>1. awaits'["clear"] = awaits["clear"] /\ ("clear" \in aborting' => "clear" \in aborting)
      BY <1>16, <2>2 DEF BeginAbort, TypeOK, Kinds
    <3> QED
      BY <1>16, <3>1 DEF BeginAbort
  <2> QED
    BY <2>1, <2>2
<1>17. ASSUME Aborted PROVE ClearWaits'
  BY <1>17 DEF Aborted, AbortEnds
<1>18. ASSUME NewSession PROVE ClearWaits'
  BY <1>18 DEF NewSession, AbortEnds
<1>19. ASSUME ClearContext PROVE ClearWaits'
  BY <1>19 DEF ClearContext, AbortEnds
<1>20. ASSUME Branch PROVE ClearWaits'
  BY <1>20 DEF Branch
<1>21. ASSUME CalmDown PROVE ClearWaits'
  BY <1>21 DEF CalmDown
<1> QED
  BY <1>1, <1>2, <1>3, <1>4, <1>5, <1>6, <1>7, <1>8, <1>9, <1>10, <1>11,
     <1>12, <1>13, <1>14, <1>15, <1>16, <1>17, <1>18, <1>19, <1>20, <1>21 DEF Next

(* The next follow-up carries queued results. *)
LEMMA HeadQueued ==
  ASSUME TypeOK, BatchesKept, followUps # <<>>
  PROVE  \A r \in Head(followUps) : result[r] = "followUp"
<1>1. 1 \in DOMAIN followUps /\ Head(followUps) = followUps[1]
  BY DEF TypeOK
<1> QED
  BY <1>1 DEF BatchesKept

(* Nothing that a clear has left behind comes on its way again. *)
LEMMA ClearedStep ==
  ASSUME TypeOK, BatchesKept, RunsHold, ClearWaits, NothingCleared, Next
  PROVE  NothingCleared'
<1>1. ASSUME NEW r \in Result, StartJob(r) PROVE NothingCleared'
  <2>1. UNCHANGED since /\ \A s \in Result : result'[s] \in Open => result[s] \in Open
    BY <1>1 DEF StartJob, Open, UnderWay, TypeOK
  <2> QED
    BY <2>1 DEF NothingCleared
<1>2. ASSUME NEW r \in Result, Enqueue(r) PROVE NothingCleared'
  <2>1. UNCHANGED since /\ \A s \in Result : result'[s] \in Open => result[s] \in Open
    BY <1>2 DEF Enqueue, Open, UnderWay, TypeOK
  <2> QED
    BY <2>1 DEF NothingCleared
<1>3. ASSUME NEW r \in Result, Poll(r) PROVE NothingCleared'
  <2>1. UNCHANGED since /\ \A s \in Result : result'[s] \in Open => result[s] \in Open
    BY <1>3 DEF Poll, Open, UnderWay, TypeOK
  <2> QED
    BY <2>1 DEF NothingCleared
<1>4. ASSUME IdleFlush PROVE NothingCleared'
  <2>1. UNCHANGED since /\ \A r \in Result : result'[r] \in Open => result[r] \in Open
    BY <1>4 DEF IdleFlush, BeginRun, Flushed, Survivors, Staged, Open, UnderWay
  <2> QED
    BY <2>1 DEF NothingCleared
<1>5. ASSUME Prompt PROVE NothingCleared'
  <2>1. UNCHANGED since /\ \A r \in Result : result'[r] \in Open => result[r] \in Open
    BY <1>5 DEF Prompt
  <2> QED
    BY <2>1 DEF NothingCleared
<1>6. ASSUME PromptRuns PROVE NothingCleared'
  <2>1. UNCHANGED since /\ \A r \in Result : result'[r] \in Open => result[r] \in Open
    BY <1>6 DEF PromptRuns, BeginRun, Taken, Open, UnderWay
  <2> QED
    BY <2>1 DEF NothingCleared
<1>7. ASSUME PromptFails PROVE NothingCleared'
  <2>1. UNCHANGED since /\ \A r \in Result : result'[r] \in Open => result[r] \in Open
    BY <1>7 DEF PromptFails
  <2> QED
    BY <2>1 DEF NothingCleared
<1>8. ASSUME MessageEnds PROVE NothingCleared'
  <2>1. UNCHANGED since /\ \A r \in Result : result'[r] \in Open => result[r] \in Open
    BY <1>8 DEF MessageEnds, Moved, Taken, Open, UnderWay
  <2> QED
    BY <2>1 DEF NothingCleared
<1>9. ASSUME BeforeYield PROVE NothingCleared'
  <2>1. UNCHANGED since /\ \A r \in Result : result'[r] \in Open => result[r] \in Open
    BY <1>9 DEF BeforeYield, Flushed, Survivors, Staged, Open, UnderWay
  <2> QED
    BY <2>1 DEF NothingCleared
<1>10. ASSUME TakesFollowUp PROVE NothingCleared'
  <2>1. \A r \in Head(followUps) : result[r] = "followUp"
    BY <1>10, HeadQueued DEF TakesFollowUp
  <2>2. UNCHANGED since /\ \A r \in Result : result'[r] \in Open => result[r] \in Open
    BY <1>10, <2>1 DEF TakesFollowUp, Moved, Open, UnderWay
  <2> QED
    BY <2>2 DEF NothingCleared
<1>11. ASSUME LoopEnds PROVE NothingCleared'
  <2>1. UNCHANGED since /\ \A r \in Result : result'[r] \in Open => result[r] \in Open
    BY <1>11 DEF LoopEnds, RunEnds
  <2> QED
    BY <2>1 DEF NothingCleared
<1>12. ASSUME Steered PROVE NothingCleared'
  <2>1. UNCHANGED since /\ \A r \in Result : result'[r] \in Open => result[r] \in Open
    BY <1>12 DEF Steered
  <2> QED
    BY <2>1 DEF NothingCleared
<1>13. ASSUME RunStops PROVE NothingCleared'
  <2>1. UNCHANGED since /\ \A r \in Result : result'[r] \in Open => result[r] \in Open
    BY <1>13 DEF RunStops, RunEnds
  <2> QED
    BY <2>1 DEF NothingCleared
<1>14. ASSUME EndPrompt PROVE NothingCleared'
  <2>1. UNCHANGED since /\ \A r \in Result : result'[r] \in Open => result[r] \in Open
    BY <1>14 DEF EndPrompt
  <2> QED
    BY <2>1 DEF NothingCleared
<1>15. ASSUME Continue PROVE NothingCleared'
  <2>1. followUps # <<>> => \A r \in Head(followUps) : result[r] = "followUp"
    BY HeadQueued
  <2>2. UNCHANGED since /\ \A r \in Result : result'[r] \in Open => result[r] \in Open
    BY <1>15, <2>1 DEF Continue, BeginRun, Moved, Open, UnderWay
  <2> QED
    BY <2>2 DEF NothingCleared
<1>16. ASSUME NEW kind \in Kinds, BeginAbort(kind) PROVE NothingCleared'
  <2>1. UNCHANGED since /\ \A r \in Result : result'[r] \in Open => result[r] \in Open
    BY <1>16 DEF BeginAbort
  <2> QED
    BY <2>1 DEF NothingCleared
<1>17. ASSUME Aborted PROVE NothingCleared'
  <2>1. UNCHANGED since /\ \A r \in Result : result'[r] \in Open => result[r] \in Open
    BY <1>17 DEF Aborted
  <2> QED
    BY <2>1 DEF NothingCleared
<1>18. ASSUME NewSession PROVE NothingCleared'
  <2>1. ASSUME NEW r \in Result, result'[r] \in Open PROVE "clear" \notin since'[r]
    <3>1. result'[r] = (IF r \in Undelivered \union Queued THEN "dropped" ELSE result[r])
      BY <1>18 DEF NewSession, Replace, Moved
    <3>2. result[r] \in Open
      BY <2>1, <3>1 DEF Open, UnderWay
    <3>3. since'[r] = since[r] \/ since'[r] = since[r] \union {"other"}
      BY <1>18 DEF NewSession, Replace, Otherwise
    <3> QED
      BY <3>2, <3>3 DEF NothingCleared
  <2> QED
    BY <2>1 DEF NothingCleared
<1>19. ASSUME ClearContext PROVE NothingCleared'
  <2> DEFINE gone == Undelivered \union Queued \union Staged
  <2>1. ASSUME NEW r \in Result, result'[r] \in Open PROVE "clear" \notin since'[r]
    <3>1. result'[r] = (IF r \in gone THEN "dropped" ELSE result[r])
      BY <1>19 DEF ClearContext, Replace, Moved
    <3>2. result[r] \in Open /\ result'[r] = result[r] /\ r \notin gone
      BY <2>1, <3>1 DEF Open, UnderWay
    <3>3. CASE result[r] \in {"none", "injected"}
      <4>1. since'[r] = since[r]
        BY <1>19, <3>2, <3>3 DEF ClearContext, Replace, Moved, UnderWay
      <4> QED
        BY <3>2, <4>1 DEF NothingCleared
    <3>4. CASE result[r] \notin {"none", "injected"}
      <4>1. r \in Taken
        BY <3>2, <3>4 DEF Open, UnderWay, Undelivered, Queued, Staged, Taken
      <4>2. late
        BY <1>19, <4>1 DEF ClearContext, AbortEnds, RunsHold, ClearWaits
      <4>3. since'[r] \in {since[r], since[r] \union {"lateClear"}}
        BY <1>19, <4>1, <4>2 DEF ClearContext, Replace, Cleared
      <4> QED
        BY <3>2, <4>3 DEF NothingCleared
    <3> QED
      BY <3>3, <3>4
  <2> QED
    BY <2>1 DEF NothingCleared
<1>20. ASSUME Branch PROVE NothingCleared'
  <2>1. ASSUME NEW r \in Result, result'[r] \in Open PROVE "clear" \notin since'[r]
    <3>1. result'[r] = (IF r \in Undelivered THEN "dropped" ELSE result[r])
      BY <1>20 DEF Branch, Replace, Moved
    <3>2. result[r] \in Open
      BY <2>1, <3>1 DEF Open, UnderWay
    <3>3. since'[r] = since[r] \/ since'[r] = since[r] \union {"other"}
      BY <1>20 DEF Branch, Replace, Otherwise
    <3> QED
      BY <3>2, <3>3 DEF NothingCleared
  <2> QED
    BY <2>1 DEF NothingCleared
<1>21. ASSUME CalmDown PROVE NothingCleared'
  <2>1. UNCHANGED since /\ \A r \in Result : result'[r] \in Open => result[r] \in Open
    BY <1>21 DEF CalmDown
  <2> QED
    BY <2>1 DEF NothingCleared
<1> QED
  BY <1>1, <1>2, <1>3, <1>4, <1>5, <1>6, <1>7, <1>8, <1>9, <1>10, <1>11,
     <1>12, <1>13, <1>14, <1>15, <1>16, <1>17, <1>18, <1>19, <1>20, <1>21 DEF Next

-----------------------------------------------------------------------------
LEMMA ClearStep == ClearInv /\ [Next]_vars => ClearInv'
<1> SUFFICES ASSUME ClearInv, [Next]_vars PROVE ClearInv'
  OBVIOUS
<1>1. CASE Next
  BY <1>1, TypesStep, BatchesStep, RunsStep, WaitsStep, ClearedStep DEF ClearInv
<1>2. CASE UNCHANGED vars
  BY <1>2 DEF vars, ClearInv, TypeOK, BatchesKept, RunsHold, ClearWaits, NothingCleared, Taken
<1> QED
  BY <1>1, <1>2

(* YieldInv (yield-queue.ts, agent-session.ts clearContext and abort): no     *)
(* result that was on its way when a context was cleared is injected after    *)
(* it, however deliveries, flushes, polls, prompts, runs, aborts and          *)
(* replacements interleave, unless a run holds it that began while the clear  *)
(* awaited its abort.                                                         *)
THEOREM ClearedResultsStayOut == Spec => []YieldInv
<1>1. ClearInv => YieldInv
  BY DEF ClearInv, YieldInv, ClearedStaysOut, NothingCleared, Open
<1> QED
  BY <1>1, InitClear, ClearStep, PTL DEF Spec
=============================================================================
