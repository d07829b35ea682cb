-------------------------- MODULE WorkerPool_proofs --------------------------
(* The issue bot's pool, for any number of events, issues, slots, stops and  *)
(* deaths: its rows, tasks, threads, agents and slots agree, the events of   *)
(* an issue neither overlap nor overtake each other, and a row tells what    *)
(* became of its event.                                                      *)
EXTENDS WorkerPool, FiniteSetTheorems, TLAPS

(* The dispatcher works while the pool is up; tasks are interrupted only     *)
(* after the drain; before that a thread has its task, and a process that is *)
(* down has neither.                                                         *)
Quiet == stage \in {"up", "drain", "down"}
StagesKept ==
  /\ stage # "up" => disp.at = "off"
  /\ stage \in {"drain", "kill", "exit"} => downs < MaxDowns
  /\ Quiet => /\ cancelling = {} /\ interrupted = {}
              /\ \A e \in Event : thread[e] # "none" => run[e] = "dispatch"
  /\ stage = "down" => \A e \in Event : run[e] = "none"
  /\ \A e \in Event : run[e] = "slot" => thread[e] = "none"

(* A task has its issue in flight, alone; the event in the dispatcher's      *)
(* hands has no task yet.                                                    *)
TasksKept ==
  /\ \A e \in Event : run[e] # "none" => IssueOf[e] \in inflight
  /\ \A e, f \in Event :
       IssueOf[e] = IssueOf[f] /\ run[e] # "none" /\ run[f] # "none" => e = f
  /\ disp.at = "claimed" => row[disp.event] = "running" /\ run[disp.event] = "none"

(* Slots are held by dispatched tasks, each by one; the rest is free.        *)
Held == {e \in Event : slot[e] # NoSlot}
SlotsKept ==
  /\ \A e \in Event : slot[e] # NoSlot <=> run[e] = "dispatch"
  /\ \A e, f \in Event : slot[e] # NoSlot /\ slot[e] = slot[f] => e = f
  /\ \A e \in Event : \A i \in DOMAIN free : slot[e] # free[i]
  /\ \A i, j \in DOMAIN free : free[i] = free[j] => i = j
  /\ IsFiniteSet(Held) /\ Len(free) + Cardinality(Held) = Len(Slots)

(* An agent has a thread until the process dies, and runs as the user of the *)
(* slot as long as its task holds it.                                        *)
AgentsKept ==
  \A e \in Event :
    /\ proc[e] # NoSlot /\ stage # "down" => thread[e] \in {"spawned", "arming", "turn"}
    /\ proc[e] # NoSlot /\ run[e] = "dispatch" => proc[e] = slot[e]
    /\ thread[e] = "starting" /\ run[e] = "dispatch" => user[e] = slot[e]

(* Hooks belong to turns, and an agent that is gone before its turn was over *)
(* was cancelled or interrupted.                                             *)
Stopped(e) ==
  \/ e \in firing \/ thread[e] = "killed"
  \/ thread[e] \in {"spawned", "arming", "turn"} /\ proc[e] = NoSlot
SignalsKept ==
  \A e \in Event :
    /\ e \in hooks \cup firing => thread[e] = "turn"
    /\ run[e] = "dispatch" /\ Stopped(e) => e \in cancelled \cup interrupted

(* Events are received once; what came before the event in the dispatcher's  *)
(* hands has been handled or is being worked on.                             *)
OrderKept ==
  /\ \A i, j \in DOMAIN received : received[i] = received[j] => i = j
  /\ \A i \in DOMAIN received : row[received[i]] # "none"
  /\ \A e \in Event : row[e] \in Inactive => e \in handled
  /\ disp.at = "claimed" =>
       \A f \in Event : IssueOf[f] = IssueOf[disp.event] /\ Earlier(f, disp.event)
                          => f \in handled \/ Working(f)

WorkInv ==
  /\ PoolInv /\ OneRunPerIssue
  /\ StagesKept /\ TasksKept /\ SlotsKept /\ AgentsKept /\ SignalsKept /\ OrderKept

-----------------------------------------------------------------------------
(* What two sequences make together.                                         *)
LEMMA Joined ==
  ASSUME NEW S, NEW a \in Seq(S), NEW b \in Seq(S)
  PROVE  /\ a \o b \in Seq(S) /\ Len(a \o b) = Len(a) + Len(b)
         /\ \A k \in 1..(Len(a) + Len(b)) : (a \o b)[k] = IF k <= Len(a) THEN a[k] ELSE b[k - Len(a)]
OBVIOUS

(* Moving the element at position i to the end.                              *)
LEMMA MovedToEnd ==
  ASSUME NEW S, NEW s \in Seq(S), NEW i \in 1..Len(s), NEW x \in S
  PROVE  LET t == Append(RemoveAt(s, i), x) IN
         /\ t \in Seq(S) /\ Len(t) = Len(s)
         /\ \A k \in 1..Len(s) : t[k] = IF k < i THEN s[k] ELSE IF k < Len(s) THEN s[k + 1] ELSE x
<1> DEFINE a == SubSeq(s, 1, i - 1)
           b == SubSeq(s, i + 1, Len(s))
           c == a \o b
           t == Append(c, x)
<1>1. /\ a \in Seq(S) /\ Len(a) = i - 1
      /\ \A k \in 1..(i - 1) : a[k] = s[k]
  OBVIOUS
<1>2. /\ b \in Seq(S) /\ Len(b) = Len(s) - i
      /\ \A k \in 1..(Len(s) - i) : b[k] = s[i + k]
  OBVIOUS
<1>3. Append(RemoveAt(s, i), x) = t
  BY DEF RemoveAt
<1> HIDE DEF a, b
<1>4. /\ c \in Seq(S) /\ Len(c) = Len(s) - 1
      /\ \A k \in 1..(Len(s) - 1) : c[k] = IF k <= i - 1 THEN a[k] ELSE b[k - (i - 1)]
  <2>1. Len(a) + Len(b) = Len(s) - 1
    BY <1>1, <1>2
  <2>2. /\ c \in Seq(S) /\ Len(c) = Len(a) + Len(b)
        /\ \A k \in 1..(Len(a) + Len(b)) : c[k] = IF k <= Len(a) THEN a[k] ELSE b[k - Len(a)]
    BY <1>1, <1>2, Joined
  <2> HIDE DEF c
  <2> QED
    BY <1>1, <2>1, <2>2
<1> HIDE DEF c
<1>5. t \in Seq(S) /\ Len(t) = Len(s)
  BY <1>4
<1>6. \A k \in 1..Len(s) : t[k] = IF k <= Len(s) - 1 THEN c[k] ELSE x
  BY <1>4
<1> HIDE DEF t
<1>7. ASSUME NEW k \in 1..Len(s)
      PROVE  t[k] = IF k < i THEN s[k] ELSE IF k < Len(s) THEN s[k + 1] ELSE x
  <2>1. CASE k < i
    BY <1>1, <1>4, <1>6, <2>1
  <2>2. CASE k >= i /\ k < Len(s)
    <3>1. t[k] = b[k - (i - 1)] /\ k - (i - 1) \in 1..(Len(s) - i) /\ i + (k - (i - 1)) = k + 1
      BY <1>4, <1>6, <2>2
    <3> QED
      BY <1>2, <2>2, <3>1
  <2>3. CASE k = Len(s)
    BY <1>6, <2>3
  <2> QED
    BY <2>1, <2>2, <2>3
<1> QED
  BY <1>3, <1>5, <1>7

(* The elements keep their places apart, and the others their order.         *)
LEMMA MovedApart ==
  ASSUME NEW n \in Nat, NEW i \in 1..n, NEW k \in 1..n, NEW l \in 1..n
  PROVE  LET was(m) == IF m < i THEN m ELSE IF m < n THEN m + 1 ELSE i IN was(k) = was(l) => k = l
OBVIOUS

LEMMA MovedInOrder ==
  ASSUME NEW n \in Nat, NEW i \in 1..n, NEW k \in 1..n, NEW l \in 1..n, k < l, l # n
  PROVE  LET was(m) == IF m < i THEN m ELSE IF m < n THEN m + 1 ELSE i IN was(k) < was(l)
OBVIOUS

(* Only a claim puts an event into the dispatcher's hands. *)
LEMMA DispEvent ==
  ASSUME TypeOK
  PROVE  IF disp.at = "claimed" THEN disp.event \in Event ELSE disp.event = NoEvent
BY DEF TypeOK

LEMMA InitWork == Init => WorkInv
<1> SUFFICES ASSUME Init PROVE WorkInv
  OBVIOUS
<1>1. Held = {}
  BY DEF Init, Held
<1>2. IsFiniteSet(Held) /\ Cardinality(Held) = 0
  BY <1>1, FS_EmptySet
<1>3. SlotsKept
  BY <1>2, PoolAssumption DEF Init, SlotsKept
<1>4. TypeOK
  <2>1. disp \in [at : {"claim", "empty", "wait", "nap", "off"}, event : {NoEvent}]
    BY DEF Init, Disp
  <2>2. downs \in 0..MaxDowns /\ requeues \in 0..MaxRequeues
    BY PoolAssumption DEF Init
  <2> QED
    BY <2>1, <2>2, PoolAssumption DEF Init, TypeOK
<1> QED
  BY <1>3, <1>4, PoolAssumption
     DEF Init, WorkInv, PoolInv, RowsMatchRuns, OneRunPerIssue, Busy, StagesKept, Quiet, TasksKept,
         AgentsKept, SignalsKept, OrderKept, Working, Inactive, Disp

USE PoolAssumption DEF PoolInv, db, bounds, slots, signals, stopping, Disp, Off, Working, Inactive

(* The types of the pool's state. *)
LEMMA TypesStep ==
  ASSUME TypeOK, StagesKept, Next
  PROVE  TypeOK'
<1> USE DEF TypeOK, StagesKept
<1>1. ASSUME NEW e \in Event, Receive(e) PROVE TypeOK'
  BY <1>1 DEF Receive
<1>2. ASSUME NEW e \in Replayed, NEW wakes \in BOOLEAN, Requeue(e, wakes) PROVE TypeOK'
  BY <1>2 DEF Requeue
<1>3. ASSUME NEW e \in Replayed, NEW wakes \in BOOLEAN, Retriage(e, wakes) PROVE TypeOK'
  <2>1. received' \in Seq(Event)
    <3>1. CASE row[e] = "none"
      <4>1. received' = Append(received, e)
        BY <1>3, <3>1 DEF Retriage
      <4>2. received \in Seq(Event) /\ e \in Event
        OBVIOUS
      <4> QED
        BY <4>1, <4>2
    <3>2. CASE row[e] # "none"
      <4>1. PICK i \in DOMAIN received : received' = Append(RemoveAt(received, i), e)
        BY <1>3, <3>2 DEF Retriage
      <4>2. received \in Seq(Event) /\ i \in 1..Len(received) /\ e \in Event
        OBVIOUS
      <4> QED
        BY <4>1, <4>2, MovedToEnd
    <3> QED
      BY <3>1, <3>2
  <2> QED
    BY <1>3, <2>1 DEF Retriage
<1>4. ASSUME NEW e \in Replayed, CancelEvent(e) PROVE TypeOK'
  BY <1>4 DEF CancelEvent
<1>5. ASSUME Claim PROVE TypeOK'
  <2>1. CASE QueuedAt = {} /\ disp' = Disp("empty") /\ UNCHANGED row
    BY <1>5, <2>1 DEF Claim
  <2>2. CASE \E i \in QueuedAt : /\ disp' = [at |-> "claimed", event |-> received[i]]
                              /\ row' = [row EXCEPT ![received[i]] = "running"]
    <3>1. PICK i \in DOMAIN received : /\ disp' = [at |-> "claimed", event |-> received[i]]
                                      /\ row' = [row EXCEPT ![received[i]] = "running"]
      BY <2>2 DEF QueuedAt
    <3>2. received[i] \in Event
      OBVIOUS
    <3>3. disp' \in [at : {"claimed"}, event : Event]
      BY <3>1, <3>2
    <3> QED
      BY <1>5, <3>1, <3>2, <3>3 DEF Claim
  <2> QED
    BY <1>5, <2>1, <2>2 DEF Claim
<1>6. ASSUME Accept PROVE TypeOK'
  BY <1>6, DispEvent DEF Accept
<1>7. ASSUME PutBack PROVE TypeOK'
  BY <1>7, DispEvent DEF PutBack
<1>8. ASSUME ClearWakeup PROVE TypeOK'
  BY <1>8 DEF ClearWakeup
<1>9. ASSUME Awake PROVE TypeOK'
  BY <1>9 DEF Awake
<1>10. ASSUME NEW e \in Event, Acquire(e) PROVE TypeOK'
  BY <1>10 DEF Acquire
<1>11. ASSUME NEW e \in Event, End(e) PROVE TypeOK'
  BY <1>11 DEF End, Finally, Outcomes, Mark, Reaped
<1>12. ASSUME NEW e \in Event, CancelDelivered(e) PROVE TypeOK'
  <2>1. thread' \in [Event -> {"none", "starting", "spawned", "arming", "turn", "ok", "error", "killed"}]
    <3>1. CASE thread' = [thread EXCEPT ![e] = "none"]
      BY <3>1
    <3>2. CASE UNCHANGED thread
      BY <3>2
    <3> QED
      BY <1>12, <3>1, <3>2 DEF CancelDelivered
  <2>2. Finally(e) /\ UNCHANGED <<row, handled>>
    BY <1>12 DEF CancelDelivered
  <2> QED
    BY <2>1, <2>2 DEF Finally, Reaped
<1>13. ASSUME NEW e \in Event, Release(e) PROVE TypeOK'
  BY <1>13 DEF Release
<1>14. ASSUME NEW e \in Event, Spawn(e) PROVE TypeOK'
  BY <1>14 DEF Spawn
<1>15. ASSUME NEW e \in Event, ArmCheck(e) PROVE TypeOK'
  <2>1. thread' \in [Event -> {"none", "starting", "spawned", "arming", "turn", "ok", "error", "killed"}]
    <3>1. CASE thread' = [thread EXCEPT ![e] = "turn"]
      BY <3>1
    <3>2. CASE thread' = [thread EXCEPT ![e] = "arming"]
      BY <3>2
    <3> QED
      BY <1>15, <3>1, <3>2 DEF ArmCheck
  <2>2. proc' \in [Event -> Slot \cup {NoSlot}]
    BY <1>15 DEF ArmCheck
  <2> QED
    BY <1>15, <2>1, <2>2 DEF ArmCheck
<1>16. ASSUME NEW e \in Event, Arm(e) PROVE TypeOK'
  BY <1>16 DEF Arm
<1>17. ASSUME NEW e \in Event, Fire(e) PROVE TypeOK'
  BY <1>17 DEF Fire
<1>18. ASSUME NEW e \in Event, TurnEnds(e) PROVE TypeOK'
  BY <1>18 DEF TurnEnds
<1>19. ASSUME Stop PROVE TypeOK'
  BY <1>19 DEF Stop
<1>20. ASSUME DrainEnds PROVE TypeOK'
  BY <1>20 DEF DrainEnds
<1>21. ASSUME NEW e \in Event, Interrupt(e) PROVE TypeOK'
  BY <1>21 DEF Interrupt
<1>22. ASSUME StopReturns PROVE TypeOK'
  BY <1>22 DEF StopReturns
<1>23. ASSUME Exit \/ Die PROVE TypeOK'
  <2>1. Gone /\ downs < MaxDowns
    BY <1>23 DEF Exit, Die, Gone
  <2>2. downs' \in 0..MaxDowns
    BY <2>1 DEF Gone
  <2> QED
    BY <2>1, <2>2 DEF Gone
<1>24. ASSUME Start PROVE TypeOK'
  BY <1>24 DEF Start, Reaped
<1> HIDE DEF TypeOK, StagesKept
<1> QED
  BY <1>1, <1>2, <1>3, <1>4, <1>5, <1>6, <1>7, <1>8, <1>9, <1>10, <1>11, <1>12,
     <1>13, <1>14, <1>15, <1>16, <1>17, <1>18, <1>19, <1>20, <1>21, <1>22, <1>23, <1>24
     DEF Next, Dispatcher, Task, Thread, Shutdown

(* Replays touch no event that runs, and nothing but a claim or a run moves *)
(* a running row while the pool is up.                                      *)
LEMMA RowsStep ==
  ASSUME TypeOK, RowsMatchRuns, StagesKept, TasksKept, Next
  PROVE  RowsMatchRuns'
<1> USE DEF TypeOK, RowsMatchRuns, StagesKept, Quiet, TasksKept
<1>1. ASSUME NEW e \in Event, Receive(e) PROVE RowsMatchRuns'
  BY <1>1 DEF Receive
<1>2. ASSUME NEW e \in Replayed, NEW wakes \in BOOLEAN, Requeue(e, wakes) PROVE RowsMatchRuns'
  BY <1>2 DEF Requeue
<1>3. ASSUME NEW e \in Replayed, NEW wakes \in BOOLEAN, Retriage(e, wakes) PROVE RowsMatchRuns'
  BY <1>3 DEF Retriage
<1>4. ASSUME NEW e \in Replayed, CancelEvent(e) PROVE RowsMatchRuns'
  BY <1>4 DEF CancelEvent
<1>5. ASSUME Claim PROVE RowsMatchRuns'
  BY <1>5 DEF Claim, QueuedAt
<1>6. ASSUME Accept PROVE RowsMatchRuns'
  BY <1>6, DispEvent DEF Accept
<1>7. ASSUME PutBack PROVE RowsMatchRuns'
  BY <1>7, DispEvent DEF PutBack
<1>8. ASSUME ClearWakeup PROVE RowsMatchRuns'
  BY <1>8 DEF ClearWakeup
<1>9. ASSUME Awake PROVE RowsMatchRuns'
  BY <1>9 DEF Awake
<1>10. ASSUME NEW e \in Event, Acquire(e) PROVE RowsMatchRuns'
  BY <1>10 DEF Acquire
<1>11. ASSUME NEW e \in Event, End(e) PROVE RowsMatchRuns'
  BY <1>11 DEF End, Finally, Outcomes, Mark
<1>12. ASSUME NEW e \in Event, CancelDelivered(e) PROVE RowsMatchRuns'
  BY <1>12 DEF CancelDelivered, Finally
<1>13. ASSUME NEW e \in Event, Release(e) PROVE RowsMatchRuns'
  BY <1>13 DEF Release
<1>14. ASSUME NEW e \in Event, Spawn(e) PROVE RowsMatchRuns'
  BY <1>14 DEF Spawn
<1>15. ASSUME NEW e \in Event, ArmCheck(e) PROVE RowsMatchRuns'
  BY <1>15 DEF ArmCheck
<1>16. ASSUME NEW e \in Event, Arm(e) PROVE RowsMatchRuns'
  BY <1>16 DEF Arm
<1>17. ASSUME NEW e \in Event, Fire(e) PROVE RowsMatchRuns'
  BY <1>17 DEF Fire
<1>18. ASSUME NEW e \in Event, TurnEnds(e) PROVE RowsMatchRuns'
  BY <1>18 DEF TurnEnds
<1>19. ASSUME Stop PROVE RowsMatchRuns'
  BY <1>19 DEF Stop
<1>20. ASSUME DrainEnds PROVE RowsMatchRuns'
  BY <1>20 DEF DrainEnds
<1>21. ASSUME NEW e \in Event, Interrupt(e) PROVE RowsMatchRuns'
  BY <1>21 DEF Interrupt
<1>22. ASSUME StopReturns PROVE RowsMatchRuns'
  BY <1>22 DEF StopReturns
<1>23. ASSUME Exit \/ Die PROVE RowsMatchRuns'
  BY <1>23 DEF Exit, Die, Gone
<1>24. ASSUME Start PROVE RowsMatchRuns'
  BY <1>24 DEF Start
<1> QED
  BY <1>1, <1>2, <1>3, <1>4, <1>5, <1>6, <1>7, <1>8, <1>9, <1>10, <1>11, <1>12,
     <1>13, <1>14, <1>15, <1>16, <1>17, <1>18, <1>19, <1>20, <1>21, <1>22, <1>23, <1>24
     DEF Next, Dispatcher, Task, Thread, Shutdown

(* A new run begins when nothing of its issue is left, for threads and agents *)
(* outlive their tasks only when no more runs begin.                        *)
LEMMA RunsStep ==
  ASSUME TypeOK, OneRunPerIssue, StagesKept, TasksKept, AgentsKept, Next
  PROVE  OneRunPerIssue'
<1> USE DEF TypeOK, OneRunPerIssue, Busy
<1>1. ASSUME NEW e \in Event, Receive(e) PROVE OneRunPerIssue'
  BY <1>1 DEF Receive
<1>2. ASSUME NEW e \in Replayed, NEW wakes \in BOOLEAN, Requeue(e, wakes) PROVE OneRunPerIssue'
  BY <1>2 DEF Requeue
<1>3. ASSUME NEW e \in Replayed, NEW wakes \in BOOLEAN, Retriage(e, wakes) PROVE OneRunPerIssue'
  BY <1>3 DEF Retriage
<1>4. ASSUME NEW e \in Replayed, CancelEvent(e) PROVE OneRunPerIssue'
  BY <1>4 DEF CancelEvent
<1>5. ASSUME Claim PROVE OneRunPerIssue'
  BY <1>5 DEF Claim, QueuedAt
<1>6. ASSUME Accept PROVE OneRunPerIssue'
  <2>1. stage = "up" /\ disp.event \in Event
    BY <1>6, DispEvent DEF Accept, StagesKept
  <2>2. \A f \in Event : IssueOf[f] = IssueOf[disp.event] => run[f] = "none"
    BY <1>6, <2>1 DEF Accept, TasksKept
  <2>3. \A f \in Event : Busy(f) => Working(f)
    BY <2>1 DEF StagesKept, Quiet, AgentsKept
  <2>4. \A f \in Event : Busy(f)' => Busy(f) \/ f = disp.event
    BY <1>6, <2>1 DEF Accept
  <2> HIDE DEF Busy
  <2> QED
    BY <2>1, <2>2, <2>3, <2>4, <1>6 DEF Accept
<1>7. ASSUME PutBack PROVE OneRunPerIssue'
  BY <1>7 DEF PutBack
<1>8. ASSUME ClearWakeup PROVE OneRunPerIssue'
  BY <1>8 DEF ClearWakeup
<1>9. ASSUME Awake PROVE OneRunPerIssue'
  BY <1>9 DEF Awake
<1>10. ASSUME NEW e \in Event, Acquire(e) PROVE OneRunPerIssue'
  BY <1>10 DEF Acquire
<1>11. ASSUME NEW e \in Event, End(e) PROVE OneRunPerIssue'
  BY <1>11 DEF End, Finally, Reaped
<1>12. ASSUME NEW e \in Event, CancelDelivered(e) PROVE OneRunPerIssue'
  BY <1>12 DEF CancelDelivered, Finally, Reaped
<1>13. ASSUME NEW e \in Event, Release(e) PROVE OneRunPerIssue'
  BY <1>13 DEF Release
<1>14. ASSUME NEW e \in Event, Spawn(e) PROVE OneRunPerIssue'
  BY <1>14 DEF Spawn
<1>15. ASSUME NEW e \in Event, ArmCheck(e) PROVE OneRunPerIssue'
  BY <1>15 DEF ArmCheck
<1>16. ASSUME NEW e \in Event, Arm(e) PROVE OneRunPerIssue'
  BY <1>16 DEF Arm
<1>17. ASSUME NEW e \in Event, Fire(e) PROVE OneRunPerIssue'
  BY <1>17 DEF Fire
<1>18. ASSUME NEW e \in Event, TurnEnds(e) PROVE OneRunPerIssue'
  BY <1>18 DEF TurnEnds
<1>19. ASSUME Stop PROVE OneRunPerIssue'
  BY <1>19 DEF Stop
<1>20. ASSUME DrainEnds PROVE OneRunPerIssue'
  BY <1>20 DEF DrainEnds
<1>21. ASSUME NEW e \in Event, Interrupt(e) PROVE OneRunPerIssue'
  BY <1>21 DEF Interrupt
<1>22. ASSUME StopReturns PROVE OneRunPerIssue'
  BY <1>22 DEF StopReturns
<1>23. ASSUME Exit \/ Die PROVE OneRunPerIssue'
  BY <1>23 DEF Exit, Die, Gone
<1>24. ASSUME Start PROVE OneRunPerIssue'
  BY <1>24 DEF Start, Reaped
<1> QED
  BY <1>1, <1>2, <1>3, <1>4, <1>5, <1>6, <1>7, <1>8, <1>9, <1>10, <1>11, <1>12,
     <1>13, <1>14, <1>15, <1>16, <1>17, <1>18, <1>19, <1>20, <1>21, <1>22, <1>23, <1>24
     DEF Next, Dispatcher, Task, Thread, Shutdown

(* What the stages of stop() allow. *)
LEMMA StagesStep ==
  ASSUME TypeOK, StagesKept, TasksKept, Next
  PROVE  StagesKept'
<1> USE DEF TypeOK, StagesKept, Quiet
<1>1. ASSUME NEW e \in Event, Receive(e) PROVE StagesKept'
  BY <1>1 DEF Receive
<1>2. ASSUME NEW e \in Replayed, NEW wakes \in BOOLEAN, Requeue(e, wakes) PROVE StagesKept'
  BY <1>2 DEF Requeue
<1>3. ASSUME NEW e \in Replayed, NEW wakes \in BOOLEAN, Retriage(e, wakes) PROVE StagesKept'
  BY <1>3 DEF Retriage
<1>4. ASSUME NEW e \in Replayed, CancelEvent(e) PROVE StagesKept'
  BY <1>4 DEF CancelEvent
<1>5. ASSUME Claim PROVE StagesKept'
  BY <1>5 DEF Claim, QueuedAt
<1>6. ASSUME Accept PROVE StagesKept'
  BY <1>6, DispEvent DEF Accept, TasksKept
<1>7. ASSUME PutBack PROVE StagesKept'
  BY <1>7 DEF PutBack
<1>8. ASSUME ClearWakeup PROVE StagesKept'
  BY <1>8 DEF ClearWakeup
<1>9. ASSUME Awake PROVE StagesKept'
  BY <1>9 DEF Awake
<1>10. ASSUME NEW e \in Event, Acquire(e) PROVE StagesKept'
  BY <1>10 DEF Acquire
<1>11. ASSUME NEW e \in Event, End(e) PROVE StagesKept'
  BY <1>11 DEF End, Finally, Outcomes
<1>12. ASSUME NEW e \in Event, CancelDelivered(e) PROVE StagesKept'
  BY <1>12 DEF CancelDelivered, Finally
<1>13. ASSUME NEW e \in Event, Release(e) PROVE StagesKept'
  BY <1>13 DEF Release
<1>14. ASSUME NEW e \in Event, Spawn(e) PROVE StagesKept'
  BY <1>14 DEF Spawn
<1>15. ASSUME NEW e \in Event, ArmCheck(e) PROVE StagesKept'
  BY <1>15 DEF ArmCheck
<1>16. ASSUME NEW e \in Event, Arm(e) PROVE StagesKept'
  BY <1>16 DEF Arm
<1>17. ASSUME NEW e \in Event, Fire(e) PROVE StagesKept'
  BY <1>17 DEF Fire
<1>18. ASSUME NEW e \in Event, TurnEnds(e) PROVE StagesKept'
  BY <1>18 DEF TurnEnds
<1>19. ASSUME Stop PROVE StagesKept'
  BY <1>19 DEF Stop
<1>20. ASSUME DrainEnds PROVE StagesKept'
  BY <1>20 DEF DrainEnds
<1>21. ASSUME NEW e \in Event, Interrupt(e) PROVE StagesKept'
  BY <1>21 DEF Interrupt
<1>22. ASSUME StopReturns PROVE StagesKept'
  BY <1>22 DEF StopReturns
<1>23. ASSUME Exit \/ Die PROVE StagesKept'
  BY <1>23 DEF Exit, Die, Gone
<1>24. ASSUME Start PROVE StagesKept'
  BY <1>24 DEF Start
<1> QED
  BY <1>1, <1>2, <1>3, <1>4, <1>5, <1>6, <1>7, <1>8, <1>9, <1>10, <1>11, <1>12,
     <1>13, <1>14, <1>15, <1>16, <1>17, <1>18, <1>19, <1>20, <1>21, <1>22, <1>23, <1>24
     DEF Next, Dispatcher, Task, Thread, Shutdown

(* One task of an issue at a time. *)
LEMMA TasksStep ==
  ASSUME TypeOK, TasksKept, StagesKept, RowsMatchRuns, Next
  PROVE  TasksKept'
<1> USE DEF TypeOK, TasksKept
<1>1. ASSUME NEW e \in Event, Receive(e) PROVE TasksKept'
  BY <1>1 DEF Receive
<1>2. ASSUME NEW e \in Replayed, NEW wakes \in BOOLEAN, Requeue(e, wakes) PROVE TasksKept'
  BY <1>2 DEF Requeue
<1>3. ASSUME NEW e \in Replayed, NEW wakes \in BOOLEAN, Retriage(e, wakes) PROVE TasksKept'
  BY <1>3 DEF Retriage
<1>4. ASSUME NEW e \in Replayed, CancelEvent(e) PROVE TasksKept'
  BY <1>4 DEF CancelEvent
<1>5. ASSUME Claim PROVE TasksKept'
  BY <1>5 DEF Claim, QueuedAt, StagesKept, RowsMatchRuns
<1>6. ASSUME Accept PROVE TasksKept'
  BY <1>6, DispEvent DEF Accept
<1>7. ASSUME PutBack PROVE TasksKept'
  BY <1>7, DispEvent DEF PutBack
<1>8. ASSUME ClearWakeup PROVE TasksKept'
  BY <1>8 DEF ClearWakeup
<1>9. ASSUME Awake PROVE TasksKept'
  BY <1>9 DEF Awake
<1>10. ASSUME NEW e \in Event, Acquire(e) PROVE TasksKept'
  BY <1>10 DEF Acquire
<1>11. ASSUME NEW e \in Event, End(e) PROVE TasksKept'
  BY <1>11 DEF End, Finally
<1>12. ASSUME NEW e \in Event, CancelDelivered(e) PROVE TasksKept'
  BY <1>12 DEF CancelDelivered, Finally
<1>13. ASSUME NEW e \in Event, Release(e) PROVE TasksKept'
  BY <1>13 DEF Release
<1>14. ASSUME NEW e \in Event, Spawn(e) PROVE TasksKept'
  BY <1>14 DEF Spawn
<1>15. ASSUME NEW e \in Event, ArmCheck(e) PROVE TasksKept'
  BY <1>15 DEF ArmCheck
<1>16. ASSUME NEW e \in Event, Arm(e) PROVE TasksKept'
  BY <1>16 DEF Arm
<1>17. ASSUME NEW e \in Event, Fire(e) PROVE TasksKept'
  BY <1>17 DEF Fire
<1>18. ASSUME NEW e \in Event, TurnEnds(e) PROVE TasksKept'
  BY <1>18 DEF TurnEnds
<1>19. ASSUME Stop PROVE TasksKept'
  BY <1>19 DEF Stop
<1>20. ASSUME DrainEnds PROVE TasksKept'
  BY <1>20 DEF DrainEnds
<1>21. ASSUME NEW e \in Event, Interrupt(e) PROVE TasksKept'
  BY <1>21 DEF Interrupt
<1>22. ASSUME StopReturns PROVE TasksKept'
  BY <1>22 DEF StopReturns
<1>23. ASSUME Exit \/ Die PROVE TasksKept'
  BY <1>23 DEF Exit, Die, Gone
<1>24. ASSUME Start PROVE TasksKept'
  BY <1>24 DEF Start
<1> QED
  BY <1>1, <1>2, <1>3, <1>4, <1>5, <1>6, <1>7, <1>8, <1>9, <1>10, <1>11, <1>12,
     <1>13, <1>14, <1>15, <1>16, <1>17, <1>18, <1>19, <1>20, <1>21, <1>22, <1>23, <1>24
     DEF Next, Dispatcher, Task, Thread, Shutdown

(* A task gives back the slot it has. *)
LEMMA SlotGivenBack ==
  ASSUME TypeOK, SlotsKept, NEW e \in Event, Working(e), Finally(e)
  PROVE  SlotsKept'
<1> USE DEF TypeOK, SlotsKept, Finally
<1>1. CASE slot[e] = NoSlot
  <2>1. Held' = Held
    BY <1>1 DEF Held
  <2> QED
    BY <1>1, <2>1
<1>2. CASE slot[e] # NoSlot
  <2>1. Held' = Held \ {e} /\ e \in Held
    BY <1>2 DEF Held
  <2>2. IsFiniteSet(Held') /\ Cardinality(Held') = Cardinality(Held) - 1
    BY <2>1, FS_RemoveElement
  <2>3. free' = Append(free, slot[e]) /\ Len(free') = Len(free) + 1 /\ slot[e] \in Slot
    BY <1>2
  <2>4. Cardinality(Held) \in Nat
    BY FS_CardinalityType
  <2>5. Len(free') + Cardinality(Held') = Len(Slots)
    BY <2>2, <2>3, <2>4
  <2>6. \A i \in DOMAIN free' : free'[i] = IF i <= Len(free) THEN free[i] ELSE slot[e]
    BY <2>3
  <2>7. \A i, j \in DOMAIN free' : free'[i] = free'[j] => i = j
    BY <2>3, <2>6
  <2>8. \A f \in Event : \A i \in DOMAIN free' : slot'[f] # free'[i]
    BY <1>2, <2>3, <2>6
  <2>9. /\ \A f \in Event : slot'[f] # NoSlot <=> run'[f] = "dispatch"
        /\ \A f, g \in Event : slot'[f] # NoSlot /\ slot'[f] = slot'[g] => f = g
    OBVIOUS
  <2> QED
    BY <2>2, <2>5, <2>7, <2>8, <2>9
<1> QED
  BY <1>1, <1>2

(* Slots go from the pool to one task and back. *)
LEMMA SlotsStep ==
  ASSUME TypeOK, SlotsKept, TasksKept, Next
  PROVE  SlotsKept'
<1> USE DEF TypeOK, SlotsKept
<1>1. ASSUME NEW e \in Event, Receive(e) PROVE SlotsKept'
  BY <1>1 DEF Receive, Held
<1>2. ASSUME NEW e \in Replayed, NEW wakes \in BOOLEAN, Requeue(e, wakes) PROVE SlotsKept'
  BY <1>2 DEF Requeue, Held
<1>3. ASSUME NEW e \in Replayed, NEW wakes \in BOOLEAN, Retriage(e, wakes) PROVE SlotsKept'
  BY <1>3 DEF Retriage, Held
<1>4. ASSUME NEW e \in Replayed, CancelEvent(e) PROVE SlotsKept'
  BY <1>4 DEF CancelEvent, Held
<1>5. ASSUME Claim PROVE SlotsKept'
  BY <1>5 DEF Claim, QueuedAt, Held
<1>6. ASSUME Accept PROVE SlotsKept'
  BY <1>6, DispEvent DEF Accept, TasksKept, Held
<1>7. ASSUME PutBack PROVE SlotsKept'
  BY <1>7 DEF PutBack, Held
<1>8. ASSUME ClearWakeup PROVE SlotsKept'
  BY <1>8 DEF ClearWakeup, Held
<1>9. ASSUME Awake PROVE SlotsKept'
  BY <1>9 DEF Awake, Held
<1>10. ASSUME NEW e \in Event, Acquire(e) PROVE SlotsKept'
  <2>1. Held' = Held \cup {e} /\ e \notin Held
    BY <1>10 DEF Acquire, Held
  <2>2. IsFiniteSet(Held') /\ Cardinality(Held') = Cardinality(Held) + 1 /\ Cardinality(Held) \in Nat
    BY <2>1, FS_AddElement, FS_CardinalityType
  <2>3. /\ free \in Seq(Slot) /\ free # <<>> /\ free' = Tail(free)
        /\ slot' = [slot EXCEPT ![e] = Head(free)] /\ run' = [run EXCEPT ![e] = "dispatch"]
    BY <1>10 DEF Acquire
  <2>4. /\ Len(free') = Len(free) - 1 /\ Head(free) = free[1] /\ Head(free) \in Slot
        /\ \A i \in DOMAIN free' : free'[i] = free[i + 1] /\ i + 1 \in DOMAIN free
    BY <2>3
  <2>5. Len(free') + Cardinality(Held') = Len(Slots)
    BY <2>2, <2>4
  <2>6. DOMAIN free' = 1..(Len(free) - 1) /\ DOMAIN free = 1..Len(free)
    BY <2>3, <2>4
  <2>7. ASSUME NEW i \in DOMAIN free', NEW j \in DOMAIN free', free'[i] = free'[j] PROVE i = j
    <3>1. free[i + 1] = free[j + 1] /\ i + 1 \in DOMAIN free /\ j + 1 \in DOMAIN free
      BY <2>4, <2>7
    <3>2. i + 1 = j + 1
      BY <3>1
    <3> QED
      BY <2>6, <3>2
  <2>8. ASSUME NEW f \in Event, NEW i \in DOMAIN free' PROVE slot'[f] # free'[i]
    <3>1. free'[i] = free[i + 1] /\ i + 1 \in DOMAIN free /\ 1 \in DOMAIN free /\ i + 1 # 1
      BY <2>4, <2>6
    <3>2. free[i + 1] # free[1]
      BY <3>1
    <3> QED
      BY <2>3, <2>4, <3>1, <3>2
  <2>9. 1 \in DOMAIN free
    BY <2>3
  <2>10. \A f, g \in Event : slot'[f] # NoSlot /\ slot'[f] = slot'[g] => f = g
    BY <2>3, <2>4, <2>9
  <2>11. \A f \in Event : slot'[f] # NoSlot <=> run'[f] = "dispatch"
    BY <2>3, <2>4
  <2> QED
    BY <2>2, <2>5, <2>7, <2>8, <2>10, <2>11
<1>11. ASSUME NEW e \in Event, End(e) PROVE SlotsKept'
  BY <1>11, SlotGivenBack DEF End
<1>12. ASSUME NEW e \in Event, CancelDelivered(e) PROVE SlotsKept'
  BY <1>12, SlotGivenBack DEF CancelDelivered
<1>13. ASSUME NEW e \in Event, Release(e) PROVE SlotsKept'
  BY <1>13 DEF Release, Held
<1>14. ASSUME NEW e \in Event, Spawn(e) PROVE SlotsKept'
  BY <1>14 DEF Spawn, Held
<1>15. ASSUME NEW e \in Event, ArmCheck(e) PROVE SlotsKept'
  BY <1>15 DEF ArmCheck, Held
<1>16. ASSUME NEW e \in Event, Arm(e) PROVE SlotsKept'
  BY <1>16 DEF Arm, Held
<1>17. ASSUME NEW e \in Event, Fire(e) PROVE SlotsKept'
  BY <1>17 DEF Fire, Held
<1>18. ASSUME NEW e \in Event, TurnEnds(e) PROVE SlotsKept'
  BY <1>18 DEF TurnEnds, Held
<1>19. ASSUME Stop PROVE SlotsKept'
  BY <1>19 DEF Stop, Held
<1>20. ASSUME DrainEnds PROVE SlotsKept'
  BY <1>20 DEF DrainEnds, Held
<1>21. ASSUME NEW e \in Event, Interrupt(e) PROVE SlotsKept'
  BY <1>21 DEF Interrupt, Held
<1>22. ASSUME StopReturns PROVE SlotsKept'
  BY <1>22 DEF StopReturns, Held
<1>23. ASSUME Exit \/ Die PROVE SlotsKept'
  <2> USE <1>23 DEF Exit, Die, Gone
  <2>1. Held' = {}
    BY DEF Held
  <2>2. IsFiniteSet(Held') /\ Cardinality(Held') = 0
    BY <2>1, FS_EmptySet
  <2>3. free' = Slots /\ \A f \in Event : slot'[f] = NoSlot /\ run'[f] = "none"
    OBVIOUS
  <2>4. \A i \in DOMAIN Slots : Slots[i] \in Slot
    OBVIOUS
  <2>5. Len(free') + Cardinality(Held') = Len(Slots)
    BY <2>2, <2>3
  <2>6. \A i, j \in DOMAIN free' : free'[i] = free'[j] => i = j
    BY <2>3
  <2>7. \A f \in Event : \A i \in DOMAIN free' : slot'[f] # free'[i]
    BY <2>3, <2>4
  <2> QED
    BY <2>2, <2>3, <2>5, <2>6, <2>7
<1>24. ASSUME Start PROVE SlotsKept'
  BY <1>24 DEF Start, Held
<1> QED
  BY <1>1, <1>2, <1>3, <1>4, <1>5, <1>6, <1>7, <1>8, <1>9, <1>10, <1>11, <1>12,
     <1>13, <1>14, <1>15, <1>16, <1>17, <1>18, <1>19, <1>20, <1>21, <1>22, <1>23, <1>24
     DEF Next, Dispatcher, Task, Thread, Shutdown

(* Agents run as the users of their tasks' slots. *)
LEMMA AgentsStep ==
  ASSUME TypeOK, AgentsKept, StagesKept, SlotsKept, Next
  PROVE  AgentsKept'
<1> USE DEF TypeOK, AgentsKept, StagesKept, Quiet, SlotsKept
<1>1. ASSUME NEW e \in Event, Receive(e) PROVE AgentsKept'
  BY <1>1 DEF Receive
<1>2. ASSUME NEW e \in Replayed, NEW wakes \in BOOLEAN, Requeue(e, wakes) PROVE AgentsKept'
  BY <1>2 DEF Requeue
<1>3. ASSUME NEW e \in Replayed, NEW wakes \in BOOLEAN, Retriage(e, wakes) PROVE AgentsKept'
  BY <1>3 DEF Retriage
<1>4. ASSUME NEW e \in Replayed, CancelEvent(e) PROVE AgentsKept'
  BY <1>4 DEF CancelEvent
<1>5. ASSUME Claim PROVE AgentsKept'
  BY <1>5 DEF Claim, QueuedAt
<1>6. ASSUME Accept PROVE AgentsKept'
  BY <1>6 DEF Accept
<1>7. ASSUME PutBack PROVE AgentsKept'
  BY <1>7 DEF PutBack
<1>8. ASSUME ClearWakeup PROVE AgentsKept'
  BY <1>8 DEF ClearWakeup
<1>9. ASSUME Awake PROVE AgentsKept'
  BY <1>9 DEF Awake
<1>10. ASSUME NEW e \in Event, Acquire(e) PROVE AgentsKept'
  BY <1>10 DEF Acquire
<1>11. ASSUME NEW e \in Event, End(e) PROVE AgentsKept'
  BY <1>11 DEF End, Finally, Outcomes, Reaped
<1>12. ASSUME NEW e \in Event, CancelDelivered(e) PROVE AgentsKept'
  BY <1>12 DEF CancelDelivered, Finally, Reaped
<1>13. ASSUME NEW e \in Event, Release(e) PROVE AgentsKept'
  BY <1>13 DEF Release
<1>14. ASSUME NEW e \in Event, Spawn(e) PROVE AgentsKept'
  BY <1>14 DEF Spawn
<1>15. ASSUME NEW e \in Event, ArmCheck(e) PROVE AgentsKept'
  BY <1>15 DEF ArmCheck
<1>16. ASSUME NEW e \in Event, Arm(e) PROVE AgentsKept'
  BY <1>16 DEF Arm
<1>17. ASSUME NEW e \in Event, Fire(e) PROVE AgentsKept'
  BY <1>17 DEF Fire
<1>18. ASSUME NEW e \in Event, TurnEnds(e) PROVE AgentsKept'
  BY <1>18 DEF TurnEnds
<1>19. ASSUME Stop PROVE AgentsKept'
  BY <1>19 DEF Stop
<1>20. ASSUME DrainEnds PROVE AgentsKept'
  BY <1>20 DEF DrainEnds
<1>21. ASSUME NEW e \in Event, Interrupt(e) PROVE AgentsKept'
  BY <1>21 DEF Interrupt
<1>22. ASSUME StopReturns PROVE AgentsKept'
  BY <1>22 DEF StopReturns
<1>23. ASSUME Exit \/ Die PROVE AgentsKept'
  BY <1>23 DEF Exit, Die, Gone
<1>24. ASSUME Start PROVE AgentsKept'
  BY <1>24 DEF Start, Reaped
<1> QED
  BY <1>1, <1>2, <1>3, <1>4, <1>5, <1>6, <1>7, <1>8, <1>9, <1>10, <1>11, <1>12,
     <1>13, <1>14, <1>15, <1>16, <1>17, <1>18, <1>19, <1>20, <1>21, <1>22, <1>23, <1>24
     DEF Next, Dispatcher, Task, Thread, Shutdown

(* Nothing but a cancellation or an interruption ends an agent before its     *)
(* turn: a slot is reaped for its own task only.                             *)
LEMMA SignalsStep ==
  ASSUME TypeOK, SignalsKept, StagesKept, SlotsKept, AgentsKept, Next
  PROVE  SignalsKept'
<1> USE DEF TypeOK, SignalsKept, Stopped, StagesKept, SlotsKept, AgentsKept
<1>1. ASSUME NEW e \in Event, Receive(e) PROVE SignalsKept'
  BY <1>1 DEF Receive
<1>2. ASSUME NEW e \in Replayed, NEW wakes \in BOOLEAN, Requeue(e, wakes) PROVE SignalsKept'
  BY <1>2 DEF Requeue
<1>3. ASSUME NEW e \in Replayed, NEW wakes \in BOOLEAN, Retriage(e, wakes) PROVE SignalsKept'
  BY <1>3 DEF Retriage
<1>4. ASSUME NEW e \in Replayed, CancelEvent(e) PROVE SignalsKept'
  BY <1>4 DEF CancelEvent
<1>5. ASSUME Claim PROVE SignalsKept'
  BY <1>5 DEF Claim, QueuedAt
<1>6. ASSUME Accept PROVE SignalsKept'
  BY <1>6 DEF Accept
<1>7. ASSUME PutBack PROVE SignalsKept'
  BY <1>7 DEF PutBack
<1>8. ASSUME ClearWakeup PROVE SignalsKept'
  BY <1>8 DEF ClearWakeup
<1>9. ASSUME Awake PROVE SignalsKept'
  BY <1>9 DEF Awake
<1>10. ASSUME NEW e \in Event, Acquire(e) PROVE SignalsKept'
  BY <1>10 DEF Acquire
<1>11. ASSUME NEW e \in Event, End(e) PROVE SignalsKept'
  BY <1>11 DEF End, Finally, Outcomes, Reaped
<1>12. ASSUME NEW e \in Event, CancelDelivered(e) PROVE SignalsKept'
  BY <1>12 DEF CancelDelivered, Finally, Reaped
<1>13. ASSUME NEW e \in Event, Release(e) PROVE SignalsKept'
  BY <1>13 DEF Release
<1>14. ASSUME NEW e \in Event, Spawn(e) PROVE SignalsKept'
  BY <1>14 DEF Spawn
<1>15. ASSUME NEW e \in Event, ArmCheck(e) PROVE SignalsKept'
  BY <1>15 DEF ArmCheck
<1>16. ASSUME NEW e \in Event, Arm(e) PROVE SignalsKept'
  BY <1>16 DEF Arm
<1>17. ASSUME NEW e \in Event, Fire(e) PROVE SignalsKept'
  BY <1>17 DEF Fire
<1>18. ASSUME NEW e \in Event, TurnEnds(e) PROVE SignalsKept'
  BY <1>18 DEF TurnEnds
<1>19. ASSUME Stop PROVE SignalsKept'
  BY <1>19 DEF Stop
<1>20. ASSUME DrainEnds PROVE SignalsKept'
  BY <1>20 DEF DrainEnds
<1>21. ASSUME NEW e \in Event, Interrupt(e) PROVE SignalsKept'
  BY <1>21 DEF Interrupt
<1>22. ASSUME StopReturns PROVE SignalsKept'
  BY <1>22 DEF StopReturns
<1>23. ASSUME Exit \/ Die PROVE SignalsKept'
  BY <1>23 DEF Exit, Die, Gone
<1>24. ASSUME Start PROVE SignalsKept'
  BY <1>24 DEF Start, Reaped
<1> QED
  BY <1>1, <1>2, <1>3, <1>4, <1>5, <1>6, <1>7, <1>8, <1>9, <1>10, <1>11, <1>12,
     <1>13, <1>14, <1>15, <1>16, <1>17, <1>18, <1>19, <1>20, <1>21, <1>22, <1>23, <1>24
     DEF Next, Dispatcher, Task, Thread, Shutdown

(* A claim takes the oldest queued event, so that whatever of its issue came  *)
(* before is handled or has its task.                                        *)
LEMMA OrderStep ==
  ASSUME PoolInv, OrderKept, StagesKept, TasksKept, Next
  PROVE  OrderKept'
<1> USE DEF TypeOK, OrderKept, Earlier, StagesKept, Quiet, TasksKept, RowsMatchRuns
<1>1. ASSUME NEW e \in Event, Receive(e) PROVE OrderKept'
  BY <1>1 DEF Receive
<1>2. ASSUME NEW e \in Replayed, NEW wakes \in BOOLEAN, Requeue(e, wakes) PROVE OrderKept'
  BY <1>2 DEF Requeue
<1>3. ASSUME NEW e \in Replayed, NEW wakes \in BOOLEAN, Retriage(e, wakes) PROVE OrderKept'
  <2>1. CASE row[e] = "none"
    <3>1. received' = Append(received, e) /\ row' = [row EXCEPT ![e] = "queued"] /\ handled' = handled \ {e}
      BY <1>3, <2>1 DEF Retriage
    <3>2. disp' = disp /\ run' = run
      BY <1>3 DEF Retriage
    <3>3. /\ \A k \in DOMAIN received : received[k] \in Event /\ received[k] # e
          /\ disp.at = "claimed" => disp.event # e
      BY <2>1
    <3>4. /\ DOMAIN received' = 1..(Len(received) + 1) /\ received'[Len(received) + 1] = e
          /\ DOMAIN received = 1..Len(received) /\ Len(received) \in Nat
          /\ \A k \in DOMAIN received : received'[k] = received[k]
      BY <3>1
    <3>5. \A k, l \in DOMAIN received' : received'[k] = received'[l] => k = l
      BY <3>3, <3>4
    <3>6. \A k \in DOMAIN received' : row'[received'[k]] # "none"
      BY <3>1, <3>3, <3>4
    <3>7. ASSUME disp.at = "claimed", NEW f \in Event, Earlier(f, disp.event)'
          PROVE  f # e /\ Earlier(f, disp.event)
      <4>1. PICK k, l \in DOMAIN received' : k < l /\ received'[k] = f /\ received'[l] = disp.event
        BY <3>2, <3>7
      <4>2. k \in DOMAIN received /\ l \in DOMAIN received
        BY <3>3, <3>4, <3>7, <4>1
      <4> QED
        BY <3>3, <3>4, <4>1, <4>2
    <3>8. \A f \in Event : row'[f] \in Inactive => f \in handled'
      BY <3>1
    <3> QED
      BY <3>1, <3>2, <3>5, <3>6, <3>7, <3>8
  <2>2. CASE row[e] # "none"
    <3>1. PICK i \in DOMAIN received : received[i] = e /\ received' = Append(RemoveAt(received, i), e)
      BY <1>3, <2>2 DEF Retriage
    <3> DEFINE n == Len(received)
               was(k) == IF k < i THEN k ELSE IF k < n THEN k + 1 ELSE i
    <3>2. /\ received' \in Seq(Event) /\ Len(received') = n
          /\ \A k \in 1..n : received'[k] = IF k < i THEN received[k] ELSE IF k < n THEN received[k + 1] ELSE e
      <4>1. received \in Seq(Event) /\ i \in 1..Len(received) /\ e \in Event
        OBVIOUS
      <4> HIDE DEF TypeOK, OrderKept, Earlier, StagesKept, Quiet, TasksKept, RowsMatchRuns
      <4> QED
        BY <3>1, <4>1, MovedToEnd
    <3>3. DOMAIN received' = 1..n /\ DOMAIN received = 1..n /\ n \in Nat /\ i \in 1..n
      BY <3>2
    <3> HIDE DEF n
    <3>4. \A k \in 1..n : was(k) \in 1..n /\ received'[k] = received[was(k)]
      BY <3>1, <3>2, <3>3
    <3>5. \A k, l \in 1..n : was(k) = was(l) => k = l
      BY <3>3, MovedApart
    <3>6. \A k, l \in 1..n : k < l /\ l # n => was(k) < was(l)
      BY <3>3, MovedInOrder
    <3>7. \A k \in 1..n : received'[k] = e <=> k = n
      <4>1. \A k \in 1..n : received[was(k)] = e <=> was(k) = i
        BY <3>1, <3>3, <3>4
      <4>2. \A k \in 1..n : was(k) = i <=> k = n
        BY <3>3
      <4> QED
        BY <3>4, <4>1, <4>2
    <3> HIDE DEF was
    <3>8. \A k, l \in DOMAIN received' : received'[k] = received'[l] => k = l
      BY <3>3, <3>4, <3>5
    <3>9. ASSUME NEW k \in DOMAIN received' PROVE row'[received'[k]] # "none"
      <4>1. received'[k] = received[was(k)] /\ was(k) \in DOMAIN received
        BY <3>3, <3>4
      <4>2. received[was(k)] \in Event /\ row[received[was(k)]] # "none"
        BY <4>1
      <4> QED
        BY <1>3, <4>1, <4>2 DEF Retriage
    <3>10. ASSUME disp.at = "claimed", NEW f \in Event, Earlier(f, disp.event)'
          PROVE  f # e /\ Earlier(f, disp.event)
      <4>1. disp'.event = disp.event /\ disp.event # e
        BY <1>3, <3>10 DEF Retriage
      <4>2. PICK k, l \in DOMAIN received' : k < l /\ received'[k] = f /\ received'[l] = disp.event
        BY <3>10, <4>1
      <4>3. l # n /\ k # n
        BY <3>3, <3>7, <4>1, <4>2
      <4>4. was(k) < was(l) /\ was(k) \in DOMAIN received /\ was(l) \in DOMAIN received
        BY <3>3, <3>4, <3>6, <4>2, <4>3
      <4>5. received[was(k)] = f /\ received[was(l)] = disp.event
        BY <3>3, <3>4, <4>2
      <4>6. f # e
        BY <3>3, <3>7, <4>2, <4>3
      <4> QED
        BY <4>4, <4>5, <4>6
    <3>11. \A f \in Event : row'[f] \in Inactive => f \in handled'
      BY <1>3 DEF Retriage
    <3>12. disp' = disp /\ run' = run /\ handled' = handled \ {e}
      BY <1>3 DEF Retriage
    <3> QED
      BY <3>8, <3>9, <3>10, <3>11, <3>12
  <2> QED
    BY <2>1, <2>2
<1>4. ASSUME NEW e \in Replayed, CancelEvent(e) PROVE OrderKept'
  BY <1>4 DEF CancelEvent
<1>5. ASSUME Claim PROVE OrderKept'
  BY <1>5, DispEvent DEF Claim, QueuedAt
<1>6. ASSUME Accept PROVE OrderKept'
  BY <1>6, DispEvent DEF Accept
<1>7. ASSUME PutBack PROVE OrderKept'
  BY <1>7, DispEvent DEF PutBack
<1>8. ASSUME ClearWakeup PROVE OrderKept'
  BY <1>8 DEF ClearWakeup
<1>9. ASSUME Awake PROVE OrderKept'
  BY <1>9 DEF Awake
<1>10. ASSUME NEW e \in Event, Acquire(e) PROVE OrderKept'
  BY <1>10 DEF Acquire
<1>11. ASSUME NEW e \in Event, End(e) PROVE OrderKept'
  BY <1>11 DEF End, Finally, Outcomes, Mark
<1>12. ASSUME NEW e \in Event, CancelDelivered(e) PROVE OrderKept'
  BY <1>12 DEF CancelDelivered, Finally
<1>13. ASSUME NEW e \in Event, Release(e) PROVE OrderKept'
  BY <1>13 DEF Release
<1>14. ASSUME NEW e \in Event, Spawn(e) PROVE OrderKept'
  BY <1>14 DEF Spawn
<1>15. ASSUME NEW e \in Event, ArmCheck(e) PROVE OrderKept'
  BY <1>15 DEF ArmCheck
<1>16. ASSUME NEW e \in Event, Arm(e) PROVE OrderKept'
  BY <1>16 DEF Arm
<1>17. ASSUME NEW e \in Event, Fire(e) PROVE OrderKept'
  BY <1>17 DEF Fire
<1>18. ASSUME NEW e \in Event, TurnEnds(e) PROVE OrderKept'
  BY <1>18 DEF TurnEnds
<1>19. ASSUME Stop PROVE OrderKept'
  BY <1>19 DEF Stop
<1>20. ASSUME DrainEnds PROVE OrderKept'
  BY <1>20 DEF DrainEnds
<1>21. ASSUME NEW e \in Event, Interrupt(e) PROVE OrderKept'
  BY <1>21 DEF Interrupt
<1>22. ASSUME StopReturns PROVE OrderKept'
  BY <1>22 DEF StopReturns
<1>23. ASSUME Exit \/ Die PROVE OrderKept'
  BY <1>23 DEF Exit, Die, Gone
<1>24. ASSUME Start PROVE OrderKept'
  BY <1>24 DEF Start
<1> QED
  BY <1>1, <1>2, <1>3, <1>4, <1>5, <1>6, <1>7, <1>8, <1>9, <1>10, <1>11, <1>12,
     <1>13, <1>14, <1>15, <1>16, <1>17, <1>18, <1>19, <1>20, <1>21, <1>22, <1>23, <1>24
     DEF Next, Dispatcher, Task, Thread, Shutdown

-----------------------------------------------------------------------------
LEMMA WorkStep == WorkInv /\ [Next]_vars => WorkInv'
<1> SUFFICES ASSUME WorkInv, [Next]_vars PROVE WorkInv'
  OBVIOUS
<1>1. CASE Next
  BY <1>1, TypesStep, RowsStep, RunsStep, StagesStep, TasksStep, SlotsStep, AgentsStep, SignalsStep,
     OrderStep DEF WorkInv
<1>2. CASE UNCHANGED vars
  BY <1>2 DEF vars, WorkInv, TypeOK, RowsMatchRuns, OneRunPerIssue, Busy, StagesKept, Quiet, TasksKept,
              SlotsKept, Held, AgentsKept, SignalsKept, Stopped, OrderKept, Earlier
<1> QED
  BY <1>1, <1>2

(* The rows, tasks, threads, agents, slots and signals of the pool agree in  *)
(* every reachable state.                                                    *)
THEOREM WorkInvariant == Spec => []WorkInv
  BY InitWork, WorkStep, PTL DEF Spec

(* PoolInv (queue.py:94, :221): an event that runs has a running row, and no *)
(* running row is stranded while the pool is up.                             *)
THEOREM RowsAgreeWithRuns == Spec => []PoolInv
<1>1. WorkInv => PoolInv
  BY DEF WorkInv
<1> QED
  BY <1>1, WorkInvariant, PTL

(* OneRunPerIssue (queue.py:219, :231): tasks, threads and agents of two     *)
(* events of one issue never meet.                                           *)
THEOREM IssuesRunAlone == Spec => []OneRunPerIssue
<1>1. WorkInv => OneRunPerIssue
  BY DEF WorkInv
<1> QED
  BY <1>1, WorkInvariant, PTL

(* Exclusive slots are part of the invariant. *)
LEMMA SlotsFromWork == ASSUME WorkInv PROVE SlotsAreExclusive
<1>1. TypeOK /\ StagesKept /\ SlotsKept /\ AgentsKept
  BY DEF WorkInv, PoolInv
<1>2. \A e, f \in Event : e # f /\ slot[e] # NoSlot => slot[e] # slot[f]
  BY <1>1 DEF SlotsKept
<1>3. \A e \in Event : \A i \in DOMAIN free : slot[e] # free[i]
  BY <1>1 DEF SlotsKept
<1>4. Len(free) + Cardinality({e \in Event : slot[e] # NoSlot}) = Len(Slots)
  BY <1>1 DEF SlotsKept, Held
<1>5. ASSUME stage \in {"up", "drain"}, NEW e \in Event, proc[e] # NoSlot PROVE proc[e] = slot[e]
  <2>1. thread[e] # "none" /\ Quiet
    BY <1>1, <1>5 DEF AgentsKept, Quiet
  <2>2. run[e] = "dispatch"
    BY <1>1, <2>1 DEF StagesKept
  <2> QED
    BY <1>1, <1>5, <2>2 DEF AgentsKept
<1> QED
  BY <1>2, <1>3, <1>4, <1>5 DEF SlotsAreExclusive

(* SlotsAreExclusive (queue.py:312): a slot has one holder, and the agents    *)
(* that run as its user are the holder's.                                    *)
THEOREM SlotsHaveOneHolder == Spec => []SlotsAreExclusive
<1>1. WorkInv => SlotsAreExclusive
  BY SlotsFromWork
<1> QED
  BY <1>1, WorkInvariant, PTL

(* A run begins with the acceptance of its claimed event. *)
LEMMA RunBegins ==
  ASSUME TypeOK, NEW o \in Event, run[o] = "none", run'[o] = "slot", Next
  PROVE  (Accept /\ o = disp.event)
<1> USE DEF TypeOK
<1>1. ASSUME NEW e \in Event, Receive(e) PROVE (Accept /\ o = disp.event)
  BY <1>1 DEF Receive
<1>2. ASSUME NEW e \in Replayed, NEW wakes \in BOOLEAN, Requeue(e, wakes) PROVE (Accept /\ o = disp.event)
  BY <1>2 DEF Requeue
<1>3. ASSUME NEW e \in Replayed, NEW wakes \in BOOLEAN, Retriage(e, wakes) PROVE (Accept /\ o = disp.event)
  BY <1>3 DEF Retriage
<1>4. ASSUME NEW e \in Replayed, CancelEvent(e) PROVE (Accept /\ o = disp.event)
  BY <1>4 DEF CancelEvent
<1>5. ASSUME Claim PROVE (Accept /\ o = disp.event)
  BY <1>5 DEF Claim, QueuedAt
<1>6. ASSUME Accept PROVE (Accept /\ o = disp.event)
  BY <1>6 DEF Accept
<1>7. ASSUME PutBack PROVE (Accept /\ o = disp.event)
  BY <1>7 DEF PutBack
<1>8. ASSUME ClearWakeup PROVE (Accept /\ o = disp.event)
  BY <1>8 DEF ClearWakeup
<1>9. ASSUME Awake PROVE (Accept /\ o = disp.event)
  BY <1>9 DEF Awake
<1>10. ASSUME NEW e \in Event, Acquire(e) PROVE (Accept /\ o = disp.event)
  BY <1>10 DEF Acquire
<1>11. ASSUME NEW e \in Event, End(e) PROVE (Accept /\ o = disp.event)
  BY <1>11 DEF End, Finally, Finally
<1>12. ASSUME NEW e \in Event, CancelDelivered(e) PROVE (Accept /\ o = disp.event)
  BY <1>12 DEF CancelDelivered, Finally, Finally
<1>13. ASSUME NEW e \in Event, Release(e) PROVE (Accept /\ o = disp.event)
  BY <1>13 DEF Release
<1>14. ASSUME NEW e \in Event, Spawn(e) PROVE (Accept /\ o = disp.event)
  BY <1>14 DEF Spawn
<1>15. ASSUME NEW e \in Event, ArmCheck(e) PROVE (Accept /\ o = disp.event)
  BY <1>15 DEF ArmCheck
<1>16. ASSUME NEW e \in Event, Arm(e) PROVE (Accept /\ o = disp.event)
  BY <1>16 DEF Arm
<1>17. ASSUME NEW e \in Event, Fire(e) PROVE (Accept /\ o = disp.event)
  BY <1>17 DEF Fire
<1>18. ASSUME NEW e \in Event, TurnEnds(e) PROVE (Accept /\ o = disp.event)
  BY <1>18 DEF TurnEnds
<1>19. ASSUME Stop PROVE (Accept /\ o = disp.event)
  BY <1>19 DEF Stop
<1>20. ASSUME DrainEnds PROVE (Accept /\ o = disp.event)
  BY <1>20 DEF DrainEnds
<1>21. ASSUME NEW e \in Event, Interrupt(e) PROVE (Accept /\ o = disp.event)
  BY <1>21 DEF Interrupt
<1>22. ASSUME StopReturns PROVE (Accept /\ o = disp.event)
  BY <1>22 DEF StopReturns
<1>23. ASSUME Exit \/ Die PROVE (Accept /\ o = disp.event)
  BY <1>23 DEF Exit, Die, Gone
<1>24. ASSUME Start PROVE (Accept /\ o = disp.event)
  BY <1>24 DEF Start
<1> QED
  BY <1>1, <1>2, <1>3, <1>4, <1>5, <1>6, <1>7, <1>8, <1>9, <1>10, <1>11, <1>12,
     <1>13, <1>14, <1>15, <1>16, <1>17, <1>18, <1>19, <1>20, <1>21, <1>22, <1>23, <1>24
     DEF Next, Dispatcher, Task, Thread, Shutdown

(* A running row ends with its run. *)
LEMMA RowEnds ==
  ASSUME TypeOK, NEW o \in Event, row[o] = "running", row'[o] \in Inactive, Next
  PROVE  End(o)
<1> USE DEF TypeOK
<1>1. ASSUME NEW e \in Event, Receive(e) PROVE End(o)
  BY <1>1 DEF Receive
<1>2. ASSUME NEW e \in Replayed, NEW wakes \in BOOLEAN, Requeue(e, wakes) PROVE End(o)
  BY <1>2 DEF Requeue
<1>3. ASSUME NEW e \in Replayed, NEW wakes \in BOOLEAN, Retriage(e, wakes) PROVE End(o)
  BY <1>3 DEF Retriage
<1>4. ASSUME NEW e \in Replayed, CancelEvent(e) PROVE End(o)
  BY <1>4 DEF CancelEvent
<1>5. ASSUME Claim PROVE End(o)
  BY <1>5 DEF Claim, QueuedAt
<1>6. ASSUME Accept PROVE End(o)
  BY <1>6 DEF Accept
<1>7. ASSUME PutBack PROVE End(o)
  BY <1>7 DEF PutBack
<1>8. ASSUME ClearWakeup PROVE End(o)
  BY <1>8 DEF ClearWakeup
<1>9. ASSUME Awake PROVE End(o)
  BY <1>9 DEF Awake
<1>10. ASSUME NEW e \in Event, Acquire(e) PROVE End(o)
  BY <1>10 DEF Acquire
<1>11. ASSUME NEW e \in Event, End(e) PROVE End(o)
  <2>1. \E s : row' = [row EXCEPT ![e] = s]
    BY <1>11 DEF End
  <2>2. o = e
    BY <2>1
  <2> QED
    BY <1>11, <2>2
<1>12. ASSUME NEW e \in Event, CancelDelivered(e) PROVE End(o)
  BY <1>12 DEF CancelDelivered, Finally
<1>13. ASSUME NEW e \in Event, Release(e) PROVE End(o)
  BY <1>13 DEF Release
<1>14. ASSUME NEW e \in Event, Spawn(e) PROVE End(o)
  BY <1>14 DEF Spawn
<1>15. ASSUME NEW e \in Event, ArmCheck(e) PROVE End(o)
  BY <1>15 DEF ArmCheck
<1>16. ASSUME NEW e \in Event, Arm(e) PROVE End(o)
  BY <1>16 DEF Arm
<1>17. ASSUME NEW e \in Event, Fire(e) PROVE End(o)
  BY <1>17 DEF Fire
<1>18. ASSUME NEW e \in Event, TurnEnds(e) PROVE End(o)
  BY <1>18 DEF TurnEnds
<1>19. ASSUME Stop PROVE End(o)
  BY <1>19 DEF Stop
<1>20. ASSUME DrainEnds PROVE End(o)
  BY <1>20 DEF DrainEnds
<1>21. ASSUME NEW e \in Event, Interrupt(e) PROVE End(o)
  BY <1>21 DEF Interrupt
<1>22. ASSUME StopReturns PROVE End(o)
  BY <1>22 DEF StopReturns
<1>23. ASSUME Exit \/ Die PROVE End(o)
  BY <1>23 DEF Exit, Die, Gone
<1>24. ASSUME Start PROVE End(o)
  BY <1>24 DEF Start
<1> QED
  BY <1>1, <1>2, <1>3, <1>4, <1>5, <1>6, <1>7, <1>8, <1>9, <1>10, <1>11, <1>12,
     <1>13, <1>14, <1>15, <1>16, <1>17, <1>18, <1>19, <1>20, <1>21, <1>22, <1>23, <1>24
     DEF Next, Dispatcher, Task, Thread, Shutdown

(* EventsInOrder (db.py:276, queue.py:221): no event of an issue overtakes    *)
(* one that was received before it.                                          *)
THEOREM NoneOvertakes == Spec => EventsInOrder
<1> DEFINE Step == \A e \in Event : run[e] = "none" /\ run'[e] = "slot" =>
                     \A f \in Event : IssueOf[f] = IssueOf[e] /\ Earlier(f, e) => f \in handled
<1>1. WorkInv /\ [Next]_vars => [Step]_vars
  <2> SUFFICES ASSUME WorkInv, Next, NEW e \in Event, run[e] = "none", run'[e] = "slot",
                      NEW f \in Event, IssueOf[f] = IssueOf[e], Earlier(f, e)
               PROVE  f \in handled
    OBVIOUS
  <2>1. Accept /\ e = disp.event
    BY RunBegins DEF WorkInv
  <2>2. disp.event = e
    BY <2>1
  <2>3. run[f] = "none"
    BY <2>1, <2>2 DEF Accept, WorkInv, TasksKept
  <2> QED
    BY <2>1, <2>2, <2>3 DEF Accept, WorkInv, OrderKept
<1> QED
  BY <1>1, WorkInvariant, PTL DEF Spec, EventsInOrder

(* OutcomesAreEarned (queue.py:286, :320): what stop() interrupts is neither  *)
(* done nor failed, and what was cancelled is not done.                      *)
THEOREM RowsTellOutcomes == Spec => OutcomesAreEarned
<1> DEFINE Step == \A e \in Event : row[e] = "running" =>
                     /\ row'[e] = "done" => e \notin cancelled /\ thread[e] # "killed"
                     /\ row'[e] = "failed" /\ thread[e] = "killed" => e \in cancelled
<1>1. WorkInv /\ [Next]_vars => [Step]_vars
  <2> SUFFICES ASSUME WorkInv, Next, NEW e \in Event, row[e] = "running", row'[e] \in Inactive
               PROVE  /\ row'[e] = "done" => e \notin cancelled /\ thread[e] # "killed"
                      /\ row'[e] = "failed" /\ thread[e] = "killed" => e \in cancelled
    OBVIOUS
  <2>1. End(e)
    BY RowEnds DEF WorkInv
  <2>2. PICK outcome \in Outcomes(e) : row'[e] = Mark(e, outcome)
    BY <2>1 DEF End, WorkInv, TypeOK
  <2>3. thread[e] = "killed" => outcome = "killed" /\ e \in cancelled \cup interrupted
    BY <2>1, <2>2 DEF End, Outcomes, WorkInv, SignalsKept, Stopped
  <2>4. outcome \in {"ok", "error", "killed"}
    BY <2>2 DEF Outcomes
  <2> QED
    BY <2>2, <2>3, <2>4 DEF Mark
<1> QED
  BY <1>1, WorkInvariant, PTL DEF Spec, OutcomesAreEarned
=============================================================================
