------------------------ MODULE RuntimeOwner_proofs ------------------------
(* Who serves a session, for any number of owners and of concurrent emits:   *)
(* a running owner that has acquired the lease keeps it until one of its own *)
(* stop() calls gives it up, only the holder accepts connections, and what an *)
(* owner still answers after it has lost the lease.                           *)
EXTENDS RuntimeOwner, WellFoundedInduction, TLAPS

(* The cursor an owner starts from is that of some event, or 0: a set of     *)
(* bounded naturals has a greatest one (the number below the bound that is   *)
(* least).                                                                   *)
LEMMA MaxOfBounded ==
  ASSUME NEW b \in Nat, NEW S \in SUBSET (0..b)
  PROVE  MaxOf(S) \in 0..b
<1> DEFINE U == S \union {0}
           D == {b - m : m \in U}
<1>1. U \subseteq 0..b /\ U # {}
  OBVIOUS
<1>2. D \subseteq Nat /\ D # {}
  BY <1>1
<1>3. PICK d \in D : \A e \in D : ~ (<<e, d>> \in OpToRel(<, Nat))
  <2> HIDE DEF D
  <2> QED
    BY <1>2, NatLessThanWellFounded, WFMin
<1>4. PICK m \in U : d = b - m
  OBVIOUS
<1>5. \A n \in U : n <= m
  <2> SUFFICES ASSUME NEW n \in U, n > m PROVE FALSE
    BY <1>1
  <2>1. b - n \in D /\ b - n \in Nat /\ d \in Nat /\ b - n < d
    BY <1>1, <1>4
  <2>2. <<b - n, d>> \in OpToRel(<, Nat)
    BY <2>1 DEF OpToRel
  <2> QED
    BY <1>3, <2>1, <2>2
<1>6. MaxOf(S) = CHOOSE x \in U : \A n \in U : n <= x
  BY DEF MaxOf
<1> HIDE DEF U
<1>7. MaxOf(S) \in U
  BY <1>4, <1>5, <1>6
<1> QED
  BY <1>1, <1>7

(* Owners that have not been started hold nothing.                          *)
LEMMA InitOwner == Init => OwnerInv
<1> SUFFICES ASSUME Init PROVE OwnerInv
  OBVIOUS
<1> USE BoundAssumption, AbsenceAssumption DEF Init
<1>1. TypeOK
  <2>1. stop \in [Owner -> [Stopper -> StopSteps]]
    BY DEF StopSteps
  <2>2. emit \in [Owner -> [Emitter -> [at : {"idle", "checked", "stamped"},
                                       cursor : 0..MaxCursor, epoch : 0..MaxEpoch]]]
    BY DEF Idle
  <2> QED
    BY <2>1, <2>2 DEF TypeOK, Phases
<1>2. OwnerHoldsUntilStopped
  BY DEF OwnerHoldsUntilStopped
<1>3. StopClosesServer /\ EmitsStamped /\ CloserWaits
  BY DEF StopClosesServer, EmitsStamped, CloserWaits, Stopping, Idle
<1> QED
  BY <1>1, <1>2, <1>3 DEF OwnerInv
StopFunctions == [Owner -> [Stopper -> StopSteps]]

(* How a stop() call begins.                                                  *)
LEMMA BeginStopEffect ==
  ASSUME stop \in StopFunctions, NEW o \in Owner, NEW s \in Stopper, BeginStop(o, s)
  PROVE  /\ stop' \in StopFunctions
         /\ \A q \in Owner, t \in Stopper :
              stop'[q][t] = IF q = o /\ t = s /\ stop[q][t] = "none" THEN "close" ELSE stop[q][t]
<1>1. "close" \in StopSteps
  BY DEF StopSteps
<1>2. [stop[o] EXCEPT ![s] = IF @ = "none" THEN "close" ELSE @] \in [Stopper -> StopSteps]
  BY <1>1 DEF StopFunctions
<1>3. stop' = [stop EXCEPT ![o] = [stop[o] EXCEPT ![s] = IF @ = "none" THEN "close" ELSE @]]
  BY DEF BeginStop
<1> QED
  BY <1>2, <1>3 DEF StopFunctions

(* How a stop() call goes on.                                                 *)
LEMMA StopToEffect ==
  ASSUME stop \in StopFunctions, NEW o \in Owner, NEW s \in Stopper, NEW to \in StopSteps,
         StopTo(o, s, to)
  PROVE  /\ stop' \in StopFunctions
         /\ \A q \in Owner, t \in Stopper :
              stop'[q][t] = IF q = o /\ t = s THEN to ELSE stop[q][t]
<1>1. [stop[o] EXCEPT ![s] = to] \in [Stopper -> StopSteps]
  BY DEF StopFunctions
<1>2. stop' = [stop EXCEPT ![o] = [stop[o] EXCEPT ![s] = to]]
  BY DEF StopTo
<1> QED
  BY <1>1, <1>2 DEF StopFunctions

(* A heartbeat or the passing of time changes the expiry of the lease only.   *)
LEMMA LeaseExpiry ==
  ASSUME TypeOK, lease # NoLease, NEW b \in BOOLEAN, lease' = [lease EXCEPT !.expired = b]
  PROVE  lease' \in Lease /\ lease'.owner = lease.owner /\ lease' # NoLease
<1>1. lease \in Lease
  BY DEF TypeOK
<1>2. lease' = [owner |-> lease.owner, epoch |-> lease.epoch, expired |-> b]
  BY <1>1 DEF Lease
<1>3. lease.owner \in Owner /\ lease.epoch \in 1..MaxEpoch
  BY <1>1 DEF Lease
<1>4. lease' \in Lease /\ lease'.owner = lease.owner
  BY <1>2, <1>3 DEF Lease
<1> QED
  BY <1>4, AbsenceAssumption

(* A granted lease is a lease, of its new owner.                              *)
LEMMA LeaseGranted ==
  ASSUME TypeOK, NEW o \in Owner, priorEpoch < MaxEpoch,
         lease' = [owner |-> o, expired |-> FALSE, epoch |-> priorEpoch + 1]
  PROVE  lease' \in Lease /\ Holds(o)'
<1>1. priorEpoch + 1 \in 1..MaxEpoch
  <2>1. CASE lease = NoLease
    BY <2>1, BoundAssumption DEF priorEpoch
  <2>2. CASE lease # NoLease
    <3>1. lease.epoch \in 1..MaxEpoch
      BY <2>2 DEF TypeOK, Lease
    <3> QED
      BY <2>2, <3>1, BoundAssumption DEF priorEpoch
  <2> QED
    BY <2>1, <2>2
<1>2. lease' \in Lease /\ lease'.owner = o
  BY <1>1 DEF Lease
<1> QED
  BY <1>2, AbsenceAssumption DEF Holds

(* Every step keeps the state well-typed; only an append and the start's      *)
(* reading of the events need more than the types.                            *)
LEMMA OwnerTypeStep ==
  ASSUME TypeOK, EmitsStamped, [Next]_vars
  PROVE  TypeOK'
<1> USE BoundAssumption
<1>a. CASE UNCHANGED vars
  BY <1>a DEF vars, TypeOK
<1>1. ASSUME NEW o \in Owner, Starting(o) PROVE TypeOK'
  <2>1. CASE StartReadEvents(o)
    <3> DEFINE S == {log[i].cursor : i \in DOMAIN log}
           E == [cursor : 1..MaxCursor, owner : Owner, epoch : 1..MaxEpoch]
    <3>0. \A i \in DOMAIN log : log[i] \in E
      <4>1. log \in Seq(E)
        BY DEF TypeOK
      <4> HIDE DEF E
      <4> QED
        BY <4>1
    <3>1. S \subseteq 0..MaxCursor
      BY <3>0
    <3>2. MaxOf(S) \in 0..MaxCursor
      <4> HIDE DEF S
      <4> QED
        BY <3>1, MaxOfBounded
    <3>3. cursor' \in [Owner -> 0..MaxCursor]
      BY <2>1, <3>2 DEF StartReadEvents, TypeOK
    <3> QED
      BY <2>1, <3>3 DEF StartReadEvents, ToPhase, TypeOK, Phases
  <2>2. CASE StartAcquire(o)
    <3>1. lease' \in Lease \union {NoLease}
      BY <2>2, LeaseGranted DEF StartAcquire, TypeOK
    <3> QED
      BY <2>2, <3>1 DEF StartAcquire, ToPhase, TypeOK, Phases
  <2>3. CASE StartClearPath(o) \/ StartListen(o) \/ StartDone(o)
    BY <2>3 DEF StartClearPath, StartListen, StartDone, ToPhase, TypeOK, Phases, emitVars
  <2> QED
    BY <1>1, <2>1, <2>2, <2>3 DEF Starting
<1>2. ASSUME NEW o \in Owner, Exit(o) PROVE TypeOK'
  <2>1. [k \in Emitter |-> Idle] \in [Emitter -> [at : {"idle", "checked", "stamped"},
                                        cursor : 0..MaxCursor, epoch : 0..MaxEpoch]]
    BY DEF Idle
  <2> QED
    BY <1>2, <2>1 DEF Exit, TypeOK, StopSteps, fileVars
<1>3. ASSUME NEW o \in Owner, HeartbeatStart(o) \/ HeartbeatEnd(o) PROVE TypeOK'
  <2>1. lease' \in Lease \union {NoLease}
    BY <1>3 DEF HeartbeatStart, HeartbeatEnd, TypeOK, Lease, Holds, emitVars
  <2>2. stop' \in [Owner -> [Stopper -> StopSteps]]
    <3>1. CASE BeginStop(o, "heartbeat")
      BY <3>1, BeginStopEffect DEF TypeOK, StopFunctions, Stopper
    <3> QED
      BY <1>3, <3>1 DEF HeartbeatStart, HeartbeatEnd, TypeOK, emitVars
  <2> QED
    BY <1>3, <2>1, <2>2 DEF HeartbeatStart, HeartbeatEnd, TypeOK, emitVars
<1>4. ASSUME NEW o \in Owner, Retire(o) \/ CommandStop(o) \/ Signal(o) PROVE TypeOK'
  <2>1. \E s \in Stopper : BeginStop(o, s)
    BY <1>4 DEF Retire, CommandStop, Signal, Stopper
  <2>2. stop' \in [Owner -> [Stopper -> StopSteps]]
    BY <2>1, BeginStopEffect DEF TypeOK, StopFunctions
  <2> QED
    BY <1>4, <2>2 DEF Retire, CommandStop, Signal, TypeOK, fileVars
<1>5. ASSUME NEW o \in Owner, StopStep(o) PROVE TypeOK'
  <2>1. PICK s \in Stopper, to \in StopSteps :
          /\ StopTo(o, s, to)
          /\ StopClose(o, s) \/ StopDrained(o, s) \/ StopUnlink(o, s) \/ StopRelease(o, s)
    BY <1>5 DEF StopStep, StopClose, StopDrained, StopUnlink, StopRelease, StopSteps
  <2>2. stop' \in [Owner -> [Stopper -> StopSteps]]
    BY <2>1, StopToEffect DEF TypeOK, StopFunctions
  <2> QED
    BY <2>1, <2>2 DEF StopClose, StopDrained, StopUnlink, StopRelease, TypeOK, emitVars, fileVars
<1>6. ASSUME NEW o \in Owner, Emitting(o) PROVE TypeOK'
  <2>1. PICK k \in Emitter : EmitCheck(o, k) \/ EmitStamp(o, k) \/ EmitAppend(o, k)
    BY <1>6 DEF Emitting
  <2>2. CASE EmitCheck(o, k)
    <3>1. lease.epoch \in 1..MaxEpoch
      BY <2>2 DEF EmitCheck, Holds, TypeOK, Lease
    <3>2. emit' \in [Owner -> [Emitter -> [at : {"idle", "checked", "stamped"},
                                           cursor : 0..MaxCursor, epoch : 0..MaxEpoch]]]
      <4> DEFINE one == [at |-> "checked", cursor |-> 0, epoch |-> lease.epoch]
                 all == [at : {"idle", "checked", "stamped"}, cursor : 0..MaxCursor, epoch : 0..MaxEpoch]
      <4>1. one \in all
        BY <3>1
      <4>2. emit' = [emit EXCEPT ![o][k] = one] /\ emit \in [Owner -> [Emitter -> all]]
        BY <2>2 DEF EmitCheck, TypeOK
      <4> HIDE DEF one, all
      <4>3. emit' \in [Owner -> [Emitter -> all]]
        BY <4>1, <4>2
      <4> QED
        BY <4>3 DEF all
    <3> QED
      BY <2>2, <3>2 DEF EmitCheck, TypeOK, fileVars
  <2>3. CASE EmitStamp(o, k)
    <3>1. cursor[o] + 1 \in 0..MaxCursor /\ emit[o][k].epoch \in 0..MaxEpoch
      BY <2>3 DEF EmitStamp, TypeOK
    <3> QED
      BY <2>3, <3>1 DEF EmitStamp, TypeOK, fileVars
  <2>4. CASE EmitAppend(o, k)
    <3>1. [cursor |-> emit[o][k].cursor, owner |-> o, epoch |-> emit[o][k].epoch]
            \in [cursor : 1..MaxCursor, owner : Owner, epoch : 1..MaxEpoch]
      BY <2>4 DEF EmitAppend, EmitsStamped
    <3>2. log' \in Seq([cursor : 1..MaxCursor, owner : Owner, epoch : 1..MaxEpoch])
      BY <2>4, <3>1 DEF EmitAppend, TypeOK
    <3> QED
      BY <2>4, <3>2 DEF EmitAppend, TypeOK, Idle
  <2> QED
    BY <2>1, <2>2, <2>3, <2>4
<1>7. CASE Expire \/ Reap
  BY <1>7 DEF Expire, Reap, TypeOK, Lease, emitVars
<1>8. ASSUME NEW o \in Owner, Requesting(o) PROVE TypeOK'
  <2>1. PICK q \in Request : Accept(o, q) \/ Answer(o, q)
    BY <1>8 DEF Requesting
  <2>2. requests' \in [Owner -> SUBSET Request]
    <3>1. requests[o] \union {q} \in SUBSET Request /\ requests[o] \ {q} \in SUBSET Request
      BY DEF TypeOK
    <3>2. requests' \in {[requests EXCEPT ![o] = requests[o] \union {q}],
                        [requests EXCEPT ![o] = requests[o] \ {q}]}
      BY <2>1 DEF Accept, Answer
    <3>3. requests \in [Owner -> SUBSET Request]
      BY DEF TypeOK
    <3> QED
      BY <3>1, <3>2, <3>3
  <2>3. UNCHANGED <<alive, phase, lease, socket, serving, timer, beating, stop, cursor, emit, log>>
    BY <2>1 DEF Accept, Answer, emitVars
  <2> QED
    BY <2>2, <2>3 DEF TypeOK
<1> QED
  BY <1>a, <1>1, <1>2, <1>3, <1>4, <1>5, <1>6, <1>7, <1>8 DEF Next

(* A stop() closes the server before anything else, whoever called it.       *)
LEMMA StopClosesStep ==
  ASSUME TypeOK, StopClosesServer, CloserWaits, [Next]_vars
  PROVE  StopClosesServer'
<1> USE DEF TypeOK, StopClosesServer, Stopping
<1>a. CASE UNCHANGED vars
  BY <1>a DEF vars
<1>1. ASSUME NEW o \in Owner, Starting(o) PROVE StopClosesServer'
  BY <1>1 DEF Starting, StartReadEvents, StartAcquire, StartClearPath, StartListen, StartDone,
              InPhase, ToPhase, emitVars, Phases
<1>2. ASSUME NEW o \in Owner, Exit(o) PROVE StopClosesServer'
  BY <1>2 DEF Exit
<1>3. ASSUME NEW o \in Owner, NEW s \in Stopper, BeginStop(o, s),
             phase[o] \in {"announce", "running"},
             UNCHANGED <<alive, phase, serving, timer>>,
             \A q \in Owner : beating'[q] => beating[q]
      PROVE  StopClosesServer'
  <2>1. \A q \in Owner, t \in Stopper :
          stop'[q][t] = IF q = o /\ t = s /\ stop[q][t] = "none" THEN "close" ELSE stop[q][t]
    BY <1>3, BeginStopEffect DEF StopFunctions
  <2> SUFFICES ASSUME NEW q \in Owner
               PROVE  /\ timer'[q] \/ beating'[q] => phase'[q] = "running"
                      /\ Stopping(q)' => phase'[q] \in {"announce", "running"}
                      /\ serving'[q] => /\ alive'[q] /\ phase'[q] \in {"announce", "running"}
                                        /\ \A t \in Stopper : stop'[q][t] \in {"none", "close"}
    OBVIOUS
  <2>2. timer'[q] \/ beating'[q] => phase'[q] = "running"
    BY <1>3
  <2>3. Stopping(q)' => phase'[q] \in {"announce", "running"}
    <3>1. CASE q = o
      BY <1>3, <3>1
    <3>2. CASE q # o
      <4>1. Stopping(q)' => Stopping(q)
        BY <2>1, <3>2
      <4> QED
        BY <1>3, <4>1
    <3> QED
      BY <3>1, <3>2
  <2>4. serving'[q] => \A t \in Stopper : stop'[q][t] \in {"none", "close"}
    BY <1>3, <2>1
  <2> QED
    BY <1>3, <2>2, <2>3, <2>4
<1>4. ASSUME NEW o \in Owner, HeartbeatStart(o) PROVE StopClosesServer'
  BY <1>4 DEF HeartbeatStart
<1>5. ASSUME NEW o \in Owner, HeartbeatEnd(o) PROVE StopClosesServer'
  <2>1. CASE UNCHANGED stop
    BY <1>5, <2>1 DEF HeartbeatEnd
  <2>2. CASE BeginStop(o, "heartbeat")
    <3>1. phase[o] \in {"announce", "running"}
      BY <1>5 DEF HeartbeatEnd
    <3>2. beating' = [beating EXCEPT ![o] = FALSE]
      BY <1>5 DEF HeartbeatEnd
    <3>3. \A q \in Owner : beating'[q] => beating[q]
      <4>1. beating \in [Owner -> BOOLEAN]
        OBVIOUS
      <4> SUFFICES ASSUME NEW q \in Owner, beating'[q] PROVE beating[q]
        OBVIOUS
      <4>2. q # o
        BY <3>2, <4>1, SMT
      <4> QED
        BY <3>2, <4>1, <4>2, SMT
    <3> QED
      BY <1>5, <2>2, <3>1, <3>3, <1>3 DEF HeartbeatEnd, Stopper
  <2> QED
    BY <1>5, <2>1, <2>2 DEF HeartbeatEnd
<1>6. ASSUME NEW o \in Owner, Retire(o) \/ CommandStop(o) \/ Signal(o) PROVE StopClosesServer'
  <2>1. phase[o] \in {"announce", "running"}
    BY <1>6 DEF Retire, CommandStop, Signal, InPhase, CloserWaits
  <2>2. PICK s \in Stopper : BeginStop(o, s)
    BY <1>6 DEF Retire, CommandStop, Signal, Stopper
  <2>3. UNCHANGED <<alive, phase, serving, timer>> /\ UNCHANGED beating
    BY <1>6 DEF Retire, CommandStop, Signal
  <2> QED
    BY <1>3, <2>1, <2>2, <2>3
<1>7. ASSUME NEW o \in Owner, NEW s \in Stopper,
             StopClose(o, s) \/ StopDrained(o, s) \/ StopUnlink(o, s) \/ StopRelease(o, s)
      PROVE  StopClosesServer'
  <2>1. PICK to \in StopSteps : StopTo(o, s, to)
    BY <1>7 DEF StopClose, StopDrained, StopUnlink, StopRelease, StopSteps
  <2>2. \A q \in Owner, t \in Stopper : stop'[q][t] = IF q = o /\ t = s THEN to ELSE stop[q][t]
    BY <2>1, StopToEffect DEF StopFunctions
  <2>3. ~serving'[o] /\ \A q \in Owner : q # o => serving'[q] = serving[q]
    BY <1>7 DEF StopClose, StopDrained, StopUnlink, StopRelease, AtStop
  <2>4. stop[o][s] # "none" /\ UNCHANGED <<alive, phase, beating>>
    BY <1>7 DEF StopClose, StopDrained, StopUnlink, StopRelease, AtStop
  <2>5. \A q \in Owner : timer'[q] => timer[q]
    <3>1. CASE timer' = timer
      BY <3>1
    <3>2. ASSUME NEW q \in Owner, timer' = [timer EXCEPT ![o] = FALSE], timer'[q]
          PROVE  timer[q]
      <4>1. CASE q = o
        BY <3>2, <4>1 DEF OwnerInv, TypeOK
      <4>2. CASE q # o
        BY <3>2, <4>2 DEF OwnerInv, TypeOK
      <4> QED
        BY <4>1, <4>2
    <3> QED
      BY <1>7, <3>1, <3>2 DEF StopClose, StopDrained, StopUnlink, StopRelease
  <2>6. \A q \in Owner : Stopping(q)' => phase'[q] \in {"announce", "running"}
    <3> SUFFICES ASSUME NEW q \in Owner, Stopping(q)' PROVE phase'[q] \in {"announce", "running"}
      OBVIOUS
    <3>1. CASE q = o
      BY <2>4, <3>1
    <3>2. CASE q # o
      <4>1. PICK t \in Stopper : stop'[q][t] # "none"
        OBVIOUS
      <4>2. stop[q][t] # "none"
        BY <2>2, <3>2, <4>1
      <4> QED
        BY <2>4, <4>2
    <3> QED
      BY <3>1, <3>2
  <2>7. \A q \in Owner : serving'[q] => /\ serving[q] /\ q # o
                                        /\ \A t \in Stopper : stop'[q][t] = stop[q][t]
    BY <2>2, <2>3
  <2>8. \A q \in Owner : timer'[q] \/ beating'[q] => phase'[q] = "running"
    BY <2>4, <2>5
  <2>9. \A q \in Owner : serving'[q] => /\ alive'[q] /\ phase'[q] \in {"announce", "running"}
                                        /\ \A t \in Stopper : stop'[q][t] \in {"none", "close"}
    BY <2>4, <2>7
  <2> QED
    BY <2>6, <2>8, <2>9
<1>8. ASSUME (\E o \in Owner : Emitting(o) \/ Requesting(o)) \/ Expire \/ Reap
      PROVE  StopClosesServer'
  <2>1. UNCHANGED <<alive, phase, serving, timer, beating, stop>>
    BY <1>8 DEF Emitting, EmitCheck, EmitStamp, EmitAppend, Requesting, Accept, Answer, Expire, Reap
  <2> QED
    BY <2>1
<1> QED
  BY <1>a, <1>1, <1>2, <1>4, <1>5, <1>6, <1>7, <1>8 DEF Next, StopStep

(* Emits are stamped with the epoch of the lease they were checked against.  *)
LEMMA EmitsStampedStep ==
  ASSUME TypeOK, EmitsStamped, [Next]_vars
  PROVE  EmitsStamped'
<1> USE BoundAssumption DEF TypeOK, EmitsStamped
<1>2. ASSUME NEW o \in Owner, Exit(o) PROVE EmitsStamped'
  BY <1>2 DEF Exit, Idle
<1>3. ASSUME NEW o \in Owner, NEW k \in Emitter, EmitCheck(o, k) PROVE EmitsStamped'
  <2>1. lease.epoch \in 1..MaxEpoch
    BY <1>3 DEF EmitCheck, Holds, Lease
  <2> QED
    BY <1>3, <2>1 DEF EmitCheck
<1>4. ASSUME NEW o \in Owner, NEW k \in Emitter, EmitStamp(o, k) PROVE EmitsStamped'
  <2>1. cursor[o] + 1 \in 1..MaxCursor /\ emit[o][k].epoch \in 1..MaxEpoch
    BY <1>4 DEF EmitStamp
  <2> QED
    BY <1>4, <2>1 DEF EmitStamp
<1>5. ASSUME NEW o \in Owner, NEW k \in Emitter, EmitAppend(o, k) PROVE EmitsStamped'
  BY <1>5 DEF EmitAppend, Idle
<1>6. ASSUME [Next]_vars,
             ~ \E o \in Owner : Exit(o) \/ Emitting(o)
      PROVE  EmitsStamped'
  <2>1. UNCHANGED emit
    BY <1>6 DEF Next, vars, emitVars, Starting, StartReadEvents, StartAcquire, StartClearPath,
              StartListen, StartDone, HeartbeatStart, HeartbeatEnd, Retire, CommandStop, Signal,
              StopStep, StopClose, StopDrained, StopUnlink, StopRelease, Requesting, Accept, Answer,
              Expire, Reap
  <2> QED
    BY <2>1
<1> QED
  BY <1>2, <1>3, <1>4, <1>5, <1>6 DEF Emitting

(* Nobody takes the lease from a running owner, and a stop() that has given   *)
(* it up is remembered.                                                       *)
LEMMA HoldsStep ==
  ASSUME TypeOK, StopClosesServer, OwnerHoldsUntilStopped, [Next]_vars
  PROVE  OwnerHoldsUntilStopped'
<1> DEFINE Owning == {"clear", "listen", "announce", "running"}
<1> SUFFICES ASSUME NEW o \in Owner, alive'[o], phase'[o] \in Owning, ~Released(o)'
             PROVE  Holds(o)'
  BY DEF OwnerHoldsUntilStopped
<1> USE AbsenceAssumption DEF TypeOK
<1>a. CASE UNCHANGED vars
  BY <1>a DEF vars, OwnerHoldsUntilStopped, Released, Holds
<1>0. \A q \in Owner : ~Released(q)' /\ (\A t \in Stopper : stop[q][t] = "done" => stop'[q][t] = "done")
        => ~Released(q)
  BY DEF Released
<1>1. ASSUME NEW q \in Owner, StartAcquire(q) PROVE Holds(o)'
  <2>1. CASE /\ o = q /\ priorEpoch < MaxEpoch
             /\ lease' = [owner |-> o, expired |-> FALSE, epoch |-> priorEpoch + 1]
    BY <1>1, <2>1, LeaseGranted DEF StartAcquire
  <2>2. CASE o # q
    <3>1. Holds(o)
      BY <1>1, <2>2 DEF StartAcquire, ToPhase, OwnerHoldsUntilStopped, Released
    <3>2. lease' = lease
      BY <1>1, <3>1 DEF StartAcquire, HolderAlive, Holds
    <3> QED
      BY <3>1, <3>2 DEF Holds
  <2> QED
    BY <1>1, <2>1, <2>2 DEF StartAcquire, ToPhase
<1>2. ASSUME NEW q \in Owner,
             StartReadEvents(q) \/ StartClearPath(q) \/ StartListen(q) \/ StartDone(q)
      PROVE  Holds(o)'
  <2>1. UNCHANGED <<alive, stop, lease>>
    BY <1>2 DEF StartReadEvents, StartClearPath, StartListen, StartDone, emitVars
  <2>2. phase[o] \in {"clear", "listen", "announce", "running"}
    BY <1>2 DEF StartReadEvents, StartClearPath, StartListen, StartDone, InPhase, ToPhase
  <2> QED
    BY <2>1, <2>2 DEF OwnerHoldsUntilStopped, Released, Holds
<1>3. ASSUME NEW q \in Owner, Exit(q) PROVE Holds(o)'
  BY <1>3 DEF Exit, fileVars, OwnerHoldsUntilStopped, Released, Holds
<1>4. ASSUME NEW q \in Owner, NEW s \in Stopper, BeginStop(q, s), UNCHANGED <<alive, phase, lease>>
      PROVE  Holds(o)'
  <2>1. \A p \in Owner, t \in Stopper :
          stop'[p][t] = IF p = q /\ t = s /\ stop[p][t] = "none" THEN "close" ELSE stop[p][t]
    BY <1>4, BeginStopEffect DEF StopFunctions
  <2>2. ~Released(o)
    BY <1>0, <2>1
  <2> QED
    BY <1>4, <2>2 DEF OwnerHoldsUntilStopped, Holds
<1>5. ASSUME NEW q \in Owner, HeartbeatStart(q) \/ HeartbeatEnd(q) PROVE Holds(o)'
  <2>1. CASE BeginStop(q, "heartbeat") /\ UNCHANGED lease
    BY <1>5, <2>1, <1>4 DEF HeartbeatStart, HeartbeatEnd, emitVars, Stopper
  <2>2. CASE UNCHANGED stop
    <3>1. Holds(o)
      BY <1>5, <2>2 DEF HeartbeatStart, HeartbeatEnd, OwnerHoldsUntilStopped, Released
    <3> QED
      BY <1>5, <3>1, LeaseExpiry DEF HeartbeatStart, HeartbeatEnd, Holds
  <2> QED
    BY <1>5, <2>1, <2>2 DEF HeartbeatStart, HeartbeatEnd
<1>6. ASSUME NEW q \in Owner, Retire(q) \/ CommandStop(q) \/ Signal(q) PROVE Holds(o)'
  BY <1>6, <1>4 DEF Retire, CommandStop, Signal, fileVars, Stopper
<1>7. ASSUME NEW q \in Owner, NEW s \in Stopper,
             StopClose(q, s) \/ StopDrained(q, s) \/ StopUnlink(q, s) \/ StopRelease(q, s)
      PROVE  Holds(o)'
  <2>1. PICK to \in StopSteps : StopTo(q, s, to) /\ stop[q][s] # "done"
                               /\ (StopRelease(q, s) => to = "done")
    BY <1>7 DEF StopClose, StopDrained, StopUnlink, StopRelease, AtStop, StopSteps
  <2>2. \A p \in Owner, t \in Stopper : stop'[p][t] = IF p = q /\ t = s THEN to ELSE stop[p][t]
    BY <2>1, StopToEffect DEF StopFunctions
  <2>3. ~Released(o) /\ (o = q => ~StopRelease(q, s))
    BY <2>1, <2>2 DEF Released
  <2>4. Holds(o)
    BY <1>7, <2>3 DEF StopClose, StopDrained, StopUnlink, StopRelease, fileVars, OwnerHoldsUntilStopped
  <2>5. lease' = lease
    BY <1>7, <2>3, <2>4 DEF StopClose, StopDrained, StopUnlink, StopRelease, fileVars, Holds
  <2> QED
    BY <2>4, <2>5 DEF Holds
<1>8. ASSUME (\E q \in Owner : Emitting(q) \/ Requesting(q)) \/ Expire \/ Reap PROVE Holds(o)'
  <2>1. UNCHANGED <<alive, phase, stop>>
    BY <1>8 DEF Emitting, EmitCheck, EmitStamp, EmitAppend, Requesting, Accept, Answer, Expire, Reap
  <2>2. Holds(o) /\ alive[o]
    BY <2>1 DEF OwnerHoldsUntilStopped, Released
  <2>3. CASE (\E q \in Owner : Emitting(q) \/ Requesting(q)) \/ Reap
    BY <2>2, <2>3 DEF Emitting, EmitCheck, EmitStamp, EmitAppend, Requesting, Accept, Answer, Reap,
                      fileVars, Holds, HolderAlive
  <2>4. CASE Expire
    BY <2>2, <2>4, LeaseExpiry DEF Expire, Holds
  <2> QED
    BY <1>8, <2>3, <2>4
<1> QED
  BY <1>a, <1>1, <1>2, <1>3, <1>5, <1>6, <1>7, <1>8 DEF Next, Starting, StopStep

(* Whoever closes the server stays until its connections have ended.          *)
LEMMA CloserWaitsStep ==
  ASSUME TypeOK, StopClosesServer, CloserWaits, [Next]_vars
  PROVE  CloserWaits'
<1> DEFINE Waited(q) == /\ alive[q] /\ phase[q] \in {"announce", "running"}
                        /\ serving[q] \/ \E s \in Stopper : stop[q][s] = "drain"
<1>0. \A q \in Owner : requests[q] # {} => Waited(q)
  BY DEF CloserWaits
<1> SUFFICES ASSUME NEW o \in Owner, requests'[o] # {} PROVE Waited(o)'
  BY DEF CloserWaits
<1>b. ASSUME requests'[o] = requests[o], alive'[o] = alive[o], phase'[o] = phase[o],
             serving'[o] = serving[o],
             \A s \in Stopper : stop[o][s] = "drain" => stop'[o][s] = "drain"
      PROVE  Waited(o)'
  BY <1>0, <1>b
<1>a. CASE UNCHANGED vars
  BY <1>a, <1>b DEF vars
<1>1. ASSUME NEW q \in Owner, Starting(q) PROVE Waited(o)'
  <2>1. UNCHANGED <<alive, requests, stop>> /\ Waited(o)
    BY <1>0, <1>1 DEF Starting, StartReadEvents, StartAcquire, StartClearPath, StartListen, StartDone,
                      emitVars
  <2>2. phase'[o] \in {"announce", "running"}
    BY <1>1, <2>1 DEF TypeOK, Starting, StartReadEvents, StartAcquire, StartClearPath, StartListen,
                      StartDone, InPhase, ToPhase
  <2>3. serving'[o] = serving[o] \/ serving'[o]
    BY <1>1 DEF TypeOK, Starting, StartReadEvents, StartAcquire, StartClearPath, StartListen, StartDone,
                emitVars
  <2> QED
    BY <2>1, <2>2, <2>3
<1>2. ASSUME NEW q \in Owner, Exit(q) PROVE Waited(o)'
  <2>1. q # o
    BY <1>2 DEF Exit, TypeOK
  <2> QED
    BY <1>2, <2>1, <1>b DEF Exit, TypeOK
<1>3. ASSUME NEW q \in Owner, Requesting(q) PROVE Waited(o)'
  <2>1. PICK k \in Request : Accept(q, k) \/ Answer(q, k)
    BY <1>3 DEF Requesting
  <2>2. UNCHANGED <<alive, phase, serving, stop>>
    BY <2>1 DEF Accept, Answer
  <2>3. Waited(o)
    <3>1. CASE Accept(q, k) /\ q = o
      BY <3>1 DEF Accept, StopClosesServer
    <3>2. CASE Answer(q, k) /\ q = o
      BY <1>0, <3>2 DEF Answer
    <3>3. CASE q # o
      BY <1>0, <2>1, <3>3 DEF Accept, Answer, TypeOK
    <3> QED
      BY <2>1, <3>1, <3>2, <3>3
  <2> QED
    BY <2>2, <2>3
<1>4. ASSUME NEW q \in Owner, NEW s \in Stopper, BeginStop(q, s),
             UNCHANGED <<alive, phase, serving, requests>>
      PROVE  Waited(o)'
  <2>1. \A t \in Stopper : stop[o][t] = "drain" => stop'[o][t] = "drain"
    BY <1>4, BeginStopEffect DEF StopFunctions, TypeOK
  <2> QED
    BY <1>4, <2>1, <1>b
<1>5. ASSUME NEW q \in Owner, NEW s \in Stopper,
             StopClose(q, s) \/ StopDrained(q, s) \/ StopUnlink(q, s) \/ StopRelease(q, s)
      PROVE  Waited(o)'
  <2>1. PICK to \in StopSteps : /\ StopTo(q, s, to)
                                /\ StopClose(q, s) /\ serving[q] => to = "drain"
    BY <1>5 DEF StopClose, StopDrained, StopUnlink, StopRelease, StopSteps
  <2>2. \A p \in Owner, t \in Stopper : stop'[p][t] = IF p = q /\ t = s THEN to ELSE stop[p][t]
    BY <2>1, StopToEffect DEF StopFunctions, TypeOK
  <2>3. UNCHANGED <<alive, phase, requests>>
    BY <1>5 DEF StopClose, StopDrained, StopUnlink, StopRelease, fileVars
  <2>4. Waited(o)
    BY <1>0, <2>3
  <2>5. CASE q # o
    <3>1. serving'[o] = serving[o]
      BY <1>5, <2>5 DEF StopClose, StopDrained, StopUnlink, StopRelease, TypeOK
    <3> QED
      BY <2>2, <2>3, <2>5, <3>1, <1>b
  <2>6. CASE q = o /\ StopClose(o, s)
    <3>1. stop[o][s] = "close"
      BY <2>6 DEF StopClose, AtStop
    <3>2. CASE serving[o]
      BY <2>1, <2>2, <2>3, <2>4, <2>6, <3>2
    <3>3. CASE ~serving[o]
      <4>1. PICK t \in Stopper : stop[o][t] = "drain"
        BY <2>4, <3>3
      <4>2. stop'[o][t] = "drain"
        BY <2>2, <3>1, <4>1
      <4> QED
        BY <2>3, <2>4, <4>2
    <3> QED
      BY <3>2, <3>3
  <2>7. CASE q = o /\ (StopDrained(o, s) \/ StopUnlink(o, s) \/ StopRelease(o, s))
    <3>1. stop[o][s] # "drain" /\ serving' = serving
      BY <2>3, <2>7 DEF StopDrained, StopUnlink, StopRelease, AtStop
    <3>2. \A t \in Stopper : stop[o][t] = "drain" => stop'[o][t] = "drain"
      BY <2>2, <3>1
    <3> QED
      BY <2>3, <3>1, <3>2, <1>b
  <2> QED
    BY <1>5, <2>5, <2>6, <2>7
<1>6. ASSUME NEW q \in Owner, HeartbeatStart(q) \/ HeartbeatEnd(q) PROVE Waited(o)'
  <2>1. UNCHANGED <<alive, phase, serving, requests>>
    BY <1>6 DEF HeartbeatStart, HeartbeatEnd
  <2>2. CASE UNCHANGED stop
    BY <2>1, <2>2, <1>b
  <2>3. CASE BeginStop(q, "heartbeat")
    BY <1>4, <2>1, <2>3 DEF Stopper
  <2> QED
    BY <1>6, <2>2, <2>3 DEF HeartbeatStart, HeartbeatEnd
<1>7. ASSUME NEW q \in Owner, Retire(q) \/ CommandStop(q) \/ Signal(q) PROVE Waited(o)'
  BY <1>4, <1>7 DEF Retire, CommandStop, Signal, Stopper
<1>8. ASSUME (\E q \in Owner : Emitting(q)) \/ Expire \/ Reap PROVE Waited(o)'
  <2>1. UNCHANGED <<alive, phase, serving, requests, stop>>
    BY <1>8 DEF Emitting, EmitCheck, EmitStamp, EmitAppend, Expire, Reap
  <2> QED
    BY <2>1, <1>b
<1> HIDE DEF Waited
<1> QED
  BY <1>a, <1>1, <1>2, <1>3, <1>5, <1>6, <1>7, <1>8 DEF Next, StopStep

(* OwnerInv: the types, and that an owner which runs and has not given the    *)
(* lease up in a stop() still holds it (owner.ts, session-lease.ts).          *)
THEOREM OwnerInvariant == Spec => []OwnerInv
<1>1. Init => OwnerInv
  BY InitOwner
<1>2. OwnerInv /\ [Next]_vars => OwnerInv'
  BY OwnerTypeStep, StopClosesStep, EmitsStampedStep, HoldsStep, CloserWaitsStep DEF OwnerInv
<1> QED
  BY <1>1, <1>2, PTL DEF Spec

(* RequestsHoldLease: who accepts connections holds the lease, and an owner   *)
(* that still works on a request without holding it has overlapping stop()    *)
(* calls, one of which found no server and released the lease while the other *)
(* waits for the request (owner.ts, control-endpoint.ts).                     *)
THEOREM RequestsEndBeforeRelease == Spec => []RequestsHoldLease
<1>1. OwnerInv => RequestsHoldLease
  <2>1. ASSUME OwnerInv, NEW o \in Owner, serving[o] PROVE Holds(o)
    BY <2>1 DEF OwnerInv, OwnerHoldsUntilStopped, StopClosesServer, Released
  <2>2. ASSUME OwnerInv, NEW o \in Owner, requests[o] # {}, ~Holds(o) PROVE Overlap(o)
    <3>1. Released(o)
      BY <2>2 DEF OwnerInv, CloserWaits, OwnerHoldsUntilStopped
    <3>2. ~serving[o]
      BY <2>2, <3>1 DEF OwnerInv, StopClosesServer, Released
    <3> QED
      BY <2>2, <3>1, <3>2 DEF OwnerInv, CloserWaits, Overlap, Released
  <2> QED
    BY <2>1, <2>2 DEF RequestsHoldLease
<1> QED
  BY <1>1, OwnerInvariant, PTL

(* Two owners answer requests of one session at the same time only if the     *)
(* stop() calls of one of them overlap.                                       *)
OneAnswersOrOverlap ==
  \A o, q \in Owner : requests[o] # {} /\ requests[q] # {} => o = q \/ Overlap(o) \/ Overlap(q)

(* OneAnswersOrOverlap: what is left of "exactly one live owner" for requests *)
(* that were accepted before stop() closed the server.                        *)
THEOREM OneOwnerAnswersButOverlap == Spec => []OneAnswersOrOverlap
<1>1. RequestsHoldLease => OneAnswersOrOverlap
  BY DEF RequestsHoldLease, OneAnswersOrOverlap, Holds
<1> QED
  BY <1>1, RequestsEndBeforeRelease, PTL
=============================================================================
