---------------------------- MODULE RuntimeOwner ----------------------------
(***************************************************************************)
(* The detached owner process of a harness session                          *)
(* (harness-control-plane/owner.ts, control-endpoint.ts, the `__owner`      *)
(* command of commands/harness.ts): start, heartbeats, events, and the      *)
(* stop() that may run several times at once, over the lease, the control   *)
(* socket path and events.jsonl they share with the next owner.             *)
(*                                                                         *)
(* Operations on the lease are atomic here: SessionLease shows that they    *)
(* run one at a time and act on what they read.  An await is a point where  *)
(* any other action may run.  Expiry is an event of the environment.        *)
(***************************************************************************)
EXTENDS Naturals, Sequences

CONSTANTS Owner,        \* owner processes; each draws its own random owner id
          Emitter,      \* concurrent #emit calls of one owner (handlers, frame pump)
          Request,      \* connections to the control endpoint, each with one request
          NoLease, NoSocket,
          MaxCursor,    \* bound of the event cursor
          MaxEpoch      \* bound of leaseEpoch

\* The three places that call stop(): retire's microtask, a heartbeat that met
\* not_lease_holder, and the command after its poll or a signal.
Stopper == {"retire", "heartbeat", "command"}

ASSUME BoundAssumption == MaxCursor \in Nat /\ MaxEpoch \in Nat

Lease == [owner : Owner, epoch : 1..MaxEpoch, expired : BOOLEAN]

\* A socket path leads to an owner or nowhere, a lease file is there or not.
ASSUME AbsenceAssumption == NoLease \notin Lease /\ NoSocket \notin Owner

VARIABLES alive,     \* the owner process runs
          phase,     \* progress of start()
          lease,     \* the lease file
          socket,    \* whose server the socket path leads to
          serving,   \* ControlServer.#server is set: the owner accepts connections
          requests,  \* accepted connections that are not answered yet
          timer,     \* the heartbeat interval is set
          beating,   \* a heartbeat() call is under way
          stop,      \* progress of each stop() call
          cursor,    \* RuntimeOwner.#cursor
          emit,      \* progress of each #emit call
          log        \* events.jsonl

vars == <<alive, phase, lease, socket, serving, requests, timer, beating, stop, cursor, emit, log>>
fileVars == <<lease, socket, log>>
emitVars == <<cursor, emit, log>>

Phases == {"off", "acquire", "clear", "listen", "announce", "running", "failed"}
StopSteps == {"none", "close", "drain", "unlink", "release", "done"}
Idle == [at |-> "idle", cursor |-> 0, epoch |-> 0]

TypeOK ==
  /\ alive \in [Owner -> BOOLEAN]
  /\ phase \in [Owner -> Phases]
  /\ lease \in Lease \union {NoLease}
  /\ socket \in Owner \union {NoSocket}
  /\ serving \in [Owner -> BOOLEAN]
  /\ requests \in [Owner -> SUBSET Request]
  /\ timer \in [Owner -> BOOLEAN]
  /\ beating \in [Owner -> BOOLEAN]
  /\ stop \in [Owner -> [Stopper -> StopSteps]]
  /\ cursor \in [Owner -> 0..MaxCursor]
  /\ emit \in [Owner -> [Emitter -> [at : {"idle", "checked", "stamped"},
                                     cursor : 0..MaxCursor, epoch : 0..MaxEpoch]]]
  /\ log \in Seq([cursor : 1..MaxCursor, owner : Owner, epoch : 1..MaxEpoch])

Init ==
  /\ alive = [o \in Owner |-> TRUE]
  /\ phase = [o \in Owner |-> "off"]
  /\ lease = NoLease
  /\ socket = NoSocket
  /\ serving = [o \in Owner |-> FALSE]
  /\ requests = [o \in Owner |-> {}]
  /\ timer = [o \in Owner |-> FALSE]
  /\ beating = [o \in Owner |-> FALSE]
  /\ stop = [o \in Owner |-> [s \in Stopper |-> "none"]]
  /\ cursor = [o \in Owner |-> 0]
  /\ emit = [o \in Owner |-> [k \in Emitter |-> Idle]]
  /\ log = <<>>

-----------------------------------------------------------------------------
Holds(o) == lease # NoLease /\ lease.owner = o
HolderAlive == lease # NoLease /\ alive[lease.owner]

InPhase(o, p) == alive[o] /\ phase[o] = p
ToPhase(o, p) == phase' = [phase EXCEPT ![o] = p]
Stopping(o) == \E s \in Stopper : stop[o][s] # "none"

priorEpoch == IF lease = NoLease THEN 0 ELSE lease.epoch

\* resolveOwner: routable when the process of the lease is there, expired or not.
resolveOwnerLive == HolderAlive

(* start() *)

MaxOf(S) == CHOOSE m \in S \union {0} : \A n \in S \union {0} : n <= m

\* The cursor continues from the events on disk, read before the lease is taken.
StartReadEvents(o) ==
  /\ InPhase(o, "off")
  /\ cursor' = [cursor EXCEPT ![o] = MaxOf({log[i].cursor : i \in DOMAIN log})]
  /\ ToPhase(o, "acquire")
  /\ UNCHANGED <<alive, lease, socket, serving, requests, timer, beating, stop, emit, log>>

\* Mutant: an expired lease may be taken from a running owner.
StartAcquireStale(o) ==
  /\ InPhase(o, "acquire")
  /\ \/ /\ HolderAlive => lease.expired
        /\ priorEpoch < MaxEpoch
        /\ lease' = [owner |-> o, expired |-> FALSE, epoch |-> priorEpoch + 1]
        /\ ToPhase(o, "clear")
     \/ ToPhase(o, "failed") /\ UNCHANGED lease
  /\ UNCHANGED <<alive, socket, serving, requests, timer, beating, stop, cursor, emit, log>>

\* acquireLease: free, or held by a process that has ended; else lease_held, and
\* lease_lock_timeout at any time.
StartAcquire(o) ==
  /\ InPhase(o, "acquire")
  /\ \/ /\ ~HolderAlive
        /\ priorEpoch < MaxEpoch
        /\ lease' = [owner |-> o, expired |-> FALSE, epoch |-> priorEpoch + 1]
        /\ ToPhase(o, "clear")
     \/ ToPhase(o, "failed") /\ UNCHANGED lease
  /\ UNCHANGED <<alive, socket, serving, requests, timer, beating, stop, cursor, emit, log>>

\* ControlServer.listen: remove whatever is at the path, then bind it.
StartClearPath(o) ==
  /\ InPhase(o, "clear")
  /\ socket' = NoSocket
  /\ ToPhase(o, "listen")
  /\ UNCHANGED <<alive, lease, serving, requests, timer, beating, stop, emitVars>>

StartListen(o) ==
  /\ InPhase(o, "listen")
  /\ IF socket = NoSocket
       THEN /\ socket' = o /\ serving' = [serving EXCEPT ![o] = TRUE]
            /\ ToPhase(o, "announce")
       ELSE ToPhase(o, "failed") /\ UNCHANGED <<socket, serving>>
  /\ UNCHANGED <<alive, lease, requests, timer, beating, stop, emitVars>>

\* The emit of owner_started is over (its emitter is idle again; others may
\* belong to requests that are served already): the heartbeat timer is set.
StartDone(o) ==
  /\ InPhase(o, "announce")
  /\ \E k \in Emitter : emit[o][k].at = "idle"
  /\ timer' = [timer EXCEPT ![o] = TRUE]
  /\ ToPhase(o, "running")
  /\ UNCHANGED <<alive, lease, socket, serving, requests, beating, stop, emitVars>>

\* The command ends when start() throws, when its own stop() is over, and at
\* any time by a crash.
Exit(o) ==
  /\ alive[o]
  /\ alive' = [alive EXCEPT ![o] = FALSE]
  /\ serving' = [serving EXCEPT ![o] = FALSE]
  /\ requests' = [requests EXCEPT ![o] = {}]
  /\ timer' = [timer EXCEPT ![o] = FALSE]
  /\ beating' = [beating EXCEPT ![o] = FALSE]
  /\ stop' = [stop EXCEPT ![o] = [s \in Stopper |-> "none"]]
  /\ emit' = [emit EXCEPT ![o] = [k \in Emitter |-> Idle]]
  /\ UNCHANGED <<phase, cursor, fileVars>>

-----------------------------------------------------------------------------
(* Heartbeats *)

Expire ==
  /\ lease # NoLease /\ ~lease.expired
  /\ lease' = [lease EXCEPT !.expired = TRUE]
  /\ UNCHANGED <<alive, phase, socket, serving, requests, timer, beating, stop, emitVars>>

HeartbeatStart(o) ==
  /\ alive[o] /\ timer[o] /\ ~beating[o]
  /\ beating' = [beating EXCEPT ![o] = TRUE]
  /\ UNCHANGED <<alive, phase, socket, lease, serving, requests, timer, stop, emitVars>>

BeginStop(o, s) ==
  stop' = [stop EXCEPT ![o][s] = IF @ = "none" THEN "close" ELSE @]

\* heartbeat() ends: refreshed, not_lease_holder (which stops the owner), or
\* no_lease and lease_lock_timeout (both ignored).
HeartbeatEnd(o) ==
  /\ alive[o] /\ beating[o]
  /\ beating' = [beating EXCEPT ![o] = FALSE]
  /\ \/ Holds(o) /\ lease' = [lease EXCEPT !.expired = FALSE] /\ UNCHANGED stop
     \/ lease # NoLease /\ ~Holds(o) /\ BeginStop(o, "heartbeat") /\ UNCHANGED lease
     \/ UNCHANGED <<lease, stop>>    \* no lease, or lease_lock_timeout
  /\ UNCHANGED <<alive, phase, socket, serving, requests, timer, emitVars>>

-----------------------------------------------------------------------------
(* Requests *)

Accept(o, q) ==
  /\ serving[o] /\ q \notin requests[o]
  /\ requests' = [requests EXCEPT ![o] = @ \union {q}]
  /\ UNCHANGED <<alive, phase, lease, socket, serving, timer, beating, stop, emitVars>>

\* The handler's response ends the connection (or the client has gone away); a
\* server that was closed meanwhile answers all the same.
Answer(o, q) ==
  /\ q \in requests[o]
  /\ requests' = [requests EXCEPT ![o] = @ \ {q}]
  /\ UNCHANGED <<alive, phase, lease, socket, serving, timer, beating, stop, emitVars>>

-----------------------------------------------------------------------------
(* stop() *)

\* #retire, handling one of the requests, stops in a microtask.
Retire(o) ==
  /\ requests[o] # {} /\ stop[o]["retire"] = "none"
  /\ BeginStop(o, "retire")
  /\ UNCHANGED <<alive, phase, serving, requests, timer, beating, fileVars, cursor, emit>>

\* The command polls resolveOwner, or gets a signal, and calls stop().
CommandStop(o) ==
  /\ InPhase(o, "running") /\ stop[o]["command"] = "none"
  /\ ~resolveOwnerLive
  /\ BeginStop(o, "command")
  /\ UNCHANGED <<alive, phase, serving, requests, timer, beating, fileVars, cursor, emit>>

Signal(o) ==
  /\ InPhase(o, "running") /\ stop[o]["command"] = "none"
  /\ BeginStop(o, "command")
  /\ UNCHANGED <<alive, phase, serving, requests, timer, beating, fileVars, cursor, emit>>

AtStop(o, s, st) == alive[o] /\ stop[o][s] = st
StopTo(o, s, st) == stop' = [stop EXCEPT ![o][s] = st]

\* Mutant: close() does not wait for the connections to end.
StopCloseAtOnce(o, s) ==
  /\ AtStop(o, s, "close")
  /\ timer' = [timer EXCEPT ![o] = FALSE]
  /\ serving' = [serving EXCEPT ![o] = FALSE]
  /\ StopTo(o, s, "unlink")
  /\ UNCHANGED <<alive, phase, lease, socket, requests, beating, emitVars>>

\* The frame pump has drained: clear the interval and close the server.  Whoever
\* closes it waits for its connections; a later stop() finds no server.
StopClose(o, s) ==
  /\ AtStop(o, s, "close")
  /\ timer' = [timer EXCEPT ![o] = FALSE]
  /\ serving' = [serving EXCEPT ![o] = FALSE]
  /\ StopTo(o, s, IF serving[o] THEN "drain" ELSE "unlink")
  /\ UNCHANGED <<alive, phase, lease, socket, requests, beating, emitVars>>

StopDrained(o, s) ==
  /\ AtStop(o, s, "drain") /\ requests[o] = {}
  /\ StopTo(o, s, "unlink")
  /\ UNCHANGED <<alive, phase, serving, requests, timer, beating, cursor, emit, fileVars>>

\* ControlServer.close removes the socket path, whoever is bound to it now.
StopUnlink(o, s) ==
  /\ AtStop(o, s, "unlink")
  /\ socket' = NoSocket
  /\ StopTo(o, s, "release")
  /\ UNCHANGED <<alive, phase, lease, serving, requests, timer, beating, emitVars>>

\* rpc.close, then releaseLease; every error of it is ignored.
StopRelease(o, s) ==
  /\ AtStop(o, s, "release")
  /\ StopTo(o, s, "done")
  /\ \/ Holds(o) /\ lease' = NoLease
     \/ UNCHANGED lease    \* not the holder, or lease_lock_timeout
  /\ UNCHANGED <<alive, phase, socket, serving, requests, timer, beating, emitVars>>

-----------------------------------------------------------------------------
(* #emit: read the lease, read the state, stamp the cursor, append. *)

\* Events come from start() itself, then from handlers and frames, which go on
\* while stop() runs (it waits for the frame pump only).
EmitCheck(o, k) ==
  /\ alive[o] /\ phase[o] \in {"announce", "running"}
  /\ emit[o][k].at = "idle" /\ cursor[o] < MaxCursor
  /\ Holds(o) /\ ~lease.expired
  /\ emit' = [emit EXCEPT ![o][k] = [at |-> "checked", cursor |-> 0, epoch |-> lease.epoch]]
  /\ UNCHANGED <<alive, phase, serving, requests, timer, beating, stop, cursor, fileVars>>

EmitStamp(o, k) ==
  /\ alive[o] /\ emit[o][k].at = "checked" /\ cursor[o] < MaxCursor
  /\ cursor' = [cursor EXCEPT ![o] = @ + 1]
  /\ emit' = [emit EXCEPT ![o][k] =
               [at |-> "stamped", cursor |-> cursor[o] + 1, epoch |-> emit[o][k].epoch]]
  /\ UNCHANGED <<alive, phase, serving, requests, timer, beating, stop, fileVars>>

EmitAppend(o, k) ==
  /\ alive[o] /\ emit[o][k].at = "stamped"
  /\ log' = Append(log, [cursor |-> emit[o][k].cursor, owner |-> o, epoch |-> emit[o][k].epoch])
  /\ emit' = [emit EXCEPT ![o][k] = Idle]
  /\ UNCHANGED <<alive, phase, lease, socket, serving, requests, timer, beating, stop, cursor>>

\* reapDeadOwnerArtifacts, run by the garbage collector: socket, then lease.
Reap ==
  /\ lease # NoLease /\ ~HolderAlive
  /\ socket' = NoSocket /\ lease' = NoLease
  /\ UNCHANGED <<alive, phase, serving, requests, timer, beating, stop, emitVars>>

-----------------------------------------------------------------------------
Starting(o) == \/ StartReadEvents(o) \/ StartAcquire(o) \/ StartClearPath(o)
               \/ StartListen(o) \/ StartDone(o)

StopStep(o) ==
  \E s \in Stopper : \/ StopClose(o, s) \/ StopDrained(o, s)
                     \/ StopUnlink(o, s) \/ StopRelease(o, s)

Requesting(o) == \E q \in Request : Accept(o, q) \/ Answer(o, q)

Emitting(o) == \E k \in Emitter : EmitCheck(o, k) \/ EmitStamp(o, k) \/ EmitAppend(o, k)

Next == \/ \E o \in Owner : \/ Starting(o) \/ Exit(o) \/ HeartbeatStart(o) \/ HeartbeatEnd(o)
                            \/ Retire(o) \/ CommandStop(o) \/ Signal(o) \/ StopStep(o)
                            \/ Requesting(o) \/ Emitting(o)
        \/ Expire \/ Reap

Spec == Init /\ [][Next]_vars

-----------------------------------------------------------------------------
(* From the acquisition until one of its stop() calls has released it, a      *)
(* running owner holds the lease, expired or not: nobody takes it away.      *)
Released(o) == \E s \in Stopper : stop[o][s] = "done"
OwnerHoldsUntilStopped ==
  \A o \in Owner :
    alive[o] /\ phase[o] \in {"clear", "listen", "announce", "running"} /\ ~Released(o)
      => Holds(o)

(* What the inductive argument adds.  A stop() begins after the server began  *)
(* to listen, and its first step closes the server for good; the heartbeat's  *)
(* timer runs in the same phase only; an emit on its way has an epoch, and a  *)
(* stamped one a cursor.  The stop() that closed the server stays until all   *)
(* connections have ended.                                                    *)
StopClosesServer ==
  \A o \in Owner :
    /\ timer[o] \/ beating[o] => phase[o] = "running"
    /\ Stopping(o) => phase[o] \in {"announce", "running"}
    /\ serving[o] => /\ alive[o] /\ phase[o] \in {"announce", "running"}
                     /\ \A s \in Stopper : stop[o][s] \in {"none", "close"}

EmitsStamped ==
  \A o \in Owner, k \in Emitter :
    /\ emit[o][k].at # "idle" => emit[o][k].epoch \in 1..MaxEpoch
    /\ emit[o][k].at = "stamped" => emit[o][k].cursor \in 1..MaxCursor

CloserWaits ==
  \A o \in Owner : requests[o] # {} =>
    /\ alive[o] /\ phase[o] \in {"announce", "running"}
    /\ \/ serving[o]
       \/ \E s \in Stopper : stop[o][s] = "drain"

(* The types of the owners' state, what they hold, and why. *)
OwnerInv == /\ TypeOK /\ OwnerHoldsUntilStopped /\ StopClosesServer /\ EmitsStamped
            /\ CloserWaits

(* Connections are accepted by the lease holder only: an owner listens after   *)
(* it has acquired the lease and stops listening before it gives it up.  And  *)
(* a request is under way in an owner that has lost the lease only after two  *)
(* of its stop() calls have overlapped: the one that closed the server still  *)
(* waits for the request, the other found no server and released the lease.   *)
Overlap(o) ==
  /\ \E s \in Stopper : stop[o][s] = "drain"
  /\ \E s \in Stopper : stop[o][s] = "done"
RequestsHoldLease ==
  \A o \in Owner :
    /\ serving[o] => Holds(o)
    /\ requests[o] # {} => Holds(o) \/ Overlap(o)

\* The code does not keep this one (README, section 4).
(* control-endpoint.ts has the CLI's calls "route owner-routed primitives [...] *)
(* to the live owner", of which session-lease.ts says: "Exactly one live        *)
(* `RuntimeOwner` holds the lease for a session".                               *)
OneOwnerAnswers == \A o, q \in Owner : requests[o] # {} /\ requests[q] # {} => o = q

\* The code does not keep this one (README, section 4).
(* owner.ts: "be the SOLE writer of the severity event stream"; the header of  *)
(* session-lease.ts: "only the lease holder may append events".              *)
AppendedByHolder == log' # log => Holds(log'[Len(log')].owner)
SoleWriter == [][AppendedByHolder]_vars

\* The code does not keep this one (README, section 4).
(* owner-frames.test.ts: "cursors strictly increasing".                        *)
CursorsIncrease ==
  \A i, j \in DOMAIN log : i < j => log[i].cursor < log[j].cursor

\* The code does not keep this one (README, section 4).
(* resolveOwner: "Owner process alive => endpoint reachable => routable".      *)
RunningOwnerReachable ==
  \A o \in Owner : InPhase(o, "running") /\ ~Stopping(o) /\ Holds(o) => socket = o
=============================================================================
