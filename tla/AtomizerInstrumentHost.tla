----------------------- MODULE AtomizerInstrumentHost -----------------------
(***************************************************************************)
(* The application service between IPC and InstrumentManager               *)
(* (apps/desktop/src/main/atomizer-instrument-host.ts): a bounded queue    *)
(* with a reserved teardown slot, continuous acquisition, transitions that *)
(* stop the stream first, startup admission, the startup preference, and   *)
(* shutdown.  The manager behind it is ManagerContract.                    *)
(*                                                                         *)
(* Calls that wait for a run to drain (`await run.done`) are in `awaiting` *)
(* until their continuation runs; the connection epoch is kept, as in      *)
(* ManagerQueue, as the flag `current` of each admitted operation.         *)
(***************************************************************************)
EXTENDS ManagerContract, Naturals, Sequences, SequencesExt, FiniteSets

CONSTANTS
    Transitions,  \* operations of #withStreamingStopped
    SessionCalls, \* operations of #serializeSessionOpen
    FreeCalls,    \* operations of #serializeOpen
    HostLimit     \* MAX_PENDING_HOST_OPERATIONS

Calls == Transitions \cup SessionCalls \cup FreeCalls

ASSUME HostAssumption ==
    /\ Transitions \subseteq {"connect", "configure", "mode", "startup"}
    /\ SessionCalls \subseteq {"acquire", "feature"}
    /\ FreeCalls \subseteq {"discover", "preference"}
    /\ HostLimit \in Nat \ {0}

VARIABLES
    lifecycle,      \* #lifecycle
    normal,         \* #normalOperations
    safety,         \* #safetyOperation is set
    running,        \* the drained operation and the call it waits for
    answer,         \* that call has answered: none, ok or failed
    pending,        \* #pendingOperations
    pendingSafety,  \* #pendingSafetyOperations
    blockers,       \* #streamBlockers
    awaiting,       \* continuations of `await run.done`, in order
    disconnecting,  \* #disconnectPromise: none, waiting, teardown, ok, failed
    shutdown,       \* #shutdownPromise: none, waiting, joined, teardown, ok, failed
    run,            \* #streamRun and its pump
    streaming,      \* #streaming.status
    startup,        \* #startup.status
    knownCleanup,   \* #connectionCleanup
    evented,        \* #pendingAcquisition.eventSequence is set
    accepted,       \* #lastAcceptedMeasurement is the manager's last one
    echo            \* the manager may still emit the event of its last one

queueVars == <<normal, safety, running, answer, pending, pendingSafety>>
streamVars == <<run, streaming>>
lifeVars == <<lifecycle, blockers, awaiting, disconnecting, shutdown>>
measurementVars == <<evented, accepted, echo>>
restVars == <<startup, knownCleanup, measurementVars, contractVars>>
hostVars == <<queueVars, streamVars, lifeVars, startup, knownCleanup,
              measurementVars>>
vars == <<hostVars, contractVars>>

Op(kind) == [kind |-> kind, current |-> TRUE, wait |-> "start"]
NoOp == [kind |-> "none", current |-> FALSE, wait |-> "start"]

\* A pump is about to loop, has handed an acquisition to the queue, or has
\* seen it fail; `fault` is externalFault.
NoRun == [on |-> FALSE, stop |-> FALSE, fault |-> FALSE, pump |-> "loop"]
NewRun == [on |-> TRUE, stop |-> FALSE, fault |-> FALSE, pump |-> "loop"]

Waiter(who, kind) ==
    [who |-> who, kind |-> kind, current |-> TRUE, ready |-> ~run.on]

HostTypeOK ==
    /\ ContractTypeOK
    /\ lifecycle \in {"open", "closing", "closed"}
    /\ normal \in Seq([kind : Calls \cup {"pump"}, current : BOOLEAN,
                       wait : {"start"}])
    /\ safety \in BOOLEAN
    /\ running \in [kind : Calls \cup {"pump", "teardown", "none"},
                    current : BOOLEAN,
                    wait : {"start", "connect", "configure", "acquire",
                            "feature", "discover", "load", "save",
                            "disconnect"}]
    /\ answer \in {"none", "ok", "failed"}
    /\ pending \in 0..HostLimit /\ pendingSafety \in 0..1
    /\ blockers \in 0..(HostLimit + 1)
    /\ awaiting \in Seq([who : {"transition", "disconnect", "shutdown", "restart"},
                         kind : Transitions \cup {"none"},
                         current : BOOLEAN, ready : BOOLEAN])
    /\ disconnecting \in {"none", "waiting", "teardown", "ok", "failed"}
    /\ shutdown \in {"none", "waiting", "joined", "teardown", "ok", "failed"}
    /\ run \in [on : BOOLEAN, stop : BOOLEAN, fault : BOOLEAN,
                pump : {"loop", "submitted", "failed"}]
    /\ streaming \in {"stopped", "running", "faulted"}
    /\ startup \in {"not-started", "connected", "failed"}
    /\ knownCleanup \in {"none", "driver", "rejected"}
    /\ evented \in BOOLEAN /\ accepted \in BOOLEAN /\ echo \in BOOLEAN

HostInit ==
    /\ ContractInit
    /\ lifecycle = "open" /\ normal = <<>> /\ safety = FALSE
    /\ running = NoOp /\ answer = "none"
    /\ pending = 0 /\ pendingSafety = 0 /\ blockers = 0
    /\ awaiting = <<>> /\ disconnecting = "none" /\ shutdown = "none"
    /\ run = NoRun /\ streaming = "stopped"
    /\ startup = "not-started" /\ knownCleanup = "none"
    /\ evented = FALSE /\ accepted = FALSE /\ echo = FALSE

-----------------------------------------------------------------------------
(* Queue: #drainOperations and #settleOperation *)

\* What runs next, with the rest of the queue: the teardown slot goes first.
DrainFrom(ops, slot) ==
    /\ safety' = FALSE
    /\ running' = IF slot THEN Op("teardown")
                  ELSE IF ops # <<>> THEN Head(ops) ELSE NoOp
    /\ normal' = IF slot \/ ops = <<>> THEN ops ELSE Tail(ops)

Drain(ops, slot) ==
    IF running = NoOp
      THEN DrainFrom(ops, slot)
      ELSE normal' = ops /\ safety' = slot /\ UNCHANGED running

Enqueue(op) == Drain(Append(normal, op), safety) /\ UNCHANGED answer

\* The operation settles; a transition's `finally` gives up its stream blocker.
Settle ==
    /\ DrainFrom(normal, safety)
    /\ answer' = "none"
    /\ IF running.kind = "teardown"
         THEN pendingSafety' = pendingSafety - 1 /\ UNCHANGED pending
         ELSE pending' = pending - 1 /\ UNCHANGED pendingSafety
    /\ blockers' = IF running.kind \in Transitions THEN blockers - 1
                                                   ELSE blockers

Outdate(ops) == [i \in DOMAIN ops |-> [ops[i] EXCEPT !.current = FALSE]]

\* The connection epoch advances.
AdvanceEpoch ==
    /\ normal' = Outdate(normal)
    /\ running' = [running EXCEPT !.current = FALSE]
    /\ UNCHANGED <<safety, answer, pending, pendingSafety>>

-----------------------------------------------------------------------------
(* Streaming *)

\* #requestStreamingStop
RequestStop ==
    /\ run' = IF run.on THEN [run EXCEPT !.stop = TRUE] ELSE run
    /\ streaming' = IF ~(run.on /\ ~run.stop) /\ streaming = "faulted"
                      THEN "stopped" ELSE streaming

\* #faultActiveStream
FaultStream ==
    run' = IF run.on THEN [run EXCEPT !.stop = TRUE, !.fault = TRUE] ELSE run

SessionWorkAvailable ==
    lifecycle = "open" /\ disconnecting = "none" /\ blockers = 0

\* Faulty variant: only the cleanup requirement is looked at.
SafeWithoutCleanup ==
    /\ lifecycle = "open" /\ disconnecting = "none"
    /\ knownCleanup = "none" /\ cleanup = "none"

PreferenceMutationSafe ==
    /\ lifecycle = "open" /\ disconnecting = "none"
    /\ sess = "none" /\ ~run.on
    /\ knownCleanup = "none" /\ cleanup = "none"

MayStart == sess = "configured" /\ ~run.on
StartRun == run' = NewRun /\ streaming' = "running"

\* startStreaming: a draining run is waited for, then the start is repeated.
\* At most one such start waits (a bound of the model).
StartStreaming ==
    /\ SessionWorkAvailable
    /\ \/ MayStart /\ StartRun /\ UNCHANGED awaiting
       \/ /\ run.on /\ run.stop
          /\ \A i \in DOMAIN awaiting : awaiting[i].who # "restart"
          /\ awaiting' = Append(awaiting, Waiter("restart", "none"))
          /\ UNCHANGED streamVars
    /\ UNCHANGED <<queueVars, lifecycle, blockers, disconnecting, shutdown,
                   restVars>>

StopStreaming ==
    /\ lifecycle = "open"
    /\ RequestStop
    /\ UNCHANGED <<queueVars, lifeVars, restVars>>

\* #pump hands one acquisition to the queue, or is refused at the limit or by a
\* host that closes.
PumpSubmits ==
    /\ run.on /\ run.pump = "loop" /\ ~run.stop
    /\ IF lifecycle = "open" /\ pending < HostLimit
         THEN /\ Enqueue(Op("pump")) /\ pending' = pending + 1
              /\ run' = [run EXCEPT !.pump = "submitted"]
         ELSE /\ run' = [run EXCEPT !.pump = "failed"]
              /\ UNCHANGED <<normal, safety, running, answer, pending>>
    /\ UNCHANGED <<pendingSafety, streaming, lifeVars, restVars>>

Released(ops) == [i \in DOMAIN ops |-> [ops[i] EXCEPT !.ready = TRUE]]

\* The finally block of #pump; everybody who waited for the run continues.
PumpEnds ==
    /\ run.on
    /\ run.pump = "failed" \/ (run.pump = "loop" /\ run.stop)
    /\ run' = NoRun
    /\ streaming' = IF run.fault \/ (run.pump = "failed" /\ ~run.stop)
                      THEN "faulted" ELSE "stopped"
    /\ awaiting' = Released(awaiting)
    /\ UNCHANGED <<queueVars, lifecycle, blockers, disconnecting, shutdown,
                   restVars>>

-----------------------------------------------------------------------------
(* Calls of the renderer and of the application *)

\* connect, configure, canonical operations, mode-changing features, startup.
CallTransition(kind) ==
    /\ lifecycle = "open" /\ disconnecting = "none"
    /\ kind = "mode" => SessionWorkAvailable
    /\ kind = "startup" => startup = "not-started"
    /\ pending < HostLimit
    /\ pending' = pending + 1 /\ blockers' = blockers + 1
    /\ RequestStop
    /\ awaiting' = Append(awaiting, Waiter("transition", kind))
    /\ UNCHANGED <<normal, safety, running, answer, pendingSafety, lifecycle,
                   disconnecting, shutdown, restVars>>

\* Manual acquisition and the other features.
CallSession(kind) ==
    /\ SessionWorkAvailable
    /\ pending < HostLimit /\ pending' = pending + 1
    /\ Enqueue(Op(kind))
    /\ UNCHANGED <<pendingSafety, streamVars, lifeVars, restVars>>

\* Discovery (readPreference takes the same way) and writePreference.
CallFree(kind) ==
    /\ lifecycle = "open"
    /\ kind = "preference" => PreferenceMutationSafe
    /\ pending < HostLimit /\ pending' = pending + 1
    /\ Enqueue(Op(kind))
    /\ UNCHANGED <<pendingSafety, streamVars, lifeVars, restVars>>

\* disconnect(); a pending one, or a shutdown, is shared.
CallDisconnect ==
    /\ lifecycle = "open" /\ disconnecting = "none"
    /\ disconnecting' = "waiting"
    /\ AdvanceEpoch
    /\ blockers' = blockers + 1
    /\ RequestStop
    /\ awaiting' = Append([i \in DOMAIN awaiting |->
                             [awaiting[i] EXCEPT !.current = FALSE]],
                          Waiter("disconnect", "none"))
    /\ UNCHANGED <<lifecycle, shutdown, restVars>>

\* Faulty variant: shutdown always asks for a teardown of its own.
CallShutdownUnshared ==
    /\ shutdown = "none"
    /\ lifecycle' = "closing" /\ shutdown' = "waiting"
    /\ AdvanceEpoch
    /\ RequestStop
    /\ awaiting' = Append([i \in DOMAIN awaiting |->
                             [awaiting[i] EXCEPT !.current = FALSE]],
                          Waiter("shutdown", "none"))
    /\ UNCHANGED <<blockers, disconnecting, restVars>>

\* shutdown(); it joins a pending disconnect, which waits for the same run.
CallShutdown ==
    /\ shutdown = "none"
    /\ lifecycle' = "closing"
    /\ AdvanceEpoch
    /\ RequestStop
    /\ LET outdated == [i \in DOMAIN awaiting |->
                          [awaiting[i] EXCEPT !.current = FALSE]]
       IN  IF disconnecting # "none"
             THEN shutdown' = "joined" /\ awaiting' = outdated
             ELSE /\ shutdown' = "waiting"
                  /\ awaiting' = Append(outdated, Waiter("shutdown", "none"))
    /\ UNCHANGED <<blockers, disconnecting, restVars>>

-----------------------------------------------------------------------------
(* Continuations of `await run.done` *)

\* The first waiter whose run has ended
NextReady == {i \in DOMAIN awaiting :
                 awaiting[i].ready /\ \A j \in 1..(i - 1) : ~awaiting[j].ready}

TransitionResumes ==
    /\ \E i \in NextReady :
         /\ awaiting[i].who = "transition"
         /\ Enqueue([kind |-> awaiting[i].kind, current |-> awaiting[i].current,
                     wait |-> "start"])
         /\ awaiting' = RemoveAt(awaiting, i)
    /\ UNCHANGED <<pending, pendingSafety, streamVars, lifecycle, blockers,
                   disconnecting, shutdown, restVars>>

\* #enqueue(..., 'rf-safe-teardown'): rejected when a teardown is pending.
TakeSafetySlot(promise) ==
    IF pendingSafety >= 1
      THEN promise' = "failed" /\ UNCHANGED queueVars
      ELSE /\ promise' = "teardown"
           /\ pendingSafety' = pendingSafety + 1
           /\ Drain(normal, TRUE)
           /\ UNCHANGED <<answer, pending>>

DisconnectResumes ==
    /\ \E i \in NextReady :
         awaiting[i].who = "disconnect" /\ awaiting' = RemoveAt(awaiting, i)
    /\ TakeSafetySlot(disconnecting)
    /\ UNCHANGED <<streamVars, lifecycle, blockers, shutdown, restVars>>

ShutdownResumes ==
    /\ \E i \in NextReady :
         awaiting[i].who = "shutdown" /\ awaiting' = RemoveAt(awaiting, i)
    /\ TakeSafetySlot(shutdown)
    /\ UNCHANGED <<streamVars, lifecycle, blockers, disconnecting, restVars>>

\* The repeated start is refused like a new one, waits for a newer run, or
\* starts one.
RestartResumes ==
    /\ \E i \in NextReady :
         /\ awaiting[i].who = "restart"
         /\ LET rest == RemoveAt(awaiting, i)
            IN  IF SessionWorkAvailable /\ run.on /\ run.stop
                  THEN /\ awaiting' = Append(rest, Waiter("restart", "none"))
                       /\ UNCHANGED streamVars
                  ELSE /\ awaiting' = rest
                       /\ IF SessionWorkAvailable /\ MayStart
                            THEN StartRun ELSE UNCHANGED streamVars
    /\ UNCHANGED <<queueVars, lifecycle, blockers, disconnecting, shutdown,
                   restVars>>

-----------------------------------------------------------------------------
(* Execution: the operation's own code between two awaits *)

Starting(kinds) == running.kind \in kinds /\ running.wait = "start"

\* The checks that the queued closure makes before anything else.
Admitted ==
    /\ lifecycle = "open"
    /\ running.kind \in Transitions \cup SessionCalls => running.current

Awaits(wait, result) ==
    /\ running' = [running EXCEPT !.wait = wait]
    /\ answer' = result
    /\ UNCHANGED <<normal, safety, pending, pendingSafety, blockers>>

KeepLife == UNCHANGED <<lifecycle, awaiting, disconnecting, shutdown>>

\* The operation ends before it calls anything.
EndsAtStart ==
    /\ Starting(Calls)
    /\ \/ ~Admitted
       \/ running.kind = "acquire" /\ run.on
       \/ running.kind = "startup" /\ startup # "not-started"
       \/ running.kind = "preference" /\ ~PreferenceMutationSafe
    /\ Settle /\ KeepLife
    /\ UNCHANGED <<streamVars, restVars>>

\* manager.connect is refused while anything of a connection is left.
CallsManager(kind, wait) ==
    /\ Starting({kind}) /\ Admitted
    /\ Awaits(wait, IF wait = "connect" /\ ~Connectable THEN "failed" ELSE "none")
    /\ KeepLife /\ UNCHANGED <<streamVars, restVars>>

BeginAcquire == CallsManager("acquire", "acquire") /\ ~run.on

BeginStartup == CallsManager("startup", "load") /\ startup = "not-started"

BeginPreference ==
    CallsManager("preference", "discover") /\ PreferenceMutationSafe

BeginPump ==
    /\ Starting({"pump"})
    /\ IF Admitted /\ ~run.stop
         THEN Awaits("acquire", "none") /\ UNCHANGED run
         ELSE /\ Settle
              /\ run' = [run EXCEPT !.pump = IF Admitted THEN "loop" ELSE "failed"]
    /\ KeepLife /\ UNCHANGED <<streaming, restVars>>

BeginTeardown ==
    /\ Starting({"teardown"})
    /\ Awaits("disconnect", "none")
    /\ DisconnectCalled
    /\ KeepLife
    /\ UNCHANGED <<streamVars, startup, knownCleanup, measurementVars>>

-----------------------------------------------------------------------------
(* What the manager and the preference store answer *)

Calling(wait) == running.wait = wait /\ answer = "none"
Answers(result) ==
    /\ answer' = result
    /\ UNCHANGED <<normal, safety, running, pending, pendingSafety>>

KeepHost == UNCHANGED <<streamVars, lifeVars, startup, knownCleanup>>

Looked == /\ \E wait \in {"discover", "load", "save"} : Calling(wait)
          /\ \E result \in {"ok", "failed"} : Answers(result)
          /\ KeepHost /\ UNCHANGED <<measurementVars, contractVars>>

ManagerConnects ==
    /\ Calling("connect")
    /\ \/ (Opens \/ Retains) /\ UNCHANGED queueVars
       \/ ClosesRejected /\ Answers("failed")
       \/ /\ Answers(IF sess # "none" /\ cleanup = "none" THEN "ok" ELSE "failed")
          /\ UNCHANGED contractVars
    /\ KeepHost /\ UNCHANGED measurementVars

\* The result of configure() and of a feature is the caller's alone.
ManagerConfigures ==
    /\ Calling("configure")
    /\ \/ Invalidates /\ UNCHANGED queueVars
       \/ (Configures \/ UNCHANGED contractVars) /\ Answers("ok")
    /\ echo' = FALSE
    /\ KeepHost /\ UNCHANGED <<evented, accepted>>

ManagerExecutes ==
    /\ Calling("feature")
    /\ \/ running.kind = "mode" /\ Invalidates /\ UNCHANGED queueVars
       \/ UNCHANGED contractVars /\ Answers("ok")
    /\ KeepHost /\ UNCHANGED measurementVars

ManagerAcquires ==
    /\ Calling("acquire")
    /\ \/ /\ sess = "configured" /\ Answers("ok")
          /\ accepted' = FALSE /\ echo' = ~evented /\ UNCHANGED evented
       \/ Answers("failed") /\ UNCHANGED measurementVars
    /\ KeepHost /\ UNCHANGED contractVars

ManagerDisconnects ==
    /\ Calling("disconnect")
    /\ IF settled = "none"
         THEN DisconnectMoves /\ UNCHANGED queueVars
         ELSE Answers(settled) /\ UNCHANGED contractVars
    /\ KeepHost /\ UNCHANGED measurementVars

-----------------------------------------------------------------------------
(* Events of the manager: #acceptManagerEvent *)

\* A faulted status or an error, recoverable or not, ends the stream.
FaultEvent ==
    /\ sess # "none"
    /\ Faults \/ UNCHANGED contractVars
    /\ FaultStream
    /\ UNCHANGED <<queueVars, streaming, lifeVars, startup, knownCleanup,
                   measurementVars>>

\* The measurement of the open transaction, or the manager's last one.
MeasurementEvent ==
    /\ sess = "configured"
    /\ \/ Calling("acquire") /\ ~evented
       \/ ~Calling("acquire") /\ echo
    /\ echo' = FALSE
    /\ IF running.wait = "acquire"
         THEN evented' = TRUE /\ (IF evented THEN FaultStream ELSE UNCHANGED run)
         ELSE UNCHANGED evented /\ (IF accepted THEN UNCHANGED run ELSE FaultStream)
    /\ UNCHANGED <<queueVars, streaming, lifeVars, startup, knownCleanup,
                   accepted, contractVars>>

-----------------------------------------------------------------------------
(* The host continues after an answer *)

Answered(kinds, wait) ==
    running.kind \in kinds /\ running.wait = wait /\ answer # "none"

OperationEnds ==
    /\ \/ \E wait \in {"configure", "feature", "save"} : Answered(Calls, wait)
       \/ Answered({"discover"}, "discover")
    /\ Settle /\ KeepLife
    /\ UNCHANGED <<streamVars, restVars>>

ConnectEnds ==
    /\ Answered({"connect"}, "connect")
    /\ knownCleanup' = cleanup
    /\ Settle /\ KeepLife
    /\ UNCHANGED <<streamVars, startup, measurementVars, contractVars>>

\* Faulty variant: only streamed measurements are remembered.
AcceptStreamed ==
    /\ evented' = FALSE
    /\ accepted' = (accepted \/ (answer = "ok" /\ running.kind = "pump"))
    /\ UNCHANGED echo

\* #acquireAndMaybePublish closes its transaction.
Accept ==
    /\ evented' = FALSE
    /\ accepted' = (accepted \/ answer = "ok")
    /\ UNCHANGED echo

AcquireEnds ==
    /\ Answered({"acquire", "pump"}, "acquire")
    /\ Accept
    /\ run' = IF running.kind = "acquire" THEN run
              ELSE [run EXCEPT !.pump = IF answer = "ok" THEN "loop" ELSE "failed"]
    /\ Settle /\ KeepLife
    /\ UNCHANGED <<streaming, startup, knownCleanup, contractVars>>

\* Loading or discovery of the startup candidate: on to the next call, ended
\* by a host that closes, or failed for good.
StartupLooks(wait, next) ==
    /\ Answered({"startup"}, wait)
    /\ \/ /\ answer = "ok" /\ lifecycle = "open"
          /\ Awaits(next, IF next = "connect" /\ ~Connectable THEN "failed" ELSE "none")
          /\ UNCHANGED startup
       \/ answer = "ok" /\ lifecycle # "open" /\ Settle /\ UNCHANGED startup
       \/ answer = "failed" /\ Settle /\ startup' = "failed"
    /\ KeepLife
    /\ UNCHANGED <<streamVars, knownCleanup, measurementVars, contractVars>>

\* Faulty variant: startup does not look at the cleanup requirement.
StartupConnectsUnsynced ==
    /\ Answered({"startup"}, "connect")
    /\ startup' = IF answer = "ok" THEN "connected" ELSE "failed"
    /\ Settle /\ KeepLife
    /\ UNCHANGED <<streamVars, knownCleanup, measurementVars, contractVars>>

StartupConnects ==
    /\ Answered({"startup"}, "connect")
    /\ startup' = IF answer = "ok" THEN "connected" ELSE "failed"
    /\ knownCleanup' = cleanup
    /\ Settle /\ KeepLife
    /\ UNCHANGED <<streamVars, measurementVars, contractVars>>

\* The candidate was discovered: everything is checked again before it is saved.
PreferenceLooks ==
    /\ Answered({"preference"}, "discover")
    /\ IF answer = "ok"
         THEN /\ knownCleanup' = cleanup
              /\ IF PreferenceMutationSafe /\ knownCleanup' = "none"
                   THEN Awaits("save", "none") ELSE Settle
         ELSE Settle /\ UNCHANGED knownCleanup
    /\ KeepLife
    /\ UNCHANGED <<streamVars, startup, measurementVars, contractVars>>

\* #disconnectOwnedConnections ends; its promise is the disconnect's or the
\* shutdown's.
TeardownEnds ==
    /\ Answered({"teardown"}, "disconnect")
    /\ knownCleanup' = cleanup
    /\ Settle
    /\ IF disconnecting = "teardown"
         THEN disconnecting' = answer /\ UNCHANGED shutdown
         ELSE shutdown' = answer /\ UNCHANGED disconnecting
    /\ UNCHANGED <<streamVars, lifecycle, awaiting, startup, measurementVars,
                   contractVars>>

\* Faulty variant: the shutdown that joined is forgotten.
DisconnectForgetsShutdown ==
    /\ disconnecting \in {"ok", "failed"}
    /\ disconnecting' = "none" /\ blockers' = blockers - 1
    /\ UNCHANGED <<queueVars, streamVars, lifecycle, awaiting, shutdown, restVars>>

\* disconnect() resolves or rejects; it no longer blocks streams.
DisconnectSettles ==
    /\ disconnecting \in {"ok", "failed"}
    /\ disconnecting' = "none" /\ blockers' = blockers - 1
    /\ shutdown' = IF shutdown = "joined" THEN disconnecting ELSE shutdown
    /\ UNCHANGED <<queueVars, streamVars, lifecycle, awaiting, restVars>>

\* A failed shutdown reopens the host and can be retried.
ShutdownSettles ==
    /\ shutdown \in {"ok", "failed"} /\ lifecycle = "closing"
    /\ lifecycle' = IF shutdown = "ok" THEN "closed" ELSE "open"
    /\ shutdown' = IF shutdown = "ok" THEN shutdown ELSE "none"
    /\ UNCHANGED <<queueVars, streamVars, blockers, awaiting, disconnecting,
                   restVars>>

-----------------------------------------------------------------------------
(* The specification *)

CallerStep ==
    \/ \E kind \in Transitions : CallTransition(kind)
    \/ \E kind \in SessionCalls : CallSession(kind)
    \/ \E kind \in FreeCalls : CallFree(kind)
    \/ StartStreaming \/ StopStreaming
    \/ CallDisconnect \/ CallShutdown

EventStep == FaultEvent \/ MeasurementEvent

Continuation ==
    \/ TransitionResumes \/ DisconnectResumes \/ ShutdownResumes
    \/ RestartResumes

OperationStep ==
    \/ EndsAtStart
    \/ CallsManager("connect", "connect")
    \/ CallsManager("configure", "configure")
    \/ CallsManager("mode", "feature") \/ CallsManager("feature", "feature")
    \/ CallsManager("discover", "discover")
    \/ BeginAcquire \/ BeginStartup \/ BeginPreference \/ BeginPump
    \/ BeginTeardown
    \/ OperationEnds \/ ConnectEnds \/ AcquireEnds
    \/ StartupLooks("load", "discover") \/ StartupLooks("discover", "connect")
    \/ StartupConnects \/ PreferenceLooks \/ TeardownEnds

AnswerStep ==
    \/ Looked \/ ManagerConnects \/ ManagerConfigures \/ ManagerExecutes
    \/ ManagerAcquires \/ ManagerDisconnects

PumpStep == PumpSubmits \/ PumpEnds

PromiseStep == DisconnectSettles \/ ShutdownSettles

HostNext ==
    \/ CallerStep \/ EventStep \/ Continuation
    \/ OperationStep \/ AnswerStep \/ PumpStep \/ PromiseStep

HostSafetySpec == HostInit /\ [][HostNext]_vars

\* Microtasks and the pacing timer run, and every call of the manager or of
\* the preference store is answered; callers and events owe nothing.
HostSpec ==
    /\ HostSafetySpec
    /\ WF_vars(Continuation) /\ WF_vars(PumpStep) /\ WF_vars(PromiseStep)
    /\ WF_vars(OperationStep \/ AnswerStep)

-----------------------------------------------------------------------------
(* Properties *)

\* Admissions and stream blockers are given back exactly once, wherever an
\* operation ends: refused, cancelled, still waiting for a run, or settled.  A
\* disconnect or shutdown that gets to the safety slot finds it free, also when
\* the two race: the 'teardown is already pending' rejection is dead code.
TransitionsAt(ops) == {i \in DOMAIN ops : ops[i].kind \in Transitions}
TransitionsIn(ops) == Cardinality(TransitionsAt(ops))
OneIf(condition) == IF condition THEN 1 ELSE 0

ReservationsAreExact ==
    /\ HostTypeOK
    /\ pending = Len(normal) + TransitionsIn(awaiting)
                   + OneIf(running.kind \in Calls \cup {"pump"})
    /\ pendingSafety = OneIf(safety \/ running.kind = "teardown")
    /\ blockers = TransitionsIn(normal) + TransitionsIn(awaiting)
                    + OneIf(running.kind \in Transitions)
                    + OneIf(disconnecting # "none")
    /\ \A i \in DOMAIN awaiting :
           awaiting[i].who \in {"disconnect", "shutdown"} => pendingSafety = 0

\* While a connection or configuration changes, or the host closes, no stream
\* is live: the only run left is one that has been told to stop.
NoStreamThroughTransition ==
    run.on /\ (blockers > 0 \/ lifecycle # "open") => run.stop

\* Both: what a transition reserves is exact, and it keeps the stream off.
TransitionsAreReserved == ReservationsAreExact /\ NoStreamThroughTransition

\* The cleanup requirement shown to the renderer is the manager's, except
\* while an operation that can change it is executing.
CleanupStateIsFresh ==
    running.wait \notin {"connect", "disconnect"} => knownCleanup = cleanup

\* What the process around the host relies on (HostContract): when disconnect()
\* is about to resolve, and as long as the host is closed, nothing that was
\* admitted earlier has come back since the teardown, no session, no cleanup
\* and no stream; a startup preference is written only while nothing is
\* connected, although discovery runs between the check and the write; a
\* teardown never overtakes such a write; a failed shutdown reopens the host.
AsPromise(state) == IF state \in {"waiting", "joined", "teardown"} THEN "pending" ELSE state

Contract == INSTANCE HostContract WITH
    lifecycle <- lifecycle,
    held <- sess # "none" \/ cleanup # "none" \/ run.on,
    saving <- running.wait = "save",
    disconnecting <- AsPromise(disconnecting),
    shutdown <- AsPromise(shutdown)

ImplementsHostContract == Contract!ContractSpec

\* The event of a measurement that the host has returned never faults a
\* stream: the host remembers manual acquisitions as well as streamed ones.
NoMeasurementIsNovelTwice ==
    sess = "configured" /\ echo /\ running.wait # "acquire" => accepted

\* Both: what the host remembers of the manager is still so.
HostRemembersTruly == CleanupStateIsFresh /\ NoMeasurementIsNovelTwice

\* Disconnect, shutdown and stop end, whatever the stream and other callers do.
CallsEnd ==
    /\ disconnecting # "none" ~> disconnecting = "none"
    /\ lifecycle = "closing" ~> lifecycle # "closing"
    /\ run.stop ~> ~run.on

-----------------------------------------------------------------------------
(* Statements of the repository that the code does not keep *)

\* docs/adr/0004-instrument-driver-boundary.md:123 says of the host's teardown
\* slot that it 'runs immediately after active work and ahead of queued normal
\* work': no queued discovery begins while a disconnect waits for the stream's
\* acquisition to run.
DisconnectWaitsForPump ==
    /\ run.pump = "submitted"
    /\ \E i \in DOMAIN awaiting :
           awaiting[i].who = "disconnect" /\ ~awaiting[i].ready

TeardownRunsFirst ==
    [][ DisconnectWaitsForPump /\ Len(normal') < Len(normal)
        => Head(normal).kind # "discover" ]_vars

=============================================================================
