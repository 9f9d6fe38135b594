------------------------- MODULE RendererAcquisition -------------------------
(***************************************************************************)
(* The acquisition side of the renderer (apps/desktop/src/renderer/        *)
(* controllers): the one instrument transaction at a time, the scalar run  *)
(* that streams from the main process, the pump that repeats bounded I/Q   *)
(* captures, the operator's stop, and what the events of the main process  *)
(* do to all of them.  The main process is reduced to what its host shows  *)
(* the renderer: a session, its configuration and a stream.                *)
(*                                                                         *)
(* A handler runs to completion with its microtasks, so a step of the      *)
(* renderer is one message, one timer or one command of the operator.  The *)
(* code is a chain of calls on one kernel: helpers map a renderer state r  *)
(* to the next one.                                                        *)
(***************************************************************************)
EXTENDS Naturals, Sequences, FiniteSets

CONSTANTS
    MaxSession,  \* bound: sessions
    MaxRevision  \* bound: configurations

ASSUME RendererAssumption == MaxSession \in Nat \ {0} /\ MaxRevision \in Nat \ {0}

None == 0
NoConfig == [rev |-> None, kind |-> "none"]
NoOwner == [gen |-> None, session |-> None, config |-> NoConfig]
NoTxn == [op |-> "none", at |-> "none", gen |-> None, config |-> NoConfig,
          paused |-> FALSE, resume |-> "no", receipts |-> {}]
NoCall == [op |-> "none", config |-> NoConfig]
NoEvidence == [session |-> None, rev |-> None]

Configs == {NoConfig} \cup [rev : 1..MaxRevision, kind : {"swept", "iq"}]

-----------------------------------------------------------------------------
(* Messages *)

\* touch is the tap that a lifecycle event is a receipt of.
Event(type, session, config) ==
    [reply |-> FALSE, type |-> type, session |-> session, config |-> config,
     touch |-> None, ok |-> TRUE]
Lifecycle(type, session, touch) == [Event(type, session, NoConfig) EXCEPT !.touch = touch]
Reply(type, session, config, ok) ==
    [reply |-> TRUE, type |-> type, session |-> session, config |-> config,
     touch |-> None, ok |-> ok]

-----------------------------------------------------------------------------
(* Small pieces of the kernel *)

Connected(x) == x.session # None
Current(x) == x.requested /\ x.mode = "iq"

\* kernel.invalidateAcquiredEvidence(clearInstrumentConfigurations)
Invalidate(x, all) ==
    [x EXCEPT !.evidence = NoEvidence,
              !.lease = @ /\ ~all,
              !.retained = IF all THEN {} ELSE @]

\* acceptInstrumentState: every accepted state supersedes a pending read.
Accept(x, session, config, fault) ==
    LET y == IF session # x.session THEN Invalidate(x, TRUE) ELSE x
    IN  [y EXCEPT !.session = session, !.config = config,
                  !.fault = fault, !.fresh = FALSE]

ClearOwnership(x) == [x EXCEPT !.owner = NoOwner, !.abort = None, !.stopFailed = None]

\* The tail of stopStreamingAndReleaseConfiguration, after the acknowledgement.
Release(x, gen) == IF x.owner.gen = gen THEN ClearOwnership(x) ELSE x

\* The run is off; wakeContinuousIqAdmissionWaiters lets the pump see it.
PumpEnds(x) ==
    LET y == [x EXCEPT !.pump = "off", !.lease = FALSE]
    IN  IF x.stop = "iq"
        THEN [y EXCEPT !.stop = "none", !.requested = FALSE, !.continuous = FALSE]
        ELSE y

Unrequest(x) ==
    LET y == [x EXCEPT !.requested = FALSE]
    IN  IF x.pump \in {"admission", "cadence"} THEN PumpEnds(y) ELSE y

\* completeContinuousStop
Complete(x) == [Unrequest(x) EXCEPT !.lease = FALSE, !.continuous = FALSE]

Send(x, op, config) == [x EXCEPT !.call = [op |-> op, config |-> config]]

-----------------------------------------------------------------------------
(* runInstrumentTransaction *)

Held(x) == x.txn # NoTxn

\* drainContinuousMeasurementStop
DrainAbort(x) ==
    IF Held(x) \/ x.abort = None THEN x
    ELSE IF x.owner.gen # x.abort THEN [x EXCEPT !.abort = None]
    ELSE Send([x EXCEPT !.abort = None, !.requested = FALSE,
                        !.txn = [NoTxn EXCEPT !.op = "abort", !.at = "stop", !.gen = x.owner.gen]],
              "stop", NoConfig)

\* drainOperatorContinuousStop
DrainStop(x) ==
    IF Held(x) \/ x.stop # "pending" THEN x
    ELSE IF x.owner # NoOwner
         THEN Send([x EXCEPT !.stop = "gate",
                             !.txn = [NoTxn EXCEPT !.op = "stop", !.at = "stop", !.gen = x.owner.gen]],
                   "stop", NoConfig)
    ELSE IF x.pump # "off" THEN [x EXCEPT !.stop = "iq"]
    ELSE [Complete(x) EXCEPT !.stop = "none"]

\* Faulty variant: the end of a transaction forgets the operator's stop.
DrainAbortOnly(x) == DrainAbort(x)

Drain(x) == DrainStop(DrainAbort(x))

\* finishContinuousIqLoop with a failure
PumpFails(x) ==
    PumpEnds([x EXCEPT !.continuous = @ /\ ~x.requested, !.requested = FALSE])

\* One turn of runContinuousIqLoop up to the capture it asks for.
PumpTurn(x) ==
    IF ~Current(x) THEN PumpEnds(x)
    ELSE IF x.depth > 0 THEN [x EXCEPT !.pump = "admission"]
    ELSE IF Held(x) \/ x.config.kind # "iq" THEN PumpFails(x)
    ELSE Send([x EXCEPT !.pump = "acquire", !.lease = TRUE,
                        !.retained = @ \cup {x.config},
                        !.txn = [NoTxn EXCEPT !.op = "pump", !.at = "acquire", !.config = x.config]],
              "acquire", x.config)

\* releaseContinuousIqPause
Unpause(x) ==
    LET y == [x EXCEPT !.depth = @ - 1]
    IN  IF y.depth = 0 /\ y.pump = "admission" THEN PumpTurn(y) ELSE y

\* The gate opens, requests that waited for it are drained, then the pause ends.
End(x) ==
    LET y == Drain([x EXCEPT !.txn = NoTxn])
    IN  IF x.txn.paused THEN Unpause(y) ELSE y

-----------------------------------------------------------------------------
(* The operations, from their admission to their first message *)

\* startContinuousOwned and startStreamingWithConfiguration
Run(x) ==
    LET y == [x EXCEPT !.requested = TRUE, !.continuous = TRUE, !.mode = "spectrum",
                       !.retained = @ \cup {x.config}]
        gen == x.gen + 1
    IN  IF x.owner # NoOwner THEN End(y)
        ELSE Send([y EXCEPT !.gen = gen,
                            !.owner = [gen |-> gen, session |-> x.session, config |-> x.config],
                            !.stopFailed = None,
                            !.txn.at = "start", !.txn.gen = gen],
                  "start", x.config)

\* startContinuousIq, outside the gate
RunIq(x) ==
    PumpTurn([x EXCEPT !.requested = TRUE, !.continuous = TRUE, !.mode = "iq",
                       !.retained = @ \cup {x.config}])

\* executeCanonicalOperation: evidence of the old geometry goes first.
Apply(x) ==
    IF ~Connected(x) THEN End(x)
    ELSE Send([Invalidate(x, TRUE) EXCEPT !.txn.at = "apply"], "apply", NoConfig)

\* performRemoteTap and executeInstrumentFeature
Touch(x) ==
    IF ~Connected(x) \/ x.fault THEN End(x)
    ELSE Send([x EXCEPT !.txn.at = "touch", !.touches = @ + 1], "touch", NoConfig)

Tap(x) ==
    IF ~Connected(x) \/ x.fault \/ ~x.requested THEN Touch(x)
    ELSE Send([x EXCEPT !.txn.at = "pause", !.txn.resume = "tap", !.txn.gen = x.owner.gen],
              "stop", NoConfig)

\* The failure of an operation under runWithContinuousPaused
PausedFails(x) ==
    CASE x.txn.resume = "scalar" ->
            End([x EXCEPT !.requested = FALSE, !.continuous = @ /\ x.owner # NoOwner])
      [] x.txn.resume = "iq" ->
            End([Unrequest(x) EXCEPT !.lease = FALSE, !.continuous = FALSE])
      [] OTHER -> End(x)

\* acquireOwned and acquireIqOwned
Acquire(x, kind) ==
    IF x.config.kind # kind THEN PausedFails(x)
    ELSE Send([x EXCEPT !.txn.at = "acquire", !.txn.config = x.config,
                        !.retained = @ \cup {x.config}],
              "acquire", x.config)

\* acquireIq: runWithContinuousPaused
Capture(x) ==
    IF ~x.requested THEN Acquire(x, "iq")
    ELSE IF x.owner # NoOwner
         THEN Send([x EXCEPT !.txn.at = "pause", !.txn.resume = "scalar", !.txn.gen = x.owner.gen],
                   "stop", NoConfig)
    ELSE IF x.mode = "iq"
         THEN IF Connected(x) THEN Acquire([x EXCEPT !.txn.resume = "iq"], "iq") ELSE End(x)
    ELSE Acquire(x, "iq")

Connect(x) == Send([Invalidate(x, FALSE) EXCEPT !.txn.at = "connect"], "connect", NoConfig)

Body(x, op) ==
    CASE op = "run" -> Run(x)
      [] op = "apply" -> Apply(x)
      [] op = "tap" -> Tap(x)
      [] op = "capture" -> Capture(x)
      [] op = "sweep" -> Acquire(x, "swept")
      [] op = "connect" -> Connect(x)

\* The admission of an operation: it pauses the pump, and waits for the capture
\* the pump has asked for.
Admit(x, op, paused) ==
    Body([x EXCEPT !.txn = [NoTxn EXCEPT !.op = op, !.at = "body", !.paused = paused]], op)

Transact(x, op) ==
    LET y == IF Current(x) THEN [x EXCEPT !.depth = @ + 1] ELSE x
    IN  CASE x.txn.op = "pump" /\ Current(x) -> [y EXCEPT !.waiting = Append(@, op)]
          [] ~Held(x) -> Admit(y, op, Current(x))
          [] OTHER -> x

\* The capture of the pump is over: the first that waits is admitted if the gate
\* is free, and the others find it taken.
Resume(x) ==
    IF x.waiting = <<>> THEN x
    ELSE LET y == [x EXCEPT !.waiting = <<>>, !.depth = @ - (Len(x.waiting) - 1)]
         IN  IF Held(y) THEN Unpause(y) ELSE Admit(y, Head(x.waiting), TRUE)

-----------------------------------------------------------------------------
(* The operations, after a reply *)

\* The catch of startContinuousOwned: an ambiguous stream keeps its owner.
RunFails(x) ==
    LET owned == x.owner # NoOwner
    IN  End([x EXCEPT !.requested = @ /\ owned, !.continuous = @ /\ owned])

\* The catch of startStreamingWithConfiguration
Compensate(x) ==
    IF x.owner.gen # x.txn.gen THEN RunFails(x)
    ELSE Send([x EXCEPT !.txn.at = "compensate"], "stop", NoConfig)

Started(x, m) ==
    IF ~m.ok \/ x.owner.gen # x.txn.gen \/ x.owner.session # x.session THEN Compensate(x)
    ELSE IF x.requested THEN End(x)
    ELSE Send([x EXCEPT !.txn.at = "unstart"], "stop", NoConfig)

Paused(x, m) ==
    LET y == Release(x, x.txn.gen)
    IN  IF ~m.ok THEN PausedFails(x)
        ELSE IF x.txn.resume = "tap" THEN Touch(y)
        ELSE IF ~Connected(y) \/ y.fault THEN PausedFails(y)
        ELSE Acquire(y, "iq")

\* rejectInvalidatingFeatureReceipt: the caller learns of it after its reply.
RejectReceipt(x) ==
    IF "reply" \in x.txn.receipts THEN End(x) ELSE [x EXCEPT !.txn.at = "expired"]

\* reconcileInvalidatingFeatureReceipt: a tap is over when its reply and both of
\* its events have arrived.
Receipt(x, what) ==
    LET y == [x EXCEPT !.txn.receipts = @ \cup {what}]
    IN  IF y.txn.receipts # {"reply", "result", "invalidated"} THEN y
        ELSE IF Connected(y) /\ y.txn.resume = "tap" THEN End(Complete(y))
        ELSE End(y)

\* Faulty variant: the reply alone settles a tap.
TouchedAtOnce(x, m) ==
    IF m.ok /\ x.txn.resume = "tap" THEN End(Complete(x)) ELSE End(x)

Touched(x, m) ==
    IF ~m.ok \/ ~Connected(x) \/ x.txn.at = "expired" THEN End(x)
    ELSE Receipt(x, "reply")

\* A measurement is bound to its session and to a retained configuration.
Bound(x, m) ==
    m.ok /\ m.session = x.session /\ m.config = x.txn.config /\ m.config \in x.retained

Record(x, m) == [x EXCEPT !.evidence = [session |-> m.session, rev |-> m.config.rev]]

\* recordSweepEvidence: a sweep of a superseded configuration is rejected.
Acquired(x, m) ==
    IF ~Bound(x, m) \/ (m.config.kind = "swept" /\ m.config # x.config) THEN PausedFails(x)
    ELSE LET y == Record(x, m)
         IN  IF x.txn.resume = "no" THEN End(y)
             ELSE IF ~Connected(y) \/ y.fault THEN PausedFails(y)
             ELSE IF x.txn.resume = "scalar" \/ ~y.requested \/ y.config.kind # "iq"
             THEN End(Complete(y))
             ELSE End(y)

\* A turn of runContinuousIqLoop from its capture to its cadence.
Pumped(x, m) ==
    LET y == IF Bound(x, m) /\ x.lease /\ m.config = x.config THEN Record(x, m) ELSE x
        z == Drain([y EXCEPT !.txn = NoTxn])
    IN  Resume(IF ~Bound(x, m) THEN PumpFails(z)
               ELSE IF Current(z) THEN [z EXCEPT !.pump = "cadence"]
               ELSE PumpEnds(z))

\* Faulty variant: a stream is released although its stop was refused.
StoppedAnyway(x, m) ==
    LET y == Release(x, x.txn.gen)
    IN  IF x.txn.op = "stop" THEN End([Complete(y) EXCEPT !.stop = "none"])
        ELSE End([y EXCEPT !.continuous = FALSE])

\* The stop of the operator, or of a run whose measurements are invalid.
Stopped(x, m) ==
    LET y == Release(x, x.txn.gen)
    IN  CASE x.txn.op = "stop" /\ m.ok -> End([Complete(y) EXCEPT !.stop = "none"])
          [] x.txn.op = "stop" /\ ~m.ok -> End([x EXCEPT !.stop = "none"])
          [] x.txn.op = "abort" /\ m.ok -> End([y EXCEPT !.continuous = FALSE])
          [] x.txn.op = "abort" /\ ~m.ok -> End([x EXCEPT !.stopFailed = x.txn.gen])

OnReply(x, m) ==
    CASE x.txn.at = "start" -> Started(x, m)
      [] x.txn.at = "compensate" -> RunFails(IF m.ok THEN Release(x, x.txn.gen) ELSE x)
      [] x.txn.at = "unstart" ->
            IF m.ok THEN End(Complete(Release(x, x.txn.gen))) ELSE RunFails(x)
      [] x.txn.at = "apply" -> End(x)
      [] x.txn.at = "pause" -> Paused(x, m)
      [] x.txn.at \in {"touch", "expired"} -> Touched(x, m)
      [] x.txn.at = "acquire" /\ x.txn.op = "pump" -> Pumped(x, m)
      [] x.txn.at = "acquire" /\ x.txn.op # "pump" -> Acquired(x, m)
      [] x.txn.at = "connect" ->
            End(IF m.ok THEN Accept(x, m.session, NoConfig, FALSE) ELSE x)
      [] x.txn.at = "stop" -> Stopped(x, m)

\* disconnectDevice, outside the gate
Disconnected(x, m) ==
    IF ~m.ok THEN x
    ELSE Invalidate(Accept([Unrequest(x) EXCEPT !.continuous = FALSE], None, NoConfig, FALSE),
                    FALSE)

\* acceptInstrumentStateSnapshot
StateRead(x, m) ==
    IF x.fresh THEN Accept(x, m.session, m.config, ~m.ok) ELSE x

-----------------------------------------------------------------------------
(* handleValidatedInstrumentEvent *)

\* observeInvalidatingFeatureLifecycle: a result names its request, an
\* invalidation does not; every tap is of a point of its own.
Observe(x, what, touch) ==
    IF x.txn.at # "touch" THEN x
    ELSE IF (what = "result" /\ touch # x.touches) \/ what \in x.txn.receipts
         THEN RejectReceipt(x)
    ELSE Receipt(x, what)

\* requestContinuousMeasurementStop
RequestAbort(x) ==
    IF x.stopFailed = x.owner.gen THEN x
    ELSE DrainAbort([x EXCEPT !.abort = x.owner.gen])

\* Faulty variant: the registry of admitted configurations is not consulted.
MeasuredUnbound(x, m, good) ==
    IF ~x.requested \/ x.owner = NoOwner \/ m.session # x.session THEN x
    ELSE Record(x, m)

\* processContinuousMeasurement; good says that the analysis succeeds.
Measured(x, m, good) ==
    IF ~x.requested \/ x.owner = NoOwner \/ m.session # x.session
       \/ x.owner.session # x.session THEN x
    ELSE IF good /\ m.config \in x.retained /\ m.config = x.owner.config /\ m.config = x.config
         THEN Record(x, m)
    ELSE RequestAbort(x)

Unstream(x) == [Unrequest(x) EXCEPT !.continuous = FALSE]

\* The types that are not about one session of the renderer
Unaddressed == {"measurement", "stream-stopped", "stream-faulted", "connected"}

\* A stopped event never clears a run: it may belong to an older one.
OnEvent(e, m, good) ==
    LET x == IF m.type = "measurement" THEN e ELSE [e EXCEPT !.fresh = FALSE]
        here == m.session = x.session
        Admits(config) == Accept(x, x.session, config, x.fault)
    IN  CASE m.type = "measurement" -> Measured(x, m, good)
          [] m.type = "stream-stopped" -> x
          [] m.type = "stream-faulted" -> Invalidate(Unstream(ClearOwnership(x)), FALSE)
          [] m.type = "connected" -> Accept(x, m.session, NoConfig, FALSE)
          [] m.type \notin Unaddressed /\ ~here -> x
          [] m.type = "configured" /\ here -> IF m.config = x.config THEN x ELSE Admits(m.config)
          [] m.type = "session-state" /\ here -> Admits(NoConfig)
          [] m.type = "feature-result" /\ here -> Observe(Admits(NoConfig), "result", m.touch)
          [] m.type = "invalidated" /\ here ->
                Observe(Invalidate(Admits(NoConfig), TRUE), "invalidated", m.touch)
          [] m.type = "faulted" /\ here ->
                Accept(Invalidate(Unstream(x), TRUE), x.session, NoConfig, TRUE)
          [] m.type = "disconnected" /\ here ->
                Accept(Unstream(ClearOwnership(x)), None, NoConfig, FALSE)

=============================================================================
