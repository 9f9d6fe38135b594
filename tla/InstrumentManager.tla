-------------------------- MODULE InstrumentManager --------------------------
(***************************************************************************)
(* The instrument session lifecycle of InstrumentManager                   *)
(* (packages/instrument-runtime/src/instrument-manager.ts), one step per   *)
(* stretch of code between two awaits.  The admission queue is             *)
(* ManagerQueue; `pc` says which driver promise (or which microtask        *)
(* continuation) the running operation waits for.  Between any two steps   *)
(* the driver may deliver a session event to #forward.                     *)
(*                                                                         *)
(* Three variables describe the world behind the driver interface, which   *)
(* the manager cannot read: `open` (the session object returned by         *)
(* connect() has not been disconnected), `live` (the worst case: the       *)
(* session's device may be emitting RF) and `held` (drivers that retain    *)
(* resources opened before connect() returned).                            *)
(***************************************************************************)
EXTENDS ManagerQueue

CONSTANTS
    Registry,  \* the registered drivers, in registry order
    MaxSeq     \* bound on measurement sequence numbers

Drivers == {Registry[i] : i \in DOMAIN Registry}
NoDriver == "no-driver"

\* set-output true, set-output false, generator configure, touch, SignalLab
\* source selection, and the features without side effects (screen, reports).
Features == {"on", "off", "generator", "touch", "profile", "report"}
SessionOperations ==
    {"connect", "configure", "acquire", "canonical"} \cup Features

ASSUME ManagerAssumption ==
    /\ Registry \in Seq(STRING) /\ Registry # <<>>
    /\ NoDriver \notin Drivers
    /\ MaxSeq \in Nat
    /\ SessionRequests \subseteq SessionOperations
    /\ FreeRequests \subseteq {"discover"}

VARIABLES
    pc,              \* what the running operation waits for
    body,            \* the operation whose code it is in (canonical ones call others)
    clean,           \* no fault since the operation captured faultRevision
    driver,          \* the driver of the current or last connect()
    session,         \* #active: none, rf (has an rf-generator) or plain
    announced,       \* active.announced
    rfOutput,        \* active.rfOutput
    configured,      \* active.configuration is set
    fault,           \* active.fault is set
    lastSeq,         \* active.lastMeasurementSequence
    eventDelivered,  \* active.lastMeasurementEventDelivered
    acquiring,       \* active.acquisition is set
    eventSeq,        \* active.acquisition.eventSequence, 0 when undefined
    rejected,        \* #rejectedSessionTeardown: none, close or unsubscribe
    barrier,         \* #pendingDriverCleanupBarrier
    todo,            \* next driver of the #cleanupPendingConnections loop
    firstFailure,    \* first driver whose hook failed in that loop
    lastDisconnect,  \* how the last disconnect() settled: none, ok or failed
    open, live, held,
    subscribed,      \* the event listener of the session is attached
    orphaned         \* a listener is attached that the manager has forgotten

measurementVars == <<lastSeq, eventDelivered, acquiring, eventSeq>>
activeVars == <<session, announced, rfOutput, configured, fault,
                measurementVars>>
cleanupVars == <<rejected, barrier, todo, firstFailure>>
deviceVars == <<open, live, held, subscribed, orphaned>>
controlVars == <<pc, body, clean, driver, lastDisconnect>>
managerVars == <<controlVars, activeVars, cleanupVars, deviceVars>>
vars == <<queueVars, managerVars>>

Waits == {"idle", "discovering", "resolving", "opening", "pendingCleanup", "dropClose",
          "rejectOff", "rejectClose", "cfgDispatch", "cfgWait", "cfgOff",
          "cfgCommit", "acqOff", "acqBegin", "acqWait", "featDispatch",
          "featWait", "featOff", "tdOff", "tdClose", "tdRejected",
          "tdDrivers"}

ControlTypeOK ==
    /\ pc \in Waits /\ clean \in BOOLEAN
    /\ body \in SessionOperations \cup {"discover", Teardown, Nobody}
    /\ driver \in Drivers \cup {NoDriver}
    /\ body = "connect" => driver \in Drivers
    /\ lastDisconnect \in {"none", "ok", "failed"}

SessionTypeOK ==
    /\ session \in {"none", "rf", "plain"} /\ announced \in BOOLEAN
    /\ rfOutput \in {"not-supported", "off", "on", "unknown"}
    /\ configured \in BOOLEAN /\ fault \in BOOLEAN
    /\ eventDelivered \in BOOLEAN /\ acquiring \in BOOLEAN

SequencesOK == lastSeq \in 0..MaxSeq /\ eventSeq \in 0..MaxSeq

CleanupTypeOK ==
    /\ rejected \in {"none", "close", "unsubscribe"}
    /\ barrier \in Drivers \cup {NoDriver}
    /\ firstFailure \in Drivers \cup {NoDriver}
    /\ todo \in DOMAIN Registry

DeviceTypeOK ==
    /\ open \in BOOLEAN /\ live \in BOOLEAN /\ held \subseteq Drivers
    /\ subscribed \in BOOLEAN /\ orphaned \in BOOLEAN

TypeOK ==
    /\ QueueTypeOK
    /\ ControlTypeOK /\ SessionTypeOK /\ SequencesOK
    /\ CleanupTypeOK /\ DeviceTypeOK

NoActive ==
    /\ session' = "none" /\ announced' = FALSE
    /\ rfOutput' = "not-supported" /\ configured' = FALSE /\ fault' = FALSE
    /\ lastSeq' = 0 /\ eventDelivered' = TRUE
    /\ acquiring' = FALSE /\ eventSeq' = 0

Init ==
    /\ QueueInit
    /\ pc = "idle" /\ body = Nobody /\ clean = TRUE /\ driver = NoDriver
    /\ session = "none" /\ announced = FALSE
    /\ rfOutput = "not-supported" /\ configured = FALSE /\ fault = FALSE
    /\ lastSeq = 0 /\ eventDelivered = TRUE
    /\ acquiring = FALSE /\ eventSeq = 0
    /\ rejected = "none" /\ barrier = NoDriver
    /\ todo = 1 /\ firstFailure = NoDriver /\ lastDisconnect = "none"
    /\ open = FALSE /\ live = FALSE /\ held = {}
    /\ subscribed = FALSE /\ orphaned = FALSE

-----------------------------------------------------------------------------
(* Pieces of session state the operations share *)

RfCapable == rfOutput # "not-supported"

ResetMeasurementState ==
    /\ lastSeq' = 0 /\ eventDelivered' = TRUE
    /\ acquiring' = FALSE /\ eventSeq' = 0

InvalidateConfiguration == configured' = FALSE /\ ResetMeasurementState

Uncertain == IF RfCapable THEN "unknown" ELSE rfOutput

\* #faultActive: all operating authority is withdrawn; the caller adds the
\* faultRevision++ (clean' = FALSE) where an operation may observe it.
FaultActive ==
    /\ InvalidateConfiguration
    /\ rfOutput' = Uncertain
    /\ fault' = TRUE
    /\ UNCHANGED <<session, announced>>

\* Faulty variant: nothing is asserted after an await.
NeverRechecked(allowExistingFault) == TRUE

\* #assertPostAwaitState
SoundAfterAwait(allowExistingFault) == clean /\ (allowExistingFault \/ ~fault)

\* Setting the RF output belief, all other session state kept.
SetRf(state) ==
    /\ rfOutput' = state
    /\ UNCHANGED <<session, announced, configured, fault, measurementVars>>

-----------------------------------------------------------------------------
(* Steps of the running operation *)

Enter(op, wait) ==
    running.request = op /\ Begin /\ pc' = wait /\ body' = op
Await(wait) ==
    running.begun /\ UNCHANGED queueVars /\ pc' = wait /\ UNCHANGED body
Done == Finish /\ pc' = "idle" /\ body' = Nobody

At(op, wait) == body = op /\ pc = wait

\* configure and features are also called by a canonical operation, once the
\* driver has resolved it and no fault has come meanwhile.
Starts(op, wait) ==
    \/ Enter(op, wait)
    \/ /\ At("canonical", "resolving") /\ SoundAfterAwait(FALSE)
       /\ UNCHANGED queueVars /\ pc' = wait /\ body' = op

\* Calls that reject before they touch anything: no session, a faulted one, a
\* missing configuration, uncertain RF, a stale candidate, a retained teardown,
\* an unsupported capability.
MayAcquire == session # "none" /\ ~fault /\ configured
              /\ rfOutput \notin {"on", "unknown"}

Refuse ==
    /\ SettleAtStart
    /\ running.request \in SessionRequests
    /\ Canceled \/ (running.request = "acquire" => ~MayAcquire)
    /\ UNCHANGED managerVars

BeginDiscover ==
    /\ Enter("discover", "discovering")
    /\ UNCHANGED <<clean, driver, lastDisconnect, activeVars, cleanupVars,
                   deviceVars>>

\* The candidate map is data of the renderer's next connect; nothing else of
\* the manager changes, whether or not the aggregate result is admitted.
FinishDiscover ==
    /\ At("discover", "discovering") /\ Done
    /\ UNCHANGED <<clean, driver, lastDisconnect, activeVars, cleanupVars,
                   deviceVars>>

\* #executeCanonicalOperation waits for the driver to resolve the operation.
BeginCanonical ==
    /\ Enter("canonical", "resolving")
    /\ session # "none" /\ ~fault
    /\ clean' = TRUE
    /\ UNCHANGED <<driver, lastDisconnect, activeVars, cleanupVars, deviceVars>>

\* Not resolved, overtaken by a fault, or what it resolved to is refused.
CanonicalFails ==
    /\ At("canonical", "resolving") /\ Done
    /\ UNCHANGED <<clean, driver, lastDisconnect, activeVars, cleanupVars,
                   deviceVars>>

-----------------------------------------------------------------------------
(* #connect *)

\* Faulty variant: a retained connection does not block connect().
BeginConnectOverRetained(d) ==
    /\ Enter("connect", "opening")
    /\ session = "none"
    /\ driver' = d /\ lastDisconnect' = "none"
    /\ UNCHANGED <<clean, activeVars, cleanupVars, deviceVars>>

\* Reconnect is refused while a session, a rejected session's teardown or a
\* driver cleanup barrier is retained.
BeginConnect(d) ==
    /\ Enter("connect", "opening")
    /\ session = "none" /\ rejected = "none" /\ barrier = NoDriver
    /\ driver' = d /\ lastDisconnect' = "none"
    /\ UNCHANGED <<clean, activeVars, cleanupVars, deviceVars>>

\* driver.connect() rejects; the driver may retain what it had opened.
ConnectRejects ==
    /\ At("connect", "opening") /\ Await("pendingCleanup")
    /\ held' \in {held, held \cup {driver}}
    /\ UNCHANGED <<clean, driver, lastDisconnect, activeVars, cleanupVars,
                   open, live, subscribed, orphaned>>

PendingCleanupSucceeds ==
    /\ At("connect", "pendingCleanup") /\ Done
    /\ held' = held \ {driver}
    /\ UNCHANGED <<clean, driver, lastDisconnect, activeVars, cleanupVars,
                   open, live, subscribed, orphaned>>

\* Faulty variant: a failed pending cleanup is forgotten.
PendingCleanupIgnored ==
    /\ At("connect", "pendingCleanup") /\ Done
    /\ UNCHANGED <<clean, driver, lastDisconnect, activeVars, cleanupVars,
                   deviceVars>>

PendingCleanupFails ==
    /\ At("connect", "pendingCleanup") /\ Done
    /\ barrier' = driver
    /\ UNCHANGED <<clean, driver, lastDisconnect, activeVars, rejected, todo,
                   firstFailure, deviceVars>>

\* The returned session fails validation but has a callable disconnect, which
\* is retained before it is first tried.
InvalidSession ==
    /\ At("connect", "opening") /\ Await("dropClose")
    /\ open' = TRUE /\ rejected' = "close"
    /\ UNCHANGED <<clean, driver, lastDisconnect, activeVars, barrier, todo,
                   firstFailure, live, held, subscribed, orphaned>>

InvalidSessionCloses ==
    /\ At("connect", "dropClose") /\ Done
    /\ open' = FALSE /\ rejected' = "none"
    /\ UNCHANGED <<clean, driver, lastDisconnect, activeVars, barrier, todo,
                   firstFailure, live, held, subscribed, orphaned>>

InvalidSessionStaysOpen ==
    /\ At("connect", "dropClose") /\ Done
    /\ UNCHANGED <<clean, driver, lastDisconnect, activeVars, cleanupVars,
                   deviceVars>>

\* The returned value has no usable disconnect: its resources stay with the
\* driver, behind the cleanup barrier.
UncallableSession ==
    /\ At("connect", "opening") /\ Done
    /\ held' = held \cup {driver} /\ barrier' = driver
    /\ UNCHANGED <<clean, driver, lastDisconnect, activeVars, rejected, todo,
                   firstFailure, open, live, subscribed, orphaned>>

\* validateInstrumentSession: an output state exactly where RF is advertised.
OutputFits(class, rf) == class = "plain" <=> rf = "not-supported"

\* A validated session becomes #active and is subscribed to.
Activate(class, rf, isAnnounced, isFaulted) ==
    /\ OutputFits(class, rf)
    /\ session' = class /\ announced' = isAnnounced /\ fault' = isFaulted
    /\ rfOutput' = IF class = "rf" /\ (isFaulted \/ ~isAnnounced)
                     THEN "unknown" ELSE rf
    /\ configured' = FALSE /\ ResetMeasurementState
    /\ open' = TRUE /\ subscribed' = TRUE
    /\ live' = (class = "rf" /\ rf # "off")
    /\ UNCHANGED <<held, orphaned>>

\* Announced and connected; an event provoked by the 'connected' notification
\* may already have faulted the session.
ValidSession(class, rf, isFaulted) ==
    /\ At("connect", "opening") /\ Done
    /\ Activate(class, rf, TRUE, isFaulted)
    /\ UNCHANGED <<clean, driver, lastDisconnect, cleanupVars>>

\* Subscribing ends in a terminal event or in more than 256 events (faulted),
\* or throws or returns no function (not faulted yet): the session is never
\* announced, its output becomes unknown and #cleanupUnannouncedSession begins.
SubscribingFails(class, rf, isFaulted) ==
    /\ At("connect", "opening")
    /\ Await(IF class = "rf" THEN "rejectOff" ELSE "rejectClose")
    /\ Activate(class, rf, FALSE, isFaulted)
    /\ clean' = TRUE
    /\ UNCHANGED <<driver, lastDisconnect, cleanupVars>>

RejectOffAcknowledged ==
    /\ At("connect", "rejectOff") /\ SoundAfterAwait(TRUE)
    /\ Await("rejectClose")
    /\ SetRf("off") /\ live' = FALSE
    /\ UNCHANGED <<clean, driver, lastDisconnect, cleanupVars, open, held,
                   subscribed, orphaned>>

\* Rejected, answered wrongly, or overtaken by a fault: the session stays,
\* faulted and teardown-only.
RejectOffFails ==
    /\ At("connect", "rejectOff") /\ Done
    /\ FaultActive
    /\ live' \in {live, FALSE}
    /\ UNCHANGED <<clean, driver, lastDisconnect, cleanupVars, open, held,
                   subscribed, orphaned>>

RejectCloseSucceeds ==
    /\ At("connect", "rejectClose") /\ Done
    /\ NoActive
    /\ open' = FALSE /\ subscribed' = FALSE
    /\ orphaned' \in {orphaned, TRUE}
    /\ UNCHANGED <<clean, driver, lastDisconnect, cleanupVars, live, held>>

RejectCloseFails ==
    /\ At("connect", "rejectClose") /\ Done
    /\ FaultActive
    /\ UNCHANGED <<clean, driver, lastDisconnect, cleanupVars, deviceVars>>

-----------------------------------------------------------------------------
(* #configure *)

\* The old configuration is invalidated before anything is dispatched.  An RF
\* session's output becomes unknown and is published, which may provoke events
\* before the dispatch.
BeginConfigure ==
    /\ Starts("configure", IF RfCapable THEN "cfgDispatch" ELSE "cfgWait")
    /\ session # "none" /\ ~fault
    /\ InvalidateConfiguration
    /\ rfOutput' = Uncertain
    /\ clean' = TRUE
    /\ UNCHANGED <<driver, lastDisconnect, session, announced, fault,
                   cleanupVars, deviceVars>>

DispatchConfigure ==
    /\ At("configure", "cfgDispatch") /\ Await("cfgWait")
    /\ clean' = TRUE /\ live' = TRUE
    /\ UNCHANGED <<driver, lastDisconnect, activeVars, cleanupVars, open, held,
                   subscribed, orphaned>>

\* An RF session's configuration counts only with a separate output-off
\* acknowledgement.
ConfigureApplied ==
    /\ At("configure", "cfgWait") /\ RfCapable /\ SoundAfterAwait(FALSE)
    /\ Await("cfgOff")
    /\ UNCHANGED <<clean, driver, lastDisconnect, activeVars, cleanupVars,
                   deviceVars>>

CommitConfiguration ==
    /\ Done
    /\ configured' = TRUE /\ ResetMeasurementState
    /\ UNCHANGED <<session, announced, rfOutput, fault, clean, driver,
                   lastDisconnect, cleanupVars, deviceVars>>

ConfigurePlainApplied ==
    /\ At("configure", "cfgWait") /\ ~RfCapable /\ SoundAfterAwait(FALSE)
    /\ CommitConfiguration

ConfigureFails ==
    /\ At("configure", "cfgWait") /\ Done
    /\ IF RfCapable THEN FaultActive ELSE UNCHANGED activeVars
    /\ UNCHANGED <<clean, driver, lastDisconnect, cleanupVars, deviceVars>>

ConfigureOffAcknowledged ==
    /\ At("configure", "cfgOff") /\ SoundAfterAwait(FALSE)
    /\ Await("cfgCommit")
    /\ SetRf("off") /\ live' = FALSE
    /\ UNCHANGED <<clean, driver, lastDisconnect, cleanupVars, open, held,
                   subscribed, orphaned>>

ConfigureOffFails ==
    /\ At("configure", "cfgOff") /\ Done
    /\ FaultActive
    /\ live' \in {live, FALSE}
    /\ UNCHANGED <<clean, driver, lastDisconnect, cleanupVars, open, held,
                   subscribed, orphaned>>

\* The continuation of `await #acknowledgeRfOutputOff` runs in a later
\* microtask and does not look at the fault again.
ConfigureResumes == At("configure", "cfgCommit") /\ CommitConfiguration

-----------------------------------------------------------------------------
(* #acquire *)

\* An RF session reasserts output-off first (#reassertRfOff).
BeginAcquire ==
    /\ Enter("acquire", IF RfCapable THEN "acqOff" ELSE "acqBegin")
    /\ MayAcquire
    /\ SetRf(Uncertain) /\ clean' = TRUE
    /\ UNCHANGED <<driver, lastDisconnect, cleanupVars, deviceVars>>

AcquireOffAcknowledged ==
    /\ At("acquire", "acqOff") /\ SoundAfterAwait(FALSE)
    /\ Await("acqBegin")
    /\ SetRf("off") /\ live' = FALSE
    /\ UNCHANGED <<clean, driver, lastDisconnect, cleanupVars, open, held,
                   subscribed, orphaned>>

AcquireOffFails ==
    /\ At("acquire", "acqOff") /\ Done
    /\ FaultActive
    /\ live' \in {live, FALSE}
    /\ UNCHANGED <<clean, driver, lastDisconnect, cleanupVars, open, held,
                   subscribed, orphaned>>

\* The continuation of `await #reassertRfOff` runs in a later microtask, opens
\* the measurement transaction and only then captures faultRevision.
DispatchAcquire ==
    /\ At("acquire", "acqBegin") /\ Await("acqWait")
    /\ acquiring' = TRUE /\ eventSeq' = 0 /\ clean' = TRUE
    /\ UNCHANGED <<driver, lastDisconnect, session, announced, rfOutput,
                   configured, fault, lastSeq, eventDelivered, cleanupVars,
                   deviceVars>>

CloseTransaction ==
    /\ acquiring' = FALSE /\ eventSeq' = 0
    /\ UNCHANGED <<session, announced, rfOutput, configured, fault, lastSeq,
                   eventDelivered>>

\* session.acquire() rejects: recoverable, the configuration stays.  A return
\* that a fault overtook is rejected the same way.
AcquireRejects ==
    /\ At("acquire", "acqWait") /\ Done
    /\ CloseTransaction
    /\ UNCHANGED <<clean, driver, lastDisconnect, cleanupVars, deviceVars>>

\* A measurement that is malformed or not bound to this session and
\* configuration, that disagrees with its event, or that does not advance.
AcquireBreaksContract ==
    /\ At("acquire", "acqWait") /\ Done
    /\ IF fault THEN CloseTransaction ELSE FaultActive
    /\ UNCHANGED <<clean, driver, lastDisconnect, cleanupVars, deviceVars>>

Publish(seq) ==
    /\ lastSeq' = seq /\ eventDelivered' = (eventSeq # 0)
    /\ acquiring' = FALSE /\ eventSeq' = 0
    /\ UNCHANGED <<session, announced, rfOutput, configured, fault>>

AcquireReturns(seq) ==
    /\ At("acquire", "acqWait") /\ Done
    /\ SoundAfterAwait(FALSE)
    /\ eventSeq \in {0, seq} /\ seq > lastSeq
    /\ Publish(seq)
    /\ UNCHANGED <<clean, driver, lastDisconnect, cleanupVars, deviceVars>>

-----------------------------------------------------------------------------
(* #executeFeature *)

Invalidates(f) == f \in {"generator", "touch", "profile"}
ChangesRf(f) == f \in {"on", "off", "generator"} \/ (f = "touch" /\ RfCapable)
MayEnergize(f) == f \in {"on", "generator", "touch"}

\* Faulted sessions accept output-off only; uncertain or enabled output only
\* the two recoveries, off and configure.  The generator is an rf session's,
\* the SignalLab source a plain session's.
MayExecute(f) ==
    /\ session # "none"
    /\ fault => f = "off"
    /\ rfOutput \in {"on", "unknown"} => f \in {"off", "generator"}
    /\ f \in {"on", "off", "generator"} => RfCapable
    /\ f = "profile" => ~RfCapable

\* Configuration and RF authority are withdrawn before the dispatch.
WithdrawFor(f) ==
    /\ IF Invalidates(f) THEN InvalidateConfiguration
                         ELSE UNCHANGED <<configured, measurementVars>>
    /\ rfOutput' = IF ChangesRf(f) THEN "unknown" ELSE rfOutput
    /\ UNCHANGED <<session, announced, fault>>

BeginFeature(f) ==
    /\ Starts(f, IF ChangesRf(f) THEN "featDispatch" ELSE "featWait")
    /\ MayExecute(f)
    /\ WithdrawFor(f) /\ clean' = TRUE
    /\ UNCHANGED <<driver, lastDisconnect, cleanupVars, deviceVars>>

\* faultRevision is captured after the rf-output-changed publication.
DispatchFeature(f) ==
    /\ At(f, "featDispatch") /\ Await("featWait")
    /\ clean' = TRUE
    /\ live' = (live \/ MayEnergize(f))
    /\ UNCHANGED <<driver, lastDisconnect, activeVars, cleanupVars, open, held,
                   subscribed, orphaned>>

\* Generator configuration is no evidence of output-off: that is asked for
\* separately.
GeneratorConfigured ==
    /\ At("generator", "featWait") /\ SoundAfterAwait(FALSE)
    /\ Await("featOff")
    /\ UNCHANGED <<clean, driver, lastDisconnect, activeVars, cleanupVars,
                   deviceVars>>

FeatureSucceeds(f) ==
    /\ f # "generator"
    /\ At(f, "featWait") /\ SoundAfterAwait(f = "off") /\ Done
    /\ SetRf(IF f \in {"on", "off"} THEN f ELSE rfOutput)
    /\ live' = (live /\ f # "off")
    /\ UNCHANGED <<clean, driver, lastDisconnect, cleanupVars, open, held,
                   subscribed, orphaned>>

\* Rejected, overtaken by a fault, or answered with an invalid result.
FeatureFails(f) ==
    /\ At(f, "featWait") /\ Done
    /\ IF Invalidates(f) \/ ChangesRf(f) THEN FaultActive
                                         ELSE UNCHANGED activeVars
    /\ live' \in IF f = "off" THEN {live, FALSE} ELSE {live}
    /\ UNCHANGED <<clean, driver, lastDisconnect, cleanupVars, open, held,
                   subscribed, orphaned>>

GeneratorOffAcknowledged ==
    /\ At("generator", "featOff") /\ SoundAfterAwait(FALSE) /\ Done
    /\ SetRf("off") /\ live' = FALSE
    /\ UNCHANGED <<clean, driver, lastDisconnect, cleanupVars, open, held,
                   subscribed, orphaned>>

GeneratorOffFails ==
    /\ At("generator", "featOff") /\ Done
    /\ FaultActive
    /\ live' \in {live, FALSE}
    /\ UNCHANGED <<clean, driver, lastDisconnect, cleanupVars, open, held,
                   subscribed, orphaned>>

-----------------------------------------------------------------------------
(* disconnect(): #disconnect, #cleanupRejectedSession, #cleanupPendingConnections *)

AfterSession == IF rejected = "none" THEN "tdDrivers" ELSE "tdRejected"

StartLoop == todo' = 1 /\ firstFailure' = NoDriver

\* Faulty variant: teardown closes the session without output off.
CloseWithoutOff ==
    /\ Enter(Teardown, IF session = "none" THEN AfterSession ELSE "tdClose")
    /\ lastDisconnect' = "none" /\ StartLoop
    /\ UNCHANGED <<clean, driver, activeVars, rejected, barrier, deviceVars>>

\* An RF session is asked for output-off first, even a faulted one.
BeginTeardown ==
    /\ Enter(Teardown, IF session = "none" THEN AfterSession
                       ELSE IF RfCapable THEN "tdOff" ELSE "tdClose")
    /\ lastDisconnect' = "none" /\ StartLoop
    /\ SetRf(Uncertain) /\ clean' = TRUE
    /\ UNCHANGED <<driver, rejected, barrier, deviceVars>>

TeardownFails == Done /\ lastDisconnect' = "failed"

TeardownOffAcknowledged ==
    /\ At(Teardown, "tdOff") /\ SoundAfterAwait(TRUE)
    /\ Await("tdClose")
    /\ SetRf("off") /\ live' = FALSE
    /\ UNCHANGED <<clean, driver, lastDisconnect, cleanupVars, open, held,
                   subscribed, orphaned>>

TeardownOffFails ==
    /\ At(Teardown, "tdOff") /\ TeardownFails
    /\ FaultActive
    /\ live' \in {live, FALSE}
    /\ UNCHANGED <<clean, driver, cleanupVars, open, held, subscribed,
                   orphaned>>

SessionCloses ==
    /\ At(Teardown, "tdClose") /\ Await("tdDrivers")
    /\ NoActive
    /\ open' = FALSE /\ subscribed' = FALSE
    /\ UNCHANGED <<clean, driver, lastDisconnect, cleanupVars, live, held,
                   orphaned>>

\* Faulty variant: the event lease is dropped when its unsubscribe fails.
ForgetEventLease ==
    /\ At(Teardown, "tdClose") /\ TeardownFails
    /\ NoActive
    /\ open' = FALSE
    /\ UNCHANGED <<clean, driver, cleanupVars, live, held, subscribed,
                   orphaned>>

\* The transport is closed but the event lease is not: the same unsubscribe is
\* retained and retried before anything else may connect.
SessionClosesSubscribed ==
    /\ At(Teardown, "tdClose") /\ TeardownFails
    /\ NoActive
    /\ open' = FALSE /\ rejected' = "unsubscribe"
    /\ UNCHANGED <<clean, driver, barrier, todo, firstFailure, live, held,
                   subscribed, orphaned>>

SessionCloseFails ==
    /\ At(Teardown, "tdClose") /\ TeardownFails
    /\ FaultActive
    /\ UNCHANGED <<clean, driver, cleanupVars, deviceVars>>

RejectedSessionReleased ==
    /\ At(Teardown, "tdRejected") /\ Await("tdDrivers")
    /\ rejected' = "none"
    /\ open' = (open /\ rejected # "close")
    /\ subscribed' = (subscribed /\ rejected # "unsubscribe")
    /\ UNCHANGED <<clean, driver, lastDisconnect, activeVars, barrier, todo,
                   firstFailure, live, held, orphaned>>

RejectedSessionRetained ==
    /\ At(Teardown, "tdRejected") /\ TeardownFails
    /\ UNCHANGED <<clean, driver, activeVars, cleanupVars, deviceVars>>

LastDriver == todo = Len(Registry)

FailureAfter(released) ==
    IF released \/ firstFailure # NoDriver THEN firstFailure ELSE Registry[todo]

\* One hook of the loop settles; every registered driver is asked, whatever
\* the earlier ones answered.  The last answer decides: the first failure is
\* kept as the barrier, or the barrier is lifted.
HookSettles(released) ==
    /\ At(Teardown, "tdDrivers")
    /\ held' = IF released THEN held \ {Registry[todo]} ELSE held
    /\ IF LastDriver
         THEN /\ Done
              /\ StartLoop
              /\ barrier' = FailureAfter(released)
              /\ lastDisconnect' =
                   IF FailureAfter(released) = NoDriver THEN "ok" ELSE "failed"
         ELSE /\ Await("tdDrivers")
              /\ todo' = todo + 1
              /\ firstFailure' = FailureAfter(released)
              /\ UNCHANGED <<barrier, lastDisconnect>>
    /\ UNCHANGED <<clean, driver, activeVars, rejected, open, live, subscribed,
                   orphaned>>

-----------------------------------------------------------------------------
(* #forward: events of the active session, between any two steps *)

EventsFlow == session # "none" /\ UNCHANGED queueVars

KeepAroundEvent ==
    UNCHANGED <<pc, body, driver, lastDisconnect, cleanupVars, deviceVars>>

\* A 'faulted' status, an unrecoverable error, or an event that violates the
\* driver contract.
FaultEvent ==
    /\ EventsFlow
    /\ FaultActive /\ clean' = FALSE
    /\ KeepAroundEvent

\* A measurement event is admitted once: by the open transaction, or after the
\* return it belongs to.
EventAdmissible(seq) ==
    /\ ~fault /\ configured
    /\ IF acquiring THEN eventSeq = 0
                    ELSE seq = lastSeq /\ ~eventDelivered

MeasurementEvent(seq) ==
    /\ EventsFlow
    /\ EventAdmissible(seq)
    /\ IF acquiring THEN eventSeq' = seq /\ UNCHANGED eventDelivered
                    ELSE eventDelivered' = TRUE /\ UNCHANGED eventSeq
    /\ UNCHANGED <<session, announced, rfOutput, configured, fault, lastSeq,
                   acquiring, clean>>
    /\ KeepAroundEvent

\* Every other measurement event terminally faults the session.
MeasurementEventFaults(seq) ==
    /\ ~EventAdmissible(seq)
    /\ FaultEvent

-----------------------------------------------------------------------------
(* The specification *)

ConnectStep ==
    \/ \E d \in Drivers : BeginConnect(d)
    \/ ConnectRejects
    \/ PendingCleanupSucceeds \/ PendingCleanupFails
    \/ InvalidSession \/ InvalidSessionCloses \/ InvalidSessionStaysOpen
    \/ UncallableSession
    \/ \E class \in {"rf", "plain"},
          rf \in {"not-supported", "off", "on", "unknown"} :
            \E isFaulted \in BOOLEAN :
              ValidSession(class, rf, isFaulted) \/ SubscribingFails(class, rf, isFaulted)
    \/ RejectOffAcknowledged \/ RejectOffFails
    \/ RejectCloseSucceeds \/ RejectCloseFails

ConfigureStep ==
    \/ BeginConfigure \/ DispatchConfigure
    \/ ConfigureApplied \/ ConfigurePlainApplied \/ ConfigureFails
    \/ ConfigureOffAcknowledged \/ ConfigureOffFails \/ ConfigureResumes

AcquireStep ==
    \/ BeginAcquire \/ AcquireOffAcknowledged \/ AcquireOffFails
    \/ DispatchAcquire
    \/ AcquireRejects \/ AcquireBreaksContract
    \/ \E seq \in 1..MaxSeq : AcquireReturns(seq)

FeatureStep ==
    \/ \E f \in Features :
          \/ BeginFeature(f) \/ DispatchFeature(f)
          \/ FeatureSucceeds(f) \/ FeatureFails(f)
    \/ GeneratorConfigured \/ GeneratorOffAcknowledged \/ GeneratorOffFails

TeardownStep ==
    \/ BeginTeardown \/ TeardownOffAcknowledged \/ TeardownOffFails
    \/ SessionCloses \/ SessionClosesSubscribed \/ SessionCloseFails
    \/ RejectedSessionReleased \/ RejectedSessionRetained
    \/ \E released \in BOOLEAN : HookSettles(released)

\* What the callers and the driver decide on their own.
CallerStep ==
    /\ \/ \E r \in SessionRequests : AdmitSession(r)
       \/ \E r \in FreeRequests : AdmitFree(r)
       \/ RequestDisconnect
    /\ UNCHANGED managerVars

DriverEvent ==
    \/ FaultEvent
    \/ \E seq \in 1..MaxSeq : MeasurementEvent(seq) \/ MeasurementEventFaults(seq)

\* What the running operation and its promise reactions do.
ManagerStep ==
    \/ ClearDisconnect /\ UNCHANGED managerVars
    \/ Refuse \/ BeginDiscover \/ FinishDiscover
    \/ BeginCanonical \/ CanonicalFails
    \/ ConnectStep \/ ConfigureStep \/ AcquireStep \/ FeatureStep
    \/ TeardownStep

Next == CallerStep \/ DriverEvent \/ ManagerStep

SafetySpec == Init /\ [][Next]_vars

\* Microtasks run, and every promise a driver returns settles (the drivers
\* bound their commands with timeouts); callers and driver events owe nothing.
Spec == SafetySpec /\ WF_vars(ManagerStep)

-----------------------------------------------------------------------------
(* Properties *)

\* The manager reports RF output 'off' only while the device is silent, and it
\* never lets go of a session whose device may be emitting: not by disconnect,
\* not by the cleanup of a session it refused to announce.  And a measurement is
\* taken from a device whose output-off was acknowledged after everything that
\* could have switched it on.
OffMeansSilent ==
    /\ rfOutput = "off" => ~live
    /\ session = "none" => ~live
    /\ pc \in {"acqBegin", "acqWait"} => ~live

\* A measurement is published only by a session that is unfaulted and
\* configured and not emitting in the moment of publication, whatever events
\* arrived while the driver was acquiring.
PublishesOnlyUnderAuthority ==
    [][ (lastSeq' # lastSeq /\ lastSeq' # 0)
        => ~fault /\ configured /\ ~live /\ rfOutput \in {"off", "not-supported"} ]_vars

\* driver.connect() runs only when nothing of an earlier connection is left:
\* no open session, no retained driver resource, no remembered event lease.
OneConnectionAtATime ==
    pc = "opening" => ~open /\ held = {} /\ ~subscribed

\* Between operations everything that is still open has an owner that a later
\* disconnect retries: the session, the rejected teardown, or the barrier.
ResourcesHaveAnOwner ==
    pc = "idle" =>
      /\ open => session # "none" \/ rejected = "close"
      /\ subscribed => session # "none" \/ rejected = "unsubscribe"
      /\ held # {} => barrier # NoDriver

\* disconnect() resolves only when nothing is left, and when it rejects, what
\* is left stays visible: a faulted session or a pending cleanup requirement.
DisconnectTellsTheTruth ==
    /\ lastDisconnect = "ok" =>
         session = "none" /\ rejected = "none" /\ barrier = NoDriver
         /\ ~open /\ ~subscribed /\ held = {}
    /\ lastDisconnect = "failed" =>
         (session # "none" /\ fault) \/ rejected # "none" \/ barrier # NoDriver

\* Both: whatever fails, what is left of a connection is owned and told.
LeftoversAreOwned == ResourcesHaveAnOwner /\ DisconnectTellsTheTruth

\* A session whose subscription failed and whose cleanup failed too is left
\* visible only for a teardown retry: it is faulted, whatever made it fail.
UnannouncedIsTeardownOnly ==
    pc = "idle" /\ session # "none" /\ ~announced => fault

\* The manager implements the lease its users rely on: the session holds it
\* while #active is set, and whatever is retained after that holds it for
\* cleanup, so no later connect finds it free.
Holder ==
    IF session # "none" THEN "session"
    ELSE IF open \/ subscribed \/ held # {} \/ rejected # "none"
              \/ barrier # NoDriver THEN "cleanup"
    ELSE "nobody"

Lease == INSTANCE RfLease WITH holder <- Holder, emitting <- live

ImplementsLease == Lease!LeaseSpec

\* What the host sees of the manager moves only as ManagerContract allows, with
\* a disconnect that resolves only over an empty runtime.
Observed ==
    IF session = "none" THEN "none"
    ELSE IF fault THEN "faulted"
    ELSE IF configured THEN "configured"
    ELSE "idle"

CleanupRequirement ==
    IF (session # "none" /\ ~announced) \/ rejected # "none" THEN "rejected"
    ELSE IF barrier # NoDriver THEN "driver"
    ELSE "none"

Contract == INSTANCE ManagerContract
              WITH sess <- Observed, cleanup <- CleanupRequirement,
                   settled <- lastDisconnect

ImplementsContract == Contract!ContractSpec

\* Both: what its users and the host build on.
ImplementsInterfaces == ImplementsLease /\ ImplementsContract

\* Every operation settles and a requested disconnect is carried out, however
\* many calls and driver events arrive: the manager implements ManagerQueue
\* with its fairness.
ImplementsQueue == QueueSpec /\ DisconnectSettles

\* Nothing that failed is beyond recovery: from the moment on that the driver
\* answers its teardown calls, callers who keep asking for a disconnect get
\* the runtime back to where a new connection is possible.
DriverAnswers ==
    ~(TeardownOffFails \/ SessionCloseFails \/ SessionClosesSubscribed
        \/ RejectedSessionRetained \/ HookSettles(FALSE))

DisconnectRecovers ==
    <>[][DriverAnswers]_vars /\ []<><<RequestDisconnect>>_vars
      => []<>(Holder = "nobody")

-----------------------------------------------------------------------------
(* Statements of the repository that the code does not keep *)

\* instrument-manager.test.ts:597 'does not readmit configuration or RF
\* certainty after a terminal event during configure'.
NoConfigurationAfterFault == fault => ~configured

\* instrument-manager.test.ts:1495 'does not acquire or restore RF certainty
\* after a terminal event during output-off reassertion'.
NoAcquisitionAfterFault ==
    [][ (pc = "acqBegin" /\ pc' = "acqWait" /\ RfCapable) => ~fault ]_vars

\* instrument-manager.ts:839-843, on an unsubscribe that throws: 'the exact
\* event lease is still live. Retain that closure as session teardown work'.
EventLeaseIsNeverForgotten == ~orphaned

=============================================================================
