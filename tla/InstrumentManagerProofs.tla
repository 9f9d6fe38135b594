----------------------- MODULE InstrumentManagerProofs -----------------------
(***************************************************************************)
(* Theorems about ManagerQueue and InstrumentManager, for every registry   *)
(* of drivers, every choice of requests and every bound.                   *)
(***************************************************************************)
EXTENDS InstrumentManager, SequenceTheorems, TLAPS

-----------------------------------------------------------------------------
(* The queue, for every set of requests and every admission limit *)

\* Queued operations have not begun.
Waiting == [request : Requests, current : BOOLEAN, begun : {FALSE}]

\* While a disconnect is pending no queued session operation is current.
Outlived == {op \in Waiting : op.request \in SessionRequests => ~op.current}

TeardownUnderway == teardownQueued \/ running.request = Teardown

QueueInv ==
    /\ QueueTypeOK
    /\ queue \in Seq(Waiting)
    /\ PendingAccountsForAdmissions
    /\ ~(teardownQueued /\ running.request = Teardown)
    /\ TeardownUnderway => disconnectPending
    /\ running.request = Nobody => queue = <<>> /\ ~teardownQueued /\ ~running.begun
    /\ disconnectPending =>
         /\ queue \in Seq(Outlived)
         /\ running.request \in SessionRequests /\ ~running.begun
              => ~running.current

\* A sequence of waiting operations stays one when its epoch is outdated, and
\* none of it is current any more.
LEMMA OutdatedQueue ==
    ASSUME queue \in Seq(Waiting)
    PROVE  LET outdated == [i \in DOMAIN queue |-> Outdated(queue[i])]
           IN  outdated \in Seq(Outlived) /\ Len(outdated) = Len(queue)
<1> DEFINE e(i) == Outdated(queue[i])
<1>1. \A i \in 1..Len(queue) : queue[i] \in Waiting
  BY ElementOfSeq
<1>2. \A i \in 1..Len(queue) : e(i) \in Outlived
  BY <1>1 DEF Outdated, Waiting, Outlived
<1>3. DOMAIN queue = 1..Len(queue) /\ Len(queue) \in Nat
  BY LenProperties
<1>4. [i \in 1..Len(queue) |-> e(i)] \in Seq(Outlived)
  <2> HIDE DEF e
  <2> QED BY <1>2, <1>3, IsASeq
<1>5. Len([i \in 1..Len(queue) |-> e(i)]) = Len(queue)
  <2> HIDE DEF e
  <2> QED BY <1>3, <1>4, LenProperties
<1> QED BY <1>3, <1>4, <1>5

\* Outlived operations are waiting operations, also as sequences.
LEMMA OutlivedWaits == Seq(Outlived) \subseteq Seq(Waiting)
BY SeqMonotonic DEF Outlived

\* What #drainOperations leaves: the slot is empty; the operation it took is
\* the teardown if there was one, else the head of the queue, else nothing.
LEMMA DrainTakesOne ==
    ASSUME NEW S, NEW normal \in Seq(S), NEW slot \in BOOLEAN,
           Drain(normal, slot)
    PROVE  /\ queue' \in Seq(S)
           /\ teardownQueued' = FALSE
           /\ slot => running' = Queued(Teardown) /\ queue' = normal
           /\ ~slot /\ normal # <<>> =>
                running' \in S /\ Len(queue') = Len(normal) - 1
           /\ ~slot /\ normal = <<>> => running' = Idle /\ queue' = <<>>
BY HeadTailProperties DEF Drain

\* What was just drained has not begun.
LEMMA DrainedHasNotBegun ==
    ASSUME NEW normal \in Seq(Waiting), NEW slot \in BOOLEAN,
           Drain(normal, slot)
    PROVE  running'.begun = FALSE
<1>1. CASE slot
  <2>1. running' = Queued(Teardown)
    BY <1>1, DrainTakesOne
  <2> QED BY <2>1 DEF Queued
<1>2. CASE ~slot /\ normal # <<>>
  <2>1. running' \in Waiting
    BY <1>2, DrainTakesOne
  <2> QED BY <2>1 DEF Waiting
<1>3. CASE ~slot /\ normal = <<>>
  <2>1. running' = Idle
    BY <1>3, DrainTakesOne
  <2> QED BY <2>1 DEF Idle
<1> QED BY <1>1, <1>2, <1>3

\* A drained operation, an appended one and the teardown are well-formed, and
\* the three markers of ManagerQueue are distinct.
LEMMA Markers ==
    /\ Teardown \notin Requests /\ Nobody \notin Requests /\ Teardown # Nobody
    /\ SessionRequests \subseteq Requests
    /\ Waiting \subseteq Scheduled
    /\ Idle \in Scheduled /\ Queued(Teardown) \in Scheduled
    /\ \A r \in Requests : Queued(r) \in Waiting
BY QueueAssumption DEF Requests, Teardown, Nobody, Waiting, Scheduled, Idle, Queued

-----------------------------------------------------------------------------
(* Every step preserves the invariant *)

\* Whatever is drained from waiting operations, outlived ones while a
\* disconnect is pending, is a well-formed running operation.
LEMMA DrainKeepsOrder ==
    ASSUME NEW normal \in Seq(Waiting), NEW slot \in BOOLEAN,
           Drain(normal, slot),
           disconnectPending' \in BOOLEAN,
           disconnectPending' => normal \in Seq(Outlived),
           slot => disconnectPending',
           pending' = Len(normal), pending' <= Limit,
           pendingTeardown' = IF slot THEN 1 ELSE 0
    PROVE  QueueInv'
<1>0. Len(normal) \in Nat
  BY LenProperties
<1>1. queue' \in Seq(Waiting) /\ teardownQueued' = FALSE
  BY DrainTakesOne
<1>2. CASE slot
  <2>1. running' = Queued(Teardown) /\ queue' = normal
    BY <1>2, DrainTakesOne
  <2>2. running' \in Scheduled /\ running'.request = Teardown
        /\ running'.request \notin Requests /\ running'.request # Nobody
    BY <2>1, Markers DEF Queued
  <2>3. running'.request \notin SessionRequests
    BY <2>2, Markers
  <2>4. queue' \in Seq(Scheduled)
    BY <2>1, Markers, SeqMonotonic
  <2>5. PendingAccountsForAdmissions'
    BY <1>0, <1>2, <2>1, <2>2 DEF PendingAccountsForAdmissions
  <2>6. pending' \in Nat /\ pendingTeardown' \in Nat
    BY <1>0
  <2> QED
    BY <1>1, <1>2, <2>1, <2>2, <2>3, <2>4, <2>5, <2>6
    DEF QueueInv, QueueTypeOK, TeardownUnderway
<1>3. CASE ~slot /\ normal # <<>>
  <2>1. running' \in Waiting /\ Len(queue') = Len(normal) - 1
    BY <1>3, DrainTakesOne
  <2>2. disconnectPending' => queue' \in Seq(Outlived) /\ running' \in Outlived
    BY <1>3, DrainTakesOne
  <2>3. running' \in Scheduled /\ running'.request \in Requests
        /\ ~running'.begun
    BY <2>1, Markers DEF Waiting
  <2>4. queue' \in Seq(Scheduled)
    BY <1>1, Markers, SeqMonotonic
  <2>5. running'.request # Teardown /\ running'.request # Nobody
    BY <2>3, Markers
  <2>6. PendingAccountsForAdmissions'
    BY <1>0, <1>1, <1>3, <2>1, <2>3, <2>5 DEF PendingAccountsForAdmissions
  <2>7. pending' \in Nat /\ pendingTeardown' \in Nat
    BY <1>0
  <2> QED
    BY <1>1, <1>3, <2>2, <2>3, <2>4, <2>5, <2>6, <2>7
    DEF QueueInv, QueueTypeOK, TeardownUnderway, Outlived
<1>4. CASE ~slot /\ normal = <<>>
  <2>1. running' = Idle /\ queue' = <<>>
    BY <1>4, DrainTakesOne
  <2>2. pending' = 0 /\ Len(queue') = 0
    BY <1>4, <2>1, EmptySeq
  <2>3. queue' \in Seq(Scheduled) /\ queue' \in Seq(Outlived)
    BY <2>1, EmptySeq
  <2>4. running'.request = Nobody /\ ~running'.begun /\ running' \in Scheduled
    BY <2>1, Markers DEF Idle
  <2>5. running'.request # Teardown /\ running'.request \notin Requests
        /\ running'.request \notin SessionRequests
    BY <2>4, Markers
  <2>6. PendingAccountsForAdmissions'
    BY <1>1, <1>4, <2>2, <2>5 DEF PendingAccountsForAdmissions
  <2>7. pending' \in Nat /\ pendingTeardown' \in Nat
    BY <2>2
  <2> QED
    BY <1>1, <1>4, <2>1, <2>3, <2>4, <2>5, <2>6, <2>7
    DEF QueueInv, QueueTypeOK, TeardownUnderway
<1> QED BY <1>2, <1>3, <1>4

\* Admitting a request that is not bound to a pending disconnect's epoch.
LEMMA AdmitKeepsInv ==
    ASSUME QueueInv, NEW r \in Requests, AdmitNormal(r),
           disconnectPending => r \notin SessionRequests
    PROVE  QueueInv'
<1> DEFINE longer == Append(queue, Queued(r))
<1>1. Queued(r) \in Waiting /\ (disconnectPending => Queued(r) \in Outlived)
  BY Markers DEF Queued, Outlived, Waiting
<1>2. longer \in Seq(Waiting) /\ Len(longer) = Len(queue) + 1
  BY <1>1, AppendProperties DEF QueueInv
<1>3. disconnectPending => longer \in Seq(Outlived)
  BY <1>1, AppendProperties DEF QueueInv
<1>4. Len(queue) \in Nat /\ pending \in Nat /\ pending < Limit /\ Limit \in Nat
  BY LenProperties, QueueAssumption
  DEF QueueInv, QueueTypeOK, AdmitNormal
<1>5. UNCHANGED <<pendingTeardown, disconnectPending>> /\ pending' = pending + 1
  BY DEF AdmitNormal
<1>6. CASE OperationRunning
  <2>1. running' = running /\ queue' = longer /\ teardownQueued' = teardownQueued
    BY <1>6 DEF AdmitNormal, DrainIfIdle
  <2>2. longer \in Seq(Scheduled)
    BY <1>2, Markers, SeqMonotonic
  <2>3. PendingAccountsForAdmissions'
    BY <1>2, <1>4, <1>5, <2>1 DEF QueueInv, PendingAccountsForAdmissions
  <2> HIDE DEF longer
  <2> QED
    BY <1>2, <1>3, <1>4, <1>5, <1>6, <2>1, <2>2, <2>3
    DEF QueueInv, QueueTypeOK, TeardownUnderway, OperationRunning
<1>7. CASE ~OperationRunning
  <2>1. Drain(longer, teardownQueued) /\ queue = <<>> /\ ~teardownQueued
    BY <1>7 DEF AdmitNormal, DrainIfIdle, QueueInv, OperationRunning
  <2>2. pending = 0 /\ pendingTeardown = 0 /\ Len(longer) = 1
    BY <1>2, <1>7, <2>1, Markers
    DEF QueueInv, PendingAccountsForAdmissions, OperationRunning
  <2>3. /\ teardownQueued \in BOOLEAN
        /\ disconnectPending' = disconnectPending
        /\ disconnectPending' \in BOOLEAN
        /\ pending' = Len(longer) /\ pending' <= Limit
        /\ pendingTeardown' = 0
    BY <1>4, <1>5, <2>2 DEF QueueInv, QueueTypeOK
  <2> HIDE DEF longer
  <2> QED
    BY <1>2, <1>3, <2>1, <2>3, DrainKeepsOrder
<1> QED BY <1>6, <1>7

\* A disconnect request outdates everything that waits and takes the slot.
LEMMA RequestKeepsInv ==
    ASSUME QueueInv, RequestDisconnect
    PROVE  QueueInv'
<1> DEFINE outdated == [i \in DOMAIN queue |-> Outdated(queue[i])]
<1>1. outdated \in Seq(Outlived) /\ Len(outdated) = Len(queue)
  BY OutdatedQueue DEF QueueInv
<1>2. outdated \in Seq(Waiting) /\ outdated \in Seq(Scheduled)
  BY <1>1, OutlivedWaits, Markers, SeqMonotonic
<1>3. DrainIfIdle(outdated, TRUE, Outdated(running))
  BY DEF RequestDisconnect
<1>4. /\ ~disconnectPending /\ disconnectPending' = TRUE
      /\ pendingTeardown = 0 /\ pendingTeardown' = pendingTeardown + 1
      /\ pending' = pending
      /\ Len(queue) \in Nat
  BY LenProperties DEF RequestDisconnect, QueueInv
<1>5. ~teardownQueued /\ running.request # Teardown
  BY <1>4 DEF QueueInv, TeardownUnderway
<1> HIDE DEF outdated
<1>6. CASE OperationRunning
  <2>1. running' = Outdated(running) /\ queue' = outdated /\ teardownQueued' = TRUE
    BY <1>3, <1>6 DEF DrainIfIdle
  <2>2. /\ running' \in Scheduled
        /\ running'.request = running.request /\ running'.begun = running.begun
        /\ ~running.begun => ~running'.current
    BY <2>1 DEF Outdated, QueueInv, QueueTypeOK, Scheduled
  <2>3. PendingAccountsForAdmissions'
    BY <1>1, <1>4, <1>5, <2>1, <2>2 DEF QueueInv, PendingAccountsForAdmissions
  <2> QED
    BY <1>1, <1>2, <1>4, <1>5, <1>6, <2>1, <2>2, <2>3
    DEF QueueInv, QueueTypeOK, TeardownUnderway, OperationRunning
<1>7. CASE ~OperationRunning
  <2>1. Drain(outdated, TRUE)
    BY <1>3, <1>7 DEF DrainIfIdle
  <2>2. pending = Len(outdated) /\ pending <= Limit
    BY <1>1, <1>4, <1>7, Markers
    DEF QueueInv, PendingAccountsForAdmissions, OperationRunning
  <2>3. pendingTeardown' = 1 /\ pending' = Len(outdated) /\ pending' <= Limit
    BY <1>4, <2>2
  <2> QED
    BY <1>1, <1>2, <1>4, <2>1, <2>3, DrainKeepsOrder
<1> QED BY <1>6, <1>7

\* Settling releases exactly the admission the operation held.
LEMMA SettleKeepsInv ==
    ASSUME QueueInv, OperationRunning, Settle
    PROVE  QueueInv'
<1>1. Drain(queue, teardownQueued) /\ disconnectPending' = disconnectPending
  BY DEF Settle
<1>2. Len(queue) \in Nat /\ pending \in Nat /\ pendingTeardown \in Nat
      /\ running.request \in Requests \cup {Teardown} /\ Limit \in Nat
  BY LenProperties, QueueAssumption
  DEF QueueInv, QueueTypeOK, OperationRunning, Scheduled
<1>3. /\ pending' = Len(queue) /\ pending' <= Limit
      /\ pendingTeardown' = IF teardownQueued THEN 1 ELSE 0
  BY <1>2, Markers DEF Settle, QueueInv, PendingAccountsForAdmissions
<1> QED
  BY <1>1, <1>2, <1>3, DrainKeepsOrder
  DEF QueueInv, QueueTypeOK, TeardownUnderway

\* Entering a body.
LEMMA BeginKeepsInv ==
    ASSUME QueueInv, Begin
    PROVE  QueueInv'
<1>1. /\ running' \in Scheduled /\ running'.request = running.request
      /\ running'.begun /\ running.request # Nobody
  BY DEF Begin, Startable, OperationRunning, QueueInv, QueueTypeOK, Scheduled
<1>2. UNCHANGED <<queue, teardownQueued, pending, pendingTeardown,
                  disconnectPending>>
  BY DEF Begin
<1> QED
  BY <1>1, <1>2
  DEF QueueInv, QueueTypeOK, PendingAccountsForAdmissions, TeardownUnderway

\* Forgetting a settled disconnect.
LEMMA ClearKeepsInv ==
    ASSUME QueueInv, ClearDisconnect
    PROVE  QueueInv'
BY DEF ClearDisconnect, TeardownSettled, QueueInv, QueueTypeOK,
       PendingAccountsForAdmissions, TeardownUnderway

\* The inductive invariant holds initially.
LEMMA QueueInitially == QueueInit => QueueInv
<1> SUFFICES ASSUME QueueInit PROVE QueueInv
  OBVIOUS
<1>1. queue \in Seq(Waiting) /\ queue \in Seq(Scheduled) /\ Len(queue) = 0
  BY EmptySeq DEF QueueInit
<1>2. running \in Scheduled /\ running.request = Nobody /\ ~running.begun
  BY Markers DEF QueueInit, Idle
<1>3. running.request # Teardown /\ running.request \notin Requests
  BY <1>2, Markers
<1>4. PendingAccountsForAdmissions
  BY <1>1, <1>3, QueueAssumption DEF QueueInit, PendingAccountsForAdmissions
<1> QED
  BY <1>1, <1>2, <1>3, <1>4
  DEF QueueInit, QueueInv, QueueTypeOK, TeardownUnderway

\* Every step of the queue preserves the inductive invariant.
LEMMA QueueStep == QueueInv /\ [QueueNext]_queueVars => QueueInv'
<1> SUFFICES ASSUME QueueInv, [QueueNext]_queueVars PROVE QueueInv'
  OBVIOUS
<1>1. ASSUME NEW r \in SessionRequests, AdmitSession(r) PROVE QueueInv'
  BY <1>1, AdmitKeepsInv, Markers DEF AdmitSession
<1>2. ASSUME NEW r \in FreeRequests, AdmitFree(r) PROVE QueueInv'
  BY <1>2, AdmitKeepsInv, QueueAssumption DEF AdmitFree, Requests
<1>3. CASE RequestDisconnect
  BY <1>3, RequestKeepsInv
<1>4. CASE ClearDisconnect
  BY <1>4, ClearKeepsInv
<1>5. CASE Begin
  BY <1>5, BeginKeepsInv
<1>6. CASE SettleAtStart
  BY <1>6, SettleKeepsInv DEF SettleAtStart, Startable
<1>7. CASE Finish
  BY <1>7, SettleKeepsInv DEF Finish, QueueInv, OperationRunning
<1>8. CASE UNCHANGED queueVars
  BY <1>8
  DEF queueVars, QueueInv, QueueTypeOK, PendingAccountsForAdmissions,
      TeardownUnderway
<1> QED
  BY <1>1, <1>2, <1>3, <1>4, <1>5, <1>6, <1>7, <1>8 DEF QueueNext

-----------------------------------------------------------------------------
(* The theorems *)

\* The inductive invariant holds in every state of every behaviour.
THEOREM QueueInvariant == QueueSafetySpec => []QueueInv
<1>1. QueueInit => QueueInv
  BY QueueInitially
<1>2. QueueInv /\ [QueueNext]_queueVars => QueueInv'
  BY QueueStep
<1> QED BY <1>1, <1>2, PTL DEF QueueSafetySpec

\* Type correctness of the admission queue.
THEOREM QueueTypeCorrect == QueueSafetySpec => []QueueTypeOK
<1>1. QueueInv => QueueTypeOK
  BY DEF QueueInv
<1> QED BY <1>1, QueueInvariant, PTL

\* #pendingOperations and #pendingTeardownOperations never drift from what is
\* queued and running, whatever the limit.
THEOREM CountersAreExact == QueueSafetySpec => []PendingAccountsForAdmissions
<1>1. QueueInv => PendingAccountsForAdmissions
  BY DEF QueueInv
<1> QED BY <1>1, QueueInvariant, PTL

\* A new disconnect request always finds its slot free.
THEOREM TeardownIsAlwaysAdmitted == QueueSafetySpec => []TeardownSlotFree
<1>1. QueueInv => TeardownSlotFree
  BY DEF QueueInv, PendingAccountsForAdmissions, TeardownUnderway,
         TeardownSlotFree
<1> QED BY <1>1, QueueInvariant, PTL

\* No session operation enters its body while a disconnect is pending.
THEOREM NothingStartsBehindTeardown ==
    QueueSafetySpec => NoSessionBodyBehindTeardown
<1> DEFINE Enters == running.request \in SessionRequests /\ ~running.begun
                     /\ running'.begun /\ running'.request = running.request
<1>1. ASSUME QueueInv, [QueueNext]_queueVars, Enters
      PROVE  ~disconnectPending
  <2>1. running.request # Teardown /\ running' # running
    BY <1>1, Markers
  <2>2. CASE Begin
    BY <1>1, <2>2 DEF Begin, Canceled, QueueInv
  <2>4. CASE Settle
    BY <1>1, <2>4, DrainedHasNotBegun DEF Settle, QueueInv, QueueTypeOK
  <2>5. CASE RequestDisconnect
    BY <1>1, <2>5 DEF RequestDisconnect
  <2>6. OperationRunning
    BY <1>1, Markers DEF OperationRunning
  <2>7. ASSUME NEW r \in Requests, AdmitNormal(r) PROVE FALSE
    BY <2>1, <2>6, <2>7 DEF AdmitNormal, DrainIfIdle
  <2>8. CASE ClearDisconnect
    BY <2>1, <2>8 DEF ClearDisconnect
  <2>9. CASE UNCHANGED queueVars
    BY <2>1, <2>9 DEF queueVars
  <2> QED
    BY <1>1, <2>2, <2>4, <2>5, <2>7, <2>8, <2>9
    DEF QueueNext, AdmitSession, AdmitFree, SettleAtStart, Finish, Requests
<1>2. QueueInv /\ [QueueNext]_queueVars
        => [Enters => ~disconnectPending]_queueVars
  BY <1>1
<1> QED BY <1>2, QueueInvariant, PTL
         DEF QueueSafetySpec, NoSessionBodyBehindTeardown

-----------------------------------------------------------------------------
(* The manager implements its queue: no step touches the queue in a way    *)
(* ManagerQueue does not allow.                                            *)

\* Every step of connect() leaves the queue alone, enters a body or settles one.
LEMMA ConnectStepQueues == ConnectStep => [QueueNext]_queueVars
BY DEF ConnectStep, BeginConnect, ConnectRejects, PendingCleanupSucceeds,
       PendingCleanupFails, InvalidSession, InvalidSessionCloses,
       InvalidSessionStaysOpen, UncallableSession, ValidSession,
       SubscribingFails, RejectOffAcknowledged, RejectOffFails,
       RejectCloseSucceeds, RejectCloseFails,
       Enter, Await, Done, QueueNext

\* So does every step of configure().
LEMMA ConfigureStepQueues == ConfigureStep => [QueueNext]_queueVars
BY DEF ConfigureStep, BeginConfigure, DispatchConfigure, ConfigureApplied,
       ConfigurePlainApplied, ConfigureFails, ConfigureOffAcknowledged,
       ConfigureOffFails, ConfigureResumes, CommitConfiguration,
       Starts, Enter, Await, Done, QueueNext

\* So does every step of acquire().
LEMMA AcquireStepQueues == AcquireStep => [QueueNext]_queueVars
BY DEF AcquireStep, BeginAcquire, AcquireOffAcknowledged, AcquireOffFails,
       DispatchAcquire, AcquireRejects, AcquireBreaksContract, AcquireReturns,
       Enter, Await, Done, QueueNext

\* So does every step of executeFeature().
LEMMA FeatureStepQueues == FeatureStep => [QueueNext]_queueVars
BY DEF FeatureStep, BeginFeature, DispatchFeature, FeatureSucceeds,
       FeatureFails, GeneratorConfigured, GeneratorOffAcknowledged,
       GeneratorOffFails, Starts, Enter, Await, Done, QueueNext

\* So does every step of #disconnect and of the cleanup hooks after it.
LEMMA TeardownStepQueues == TeardownStep => [QueueNext]_queueVars
BY DEF TeardownStep, BeginTeardown, TeardownOffAcknowledged, TeardownOffFails,
       SessionCloses, SessionClosesSubscribed, SessionCloseFails,
       RejectedSessionReleased, RejectedSessionRetained, HookSettles,
       TeardownFails, Enter, Await, Done, QueueNext

\* A step of the manager is a step of its queue or leaves the queue unchanged.
LEMMA StepQueues == [Next]_vars => [QueueNext]_queueVars
<1>1. CallerStep => [QueueNext]_queueVars
  BY DEF CallerStep, QueueNext
<1>2. DriverEvent => [QueueNext]_queueVars
  BY DEF DriverEvent, FaultEvent, MeasurementEvent, MeasurementEventFaults,
         EventsFlow
<1>3. ManagerStep => [QueueNext]_queueVars
  BY ConnectStepQueues, ConfigureStepQueues, AcquireStepQueues,
     FeatureStepQueues, TeardownStepQueues
  DEF ManagerStep, Refuse, BeginDiscover, FinishDiscover, BeginCanonical,
      CanonicalFails, Enter, Done, QueueNext
<1>4. UNCHANGED vars => UNCHANGED queueVars
  BY DEF vars
<1> QED BY <1>1, <1>2, <1>3, <1>4 DEF Next

\* Every behaviour of the manager is one of its admission queue.
THEOREM ManagerImplementsQueue == SafetySpec => QueueSafetySpec
<1>1. Init => QueueInit
  BY DEF Init
<1>2. [Next]_vars => [QueueNext]_queueVars
  BY StepQueues
<1> QED BY <1>1, <1>2, PTL DEF SafetySpec, QueueSafetySpec

-----------------------------------------------------------------------------
(* The inductive invariant.  What is promised of rfOutput and the session  *)
(* holds at every await only because of what each await stands for.        *)

\* The awaits of a session's own RF-changing operations: its output is unknown
\* from before the dispatch until an acknowledgement.
AwaitsRf ==
    \/ pc \in {"rejectOff", "cfgDispatch", "cfgOff", "acqOff", "featDispatch",
               "featOff", "tdOff"}
    \/ pc = "cfgWait" /\ RfCapable
    \/ pc = "featWait" /\ body \in {"on", "off", "generator"}

\* The awaits that are entered only after an acknowledged output-off, or with
\* a session that has no RF output.
AwaitsInSilence == pc \in {"rejectClose", "tdClose", "acqBegin", "acqWait"}

SilenceInv ==
    /\ session = "none" => rfOutput = "not-supported"
    /\ rfOutput \in {"off", "not-supported"} => ~live
    /\ AwaitsRf => rfOutput = "unknown"
    /\ AwaitsInSilence => ~live

ManagerTypeOK ==
    /\ ControlTypeOK /\ SessionTypeOK /\ SequencesOK
    /\ CleanupTypeOK /\ DeviceTypeOK

IInv == ManagerTypeOK /\ SilenceInv

\* A registry index names a registered driver, and the next one exists unless
\* it is the last.
LEMMA RegistryIndex ==
    /\ 1 \in DOMAIN Registry
    /\ \A i \in DOMAIN Registry :
         /\ Registry[i] \in Drivers
         /\ i # Len(Registry) => i + 1 \in DOMAIN Registry
<1>1. Len(Registry) \in Nat \ {0} /\ DOMAIN Registry = 1..Len(Registry)
  BY ManagerAssumption, EmptySeq, LenProperties
<1> QED BY <1>1 DEF Drivers

-----------------------------------------------------------------------------
(* Type correctness, one lemma per part of the state *)

\* The operation that runs and the await it is at keep their types.
LEMMA ControlTypeStep == ControlTypeOK /\ [Next]_vars => ControlTypeOK'
<1> SUFFICES ASSUME ControlTypeOK, [Next]_vars PROVE ControlTypeOK'
  OBVIOUS
<1> USE DEF ControlTypeOK, Waits, Nobody, Teardown, Features
<1>1. CASE ConnectStep
  <2> USE DEF Await, Done
  <2>1. ASSUME NEW d \in Drivers, BeginConnect(d) PROVE ControlTypeOK'
    BY <2>1 DEF BeginConnect, Enter, SessionOperations
  <2>2. CASE ConnectRejects \/ PendingCleanupSucceeds \/ PendingCleanupFails
    BY <2>2 DEF ConnectRejects, PendingCleanupSucceeds, PendingCleanupFails
  <2>3. CASE InvalidSession \/ InvalidSessionCloses \/ InvalidSessionStaysOpen
             \/ UncallableSession
    BY <2>3
    DEF InvalidSession, InvalidSessionCloses, InvalidSessionStaysOpen,
        UncallableSession
  <2>4. ASSUME NEW class \in {"rf", "plain"}, NEW isFaulted \in BOOLEAN,
               NEW rf \in {"not-supported", "off", "on", "unknown"},
               ValidSession(class, rf, isFaulted)
               \/ SubscribingFails(class, rf, isFaulted)
        PROVE  ControlTypeOK'
    BY <2>4 DEF ValidSession, SubscribingFails
  <2>5. CASE RejectOffAcknowledged \/ RejectOffFails
             \/ RejectCloseSucceeds \/ RejectCloseFails
    BY <2>5
    DEF RejectOffAcknowledged, RejectOffFails, RejectCloseSucceeds,
        RejectCloseFails
  <2> QED BY <1>1, <2>1, <2>2, <2>3, <2>4, <2>5 DEF ConnectStep
<1>2. CASE ConfigureStep
  BY <1>2
  DEF ConfigureStep, BeginConfigure, DispatchConfigure, ConfigureApplied,
      ConfigurePlainApplied, ConfigureFails, ConfigureOffAcknowledged,
      ConfigureOffFails, ConfigureResumes, CommitConfiguration,
      Starts, Enter, Await, Done, SessionOperations
<1>3. CASE AcquireStep
  <2>1. CASE BeginAcquire
    BY <2>1 DEF BeginAcquire, Enter, SessionOperations
  <2>2. CASE AcquireOffAcknowledged \/ AcquireOffFails
    BY <2>2 DEF AcquireOffAcknowledged, AcquireOffFails, Await, Done
  <2>3. CASE DispatchAcquire
    BY <2>3 DEF DispatchAcquire, Await
  <2>4. CASE AcquireRejects \/ AcquireBreaksContract
    BY <2>4 DEF AcquireRejects, AcquireBreaksContract, Await, Done
  <2>5. ASSUME NEW seq \in 1..MaxSeq, AcquireReturns(seq)
        PROVE  ControlTypeOK'
    BY <2>5 DEF AcquireReturns, Done
  <2> QED BY <1>3, <2>1, <2>2, <2>3, <2>4, <2>5 DEF AcquireStep
<1>4. CASE FeatureStep
  <2>1. ASSUME NEW f \in Features, BeginFeature(f) \/ DispatchFeature(f)
        PROVE  ControlTypeOK'
    <3>1. f # "connect" /\ f \in SessionOperations
      BY DEF SessionOperations
    <3> QED
      BY <2>1, <3>1 DEF BeginFeature, DispatchFeature, Starts, Enter, Await
  <2>2. ASSUME NEW f \in Features, FeatureSucceeds(f) \/ FeatureFails(f)
        PROVE  ControlTypeOK'
    BY <2>2 DEF FeatureSucceeds, FeatureFails, Done
  <2>3. CASE GeneratorConfigured \/ GeneratorOffAcknowledged \/ GeneratorOffFails
    BY <2>3
    DEF GeneratorConfigured, GeneratorOffAcknowledged, GeneratorOffFails,
        Await, Done
  <2> QED BY <1>4, <2>1, <2>2, <2>3 DEF FeatureStep
<1>5. CASE TeardownStep
  <2> USE DEF TeardownFails, AfterSession, Await, Done
  <2>1. CASE BeginTeardown
    BY <2>1 DEF BeginTeardown, Enter
  <2>2. CASE TeardownOffAcknowledged \/ TeardownOffFails
    BY <2>2 DEF TeardownOffAcknowledged, TeardownOffFails
  <2>3. CASE SessionCloses \/ SessionClosesSubscribed \/ SessionCloseFails
    BY <2>3 DEF SessionCloses, SessionClosesSubscribed, SessionCloseFails
  <2>4. CASE RejectedSessionReleased \/ RejectedSessionRetained
    BY <2>4 DEF RejectedSessionReleased, RejectedSessionRetained
  <2>5. ASSUME NEW released \in BOOLEAN, HookSettles(released)
        PROVE  ControlTypeOK'
    BY <2>5 DEF HookSettles
  <2> QED BY <1>5, <2>1, <2>2, <2>3, <2>4, <2>5 DEF TeardownStep
<1>6. CASE DriverEvent
  <2>1. KeepAroundEvent /\ (clean' = FALSE \/ UNCHANGED clean)
    BY <1>6
    DEF DriverEvent, FaultEvent, MeasurementEvent, MeasurementEventFaults
  <2> QED BY <2>1 DEF KeepAroundEvent
<1>7. CASE CallerStep \/ (ClearDisconnect /\ UNCHANGED managerVars) \/ Refuse
  BY <1>7 DEF CallerStep, Refuse, managerVars, controlVars
<1>8. CASE BeginDiscover \/ FinishDiscover \/ BeginCanonical \/ CanonicalFails
  <2>1. CASE BeginDiscover \/ BeginCanonical
    BY <2>1 DEF BeginDiscover, BeginCanonical, Enter, SessionOperations
  <2>2. CASE FinishDiscover \/ CanonicalFails
    BY <2>2 DEF FinishDiscover, CanonicalFails, Done
  <2> QED BY <1>8, <2>1, <2>2
<1>9. CASE UNCHANGED vars
  BY <1>9 DEF vars, managerVars, controlVars
<1> QED
  BY <1>1, <1>2, <1>3, <1>4, <1>5, <1>6, <1>7, <1>8, <1>9 DEF Next, ManagerStep

\* The active session, its configuration and its measurement state keep their
\* types.
LEMMA SessionTypeStep == SessionTypeOK /\ [Next]_vars => SessionTypeOK'
<1> SUFFICES ASSUME SessionTypeOK, [Next]_vars PROVE SessionTypeOK'
  OBVIOUS
<1> USE DEF SessionTypeOK, activeVars, measurementVars,
         FaultActive, Uncertain, RfCapable, SetRf, NoActive,
         InvalidateConfiguration, ResetMeasurementState
<1>1. CASE ConnectStep
  <2>1. ASSUME NEW class \in {"rf", "plain"},
               NEW rf \in {"not-supported", "off", "on", "unknown"},
               NEW isAnnounced \in BOOLEAN, NEW isFaulted \in BOOLEAN,
               Activate(class, rf, isAnnounced, isFaulted)
        PROVE  SessionTypeOK'
    BY <2>1 DEF Activate, OutputFits
  <2>2. ASSUME NEW class \in {"rf", "plain"},
               NEW rf \in {"not-supported", "off", "on", "unknown"},
               NEW isFaulted \in BOOLEAN,
               ValidSession(class, rf, isFaulted)
                 \/ SubscribingFails(class, rf, isFaulted)
        PROVE  SessionTypeOK'
    BY <2>1, <2>2 DEF ValidSession, SubscribingFails
  <2>3. ASSUME NEW dr \in Drivers, BeginConnect(dr) PROVE SessionTypeOK'
    BY <2>3 DEF BeginConnect
  <2>4. CASE ConnectRejects \/ PendingCleanupSucceeds \/ PendingCleanupFails
    BY <2>4 DEF ConnectRejects, PendingCleanupSucceeds, PendingCleanupFails
  <2>5. CASE InvalidSession \/ InvalidSessionCloses \/ InvalidSessionStaysOpen
    BY <2>5 DEF InvalidSession, InvalidSessionCloses, InvalidSessionStaysOpen
  <2>6. CASE UncallableSession
    BY <2>6 DEF UncallableSession
  <2>7. CASE RejectOffAcknowledged \/ RejectOffFails
    BY <2>7 DEF RejectOffAcknowledged, RejectOffFails
  <2>8. CASE RejectCloseSucceeds \/ RejectCloseFails
    BY <2>8 DEF RejectCloseSucceeds, RejectCloseFails
  <2> QED
    BY <1>1, <2>2, <2>3, <2>4, <2>5, <2>6, <2>7, <2>8 DEF ConnectStep
<1>2. CASE ConfigureStep
  <2>1. CASE BeginConfigure \/ DispatchConfigure
    BY <2>1 DEF BeginConfigure, DispatchConfigure
  <2>2. CASE ConfigureApplied \/ ConfigurePlainApplied \/ ConfigureFails
    BY <2>2
    DEF ConfigureApplied, ConfigurePlainApplied, ConfigureFails,
        CommitConfiguration
  <2>3. CASE ConfigureOffAcknowledged \/ ConfigureOffFails \/ ConfigureResumes
    BY <2>3
    DEF ConfigureOffAcknowledged, ConfigureOffFails, ConfigureResumes,
        CommitConfiguration
  <2> QED BY <1>2, <2>1, <2>2, <2>3 DEF ConfigureStep
<1>3. CASE AcquireStep
  <2>1. CASE BeginAcquire \/ AcquireOffAcknowledged \/ AcquireOffFails
    BY <2>1 DEF BeginAcquire, AcquireOffAcknowledged, AcquireOffFails
  <2>2. CASE DispatchAcquire \/ AcquireRejects \/ AcquireBreaksContract
    BY <2>2
    DEF DispatchAcquire, AcquireRejects, AcquireBreaksContract,
        CloseTransaction
  <2>3. ASSUME NEW seq \in 1..MaxSeq, AcquireReturns(seq) PROVE SessionTypeOK'
    BY <2>3 DEF AcquireReturns, Publish
  <2> QED BY <1>3, <2>1, <2>2, <2>3 DEF AcquireStep
<1>4. CASE FeatureStep
  <2>1. ASSUME NEW f \in Features, BeginFeature(f) PROVE SessionTypeOK'
    BY <2>1 DEF BeginFeature, WithdrawFor
  <2>2. ASSUME NEW f \in Features, DispatchFeature(f) PROVE SessionTypeOK'
    BY <2>2 DEF DispatchFeature
  <2>3. ASSUME NEW f \in Features, FeatureSucceeds(f) PROVE SessionTypeOK'
    BY <2>3 DEF FeatureSucceeds
  <2>4. ASSUME NEW f \in Features, FeatureFails(f) PROVE SessionTypeOK'
    BY <2>4 DEF FeatureFails
  <2>5. CASE GeneratorConfigured \/ GeneratorOffAcknowledged \/ GeneratorOffFails
    BY <2>5
    DEF GeneratorConfigured, GeneratorOffAcknowledged, GeneratorOffFails
  <2> QED
    BY <1>4, <2>1, <2>2, <2>3, <2>4, <2>5 DEF FeatureStep
<1>5. CASE TeardownStep
  <2>1. CASE BeginTeardown \/ TeardownOffAcknowledged \/ TeardownOffFails
    BY <2>1 DEF BeginTeardown, TeardownOffAcknowledged, TeardownOffFails
  <2>2. CASE SessionCloses \/ SessionClosesSubscribed \/ SessionCloseFails
    BY <2>2 DEF SessionCloses, SessionClosesSubscribed, SessionCloseFails
  <2>3. CASE RejectedSessionReleased \/ RejectedSessionRetained
    BY <2>3 DEF RejectedSessionReleased, RejectedSessionRetained
  <2>4. ASSUME NEW released \in BOOLEAN, HookSettles(released)
        PROVE  SessionTypeOK'
    BY <2>4 DEF HookSettles
  <2> QED BY <1>5, <2>1, <2>2, <2>3, <2>4 DEF TeardownStep
<1>6. CASE DriverEvent
  BY <1>6
  DEF DriverEvent, FaultEvent, MeasurementEvent, MeasurementEventFaults
<1>7. CASE CallerStep \/ (ClearDisconnect /\ UNCHANGED managerVars) \/ Refuse
  BY <1>7 DEF CallerStep, Refuse, managerVars, activeVars, measurementVars
<1>8. CASE BeginDiscover \/ FinishDiscover \/ BeginCanonical \/ CanonicalFails
  BY <1>8
  DEF BeginDiscover, FinishDiscover, BeginCanonical, CanonicalFails,
      activeVars, measurementVars
<1>9. CASE UNCHANGED vars
  BY <1>9 DEF vars, managerVars, activeVars, measurementVars
<1> QED
  BY <1>1, <1>2, <1>3, <1>4, <1>5, <1>6, <1>7, <1>8, <1>9 DEF Next, ManagerStep

\* The sequence numbers a device may send are sequence numbers.
LEMMA SequenceRange == 0 \in 0..MaxSeq /\ 1..MaxSeq \subseteq 0..MaxSeq
BY ManagerAssumption

\* Sequence numbers stay within the bound of the model.
LEMMA SequencesStep == SequencesOK /\ [Next]_vars => SequencesOK'
<1> SUFFICES ASSUME SequencesOK, [Next]_vars PROVE SequencesOK'
  OBVIOUS
<1> USE DEF SequencesOK, activeVars, measurementVars,
         FaultActive, SetRf, NoActive, InvalidateConfiguration,
         ResetMeasurementState
<1>1. CASE ConnectStep
  BY <1>1, SequenceRange
  DEF ConnectStep, BeginConnect, ConnectRejects, PendingCleanupSucceeds,
      PendingCleanupFails, InvalidSession, InvalidSessionCloses,
      InvalidSessionStaysOpen, UncallableSession, ValidSession,
      SubscribingFails, RejectOffAcknowledged, RejectOffFails,
      RejectCloseSucceeds, RejectCloseFails, Activate, OutputFits
<1>2. CASE ConfigureStep
  BY <1>2, SequenceRange
  DEF ConfigureStep, BeginConfigure, DispatchConfigure, ConfigureApplied,
      ConfigurePlainApplied, ConfigureFails, ConfigureOffAcknowledged,
      ConfigureOffFails, ConfigureResumes, CommitConfiguration
<1>3. CASE AcquireStep
  BY <1>3, SequenceRange
  DEF AcquireStep, BeginAcquire, AcquireOffAcknowledged, AcquireOffFails,
      DispatchAcquire, AcquireRejects, AcquireBreaksContract,
      AcquireReturns, CloseTransaction, Publish
<1>4. CASE FeatureStep
  BY <1>4, SequenceRange
  DEF FeatureStep, BeginFeature, DispatchFeature, FeatureSucceeds,
      FeatureFails, GeneratorConfigured, GeneratorOffAcknowledged,
      GeneratorOffFails, WithdrawFor
<1>5. CASE TeardownStep
  BY <1>5, SequenceRange
  DEF TeardownStep, BeginTeardown, TeardownOffAcknowledged,
      TeardownOffFails, SessionCloses, SessionClosesSubscribed,
      SessionCloseFails, RejectedSessionReleased, RejectedSessionRetained,
      HookSettles
<1>6. CASE DriverEvent
  BY <1>6, SequenceRange
  DEF DriverEvent, FaultEvent, MeasurementEvent, MeasurementEventFaults
<1>7. CASE CallerStep \/ (ClearDisconnect /\ UNCHANGED managerVars) \/ Refuse
  BY <1>7 DEF CallerStep, Refuse, managerVars, activeVars, measurementVars
<1>8. CASE BeginDiscover \/ FinishDiscover \/ BeginCanonical \/ CanonicalFails
  BY <1>8
  DEF BeginDiscover, FinishDiscover, BeginCanonical, CanonicalFails,
      activeVars, measurementVars
<1>9. CASE UNCHANGED vars
  BY <1>9 DEF vars, managerVars, activeVars, measurementVars
<1> QED
  BY <1>1, <1>2, <1>3, <1>4, <1>5, <1>6, <1>7, <1>8, <1>9 DEF Next, ManagerStep

\* The cleanup hooks, the pending cleanup and the position in the registry keep
\* their types: the registry loop never runs past its end.
LEMMA CleanupTypeStep ==
    ControlTypeOK /\ CleanupTypeOK /\ [Next]_vars => CleanupTypeOK'
<1> SUFFICES ASSUME ControlTypeOK, CleanupTypeOK, [Next]_vars PROVE CleanupTypeOK'
  OBVIOUS
<1> USE DEF CleanupTypeOK, ControlTypeOK, cleanupVars
<1>1. CASE ConnectStep
  BY <1>1
  DEF ConnectStep, BeginConnect, ConnectRejects, PendingCleanupSucceeds,
      PendingCleanupFails, InvalidSession, InvalidSessionCloses,
      InvalidSessionStaysOpen, UncallableSession, ValidSession,
      SubscribingFails, RejectOffAcknowledged, RejectOffFails,
      RejectCloseSucceeds, RejectCloseFails
<1>2. CASE ConfigureStep
  BY <1>2
  DEF ConfigureStep, BeginConfigure, DispatchConfigure, ConfigureApplied,
      ConfigurePlainApplied, ConfigureFails, ConfigureOffAcknowledged,
      ConfigureOffFails, ConfigureResumes, CommitConfiguration
<1>3. CASE AcquireStep
  BY <1>3
  DEF AcquireStep, BeginAcquire, AcquireOffAcknowledged, AcquireOffFails,
      DispatchAcquire, AcquireRejects, AcquireBreaksContract, AcquireReturns
<1>4. CASE FeatureStep
  BY <1>4
  DEF FeatureStep, BeginFeature, DispatchFeature, FeatureSucceeds,
      FeatureFails, GeneratorConfigured, GeneratorOffAcknowledged,
      GeneratorOffFails
<1>5. CASE TeardownStep
  BY <1>5, RegistryIndex
  DEF TeardownStep, BeginTeardown, TeardownOffAcknowledged,
      TeardownOffFails, SessionCloses, SessionClosesSubscribed,
      SessionCloseFails, RejectedSessionReleased, RejectedSessionRetained,
      HookSettles, StartLoop, FailureAfter, LastDriver
<1>6. CASE DriverEvent
  BY <1>6
  DEF DriverEvent, FaultEvent, MeasurementEvent, MeasurementEventFaults,
      KeepAroundEvent
<1>7. CASE CallerStep \/ (ClearDisconnect /\ UNCHANGED managerVars) \/ Refuse
  BY <1>7 DEF CallerStep, Refuse, managerVars, cleanupVars
<1>8. CASE BeginDiscover \/ FinishDiscover \/ BeginCanonical \/ CanonicalFails
  BY <1>8
  DEF BeginDiscover, FinishDiscover, BeginCanonical, CanonicalFails,
      cleanupVars
<1>9. CASE UNCHANGED vars
  BY <1>9 DEF vars, managerVars, cleanupVars
<1> QED
  BY <1>1, <1>2, <1>3, <1>4, <1>5, <1>6, <1>7, <1>8, <1>9 DEF Next, ManagerStep

\* The device side (open connections, emission, retained resources) keeps its
\* types.
LEMMA DeviceTypeStep ==
    ControlTypeOK /\ DeviceTypeOK /\ [Next]_vars => DeviceTypeOK'
<1> SUFFICES ASSUME ControlTypeOK, DeviceTypeOK, [Next]_vars PROVE DeviceTypeOK'
  OBVIOUS
<1> USE DEF DeviceTypeOK, deviceVars
<1>1. CASE ConnectStep
  <2>1. ASSUME NEW class \in {"rf", "plain"},
               NEW rf \in {"not-supported", "off", "on", "unknown"},
               NEW isAnnounced \in BOOLEAN, NEW isFaulted \in BOOLEAN,
               Activate(class, rf, isAnnounced, isFaulted)
        PROVE  DeviceTypeOK'
    BY <2>1 DEF Activate, OutputFits
  <2>2. ASSUME NEW class \in {"rf", "plain"},
               NEW rf \in {"not-supported", "off", "on", "unknown"},
               NEW isFaulted \in BOOLEAN,
               ValidSession(class, rf, isFaulted)
                 \/ SubscribingFails(class, rf, isFaulted)
        PROVE  DeviceTypeOK'
    BY <2>1, <2>2 DEF ValidSession, SubscribingFails
  <2>3. ASSUME NEW dr \in Drivers, BeginConnect(dr) PROVE DeviceTypeOK'
    BY <2>3 DEF BeginConnect
  <2>4. CASE ConnectRejects \/ PendingCleanupSucceeds \/ PendingCleanupFails
    BY <2>4
    DEF ControlTypeOK, At, ConnectRejects, PendingCleanupSucceeds,
        PendingCleanupFails
  <2>5. CASE InvalidSession \/ InvalidSessionCloses \/ InvalidSessionStaysOpen
    BY <2>5 DEF InvalidSession, InvalidSessionCloses, InvalidSessionStaysOpen
  <2>6. CASE UncallableSession
    BY <2>6 DEF ControlTypeOK, At, UncallableSession
  <2>7. CASE RejectOffAcknowledged \/ RejectOffFails
    BY <2>7 DEF RejectOffAcknowledged, RejectOffFails
  <2>8. CASE RejectCloseSucceeds \/ RejectCloseFails
    BY <2>8 DEF RejectCloseSucceeds, RejectCloseFails
  <2> QED
    BY <1>1, <2>2, <2>3, <2>4, <2>5, <2>6, <2>7, <2>8 DEF ConnectStep
<1>2. CASE ConfigureStep
  BY <1>2
  DEF ConfigureStep, BeginConfigure, DispatchConfigure, ConfigureApplied,
      ConfigurePlainApplied, ConfigureFails, ConfigureOffAcknowledged,
      ConfigureOffFails, ConfigureResumes, CommitConfiguration
<1>3. CASE AcquireStep
  BY <1>3
  DEF AcquireStep, BeginAcquire, AcquireOffAcknowledged, AcquireOffFails,
      DispatchAcquire, AcquireRejects, AcquireBreaksContract, AcquireReturns
<1>4. CASE FeatureStep
  BY <1>4
  DEF FeatureStep, BeginFeature, DispatchFeature, FeatureSucceeds,
      FeatureFails, GeneratorConfigured, GeneratorOffAcknowledged,
      GeneratorOffFails
<1>5. CASE TeardownStep
  BY <1>5
  DEF TeardownStep, BeginTeardown, TeardownOffAcknowledged,
      TeardownOffFails, SessionCloses, SessionClosesSubscribed,
      SessionCloseFails, RejectedSessionReleased, RejectedSessionRetained,
      HookSettles
<1>6. CASE DriverEvent
  BY <1>6
  DEF DriverEvent, FaultEvent, MeasurementEvent, MeasurementEventFaults,
      KeepAroundEvent
<1>7. CASE CallerStep \/ (ClearDisconnect /\ UNCHANGED managerVars) \/ Refuse
  BY <1>7 DEF CallerStep, Refuse, managerVars, deviceVars
<1>8. CASE BeginDiscover \/ FinishDiscover \/ BeginCanonical \/ CanonicalFails
  BY <1>8
  DEF BeginDiscover, FinishDiscover, BeginCanonical, CanonicalFails,
      deviceVars
<1>9. CASE UNCHANGED vars
  BY <1>9 DEF vars, managerVars, deviceVars
<1> QED
  BY <1>1, <1>2, <1>3, <1>4, <1>5, <1>6, <1>7, <1>8, <1>9 DEF Next, ManagerStep

-----------------------------------------------------------------------------
(* Silence: one lemma per operation *)

\* A settled operation awaits nothing.
LEMMA DoneAwaitsNothing == Done => ~AwaitsRf' /\ ~AwaitsInSilence'
BY DEF Done, AwaitsRf, AwaitsInSilence

\* What the events of a session and a fault found by the manager may do.
LEMMA FaultKeepsSilence ==
    ASSUME SilenceInv, FaultActive, live' => live,
           AwaitsRf' => AwaitsRf, AwaitsInSilence' => ~live
    PROVE  SilenceInv'
BY DEF SilenceInv, FaultActive, Uncertain, RfCapable

\* connect() admits no session whose output it reports off before the
\* acknowledgement, and drops no session whose device may be emitting.
LEMMA ConnectKeepsSilence ==
    ASSUME SessionTypeOK, SilenceInv, ConnectStep
    PROVE  SilenceInv'
<1> USE DEF AwaitsRf, AwaitsInSilence
<1>1. ASSUME NEW d \in Drivers, BeginConnect(d) PROVE SilenceInv'
  BY <1>1 DEF BeginConnect, Enter, SilenceInv, activeVars, deviceVars
<1>2. ASSUME NEW class \in {"rf", "plain"},
             NEW rf \in {"not-supported", "off", "on", "unknown"},
             NEW isFaulted \in BOOLEAN
      PROVE  /\ ValidSession(class, rf, isFaulted) => SilenceInv'
             /\ SubscribingFails(class, rf, isFaulted) => SilenceInv'
  BY DEF ValidSession, SubscribingFails, Activate, OutputFits, Done, Await, SilenceInv
<1>3. CASE ConnectRejects \/ PendingCleanupSucceeds \/ PendingCleanupFails
  BY <1>3
  DEF ConnectRejects, PendingCleanupSucceeds, PendingCleanupFails, Await, Done,
      SilenceInv, activeVars, deviceVars
<1>4. CASE InvalidSession \/ InvalidSessionCloses \/ InvalidSessionStaysOpen
           \/ UncallableSession
  BY <1>4
  DEF InvalidSession, InvalidSessionCloses, InvalidSessionStaysOpen,
      UncallableSession, Await, Done, SilenceInv, activeVars, deviceVars
<1>5. CASE RejectOffAcknowledged
  BY <1>5 DEF RejectOffAcknowledged, At, Await, SetRf, SilenceInv
<1>6. CASE RejectOffFails \/ RejectCloseFails
  <2>1. ~AwaitsRf' /\ ~AwaitsInSilence'
    BY <1>6, DoneAwaitsNothing
    DEF RejectOffFails, RejectCloseFails
  <2>quiet. live' => live
    BY <1>6 DEF RejectOffFails, RejectCloseFails, deviceVars
  <2> QED
    BY <1>6, <2>quiet, <2>1, FaultKeepsSilence DEF RejectOffFails, RejectCloseFails, deviceVars
<1>7. CASE RejectCloseSucceeds
  BY <1>7 DEF RejectCloseSucceeds, At, Done, NoActive, SilenceInv
<1> QED BY <1>1, <1>2, <1>3, <1>4, <1>5, <1>6, <1>7 DEF ConnectStep

\* configure() makes the output unknown before it dispatches, so nothing it does
\* to the device contradicts what is reported.
LEMMA ConfigureKeepsSilence ==
    ASSUME SilenceInv, ConfigureStep
    PROVE  SilenceInv'
<1> USE DEF AwaitsRf, AwaitsInSilence
<1>1. CASE BeginConfigure
  BY <1>1
  DEF BeginConfigure, Starts, Enter, Uncertain, RfCapable, SilenceInv, deviceVars
<1>2. CASE DispatchConfigure
  BY <1>2 DEF DispatchConfigure, At, Await, SilenceInv, activeVars
<1>3. CASE ConfigureApplied
  BY <1>3 DEF ConfigureApplied, At, Await, SilenceInv, activeVars, deviceVars,
              RfCapable
<1>4. CASE ConfigurePlainApplied \/ ConfigureResumes
  <2>1. CommitConfiguration
    BY <1>4 DEF ConfigurePlainApplied, ConfigureResumes
  <2>2. ~AwaitsRf' /\ ~AwaitsInSilence'
    BY <2>1, DoneAwaitsNothing DEF CommitConfiguration
  <2> QED
    BY <2>1, <2>2 DEF CommitConfiguration, SilenceInv, deviceVars
<1>5. CASE ConfigureFails \/ ConfigureOffFails
  <2>1. ~AwaitsRf' /\ ~AwaitsInSilence'
    BY <1>5, DoneAwaitsNothing
    DEF ConfigureFails, ConfigureOffFails
  <2>quiet. live' => live
    BY <1>5 DEF ConfigureFails, ConfigureOffFails, deviceVars
  <2>2. FaultActive \/ UNCHANGED activeVars
    BY <1>5 DEF ConfigureFails, ConfigureOffFails
  <2>3. CASE FaultActive
    BY <2>quiet, <2>1, <2>3, FaultKeepsSilence
  <2>4. CASE UNCHANGED activeVars
    BY <2>quiet, <2>1, <2>4 DEF SilenceInv, activeVars
  <2> QED BY <2>2, <2>3, <2>4
<1>6. CASE ConfigureOffAcknowledged
  BY <1>6 DEF ConfigureOffAcknowledged, At, Await, SetRf, SilenceInv
<1> QED BY <1>1, <1>2, <1>3, <1>4, <1>5, <1>6 DEF ConfigureStep

\* acquire() awaits nothing but the acknowledged output-off before it measures.
LEMMA AcquireKeepsSilence ==
    ASSUME SilenceInv, AcquireStep
    PROVE  SilenceInv'
<1> USE DEF AwaitsRf, AwaitsInSilence
<1>1. CASE BeginAcquire
  BY <1>1
  DEF BeginAcquire, Enter, MayAcquire, SetRf, Uncertain, RfCapable, SilenceInv,
      deviceVars
<1>2. CASE AcquireOffAcknowledged
  BY <1>2 DEF AcquireOffAcknowledged, At, Await, SetRf, SilenceInv
<1>3. CASE DispatchAcquire
  BY <1>3 DEF DispatchAcquire, At, Await, SilenceInv, deviceVars
<1>4. CASE AcquireOffFails \/ AcquireBreaksContract \/ AcquireRejects
  <2>1. ~AwaitsRf' /\ ~AwaitsInSilence'
    BY <1>4, DoneAwaitsNothing
    DEF AcquireOffFails, AcquireBreaksContract, AcquireRejects
  <2>quiet. live' => live
    BY <1>4 DEF AcquireOffFails, AcquireBreaksContract, AcquireRejects, deviceVars
  <2>2. FaultActive \/ CloseTransaction
    BY <1>4 DEF AcquireOffFails, AcquireBreaksContract, AcquireRejects
  <2>3. CASE FaultActive
    BY <2>quiet, <2>1, <2>3, FaultKeepsSilence
  <2>4. CASE CloseTransaction
    BY <2>quiet, <2>1, <2>4 DEF SilenceInv, CloseTransaction
  <2> QED BY <2>2, <2>3, <2>4
<1>5. ASSUME NEW seq \in 1..MaxSeq, AcquireReturns(seq) PROVE SilenceInv'
  BY <1>5 DEF AcquireReturns, Done, Publish, SilenceInv, deviceVars
<1> QED BY <1>1, <1>2, <1>3, <1>4, <1>5 DEF AcquireStep

\* A feature that changes RF makes the output unknown before it dispatches.
LEMMA FeatureKeepsSilence ==
    ASSUME SilenceInv, FeatureStep
    PROVE  SilenceInv'
<1> USE DEF AwaitsRf, AwaitsInSilence
<1>1. ASSUME NEW f \in Features, BeginFeature(f) PROVE SilenceInv'
  <2>1. ChangesRf(f) => RfCapable
    BY <1>1 DEF BeginFeature, MayExecute, ChangesRf
  <2>2. /\ body' = f /\ live' = live /\ session' = session
        /\ session # "none"
        /\ rfOutput' = IF ChangesRf(f) THEN "unknown" ELSE rfOutput
        /\ pc' = IF ChangesRf(f) THEN "featDispatch" ELSE "featWait"
    BY <1>1
    DEF BeginFeature, MayExecute, Starts, Enter, WithdrawFor, deviceVars
  <2>3. f \in {"on", "off", "generator"} => ChangesRf(f)
    BY DEF ChangesRf
  <2> QED BY <2>1, <2>2, <2>3 DEF SilenceInv, RfCapable
<1>2. ASSUME NEW f \in Features, DispatchFeature(f) PROVE SilenceInv'
  BY <1>2 DEF DispatchFeature, At, Await, SilenceInv, activeVars
<1>3. ASSUME NEW f \in Features, FeatureSucceeds(f) PROVE SilenceInv'
  BY <1>3 DEF FeatureSucceeds, At, Done, SetRf, SilenceInv
<1>4. ASSUME NEW f \in Features, FeatureFails(f) PROVE SilenceInv'
  <2>1. ~AwaitsRf' /\ ~AwaitsInSilence'
    BY <1>4, DoneAwaitsNothing
    DEF FeatureFails
  <2>quiet. live' => live
    BY <1>4 DEF FeatureFails
  <2>2. FaultActive \/ UNCHANGED activeVars
    BY <1>4 DEF FeatureFails
  <2>3. CASE FaultActive
    BY <2>quiet, <2>1, <2>3, FaultKeepsSilence
  <2>4. CASE UNCHANGED activeVars
    BY <2>quiet, <2>1, <2>4 DEF SilenceInv, activeVars
  <2> QED BY <2>2, <2>3, <2>4
<1>5. CASE GeneratorConfigured
  BY <1>5
  DEF GeneratorConfigured, At, Await, SilenceInv, activeVars, deviceVars
<1>6. CASE GeneratorOffAcknowledged
  BY <1>6 DEF GeneratorOffAcknowledged, At, Done, SetRf, SilenceInv
<1>7. CASE GeneratorOffFails
  <2>1. ~AwaitsRf' /\ ~AwaitsInSilence'
    BY <1>7, DoneAwaitsNothing
    DEF GeneratorOffFails
  <2>quiet. live' => live
    BY <1>7 DEF GeneratorOffFails
  <2> QED BY <1>7, <2>quiet, <2>1, FaultKeepsSilence DEF GeneratorOffFails
<1> QED BY <1>1, <1>2, <1>3, <1>4, <1>5, <1>6, <1>7 DEF FeatureStep

\* #disconnect closes only a session whose output-off was acknowledged.
LEMMA TeardownKeepsSilence ==
    ASSUME SilenceInv, TeardownStep
    PROVE  SilenceInv'
<1> USE DEF AwaitsRf, AwaitsInSilence
<1>1. CASE BeginTeardown
  BY <1>1
  DEF BeginTeardown, AfterSession, Enter, SetRf, Uncertain, RfCapable,
      SilenceInv, deviceVars
<1>2. CASE TeardownOffAcknowledged
  BY <1>2 DEF TeardownOffAcknowledged, At, Await, SetRf, SilenceInv
<1>3. CASE TeardownOffFails \/ SessionCloseFails
  <2>1. ~AwaitsRf' /\ ~AwaitsInSilence'
    BY <1>3, DoneAwaitsNothing
    DEF TeardownOffFails, SessionCloseFails, TeardownFails
  <2>quiet. live' => live
    BY <1>3 DEF TeardownOffFails, SessionCloseFails, deviceVars
  <2> QED
    BY <1>3, <2>quiet, <2>1, FaultKeepsSilence DEF TeardownOffFails, SessionCloseFails
<1>4. CASE SessionCloses \/ SessionClosesSubscribed
  BY <1>4
  DEF SessionCloses, SessionClosesSubscribed, TeardownFails, At, Await, Done,
      NoActive, SilenceInv
<1>5. CASE RejectedSessionReleased \/ RejectedSessionRetained
  BY <1>5
  DEF RejectedSessionReleased, RejectedSessionRetained, TeardownFails, Await,
      Done, SilenceInv, activeVars, deviceVars
<1>6. ASSUME NEW released \in BOOLEAN, HookSettles(released) PROVE SilenceInv'
  BY <1>6 DEF HookSettles, Await, Done, SilenceInv, activeVars
<1> QED BY <1>1, <1>2, <1>3, <1>4, <1>5, <1>6 DEF TeardownStep

\* A fault or a measurement event between two awaits does not silence or wake a
\* device, and withdraws what the manager reports.
LEMMA EventKeepsSilence ==
    ASSUME SilenceInv, DriverEvent
    PROVE  SilenceInv'
<1>1. CASE FaultEvent
  <2>1. pc' = pc /\ body' = body /\ live' = live
    BY <1>1 DEF FaultEvent, KeepAroundEvent, deviceVars
  <2>2. FaultActive
    BY <1>1 DEF FaultEvent
  <2>3. (AwaitsRf' => AwaitsRf) /\ (AwaitsInSilence' => AwaitsInSilence)
    BY <2>1, <2>2
    DEF AwaitsRf, AwaitsInSilence, FaultActive, Uncertain, RfCapable
  <2> QED
    BY <2>1, <2>2, <2>3, FaultKeepsSilence DEF SilenceInv
<1>2. ASSUME NEW seq \in 1..MaxSeq, MeasurementEvent(seq) PROVE SilenceInv'
  BY <1>2
  DEF MeasurementEvent, KeepAroundEvent, deviceVars, SilenceInv, AwaitsRf,
      AwaitsInSilence, RfCapable
<1> QED BY <1>1, <1>2 DEF DriverEvent, MeasurementEventFaults

\* Every step preserves the silence part of the invariant.
LEMMA SilenceStep == SessionTypeOK /\ SilenceInv /\ [Next]_vars => SilenceInv'
<1> SUFFICES ASSUME SessionTypeOK, SilenceInv, [Next]_vars PROVE SilenceInv'
  OBVIOUS
<1>1. CASE CallerStep \/ (ClearDisconnect /\ UNCHANGED managerVars) \/ Refuse
           \/ UNCHANGED vars
  BY <1>1
  DEF CallerStep, Refuse, vars, managerVars, controlVars, activeVars, deviceVars,
      SilenceInv, AwaitsRf, AwaitsInSilence, RfCapable
<1>2. CASE BeginDiscover \/ FinishDiscover \/ BeginCanonical \/ CanonicalFails
  BY <1>2
  DEF BeginDiscover, FinishDiscover, BeginCanonical, CanonicalFails, Enter, Done,
      activeVars, deviceVars, SilenceInv, AwaitsRf, AwaitsInSilence
<1> QED
  BY <1>1, <1>2, ConnectKeepsSilence, ConfigureKeepsSilence,
     AcquireKeepsSilence, FeatureKeepsSilence, TeardownKeepsSilence,
     EventKeepsSilence
  DEF Next, ManagerStep

-----------------------------------------------------------------------------
(* The theorems *)

\* The inductive invariant holds initially.
LEMMA InvInitially == Init => IInv
<1> SUFFICES ASSUME Init PROVE IInv
  OBVIOUS
<1>1. ControlTypeOK /\ SessionTypeOK /\ DeviceTypeOK
  BY DEF Init, ControlTypeOK, SessionTypeOK, DeviceTypeOK, Waits, Nobody
<1>2. SequencesOK
  BY SequenceRange DEF Init, SequencesOK
<1>3. CleanupTypeOK
  BY RegistryIndex DEF Init, CleanupTypeOK
<1>4. SilenceInv
  BY DEF Init, SilenceInv, AwaitsRf, AwaitsInSilence
<1> QED BY <1>1, <1>2, <1>3, <1>4 DEF IInv, ManagerTypeOK

\* The inductive invariant is preserved by every step.
LEMMA InvStep == IInv /\ [Next]_vars => IInv'
BY ControlTypeStep, SessionTypeStep, SequencesStep, CleanupTypeStep,
   DeviceTypeStep, SilenceStep
DEF IInv, ManagerTypeOK

\* The inductive invariant holds in every state of every behaviour.
THEOREM ManagerInvariant == SafetySpec => []IInv
<1>1. Init => IInv
  BY InvInitially
<1>2. IInv /\ [Next]_vars => IInv'
  BY InvStep
<1> QED BY <1>1, <1>2, PTL DEF SafetySpec

\* Type correctness of the whole manager, its queue included.
THEOREM TypeCorrect == SafetySpec => []TypeOK
<1>1. IInv /\ QueueTypeOK => TypeOK
  BY DEF IInv, ManagerTypeOK, TypeOK
<1> QED
  BY <1>1, ManagerInvariant, ManagerImplementsQueue, QueueTypeCorrect, PTL

\* RF output is reported 'off' only while the device is silent, and no session
\* whose device may be emitting is ever let go; and every acquisition runs on
\* a device whose output-off was acknowledged.
THEOREM OffIsSilence == SafetySpec => []OffMeansSilent
<1>1. IInv => OffMeansSilent
  BY DEF IInv, SilenceInv, AwaitsInSilence, OffMeansSilent
<1> QED BY <1>1, ManagerInvariant, PTL

\* A disconnect cancels for the whole manager: nothing of a session starts
\* while one is pending.
THEOREM ManagerStartsNothingBehindTeardown ==
    SafetySpec => NoSessionBodyBehindTeardown
BY ManagerImplementsQueue, NothingStartsBehindTeardown, PTL

-----------------------------------------------------------------------------
(* Who owns what a connection leaves open: connect() and disconnect(), and *)
(* the lease and the contract that the manager's callers rely on.          *)

(* The invariant of ownership, in parts *)

ConnectWaits == {"opening", "pendingCleanup", "dropClose", "rejectOff",
                 "rejectClose"}
TeardownWaits == {"tdOff", "tdClose", "tdRejected", "tdDrivers"}

\* An operation that awaits has been entered, so no other is; and the awaits of
\* connect() and disconnect() are theirs.
LinkInv ==
    /\ pc # "idle" => running.begun
    /\ pc \in ConnectWaits => body = "connect"
    /\ pc \in TeardownWaits => body = Teardown

\* What each await of connect() and disconnect() knows of the session.
AwaitInv ==
    /\ pc \in {"opening", "pendingCleanup"} =>
         session = "none" /\ rejected = "none" /\ barrier = NoDriver
    /\ pc = "dropClose" => session = "none" /\ rejected = "close"
    /\ pc \in {"tdOff", "tdClose"} => session # "none"
    /\ pc \in {"rejectOff", "rejectClose"} =>
         session # "none" /\ announced = FALSE
    /\ pc = "tdRejected" => session = "none" /\ rejected # "none"
    /\ pc = "tdDrivers" => session = "none" /\ rejected = "none"

\* The session owns everything that is open, or the rejected teardown does.
OwnerInv ==
    /\ session # "none" => open /\ subscribed /\ rejected = "none"
                           /\ barrier = NoDriver /\ held = {}
    /\ session = "none" => /\ open <=> rejected = "close"
                           /\ subscribed <=> rejected = "unsubscribe"
    /\ rejected # "none" => barrier = NoDriver
    /\ pc # "pendingCleanup" /\ held # {} => barrier # NoDriver
    /\ pc = "pendingCleanup" => held \subseteq {driver}

\* The cleanup loop starts at the first driver, and every driver it has passed
\* without a failure holds nothing any more.
LoopInv ==
    /\ pc # "tdDrivers" => todo = 1 /\ firstFailure = NoDriver
    /\ pc = "tdDrivers" /\ firstFailure = NoDriver =>
         \A i \in DOMAIN Registry : i < todo => Registry[i] \notin held

\* What the outcome of the last disconnect() says stays true until the next
\* connect() or disconnect() is entered.
TruthInv ==
    /\ body \in {"connect", Teardown} => lastDisconnect = "none"
    /\ lastDisconnect = "ok" =>
         session = "none" /\ rejected = "none" /\ barrier = NoDriver /\ held = {}
    /\ lastDisconnect = "failed" =>
         (session # "none" /\ fault) \/ rejected # "none" \/ barrier # NoDriver
    /\ session # "none" /\ ~announced =>
         fault \/ pc \in {"rejectOff", "rejectClose"}

\* An acquisition that no fault has overtaken still has its authority.
AuthorityInv ==
    /\ pc = "acqOff" /\ ~fault => configured
    /\ pc \in {"acqBegin", "acqWait"} /\ ~fault =>
         configured /\ rfOutput \in {"off", "not-supported"}

OInv == LinkInv /\ AwaitInv /\ OwnerInv /\ LoopInv /\ TruthInv /\ AuthorityInv

-----------------------------------------------------------------------------
(* One operation at a time *)

\* An operation is entered only when none awaits anything.
LEMMA EntersFromIdle == LinkInv /\ Begin => pc = "idle"
BY DEF LinkInv, Begin, Startable

\* Requests of callers leave the running operation where it is.
LEMMA CallersKeepRunning ==
    ASSUME QueueInv, CallerStep, running.begun
    PROVE  running'.begun
<1>1. OperationRunning
  BY DEF QueueInv, OperationRunning
<1>2. ASSUME NEW r \in Requests, AdmitNormal(r) PROVE running'.begun
  BY <1>1, <1>2 DEF AdmitNormal, DrainIfIdle
<1>3. CASE RequestDisconnect
  BY <1>1, <1>3 DEF RequestDisconnect, DrainIfIdle, Outdated
<1> QED
  BY <1>2, <1>3 DEF CallerStep, AdmitSession, AdmitFree, Requests

\* Whatever is awaited is awaited by the operation that was entered for it.
LEMMA LinkStep == QueueInv /\ LinkInv /\ [Next]_vars => LinkInv'
<1> SUFFICES ASSUME QueueInv, LinkInv, [Next]_vars PROVE LinkInv'
  OBVIOUS
<1> USE DEF LinkInv, ConnectWaits, TeardownWaits
<1>begin. Begin => running'.begun
  BY DEF Begin, Startable, QueueInv, QueueTypeOK, Scheduled
<1>await. UNCHANGED queueVars => running' = running
  BY DEF queueVars
<1>1. CASE ConnectStep
  BY <1>1, <1>begin, <1>await
  DEF ConnectStep, BeginConnect, ConnectRejects, PendingCleanupSucceeds,
      PendingCleanupFails, InvalidSession, InvalidSessionCloses,
      InvalidSessionStaysOpen, UncallableSession, ValidSession,
      SubscribingFails, RejectOffAcknowledged, RejectOffFails,
      RejectCloseSucceeds, RejectCloseFails, Enter, At, Await, Done
<1>2. CASE ConfigureStep
  BY <1>2, <1>begin, <1>await
  DEF ConfigureStep, BeginConfigure, DispatchConfigure, ConfigureApplied,
      ConfigurePlainApplied, ConfigureFails, ConfigureOffAcknowledged,
      ConfigureOffFails, ConfigureResumes, CommitConfiguration,
      Starts, Enter, At, Await, Done
<1>3. CASE AcquireStep
  BY <1>3, <1>begin, <1>await
  DEF AcquireStep, BeginAcquire, AcquireOffAcknowledged, AcquireOffFails,
      DispatchAcquire, AcquireRejects, AcquireBreaksContract, AcquireReturns,
      Enter, At, Await, Done
<1>4. CASE FeatureStep
  BY <1>4, <1>begin, <1>await
  DEF FeatureStep, BeginFeature, DispatchFeature, FeatureSucceeds,
      FeatureFails, GeneratorConfigured, GeneratorOffAcknowledged,
      GeneratorOffFails, Starts, Enter, At, Await, Done
<1>5. CASE TeardownStep
  BY <1>5, <1>begin, <1>await
  DEF TeardownStep, BeginTeardown, TeardownOffAcknowledged, TeardownOffFails,
      SessionCloses, SessionClosesSubscribed, SessionCloseFails,
      RejectedSessionReleased, RejectedSessionRetained, HookSettles,
      TeardownFails, AfterSession, Enter, At, Await, Done
<1>6. CASE DriverEvent
  BY <1>6
  DEF DriverEvent, FaultEvent, MeasurementEvent, MeasurementEventFaults,
      EventsFlow, KeepAroundEvent, queueVars
<1>7. CASE CallerStep
  BY <1>7, CallersKeepRunning DEF CallerStep, managerVars, controlVars
<1>8. CASE (ClearDisconnect /\ UNCHANGED managerVars) \/ Refuse
  BY <1>8
  DEF ClearDisconnect, Refuse, SettleAtStart, Startable, managerVars,
      controlVars
<1>9. CASE BeginDiscover \/ FinishDiscover \/ BeginCanonical \/ CanonicalFails
  BY <1>9, <1>begin, <1>await
  DEF BeginDiscover, FinishDiscover, BeginCanonical, CanonicalFails, Enter, Done
<1>10. CASE UNCHANGED vars
  BY <1>10 DEF vars, queueVars, managerVars, controlVars
<1> QED
  BY <1>1, <1>2, <1>3, <1>4, <1>5, <1>6, <1>7, <1>8, <1>9, <1>10
  DEF Next, ManagerStep

-----------------------------------------------------------------------------
(* Only connect() and disconnect() move what is owned *)

LifecycleInv == AwaitInv /\ OwnerInv /\ LoopInv /\ TruthInv

\* A step that leaves ownership alone; it may fault the session.
Bystands ==
    /\ UNCHANGED <<session, announced, rejected, barrier, todo, firstFailure,
                   open, held, subscribed, driver, lastDisconnect>>
    /\ fault' \in {fault, TRUE}
    /\ \/ pc' = pc /\ body' = body
       \/ /\ pc \notin ConnectWaits \cup TeardownWaits
          /\ pc' \notin ConnectWaits \cup TeardownWaits
          /\ body' \notin {"connect", Teardown}

\* Such a step preserves the invariant.
LEMMA BystandersKeep ==
    ASSUME LifecycleInv, Bystands
    PROVE  LifecycleInv'
<1> USE DEF LifecycleInv, Bystands, ConnectWaits, TeardownWaits
<1>1. AwaitInv'
  BY DEF AwaitInv
<1>2. OwnerInv'
  BY DEF OwnerInv
<1>3. LoopInv'
  <2>1. UNCHANGED <<todo, firstFailure, held>>
    OBVIOUS
  <2>2. CASE pc' = pc
    BY <2>1, <2>2 DEF LoopInv
  <2>3. CASE pc' # pc
    <3>1. pc # "tdDrivers" /\ pc' # "tdDrivers"
      BY <2>3
    <3> QED BY <2>1, <3>1 DEF LoopInv
  <2> QED BY <2>2, <2>3
<1>4. TruthInv'
  <2>fault. fault => fault'
    <3>1. fault' = fault \/ fault' = TRUE
      OBVIOUS
    <3> QED BY <3>1, Zenon
  <2>1. body' \in {"connect", Teardown} => lastDisconnect' = "none"
    BY DEF TruthInv
  <2>2. lastDisconnect' = "ok" =>
          session' = "none" /\ rejected' = "none" /\ barrier' = NoDriver
          /\ held' = {}
    BY DEF TruthInv
  <2>3. lastDisconnect' = "failed" =>
          (session' # "none" /\ fault') \/ rejected' # "none"
          \/ barrier' # NoDriver
    BY <2>fault DEF TruthInv
  <2>4. session' # "none" /\ ~announced' =>
          fault' \/ pc' \in {"rejectOff", "rejectClose"}
    <3>1. session # "none" /\ ~announced => fault \/ pc \in {"rejectOff", "rejectClose"}
      BY DEF TruthInv
    <3>2. pc \in {"rejectOff", "rejectClose"} => pc' = pc
      OBVIOUS
    <3> QED BY <2>fault, <3>1, <3>2
  <2> QED BY <2>1, <2>2, <2>3, <2>4 DEF TruthInv
<1> QED BY <1>1, <1>2, <1>3, <1>4

\* All operations but connect() and disconnect(), all events and all callers
\* are bystanders.
LEMMA OthersBystand ==
    ASSUME LinkInv, [Next]_vars, ~ConnectStep, ~TeardownStep
    PROVE  Bystands
<1> USE DEF Bystands, ConnectWaits, TeardownWaits, Teardown, Nobody
<1> USE DEF cleanupVars, deviceVars, FaultActive, SetRf,
            InvalidateConfiguration, ResetMeasurementState
<1>begin. Begin => pc = "idle"
  BY EntersFromIdle
<1>1. CASE ConfigureStep
  <2>1. CASE BeginConfigure \/ DispatchConfigure \/ ConfigureApplied
    BY <2>1, <1>begin
    DEF BeginConfigure, DispatchConfigure, ConfigureApplied, Starts, Enter, At,
        Await, activeVars
  <2>2. CASE ConfigureFails \/ ConfigureOffAcknowledged \/ ConfigureOffFails
    BY <2>2
    DEF ConfigureFails, ConfigureOffAcknowledged, ConfigureOffFails, At, Await,
        Done, activeVars
  <2>3. CASE ConfigurePlainApplied \/ ConfigureResumes
    BY <2>3
    DEF ConfigurePlainApplied, ConfigureResumes, CommitConfiguration, At, Done
  <2> QED BY <1>1, <2>1, <2>2, <2>3 DEF ConfigureStep
<1>2. CASE AcquireStep
  <2>1. CASE BeginAcquire \/ AcquireOffAcknowledged \/ DispatchAcquire
    BY <2>1, <1>begin
    DEF BeginAcquire, AcquireOffAcknowledged, DispatchAcquire, Enter, At, Await
  <2>2. CASE AcquireOffFails \/ AcquireRejects \/ AcquireBreaksContract
    BY <2>2
    DEF AcquireOffFails, AcquireRejects, AcquireBreaksContract, CloseTransaction,
        At, Done
  <2>3. ASSUME NEW seq \in 1..MaxSeq, AcquireReturns(seq) PROVE Bystands
    BY <2>3 DEF AcquireReturns, Publish, At, Done
  <2> QED BY <1>2, <2>1, <2>2, <2>3 DEF AcquireStep
<1>3. CASE FeatureStep
  BY <1>3, <1>begin
  DEF FeatureStep, BeginFeature, DispatchFeature, FeatureSucceeds,
      FeatureFails, GeneratorConfigured, GeneratorOffAcknowledged,
      GeneratorOffFails, WithdrawFor, Features, Starts, Enter, At, Await, Done,
      activeVars
<1>4. CASE DriverEvent
  BY <1>4
  DEF DriverEvent, FaultEvent, MeasurementEvent, MeasurementEventFaults,
      KeepAroundEvent
<1>5. CASE CallerStep \/ (ClearDisconnect /\ UNCHANGED managerVars) \/ Refuse
           \/ UNCHANGED vars
  BY <1>5 DEF CallerStep, Refuse, vars, managerVars, controlVars, activeVars
<1>6. CASE BeginDiscover \/ FinishDiscover \/ BeginCanonical \/ CanonicalFails
  BY <1>6, <1>begin
  DEF BeginDiscover, FinishDiscover, BeginCanonical, CanonicalFails, Enter, At, Done,
      activeVars
<1> QED BY <1>1, <1>2, <1>3, <1>4, <1>5, <1>6 DEF Next, ManagerStep

-----------------------------------------------------------------------------
(* connect() *)

\* Every step of connect() preserves what is said of ownership.
LEMMA ConnectKeepsLifecycle ==
    ASSUME ControlTypeOK, LinkInv, LifecycleInv, ConnectStep
    PROVE  LifecycleInv'
<1> USE DEF LifecycleInv, AwaitInv, OwnerInv, LoopInv, TruthInv, At, Await, Done
<1>driver. body = "connect" => driver \in Drivers /\ driver # NoDriver
  BY ManagerAssumption DEF ControlTypeOK
<1>1. ASSUME NEW d \in Drivers, BeginConnect(d) PROVE LifecycleInv'
  BY <1>1, EntersFromIdle
  DEF BeginConnect, Enter, activeVars, cleanupVars, deviceVars
<1>2. ASSUME NEW class \in {"rf", "plain"},
             NEW rf \in {"not-supported", "off", "on", "unknown"},
             NEW isFaulted \in BOOLEAN
      PROVE  /\ ValidSession(class, rf, isFaulted) => LifecycleInv'
             /\ SubscribingFails(class, rf, isFaulted) => LifecycleInv'
  BY DEF ValidSession, SubscribingFails, Activate, OutputFits, cleanupVars
<1>3. CASE ConnectRejects
  BY <1>3 DEF ConnectRejects, activeVars, cleanupVars
<1>4. CASE PendingCleanupSucceeds
  BY <1>4 DEF PendingCleanupSucceeds, activeVars, cleanupVars
<1>5. CASE PendingCleanupFails
  BY <1>5, <1>driver DEF PendingCleanupFails, activeVars, deviceVars
<1>6. CASE InvalidSession
  BY <1>6 DEF InvalidSession, activeVars
<1>7. CASE InvalidSessionCloses \/ InvalidSessionStaysOpen
  BY <1>7
  DEF InvalidSessionCloses, InvalidSessionStaysOpen, activeVars, cleanupVars,
      deviceVars
<1>8. CASE UncallableSession
  BY <1>8, <1>driver DEF UncallableSession, activeVars
<1>9. CASE RejectOffAcknowledged
  BY <1>9 DEF RejectOffAcknowledged, SetRf, cleanupVars
<1>10. CASE RejectOffFails \/ RejectCloseFails
  BY <1>10
  DEF RejectOffFails, RejectCloseFails, FaultActive, cleanupVars, deviceVars
<1>11. CASE RejectCloseSucceeds
  BY <1>11 DEF RejectCloseSucceeds, NoActive, cleanupVars
<1> QED
  BY <1>1, <1>2, <1>3, <1>4, <1>5, <1>6, <1>7, <1>8, <1>9, <1>10, <1>11
  DEF ConnectStep

-----------------------------------------------------------------------------
(* disconnect() *)

\* Every step of disconnect() preserves what is said of ownership.
LEMMA TeardownKeepsLifecycle ==
    ASSUME CleanupTypeOK, DeviceTypeOK, LinkInv, LifecycleInv, TeardownStep
    PROVE  LifecycleInv'
<1> USE DEF LifecycleInv, AwaitInv, OwnerInv, TruthInv, At, Await, Done,
           Teardown, Nobody
<1>atFirst. todo' = 1 /\ firstFailure' = NoDriver => LoopInv'
  <2>1. \A i \in DOMAIN Registry : ~(i < 1)
    BY ManagerAssumption, LenProperties
  <2> QED BY <2>1 DEF LoopInv
<1>notYet. pc # "tdDrivers" => todo = 1 /\ firstFailure = NoDriver
  BY DEF LoopInv
<1>1. CASE BeginTeardown
  <2>1. pc = "idle"
    BY <1>1, EntersFromIdle DEF BeginTeardown, Enter
  <2>2. LoopInv'
    BY <1>1, <1>atFirst DEF BeginTeardown, StartLoop
  <2> QED
    BY <1>1, <2>1, <2>2
    DEF BeginTeardown, Enter, AfterSession, SetRf, deviceVars
<1>2. CASE TeardownOffAcknowledged
  BY <1>2, <1>notYet, <1>atFirst DEF TeardownOffAcknowledged, SetRf, cleanupVars
<1>3. CASE TeardownOffFails \/ SessionCloseFails
  <2>1. FaultActive /\ TeardownFails /\ UNCHANGED <<cleanupVars, open, held,
          subscribed>> /\ pc \in {"tdOff", "tdClose"}
    BY <1>3 DEF TeardownOffFails, SessionCloseFails, deviceVars
  <2> QED
    BY <2>1, <1>notYet, <1>atFirst DEF TeardownFails, FaultActive, cleanupVars
<1>4. CASE SessionCloses
  BY <1>4, <1>notYet, <1>atFirst DEF SessionCloses, NoActive, cleanupVars
<1>5. CASE SessionClosesSubscribed
  BY <1>5, <1>notYet, <1>atFirst
  DEF SessionClosesSubscribed, TeardownFails, NoActive
<1>6. CASE RejectedSessionReleased
  BY <1>6, <1>notYet, <1>atFirst
  DEF RejectedSessionReleased, CleanupTypeOK, activeVars
<1>7. CASE RejectedSessionRetained
  BY <1>7, <1>notYet, <1>atFirst
  DEF RejectedSessionRetained, TeardownFails, activeVars, cleanupVars, deviceVars
<1>8. ASSUME NEW released \in BOOLEAN, HookSettles(released)
      PROVE  LifecycleInv'
  <2>1. Registry[todo] \in Drivers /\ Registry[todo] # NoDriver
        /\ held' = IF released THEN held \ {Registry[todo]} ELSE held
    BY <1>8, RegistryIndex, ManagerAssumption DEF HookSettles, CleanupTypeOK
  <2>2. FailureAfter(released) = NoDriver =>
          released /\ firstFailure = NoDriver
    BY <2>1 DEF FailureAfter
  <2>3. FailureAfter(released) = NoDriver =>
          \A i \in DOMAIN Registry : i <= todo => Registry[i] \notin held'
    <3> SUFFICES ASSUME FailureAfter(released) = NoDriver,
                        NEW i \in DOMAIN Registry, i <= todo
                 PROVE  Registry[i] \notin held'
      OBVIOUS
    <3>1. i \in Int /\ todo \in Int
      BY LenProperties, ManagerAssumption DEF CleanupTypeOK
    <3>2. CASE i = todo
      BY <2>1, <2>2, <3>2
    <3>3. CASE i < todo
      BY <1>8, <2>1, <2>2, <3>3 DEF LoopInv, HookSettles
    <3> QED BY <3>1, <3>2, <3>3
  <2>4. CASE LastDriver
    <3>1. FailureAfter(released) = NoDriver => held' = {}
      <4>1. \A i \in DOMAIN Registry : i <= todo
        BY <2>4, LenProperties, ManagerAssumption DEF LastDriver
      <4>2. held' \subseteq Drivers
        BY <2>1 DEF DeviceTypeOK
      <4> QED BY <2>3, <4>1, <4>2 DEF Drivers
    <3>2. LoopInv'
      BY <1>8, <2>4, <1>atFirst DEF HookSettles, StartLoop
    <3> QED
      BY <1>8, <2>4, <3>1, <3>2 DEF HookSettles, activeVars
  <2>5. CASE ~LastDriver
    <3>1. LoopInv'
      <4>1. todo' = todo + 1 /\ firstFailure' = FailureAfter(released)
            /\ pc' = "tdDrivers"
        BY <1>8, <2>5 DEF HookSettles
      <4>2. \A i \in DOMAIN Registry : i < todo + 1 => i <= todo
        BY LenProperties, ManagerAssumption DEF CleanupTypeOK
      <4> QED BY <4>1, <4>2, <2>3 DEF LoopInv
    <3>2. held' \subseteq held
      BY <2>1
    <3> QED
      BY <1>8, <2>5, <3>1, <3>2 DEF HookSettles, activeVars
  <2> QED BY <2>4, <2>5
<1> QED
  BY <1>1, <1>2, <1>3, <1>4, <1>5, <1>6, <1>7, <1>8 DEF TeardownStep

-----------------------------------------------------------------------------
(* acquire() *)

\* An acquisition proceeds only with the authority that no fault took away.
LEMMA AuthorityStep ==
    ASSUME SessionTypeOK, LinkInv, AuthorityInv, [Next]_vars
    PROVE  AuthorityInv'
<1> USE DEF AuthorityInv
<1>1. CASE AcquireStep
  <2>1. CASE BeginAcquire
    BY <2>1
    DEF BeginAcquire, Enter, MayAcquire, SetRf, Uncertain, RfCapable,
        SessionTypeOK
  <2>2. CASE AcquireOffAcknowledged
    BY <2>2 DEF AcquireOffAcknowledged, At, Await, SoundAfterAwait, SetRf
  <2>3. CASE DispatchAcquire
    BY <2>3 DEF DispatchAcquire, At, Await
  <2>4. pc' = "idle" => AuthorityInv'
    OBVIOUS
  <2> QED
    BY <1>1, <2>1, <2>2, <2>3, <2>4
    DEF AcquireStep, AcquireOffFails, AcquireRejects, AcquireBreaksContract,
        AcquireReturns, Done
<1>2. CASE ~AcquireStep /\ pc' # pc
  <2>1. pc' \notin {"acqOff", "acqBegin", "acqWait"}
    <3>1. CASE ConnectStep
      BY <1>2, <3>1
      DEF ConnectStep, BeginConnect, ConnectRejects, PendingCleanupSucceeds,
          PendingCleanupFails, InvalidSession, InvalidSessionCloses,
          InvalidSessionStaysOpen, UncallableSession, ValidSession,
          SubscribingFails, RejectOffAcknowledged, RejectOffFails,
          RejectCloseSucceeds, RejectCloseFails, Enter, Await, Done
    <3>2. CASE ConfigureStep
      BY <1>2, <3>2
      DEF ConfigureStep, BeginConfigure, DispatchConfigure, ConfigureApplied,
          ConfigurePlainApplied, ConfigureFails, ConfigureOffAcknowledged,
          ConfigureOffFails, ConfigureResumes, CommitConfiguration, Starts,
          Enter, Await, Done
    <3>3. CASE FeatureStep
      BY <1>2, <3>3
      DEF FeatureStep, BeginFeature, DispatchFeature, FeatureSucceeds,
          FeatureFails, GeneratorConfigured, GeneratorOffAcknowledged,
          GeneratorOffFails, Starts, Enter, Await, Done
    <3>4. CASE TeardownStep
      BY <1>2, <3>4
      DEF TeardownStep, BeginTeardown, TeardownOffAcknowledged,
          TeardownOffFails, SessionCloses, SessionClosesSubscribed,
          SessionCloseFails, RejectedSessionReleased, RejectedSessionRetained,
          HookSettles, TeardownFails, AfterSession, Enter, Await, Done
    <3>5. CASE DriverEvent
      BY <1>2, <3>5
      DEF DriverEvent, FaultEvent, MeasurementEvent, MeasurementEventFaults,
          KeepAroundEvent
    <3> QED
      BY <1>2, <3>1, <3>2, <3>3, <3>4, <3>5
      DEF Next, ManagerStep, CallerStep, Refuse, BeginDiscover, FinishDiscover,
          BeginCanonical, CanonicalFails, Enter, Done, vars, managerVars,
          controlVars
  <2> QED BY <2>1
<1>3. CASE ~AcquireStep /\ pc' = pc /\ pc \in {"acqOff", "acqBegin", "acqWait"}
  <2>1. fault' = TRUE \/ UNCHANGED <<fault, configured, rfOutput>>
    <3>1. pc # "idle" /\ ~Begin
      BY <1>3, EntersFromIdle
    <3>2. CASE ConnectStep
      BY <1>3, <3>1, <3>2
      DEF ConnectStep, BeginConnect, ConnectRejects, PendingCleanupSucceeds,
          PendingCleanupFails, InvalidSession, InvalidSessionCloses,
          InvalidSessionStaysOpen, UncallableSession, ValidSession,
          SubscribingFails, RejectOffAcknowledged, RejectOffFails,
          RejectCloseSucceeds, RejectCloseFails, Enter, Await, Done
    <3>3. CASE ConfigureStep
      BY <1>3, <3>1, <3>3
      DEF ConfigureStep, BeginConfigure, DispatchConfigure, ConfigureApplied,
          ConfigurePlainApplied, ConfigureFails, ConfigureOffAcknowledged,
          ConfigureOffFails, ConfigureResumes, CommitConfiguration, Starts, At,
          Enter, Await, Done
    <3>4. CASE FeatureStep
      BY <1>3, <3>1, <3>4
      DEF FeatureStep, BeginFeature, DispatchFeature, FeatureSucceeds,
          FeatureFails, GeneratorConfigured, GeneratorOffAcknowledged,
          GeneratorOffFails, Starts, At, Enter, Await, Done
    <3>5. CASE TeardownStep
      BY <1>3, <3>1, <3>5
      DEF TeardownStep, BeginTeardown, TeardownOffAcknowledged,
          TeardownOffFails, SessionCloses, SessionClosesSubscribed,
          SessionCloseFails, RejectedSessionReleased, RejectedSessionRetained,
          HookSettles, TeardownFails, At, Enter, Await, Done
    <3>6. CASE DriverEvent
      BY <3>6
      DEF DriverEvent, FaultEvent, MeasurementEvent, MeasurementEventFaults,
          FaultActive
    <3> QED
      BY <1>3, <3>1, <3>2, <3>3, <3>4, <3>5, <3>6
      DEF Next, ManagerStep, CallerStep, Refuse, BeginDiscover, FinishDiscover,
          BeginCanonical, CanonicalFails, Enter, Done, vars, managerVars,
          activeVars
  <2> QED BY <1>3, <2>1
<1>4. CASE pc' = pc /\ pc \notin {"acqOff", "acqBegin", "acqWait"}
  BY <1>4
<1> QED BY <1>1, <1>2, <1>3, <1>4

-----------------------------------------------------------------------------
(* The invariant *)

\* The ownership invariant holds initially.
LEMMA OwnershipInitially == Init => OInv
BY ManagerAssumption
DEF Init, QueueInit, OInv, LinkInv, AwaitInv, OwnerInv, LoopInv, TruthInv,
    AuthorityInv, ConnectWaits, TeardownWaits, Nobody, Teardown

\* Every step preserves it.
LEMMA OwnershipStep == QueueInv /\ IInv /\ OInv /\ [Next]_vars => OInv'
<1> SUFFICES ASSUME QueueInv, IInv, OInv, [Next]_vars PROVE OInv'
  OBVIOUS
<1>1. LinkInv /\ LifecycleInv /\ AuthorityInv
      /\ ControlTypeOK /\ SessionTypeOK /\ CleanupTypeOK /\ DeviceTypeOK
  BY DEF OInv, LifecycleInv, IInv, ManagerTypeOK
<1>2. LinkInv'
  BY <1>1, LinkStep
<1>3. LifecycleInv'
  <2>1. CASE ~ConnectStep /\ ~TeardownStep
    BY <1>1, <2>1, OthersBystand, BystandersKeep
  <2> QED BY <1>1, <2>1, ConnectKeepsLifecycle, TeardownKeepsLifecycle
<1>4. AuthorityInv'
  BY <1>1, AuthorityStep
<1> QED BY <1>2, <1>3, <1>4 DEF OInv, LifecycleInv

\* It holds in every state of every behaviour.
THEOREM OwnershipInvariant == SafetySpec => [](QueueInv /\ IInv /\ OInv)
<1>1. Init => OInv
  BY OwnershipInitially
<1>2. QueueInv /\ IInv /\ OInv /\ [Next]_vars => OInv'
  BY OwnershipStep
<1> QED
  BY <1>1, <1>2, ManagerInvariant, ManagerImplementsQueue, QueueInvariant, PTL
  DEF SafetySpec

-----------------------------------------------------------------------------
(* The theorems *)

\* driver.connect() runs only over an empty runtime.
THEOREM ConnectsOverNothing == SafetySpec => []OneConnectionAtATime
<1>1. OInv => OneConnectionAtATime
  BY DEF OInv, AwaitInv, OwnerInv, OneConnectionAtATime
<1> QED BY <1>1, OwnershipInvariant, PTL

\* Whatever is left open between operations has an owner to release it; a
\* resolved disconnect() means an empty runtime, a rejected one leaves something
\* to see.
THEOREM NothingIsLeftOwnerless == SafetySpec => []LeftoversAreOwned
<1>1. OInv => ResourcesHaveAnOwner
  BY DEF OInv, OwnerInv, ResourcesHaveAnOwner
<1>2. OInv => DisconnectTellsTheTruth
  BY DEF OInv, OwnerInv, TruthInv, DisconnectTellsTheTruth
<1> QED BY <1>1, <1>2, OwnershipInvariant, PTL DEF LeftoversAreOwned

\* A session that was never announced is left for teardown only.
THEOREM UnannouncedSessionIsFaulted == SafetySpec => []UnannouncedIsTeardownOnly
<1>1. OInv => UnannouncedIsTeardownOnly
  BY DEF OInv, TruthInv, UnannouncedIsTeardownOnly
<1> QED BY <1>1, OwnershipInvariant, PTL

\* A measurement is published only with the full authority of the session.
THEOREM PublishesWithAuthority == SafetySpec => PublishesOnlyUnderAuthority
<1>1. ASSUME IInv, OInv, [Next]_vars, lastSeq' # lastSeq, lastSeq' # 0
      PROVE  ~fault /\ configured /\ ~live /\ rfOutput \in {"off", "not-supported"}
  <2>1. PICK seq \in 1..MaxSeq : AcquireReturns(seq)
    <3> USE DEF activeVars, measurementVars, FaultActive, SetRf, NoActive,
             InvalidateConfiguration, ResetMeasurementState
    <3>1. ConnectStep => lastSeq' \in {lastSeq, 0}
      BY DEF ConnectStep, BeginConnect, ConnectRejects, PendingCleanupSucceeds,
             PendingCleanupFails, InvalidSession, InvalidSessionCloses,
             InvalidSessionStaysOpen, UncallableSession, ValidSession,
             SubscribingFails, RejectOffAcknowledged, RejectOffFails,
             RejectCloseSucceeds, RejectCloseFails, Activate, OutputFits
    <3>2. ConfigureStep => lastSeq' \in {lastSeq, 0}
      BY DEF ConfigureStep, BeginConfigure, DispatchConfigure, ConfigureApplied,
             ConfigurePlainApplied, ConfigureFails, ConfigureOffAcknowledged,
             ConfigureOffFails, ConfigureResumes, CommitConfiguration
    <3>3. AcquireStep => lastSeq' \in {lastSeq, 0}
                         \/ \E seq \in 1..MaxSeq : AcquireReturns(seq)
      BY DEF AcquireStep, BeginAcquire, AcquireOffAcknowledged, AcquireOffFails,
             DispatchAcquire, AcquireRejects, AcquireBreaksContract,
             CloseTransaction
    <3>4. FeatureStep => lastSeq' \in {lastSeq, 0}
      BY DEF FeatureStep, BeginFeature, DispatchFeature, FeatureSucceeds,
             FeatureFails, GeneratorConfigured, GeneratorOffAcknowledged,
             GeneratorOffFails, WithdrawFor
    <3>5. TeardownStep => lastSeq' \in {lastSeq, 0}
      BY DEF TeardownStep, BeginTeardown, TeardownOffAcknowledged,
             TeardownOffFails, SessionCloses, SessionClosesSubscribed,
             SessionCloseFails, RejectedSessionReleased,
             RejectedSessionRetained, HookSettles
    <3>6. DriverEvent => lastSeq' \in {lastSeq, 0}
      BY DEF DriverEvent, FaultEvent, MeasurementEvent, MeasurementEventFaults
    <3> QED
      BY <1>1, <3>1, <3>2, <3>3, <3>4, <3>5, <3>6
      DEF Next, ManagerStep, CallerStep, Refuse, BeginDiscover, FinishDiscover,
          BeginCanonical, CanonicalFails, vars, managerVars
  <2>2. pc = "acqWait" /\ ~fault
    BY <2>1 DEF AcquireReturns, At, SoundAfterAwait
  <2> QED
    BY <1>1, <2>2 DEF OInv, AuthorityInv, IInv, SilenceInv, AwaitsInSilence
<1> QED
  BY <1>1, OwnershipInvariant, PTL DEF SafetySpec, PublishesOnlyUnderAuthority

-----------------------------------------------------------------------------
(* The manager implements the lease *)

\* A session appears only while driver.connect() is awaited, and disappears
\* only while its disconnect is.
LEMMA SessionsComeAndGo ==
    ASSUME LinkInv, [Next]_vars, session' # session
    PROVE  /\ session = "none" => pc = "opening"
           /\ session' = "none" => pc \in {"rejectClose", "tdClose"}
<1> USE DEF At, activeVars, FaultActive, SetRf
<1>1. ConnectStep \/ TeardownStep
  BY OthersBystand DEF Bystands
<1>2. CASE ConnectStep
  BY <1>2
  DEF ConnectStep, BeginConnect, ConnectRejects, PendingCleanupSucceeds,
      PendingCleanupFails, InvalidSession, InvalidSessionCloses,
      InvalidSessionStaysOpen, UncallableSession, ValidSession,
      SubscribingFails, RejectOffAcknowledged, RejectOffFails,
      RejectCloseSucceeds, RejectCloseFails, Activate, OutputFits, NoActive
<1>3. CASE TeardownStep
  BY <1>3
  DEF TeardownStep, BeginTeardown, TeardownOffAcknowledged, TeardownOffFails,
      SessionCloses, SessionClosesSubscribed, SessionCloseFails,
      RejectedSessionReleased, RejectedSessionRetained, HookSettles,
      NoActive
<1> QED BY <1>1, <1>2, <1>3

\* Every step maps to a step of the lease or to a stutter.
LEMMA LeaseStep ==
    ASSUME LinkInv, LifecycleInv, SilenceInv, DeviceTypeOK,
           SilenceInv', DeviceTypeOK', [Next]_vars
    PROVE  [Lease!LeaseNext]_Lease!leaseVars
<1> USE DEF Lease!LeaseNext, Lease!leaseVars
<1>1. Holder \in {"session", "cleanup", "nobody"}
      /\ (Holder = "session" <=> session # "none")
  BY DEF Holder
<1>2. Holder' \in {"session", "cleanup", "nobody"}
      /\ (Holder' = "session" <=> session' # "none")
  BY DEF Holder
<1>3. CASE session # "none" /\ session' # "none"
  BY <1>1, <1>2, <1>3 DEF DeviceTypeOK, Lease!Switch
<1>4. CASE session = "none" /\ session' = "none"
  <2>1. live = FALSE /\ live' = FALSE
    BY <1>4 DEF SilenceInv, DeviceTypeOK
  <2> QED BY <1>1, <1>2, <1>4, <2>1 DEF Lease!Retain, Lease!CleanUp
<1>5. CASE session = "none" /\ session' # "none"
  <2>1. pc = "opening"
    BY <1>5, SessionsComeAndGo
  <2>2. Holder = "nobody"
    BY <1>5, <2>1 DEF LifecycleInv, AwaitInv, OwnerInv, Holder
  <2> QED BY <1>2, <1>5, <2>2 DEF Lease!Open, DeviceTypeOK
<1>6. CASE session # "none" /\ session' = "none"
  <2>1. pc \in {"rejectClose", "tdClose"}
    BY <1>6, SessionsComeAndGo
  <2>2. live = FALSE /\ live' = FALSE
    BY <1>6, <2>1 DEF SilenceInv, AwaitsInSilence, DeviceTypeOK
  <2> QED BY <1>1, <1>2, <1>6, <2>2 DEF Lease!Release
<1> QED BY <1>3, <1>4, <1>5, <1>6

\* At most one connection is held, it is given up only in silence, and what is
\* left of it blocks the next one: RfLease, for every registry.
THEOREM ManagerImplementsLease == SafetySpec => ImplementsLease
<1>1. Init => Lease!LeaseInit
  BY DEF Init, Lease!LeaseInit, Holder
<1>2. ASSUME IInv, OInv, IInv', [Next]_vars
      PROVE  [Lease!LeaseNext]_Lease!leaseVars
  BY <1>2, LeaseStep DEF IInv, ManagerTypeOK, OInv, LifecycleInv
<1> QED
  BY <1>1, <1>2, OwnershipInvariant, PTL
  DEF SafetySpec, ImplementsLease, Lease!LeaseSpec

-----------------------------------------------------------------------------
(* The manager implements the contract its host is written against *)

\* A step that leaves ownership alone is seen as a change of configuration or a
\* fault, or not at all.
LEMMA BystandersAreSeen ==
    ASSUME Bystands
    PROVE  [Contract!ContractNext]_Contract!contractVars
<1>1. /\ UNCHANGED <<session, announced, rejected, barrier, lastDisconnect>>
      /\ CleanupRequirement' = CleanupRequirement
  BY DEF Bystands, CleanupRequirement
<1>2. Observed' = Observed \/ Observed' = "faulted"
      \/ (Observed = "idle" /\ Observed' = "configured")
      \/ (Observed = "configured" /\ Observed' = "idle")
  <2>1. CASE fault' = TRUE
    BY <1>1, <2>1 DEF Observed
  <2>2. CASE fault' = fault
    BY <1>1, <2>2 DEF Observed
  <2> QED BY <2>1, <2>2 DEF Bystands
<1>3. Observed' = "faulted" => Observed # "none"
  BY <1>1 DEF Observed
<1> QED
  BY <1>1, <1>2, <1>3
  DEF Contract!ContractNext, Contract!contractVars, Contract!Configures,
      Contract!Invalidates, Contract!Faults

\* connect() is seen to open, retain or close exactly one thing.
LEMMA ConnectIsSeen ==
    ASSUME ControlTypeOK, LifecycleInv, ConnectStep
    PROVE  [Contract!ContractNext]_Contract!contractVars
<1> USE DEF Contract!ContractNext, Contract!contractVars, Contract!ConnectMoves,
            Contract!Connectable, At, Await, Done
<1>0. (body = "connect" => driver # NoDriver) /\ \A d \in Drivers : d # NoDriver
  BY ManagerAssumption DEF ControlTypeOK
<1>1. ASSUME NEW d \in Drivers, BeginConnect(d)
      PROVE  [Contract!ContractNext]_Contract!contractVars
  BY <1>1
  DEF BeginConnect, activeVars, cleanupVars, Contract!DisconnectCalled, Observed,
      CleanupRequirement
<1>2. ASSUME NEW class \in {"rf", "plain"},
             NEW rf \in {"not-supported", "off", "on", "unknown"},
             NEW isFaulted \in BOOLEAN,
             ValidSession(class, rf, isFaulted)
               \/ SubscribingFails(class, rf, isFaulted)
      PROVE  [Contract!ContractNext]_Contract!contractVars
  <2>1. /\ session = "none" /\ rejected = "none" /\ barrier = NoDriver
        /\ session' # "none" /\ configured' = FALSE
        /\ UNCHANGED <<rejected, barrier, lastDisconnect>>
    BY <1>2
    DEF ValidSession, SubscribingFails, Activate, OutputFits, cleanupVars, LifecycleInv,
        AwaitInv
  <2>2. Observed = "none" /\ CleanupRequirement = "none"
    BY <2>1 DEF Observed, CleanupRequirement
  <2>3. Observed' \in {"idle", "faulted"}
        /\ CleanupRequirement' \in {"none", "rejected"}
    BY <2>1 DEF Observed, CleanupRequirement
  <2> QED BY <2>1, <2>2, <2>3 DEF Contract!Opens
<1>3. CASE ConnectRejects \/ PendingCleanupSucceeds \/ InvalidSessionStaysOpen
           \/ RejectOffAcknowledged
  <2>1. UNCHANGED <<session, announced, configured, fault, rejected, barrier,
                    lastDisconnect>>
    BY <1>3
    DEF ConnectRejects, PendingCleanupSucceeds, InvalidSessionStaysOpen,
        RejectOffAcknowledged, SetRf, activeVars, cleanupVars
  <2> QED BY <2>1 DEF Observed, CleanupRequirement
<1>4. CASE PendingCleanupFails \/ InvalidSession \/ UncallableSession
  <2>1. /\ session = "none" /\ rejected = "none" /\ barrier = NoDriver
        /\ session' = "none" /\ UNCHANGED lastDisconnect
        /\ rejected' # "none" \/ barrier' # NoDriver
    BY <1>0, <1>4
    DEF PendingCleanupFails, InvalidSession, UncallableSession, activeVars,
        LifecycleInv, AwaitInv
  <2> QED BY <2>1 DEF Observed, CleanupRequirement, Contract!Retains
<1>5. CASE InvalidSessionCloses \/ RejectCloseSucceeds
  <2>1. /\ CleanupRequirement = "rejected" /\ barrier = NoDriver
        /\ session' = "none" /\ rejected' = "none"
        /\ UNCHANGED <<barrier, lastDisconnect>>
    BY <1>5
    DEF InvalidSessionCloses, RejectCloseSucceeds, NoActive, activeVars,
        cleanupVars, LifecycleInv, AwaitInv, OwnerInv, CleanupRequirement
  <2> QED
    BY <2>1 DEF Observed, CleanupRequirement, Contract!ClosesRejected
<1>6. CASE RejectOffFails \/ RejectCloseFails
  <2>1. /\ session # "none" /\ fault' = TRUE
        /\ UNCHANGED <<session, announced, rejected, barrier, lastDisconnect>>
    BY <1>6
    DEF RejectOffFails, RejectCloseFails, FaultActive, cleanupVars,
        LifecycleInv, AwaitInv
  <2> QED BY <2>1 DEF Observed, CleanupRequirement, Contract!Faults
<1> QED BY <1>1, <1>2, <1>3, <1>4, <1>5, <1>6 DEF ConnectStep

\* disconnect() is seen to close the session, release what was rejected and ask
\* the drivers, in this order, and to settle once.
LEMMA DisconnectIsSeen ==
    ASSUME LifecycleInv, TeardownStep
    PROVE  [Contract!ContractNext]_Contract!contractVars
<1> USE DEF Contract!ContractNext, Contract!contractVars,
            Contract!DisconnectMoves, At, Await, Done
<1>0. body = Teardown => lastDisconnect = "none"
  BY DEF LifecycleInv, TruthInv
<1>1. CASE BeginTeardown
  BY <1>1
  DEF BeginTeardown, SetRf, Contract!DisconnectCalled, Observed,
      CleanupRequirement
<1>2. CASE TeardownOffAcknowledged
  BY <1>2
  DEF TeardownOffAcknowledged, SetRf, cleanupVars, Observed, CleanupRequirement
<1>3. CASE TeardownOffFails \/ SessionCloseFails
  <2>1. /\ session # "none" /\ fault' = TRUE
        /\ lastDisconnect = "none" /\ lastDisconnect' = "failed"
        /\ UNCHANGED <<session, announced, rejected, barrier>>
    BY <1>0, <1>3
    DEF TeardownOffFails, SessionCloseFails, TeardownFails, FaultActive,
        cleanupVars, LifecycleInv, AwaitInv
  <2> QED
    BY <2>1 DEF Observed, CleanupRequirement, Contract!SessionStays
<1>4. CASE SessionCloses \/ SessionClosesSubscribed
  <2>1. /\ session # "none" /\ session' = "none" /\ lastDisconnect = "none"
        /\ barrier' = NoDriver
        /\ \/ rejected' = "none" /\ UNCHANGED lastDisconnect
           \/ rejected' = "unsubscribe" /\ lastDisconnect' = "failed"
    BY <1>0, <1>4
    DEF SessionCloses, SessionClosesSubscribed, TeardownFails, NoActive,
        cleanupVars, LifecycleInv, AwaitInv, OwnerInv
  <2> QED
    BY <2>1 DEF Observed, CleanupRequirement, Contract!SessionCloses
<1>5. CASE RejectedSessionReleased \/ RejectedSessionRetained
  <2>1. /\ session = "none" /\ session' = "none" /\ lastDisconnect = "none"
        /\ rejected # "none" /\ barrier = NoDriver /\ UNCHANGED barrier
        /\ \/ rejected' = "none" /\ UNCHANGED lastDisconnect
           \/ UNCHANGED rejected /\ lastDisconnect' = "failed"
    BY <1>0, <1>5
    DEF RejectedSessionReleased, RejectedSessionRetained, TeardownFails,
        activeVars, cleanupVars, LifecycleInv, AwaitInv, OwnerInv
  <2> QED
    BY <2>1
    DEF Observed, CleanupRequirement, Contract!RejectedReleased,
        Contract!RejectedRetained
<1>6. ASSUME NEW released \in BOOLEAN, HookSettles(released)
      PROVE  [Contract!ContractNext]_Contract!contractVars
  <2>1. /\ session = "none" /\ session' = "none" /\ lastDisconnect = "none"
        /\ rejected = "none" /\ rejected' = "none"
    BY <1>0, <1>6
    DEF HookSettles, activeVars, LifecycleInv, AwaitInv
  <2>2. \/ UNCHANGED <<barrier, lastDisconnect>>
        \/ barrier' = NoDriver /\ lastDisconnect' = "ok"
        \/ barrier' # NoDriver /\ lastDisconnect' = "failed"
    BY <1>6 DEF HookSettles
  <2> QED
    BY <2>1, <2>2 DEF Observed, CleanupRequirement, Contract!DriversAnswer
<1> QED BY <1>1, <1>2, <1>3, <1>4, <1>5, <1>6 DEF TeardownStep

\* What the manager's host sees of it moves only as ManagerContract allows, for
\* every registry: what is checked of the host rests on this.
THEOREM ManagerImplementsContract == SafetySpec => ImplementsContract
<1>1. Init => Contract!ContractInit
  BY DEF Init, Contract!ContractInit, Observed, CleanupRequirement
<1>2. ASSUME IInv, OInv, [Next]_vars
      PROVE  [Contract!ContractNext]_Contract!contractVars
  <2>1. LinkInv /\ LifecycleInv /\ ControlTypeOK
    BY <1>2 DEF OInv, LifecycleInv, IInv, ManagerTypeOK
  <2> QED
    BY <1>2, <2>1, OthersBystand, BystandersAreSeen, ConnectIsSeen,
       DisconnectIsSeen
<1> QED
  BY <1>1, <1>2, OwnershipInvariant, PTL
  DEF SafetySpec, ImplementsContract, Contract!ContractSpec

\* The manager honours both interfaces at once.
THEOREM ManagerImplementsInterfaces == SafetySpec => ImplementsInterfaces
BY ManagerImplementsLease, ManagerImplementsContract DEF ImplementsInterfaces

=============================================================================
