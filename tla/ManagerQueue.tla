---------------------------- MODULE ManagerQueue ----------------------------
(***************************************************************************)
(* The admission queue of InstrumentManager                                *)
(* (packages/instrument-runtime/src/instrument-manager.ts): a bounded FIFO *)
(* of normal operations, one separately reserved teardown slot that is     *)
(* always drained first, and a connection epoch that cancels every session *)
(* operation admitted before a disconnect.                                 *)
(*                                                                         *)
(* The connection epoch is an opaque object that the code only compares    *)
(* for identity with the one an operation was admitted under.  The model   *)
(* keeps the result of that comparison with the operation: `current` is    *)
(* TRUE exactly while the operation's epoch is the manager's.              *)
(***************************************************************************)
EXTENDS Naturals, Sequences

CONSTANTS
    SessionRequests,  \* operations bound to the connection epoch
    FreeRequests,     \* operations that are not (discovery, manual endpoints)
    Limit             \* MAX_PENDING_MANAGER_OPERATIONS

Requests == SessionRequests \cup FreeRequests
Teardown == "teardown"
Nobody == "nobody"

ASSUME QueueAssumption ==
    /\ Limit \in Nat \ {0}
    /\ SessionRequests \cap FreeRequests = {}
    /\ Teardown \notin Requests
    /\ Nobody \notin Requests

VARIABLES
    queue,             \* #normalOperations
    teardownQueued,    \* #teardownOperation is set
    running,           \* the scheduled or executing operation
    pending,           \* #pendingOperations
    pendingTeardown,   \* #pendingTeardownOperations
    disconnectPending  \* #disconnectOperation is set

queueVars == <<queue, teardownQueued, running, pending, pendingTeardown,
               disconnectPending>>

-----------------------------------------------------------------------------
(* Data *)

\* ScheduledManagerOperation, together with how far it has got: drained
\* operations start in a later microtask, `begun` says that they have.
Scheduled == [request : Requests \cup {Teardown, Nobody},
              current : BOOLEAN, begun : BOOLEAN]

Queued(r) == [request |-> r, current |-> TRUE, begun |-> FALSE]
Idle == [request |-> Nobody, current |-> FALSE, begun |-> FALSE]
OperationRunning == running.request # Nobody

QueueTypeOK ==
    /\ queue \in Seq(Scheduled)
    /\ teardownQueued \in BOOLEAN
    /\ running \in Scheduled
    /\ pending \in Nat
    /\ pendingTeardown \in Nat
    /\ disconnectPending \in BOOLEAN

QueueInit ==
    /\ queue = <<>>
    /\ teardownQueued = FALSE
    /\ running = Idle
    /\ pending = 0
    /\ pendingTeardown = 0
    /\ disconnectPending = FALSE

\* The epoch of the manager moved on: no operation still holds it.
Outdated(op) == IF op.begun THEN op ELSE [op EXCEPT !.current = FALSE]

-----------------------------------------------------------------------------
(* #drainOperations: teardown first, then the head of the normal queue *)

\* Faulty variant: the teardown slot waits for an empty queue.
DrainNormalFirst(normal, slot) ==
    IF normal # <<>>
      THEN /\ running' = Head(normal)
           /\ queue' = Tail(normal)
           /\ teardownQueued' = slot
      ELSE /\ running' = IF slot THEN Queued(Teardown) ELSE Idle
           /\ queue' = normal
           /\ teardownQueued' = FALSE

Drain(normal, slot) ==
    IF slot
      THEN /\ running' = Queued(Teardown)
           /\ queue' = normal
           /\ teardownQueued' = FALSE
      ELSE /\ running' = IF normal # <<>> THEN Head(normal) ELSE Idle
           /\ queue' = IF normal # <<>> THEN Tail(normal) ELSE normal
           /\ teardownQueued' = FALSE

\* An operation that runs already (op) is drained after only when it settles.
DrainIfIdle(normal, slot, op) ==
    IF OperationRunning
      THEN /\ running' = op
           /\ queue' = normal
           /\ teardownQueued' = slot
      ELSE Drain(normal, slot)

-----------------------------------------------------------------------------
(* Admission *)

\* #serialize of a normal operation; a caller refused at the limit leaves no
\* trace, so only admitted calls are steps.
AdmitNormal(r) ==
    /\ pending < Limit
    /\ pending' = pending + 1
    /\ DrainIfIdle(Append(queue, Queued(r)), teardownQueued, running)
    /\ UNCHANGED <<pendingTeardown, disconnectPending>>

\* connect, configure, acquire, executeFeature through #serializeSessionOperation
AdmitSession(r) ==
    /\ ~disconnectPending
    /\ AdmitNormal(r)

\* discover and addManualEndpoint through #serialize: admitted during a
\* disconnect as well.
AdmitFree(r) == AdmitNormal(r)

\* Faulty variant: a disconnect does not advance the epoch.
KeepEpoch ==
    /\ ~disconnectPending
    /\ pendingTeardown = 0
    /\ pendingTeardown' = pendingTeardown + 1
    /\ disconnectPending' = TRUE
    /\ DrainIfIdle(queue, TRUE, running)
    /\ UNCHANGED pending

\* disconnect(): a pending one is shared (no step); a new one advances the
\* epoch and takes the teardown slot.
RequestDisconnect ==
    /\ ~disconnectPending
    /\ pendingTeardown = 0
    /\ pendingTeardown' = pendingTeardown + 1
    /\ disconnectPending' = TRUE
    /\ DrainIfIdle([i \in DOMAIN queue |-> Outdated(queue[i])], TRUE,
                   Outdated(running))
    /\ UNCHANGED pending

-----------------------------------------------------------------------------
(* Execution *)

\* The teardown promise has settled but the reaction that clears
\* #disconnectOperation has not run.  It was queued before the next operation
\* was drained, so it runs before that operation starts.
TeardownSettled ==
    /\ disconnectPending
    /\ ~teardownQueued
    /\ running.request # Teardown

ClearDisconnect ==
    /\ TeardownSettled
    /\ disconnectPending' = FALSE
    /\ UNCHANGED <<queue, teardownQueued, running, pending, pendingTeardown>>

Startable == OperationRunning /\ ~running.begun /\ ~TeardownSettled

Canceled == running.request \in SessionRequests /\ ~running.current

\* The microtask of a drained operation runs: the epoch check of
\* #serializeSessionOperation passes and the body is entered.
Begin ==
    /\ Startable
    /\ ~Canceled
    /\ running' = [running EXCEPT !.begun = TRUE]
    /\ UNCHANGED <<queue, teardownQueued, pending, pendingTeardown,
                   disconnectPending>>

\* Faulty variant: the admission is not released.
SettleWithoutRelease ==
    /\ Drain(queue, teardownQueued)
    /\ UNCHANGED <<pending, pendingTeardown, disconnectPending>>

\* #settleOperation releases the admission and drains the next operation.
Settle ==
    /\ IF running.request = Teardown
         THEN /\ pendingTeardown' = pendingTeardown - 1
              /\ UNCHANGED pending
         ELSE /\ pending' = pending - 1
              /\ UNCHANGED pendingTeardown
    /\ Drain(queue, teardownQueued)
    /\ UNCHANGED disconnectPending

\* The operation rejects in the microtask that starts it: canceled by the
\* epoch check, or refused by a precondition of its body.
SettleAtStart == Startable /\ Settle

\* The promise of an executing body settles.
Finish == running.begun /\ Settle

QueueNext ==
    \/ \E r \in SessionRequests : AdmitSession(r)
    \/ \E r \in FreeRequests : AdmitFree(r)
    \/ RequestDisconnect
    \/ ClearDisconnect
    \/ Begin
    \/ SettleAtStart
    \/ Finish

QueueSafetySpec == QueueInit /\ [][QueueNext]_queueVars

\* A drained operation starts in the next microtask, and every driver call an
\* operation awaits settles, so a body ends.
QueueFairness ==
    /\ WF_queueVars(ClearDisconnect)
    /\ WF_queueVars(Begin \/ SettleAtStart)
    /\ WF_queueVars(Finish)

QueueSpec == QueueSafetySpec /\ QueueFairness

-----------------------------------------------------------------------------
(* Properties *)

\* The admission counters neither leak nor drift: #pendingOperations is what
\* is queued plus what runs, #pendingTeardownOperations is the teardown slot
\* wherever the teardown has got to, through every cancellation and overtaking.
PendingAccountsForAdmissions ==
    /\ pending = Len(queue) + IF running.request \in Requests THEN 1 ELSE 0
    /\ pending <= Limit
    /\ pendingTeardown =
         IF teardownQueued \/ running.request = Teardown THEN 1 ELSE 0

\* A disconnect request is never refused: when none is pending its slot is
\* free, so the 'teardown is already pending' rejection of #serialize is dead.
TeardownSlotFree == ~disconnectPending => pendingTeardown = 0

\* While a disconnect is pending, no connect, configure, acquire or feature
\* call enters its body, so nothing can open or change a session behind the
\* teardown that overtook it.
NoSessionBodyBehindTeardown ==
    [][ (running.request \in SessionRequests /\ ~running.begun
          /\ running'.begun /\ running'.request = running.request)
        => ~disconnectPending ]_queueVars

\* A requested disconnect settles however many discoveries keep arriving in
\* the normal queue while it waits.
DisconnectSettles == disconnectPending ~> ~disconnectPending

=============================================================================
