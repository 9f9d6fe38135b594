----------------------------- MODULE SerialLink -----------------------------
(***************************************************************************)
(* The command link of a TinySA: the device service (device.ts) drives     *)
(* CommandScheduler over NodeSerialTransport to the device's shell.        *)
(*                                                                         *)
(* The service is reduced to its use of the link: connecting, the two RF   *)
(* commands, and a teardown that reopens the port when the scheduler has   *)
(* faulted.  A second caller of the scheduler (the streaming loop) reads   *)
(* the version at any time.  The shell handles what it has received in     *)
(* order, whenever it comes to it, also after the host gave up on it and   *)
(* reopened the port; its responses may be lost.                           *)
(***************************************************************************)
EXTENDS CommandScheduler

CONSTANT
    MaxStale \* bound on the commands the shell has not handled when a port opens

ASSUME LinkAssumption == MaxStale \in Nat

VARIABLES
    owner,  \* TinySaDeviceService: its connection and its running operation
    reader, \* the second caller awaits a response
    rf      \* the device's output, "on" or "off"

linkVars == <<port, portState, handles, writes, scheduler, wire, owner, reader, rf>>

Kinds == {"none", "connect", "abort", "disconnect", "on", "off"}
Items == {"open", "close"} \cup Texts

\* script is what the operation still has to do; its head is under way when
\* it has been sent.
Owners == [connection : {"disconnected", "connecting", "identifying", "ready",
                         "disconnecting", "faulted"},
           kind : Kinds, script : Seq(Items), sent : BOOLEAN,
           offAcknowledged : BOOLEAN, teardownAcknowledged : BOOLEAN]

Disconnected == [connection |-> "disconnected", kind |-> "none",
                 script |-> <<>>, sent |-> FALSE, offAcknowledged |-> FALSE,
                 teardownAcknowledged |-> FALSE]

LinkInit ==
    /\ TransportInit
    /\ SchedulerInit
    /\ owner = Disconnected
    /\ reader = FALSE
    /\ rf \in {"off", "on"}

-----------------------------------------------------------------------------
(* The service's handlers *)

Item == Head(owner.script)
Waits(item) == owner.sent /\ owner.script # <<>> /\ Item = item
Due(item) == ~owner.sent /\ owner.script # <<>> /\ Item = item

\* #closing: the service ignores what the transport reports.
Closing(o) ==
    /\ o.sent
    /\ \/ Head(o.script) = "close"
       \/ Head(o.script) = "open" /\ o.kind = "disconnect"

\* #ready, but for the scheduler
Ready(o) == o.connection \in {"identifying", "ready", "disconnecting"}

Idle(o) == [o EXCEPT !.kind = "none", !.script = <<>>, !.sent = FALSE]

\* #handleSchedulerFault
FaultHandled(o) ==
    IF o.connection = "disconnected" THEN o
    ELSE [o EXCEPT !.connection = "faulted", !.offAcknowledged = FALSE,
                   !.teardownAcknowledged = FALSE]

\* #handleTransportEvent: a retained teardown acknowledgement outlives it.
EventHandled(o) ==
    [o EXCEPT !.connection = "faulted",
              !.offAcknowledged = @ /\ o.teardownAcknowledged]

\* What a rejected item of the running operation leaves behind.
OperationFails(o) ==
    CASE o.kind = "connect" ->
           IF Head(o.script) = "open" \/ o.offAcknowledged
           THEN [o EXCEPT !.kind = "abort", !.script = <<"close">>,
                          !.sent = FALSE]
           ELSE [Idle(o) EXCEPT !.connection = "faulted"]
      [] o.kind = "abort" -> [Idle(o) EXCEPT !.connection = "faulted"]
      [] o.kind = "disconnect" ->
           IF o.teardownAcknowledged /\ o.script = <<"close">>
           THEN [Idle(o) EXCEPT !.connection = "faulted"]
           ELSE [Idle(o) EXCEPT !.connection = "faulted",
                                !.offAcknowledged = FALSE,
                                !.teardownAcknowledged = FALSE]
      [] o.kind = "off" ->
           [Idle(o) EXCEPT !.connection = "faulted",
                           !.offAcknowledged = FALSE,
                           !.teardownAcknowledged = FALSE]
      [] o.kind = "on" ->
           [Idle(o) EXCEPT !.offAcknowledged = FALSE,
                           !.teardownAcknowledged = FALSE]
      [] OTHER -> o

\* The head of the script is done,
HeadDone(o) ==
    LET item == Head(o.script)
    IN [o EXCEPT !.script = Tail(@), !.sent = FALSE,
                 !.connection = IF item = "open" /\ o.kind = "connect"
                                THEN "identifying" ELSE @,
                 !.offAcknowledged = item = "off" \/ (@ /\ item # "on"),
                 !.teardownAcknowledged =
                     (item = "off" /\ o.kind = "disconnect")
                     \/ (@ /\ item # "on")]

\* and with its last item the operation.
Advanced(o) ==
    LET rest == HeadDone(o)
    IN CASE rest.script # <<>> -> rest
         [] rest.script = <<>> /\ o.kind \in {"abort", "disconnect"} ->
              Disconnected
         \* the rest of the identification goes through #ready
         [] rest.script = <<>> /\ o.kind = "connect" ->
              IF Ready(rest) THEN [Idle(rest) EXCEPT !.connection = "ready"]
              ELSE [Idle(rest) EXCEPT !.connection = "faulted"]
         [] OTHER -> Idle(rest)

\* Promises of the scheduler are rejected.
Rejects(callers, o) ==
    /\ owner' = IF "device" \in callers THEN OperationFails(o) ELSE o
    /\ reader' = (reader /\ "reader" \notin callers)

\* #fault of the current scheduler
Faults ==
    /\ scheduler' = Failed(scheduler)
    /\ Rejects(PendingCallers(scheduler), FaultHandled(owner))

\* 'error' and 'closed' of the transport
Heard == owner.connection # "disconnected" /\ ~Closing(owner)

EventArrives ==
    IF Heard
    THEN /\ scheduler' = Disposed(scheduler)
         /\ Rejects(PendingCallers(scheduler), EventHandled(owner))
    ELSE UNCHANGED <<scheduler, owner, reader>>

-----------------------------------------------------------------------------
(* Operations of the service *)

Begin(o, connection, kind, script) ==
    owner' = [o EXCEPT !.connection = connection, !.kind = kind,
                       !.script = script, !.sent = FALSE]

OthersUnchanged == UNCHANGED <<transportVars, schedulerVars, reader, rf>>

\* Bound: an operation that opens a port begins only while a handle is left.
HandleLeft == \E p \in Ports : handles[p] = NewHandle

Connect ==
    /\ owner.connection = "disconnected" /\ owner.kind = "none"
    /\ HandleLeft
    /\ Begin(Disconnected, "connecting", "connect", <<"open", "off", "version">>)
    /\ OthersUnchanged

SetOutput(text) ==
    /\ owner.connection = "ready" /\ owner.kind = "none"
    /\ Begin(owner, "ready", text, <<text>>)
    /\ OthersUnchanged

\* disconnect, #ensureTeardownCommandChannel
Disconnect ==
    /\ owner.connection \in {"ready", "faulted"} /\ owner.kind = "none"
    /\ \/ /\ owner.teardownAcknowledged
          /\ Begin(owner, "disconnecting", "disconnect", <<"close">>)
          /\ UNCHANGED scheduler
       \/ /\ ~owner.teardownAcknowledged /\ scheduler.state = "ok"
          /\ Begin(owner, "disconnecting", "disconnect", <<"off", "close">>)
          /\ UNCHANGED scheduler
       \/ /\ ~owner.teardownAcknowledged /\ scheduler.state # "ok"
          /\ HandleLeft
          /\ Begin(owner, "disconnecting", "disconnect",
                   <<"close", "open", "off", "close">>)
          /\ scheduler' = Disposed(scheduler)
    /\ UNCHANGED <<transportVars, wire, reader, rf>>

Opens ==
    /\ Due("open")
    /\ \E p \in Ports : OpenBegins(p)
    /\ owner' = [owner EXCEPT !.sent = TRUE]
    /\ UNCHANGED <<schedulerVars, reader, rf>>

ClosesPort ==
    /\ Due("close") /\ port # NoPort
    /\ CloseBegins
    /\ owner' = [owner EXCEPT !.sent = TRUE]
    /\ UNCHANGED <<schedulerVars, reader, rf>>

\* The scheduler is disposed of with the connection.
CloseDone(o) ==
    /\ owner' = Advanced(o)
    /\ scheduler' = IF owner'.connection = "disconnected"
                    THEN Disposed(scheduler) ELSE scheduler

ClosesNothing ==
    /\ Due("close") /\ port = NoPort
    /\ CloseDone(owner)
    /\ UNCHANGED <<transportVars, wire, reader, rf>>

\* execute, from the service or from the second caller; an acknowledgement
\* does not outlive a fresh output-off.
Executes(text) ==
    /\ Due(text)
    /\ LET o == IF text = "off" THEN [owner EXCEPT !.offAcknowledged = FALSE]
                ELSE owner
       IN IF (text = "version" \/ Ready(owner)) /\ Admits(scheduler)
          THEN /\ StartNext(Enqueued(scheduler, text, "device"), wire, writes)
               /\ owner' = [o EXCEPT !.sent = TRUE]
               /\ UNCHANGED <<port, portState, handles>>
          ELSE /\ owner' = OperationFails(o)
               /\ UNCHANGED <<transportVars, schedulerVars>>
    /\ UNCHANGED <<reader, rf>>

Reads ==
    /\ owner.connection = "ready" /\ ~reader
    /\ Admits(scheduler)
    /\ StartNext(Enqueued(scheduler, "version", "reader"), wire, writes)
    /\ reader' = TRUE
    /\ UNCHANGED <<port, portState, handles, owner, rf>>

-----------------------------------------------------------------------------
(* What the transport reports *)

TheLinkIsIdle == UNCHANGED <<wire, rf>>

PortOpens(p) ==
    /\ Waits("open") /\ OpenSucceeds(p)
    /\ Len(wire) <= MaxStale
    /\ owner' = Advanced(owner)
    /\ scheduler' = NewScheduler(scheduler)
    /\ UNCHANGED reader /\ TheLinkIsIdle

PortDoesNotOpen(p) ==
    /\ Waits("open")
    /\ OpenFails(p) \/ OpenTimesOut(p)
    /\ owner' = OperationFails(owner)
    /\ UNCHANGED <<scheduler, reader>> /\ TheLinkIsIdle

PortCloses(p) ==
    /\ CloseSucceeds(p)
    /\ CloseDone(owner)
    /\ UNCHANGED reader /\ TheLinkIsIdle

PortDoesNotClose(p) ==
    /\ CloseFails(p) \/ CloseTimesOut(p)
    /\ owner' = OperationFails(owner)
    /\ UNCHANGED <<scheduler, reader>> /\ TheLinkIsIdle

\* A late answer is news to the service only about the owned port.
LateAnswer(p) ==
    /\ \/ CloseSucceedsLate(p)
       \/ CloseFailsLate(p)
       \/ OpenSucceedsLate(p)
       \/ OpenFailsLate(p)
       \/ OrphanCloses(p)
       \/ OrphanCloseFails(p)
    /\ IF p = port THEN EventArrives ELSE UNCHANGED <<scheduler, owner, reader>>
    /\ TheLinkIsIdle

CableIsPulled(p) ==
    /\ PortGoes(p)
    /\ IF p = port THEN EventArrives ELSE UNCHANGED <<scheduler, owner, reader>>
    /\ TheLinkIsIdle

NativeError ==
    /\ port # NoPort /\ Heard
    /\ EventArrives
    /\ UNCHANGED transportVars /\ TheLinkIsIdle

-----------------------------------------------------------------------------
(* What the scheduler hears *)

\* The active command is answered and the next one is sent.
Resolves(s, received, unsettled) ==
    /\ \E first \in Matches(s) :
          FirstMatch(s, first)
          /\ StartNext(Consumed(s, first), received, unsettled)
    /\ IF s.active.caller = "device"
       THEN owner' = Advanced(owner) /\ UNCHANGED reader
       ELSE reader' = FALSE /\ UNCHANGED owner

\* #processActive
Processes(s, received, unsettled) ==
    IF s.active # NoCommand /\ Answered(s)
    THEN Resolves(s, received, unsettled)
    ELSE Rests(s, received, unsettled) /\ UNCHANGED <<owner, reader>>

\* #receive
Receives(frame, received) ==
    /\ IF scheduler.state # "ok"
       THEN /\ wire' = received
            /\ UNCHANGED <<writes, scheduler, owner, reader>>
       ELSE IF Overflows(scheduler)
       THEN Faults /\ wire' = received /\ UNCHANGED writes
       ELSE Processes(Received(scheduler, frame), received, writes)
    /\ UNCHANGED <<port, portState, handles>>

LineUp == port # NoPort /\ handles[port].native = "open"

\* The shell comes to its next command; the response may be lost.
ShellAnswers ==
    /\ wire # <<>>
    /\ rf' = IF Head(wire) \in {"on", "off"} THEN Head(wire) ELSE rf
    /\ \/ LineUp /\ Receives(Head(wire), Tail(wire))
       \/ /\ wire' = Tail(wire)
          /\ UNCHANGED <<transportVars, scheduler, owner, reader>>

\* Bytes nobody asked for.
ShellBabbles ==
    /\ LineUp /\ scheduler.state = "ok"
    /\ Receives("noise", wire)
    /\ UNCHANGED rf

\* A response that the parser does not accept.
ResponseIsMalformed ==
    /\ LineUp /\ scheduler.state = "ok" /\ scheduler.active # NoCommand
    /\ Faults
    /\ UNCHANGED <<transportVars, wire, rf>>

CommandTimesOut ==
    /\ scheduler.active # NoCommand
    /\ Faults
    /\ UNCHANGED <<transportVars, wire, rf>>

WriteDrains ==
    /\ \E w \in writes : Drains(w)
    /\ UNCHANGED <<schedulerVars, owner, reader, rf>>

\* The continuation of #startNext processes whatever is active by then.
WriteIsDone(w) ==
    /\ Completes(w)
    /\ IF w.generation = scheduler.generation
       THEN Processes(scheduler, wire, writes \ {w})
       ELSE Rests(scheduler, wire, writes \ {w}) /\ UNCHANGED <<owner, reader>>
    /\ UNCHANGED <<port, portState, handles, rf>>

\* A failed write faults the scheduler it belongs to, whatever is active by
\* then; a disposed one still tells the service.
WriteIsLost(w) ==
    /\ WriteFails(w)
    /\ LET event == FaultsPort(w) /\ Heard
           mine == w.generation = scheduler.generation /\ scheduler.state = "ok"
           loud == w.generation \notin scheduler.deaf
           first == IF event THEN EventHandled(owner) ELSE owner
       IN /\ scheduler' = [(IF event THEN Disposed(scheduler)
                            ELSE IF mine THEN Failed(scheduler) ELSE scheduler)
                           EXCEPT !.deaf = @ \cup {w.generation}]
          /\ Rejects(IF event \/ mine THEN PendingCallers(scheduler) ELSE {},
                     IF loud THEN FaultHandled(first) ELSE first)
    /\ TheLinkIsIdle
-----------------------------------------------------------------------------
Operation ==
    \/ Connect \/ Disconnect \/ SetOutput("on") \/ SetOutput("off")
    \/ Reads

Step ==
    \/ Opens \/ ClosesPort \/ ClosesNothing
    \/ \E text \in Texts : Executes(text)

Report(p) ==
    \/ PortOpens(p) \/ PortDoesNotOpen(p)
    \/ PortCloses(p) \/ PortDoesNotClose(p)
    \/ LateAnswer(p) \/ CableIsPulled(p)

Event ==
    \/ \E p \in Ports : Report(p)
    \/ NativeError
    \/ ShellAnswers \/ ShellBabbles \/ ResponseIsMalformed
    \/ CommandTimesOut

WriteEvent ==
    \/ WriteDrains
    \/ \E w \in writes : WriteIsDone(w) \/ WriteIsLost(w)

\* The service goes on in microtasks: ports, timers and calls are heard only
\* when it waits.  (A service that waits for the bound MaxWrites lets writes
\* settle.)
Waiting == owner.script = <<>> \/ owner.sent

LinkNext ==
    \/ Step
    \/ Waiting /\ (Operation \/ Event)
    \/ (Waiting \/ FreeSlots(writes) = {}) /\ WriteEvent

\* The service's code runs on, and the four deadlines fire: opening, closing,
\* writing and the response.  Nothing else is promised: neither the operating
\* system nor the shell ever has to answer.
LinkFairness ==
    /\ WF_linkVars(Step)
    /\ WF_linkVars(Waiting /\ \E p \in Ports : PortDoesNotOpen(p))
    /\ WF_linkVars(Waiting /\ \E p \in Ports : PortDoesNotClose(p))
    /\ WF_linkVars(\E w \in writes : WriteIsLost(w))
    /\ WF_linkVars(Waiting /\ CommandTimesOut)

LinkSpec == LinkInit /\ [][LinkNext]_linkVars /\ LinkFairness

-----------------------------------------------------------------------------
(* Properties *)

\* Types; a scheduler reads the bytes of an owned port only, and the callers
\* that wait are those whose command is pending.
LinkTypeOK ==
    /\ port \in Ports \cup {NoPort}
    /\ portState \in {"none", "opening", "open", "closing", "faulted"}
    /\ handles \in [Ports -> Handles]
    /\ writes \subseteq Writes
    /\ scheduler \in Schedulers
    /\ wire \in Seq(Texts)
    /\ owner \in Owners
    /\ reader \in BOOLEAN
    /\ rf \in {"on", "off"}
    /\ reader <=> "reader" \in PendingCallers(scheduler)
    /\ (owner.sent /\ Item \in Texts) <=> "device" \in PendingCallers(scheduler)

\* An acknowledged output-off is the truth: the output is off and no command
\* that would switch it on is still waiting in the shell (#command, #fault).
\* Responses are told apart by their text alone, and one of an earlier connection
\* may arrive in a later one.  That does no harm while a scheduler that lost track
\* is never used again and the identification behind a connection's output-off
\* finds its own answer, which a port that opens on many unhandled commands
\* (MaxStale > 2) does not promise.  TinySaDevice takes it for granted.
OffIsTrue ==
    /\ LinkTypeOK
    /\ owner.offAcknowledged /\ owner.kind # "on" =>
           rf = "off" /\ \A i \in DOMAIN wire : wire[i] # "on"

\* Every operation of the service ends, and so does the second caller's command,
\* which waits in the queue behind the service's own, whatever the operating
\* system and the shell never answer: no deadline is missing, none is armed for
\* the wrong command, and no rejected promise is left unsettled.
CallsSettle ==
    /\ owner.kind # "none" ~> owner.kind = "none"
    /\ reader ~> ~reader
=============================================================================
