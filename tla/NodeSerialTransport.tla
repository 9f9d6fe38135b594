------------------------ MODULE NodeSerialTransport ------------------------
(***************************************************************************)
(* The serial transport (packages/tinysa/src/serial-transport.ts): one     *)
(* owned port, opened, written and closed through native callbacks that    *)
(* may fail, come late or never come, each under a deadline of its own.    *)
(*                                                                         *)
(* Every open creates a new native handle.  A handle whose open missed its *)
(* deadline is abandoned: it belongs to nobody, and must be closed if it   *)
(* opens after all.  The operators give the next value of the transport's  *)
(* fields; CommandScheduler and SerialLink build the actions from them.    *)
(***************************************************************************)
EXTENDS Naturals, FiniteSets

CONSTANTS
    MaxPorts,  \* bound on the native handles ever created
    MaxWrites  \* bound on the writes whose promise is unsettled

ASSUME PortsAssumption == MaxPorts \in Nat \ {0} /\ MaxWrites \in Nat \ {0}

Ports == 1..MaxPorts
NoPort == 0

VARIABLES
    port,      \* #port: the owned handle
    portState, \* #portState
    handles,   \* what each native handle is and who listens to it
    writes     \* the writes whose promise is unsettled

transportVars == <<port, portState, handles, writes>>

\* native: the operating system's side.  open, close, lateClose: calls whose
\* callback is awaited, within the deadline or after it.  listeners: #attach-
\* PortListeners or #guardOrphanPort.  orphanClose: #orphanCloseStarted, with
\* the answer to it outstanding or not.
Handles == [native : {"new", "opening", "open", "closed"},
            open : {"none", "pending", "late"},
            close : BOOLEAN, lateClose : BOOLEAN,
            listeners : {"none", "own", "guard"},
            orphanClose : {"no", "asked", "answered"}]

NewHandle == [native |-> "new", open |-> "none", close |-> FALSE,
              lateClose |-> FALSE, listeners |-> "none", orphanClose |-> "no"]

\* A write carries a command of the scheduler of one generation to one handle;
\* without a handle its promise is rejected from the start.
Writes == [slot : 1..MaxWrites, port : Ports \cup {NoPort}, generation : Nat,
           phase : {"write", "drain"}]

TransportInit ==
    /\ port = NoPort
    /\ portState = "none"
    /\ handles = [p \in Ports |-> NewHandle]
    /\ writes = {}

-----------------------------------------------------------------------------
(* Handles *)

\* #requestOrphanClose: at most once for a handle
AskedToClose(h) ==
    IF h.orphanClose = "no" THEN [h EXCEPT !.orphanClose = "asked"] ELSE h

\* #abandonOpeningPort: the handle stays guarded against late native errors.
Abandoned(h) ==
    LET guarded == [h EXCEPT !.listeners = "guard"]
    IN IF h.native = "open" THEN AskedToClose(guarded) ELSE guarded

\* Faulty variant: the late success is ignored.
OpenedLateIgnored(h) == [h EXCEPT !.native = "open", !.open = "none"]

\* The callback of an open that is no longer awaited.
OpenedLate(h) == AskedToClose([h EXCEPT !.native = "open", !.open = "none"])

-----------------------------------------------------------------------------
(* The owned port *)

Disowned == port' = NoPort /\ portState' = "none"
StaysOwned == UNCHANGED <<port, portState>>

\* open: a port is owned before its native open has begun.
OpenBegins(p) ==
    /\ port = NoPort
    /\ handles[p] = NewHandle
    /\ \A q \in Ports : q < p => handles[q] # NewHandle
    /\ port' = p
    /\ portState' = "opening"
    /\ handles' = [handles EXCEPT ![p] =
           [@ EXCEPT !.native = "opening", !.open = "pending",
                     !.listeners = "own"]]
    /\ UNCHANGED writes

\* The native open answers within its deadline.
OpenSucceeds(p) ==
    /\ handles[p].open = "pending"
    /\ port = p
    /\ portState' = "open"
    /\ handles' = [handles EXCEPT ![p] = [@ EXCEPT !.native = "open",
                                                   !.open = "none"]]
    /\ UNCHANGED <<port, writes>>

OpenFails(p) ==
    /\ handles[p].open = "pending"
    /\ Disowned
    /\ handles' = [handles EXCEPT ![p] =
           Abandoned([@ EXCEPT !.native = "closed", !.open = "none"])]
    /\ UNCHANGED writes

OpenTimesOut(p) ==
    /\ handles[p].open = "pending"
    /\ Disowned
    /\ handles' = [handles EXCEPT ![p] = Abandoned([@ EXCEPT !.open = "late"])]
    /\ UNCHANGED writes

\* The native open answers after its deadline.
OpenSucceedsLate(p) ==
    /\ handles[p].open = "late"
    /\ handles' = [handles EXCEPT ![p] = OpenedLate(@)]
    /\ StaysOwned /\ UNCHANGED writes

OpenFailsLate(p) ==
    /\ handles[p].open = "late"
    /\ handles' = [handles EXCEPT ![p] = [@ EXCEPT !.native = "closed",
                                                   !.open = "none"]]
    /\ StaysOwned /\ UNCHANGED writes

\* The native handle is gone: #finalizeClosedPort for the owner, cleanup for
\* a guarded orphan.  Clears what `answered` names of the handle's calls.
Closes(p, answered) ==
    /\ IF port = p THEN Disowned ELSE StaysOwned
    /\ handles' = [handles EXCEPT ![p] =
           [answered EXCEPT !.native = "closed", !.listeners = "none"]]
    /\ UNCHANGED writes

\* close
CloseBegins ==
    /\ portState' = "closing"
    /\ handles' = [handles EXCEPT ![port] = [@ EXCEPT !.close = TRUE]]
    /\ UNCHANGED <<port, writes>>

CloseSucceeds(p) ==
    /\ handles[p].close
    /\ Closes(p, [handles[p] EXCEPT !.close = FALSE])

\* The rejected close keeps the port: it stays owned, in state "closing".
CloseFails(p) ==
    /\ handles[p].close
    /\ handles' = [handles EXCEPT ![p].close = FALSE]
    /\ StaysOwned /\ UNCHANGED writes

CloseTimesOut(p) ==
    /\ handles[p].close
    /\ handles' = [handles EXCEPT ![p] = [@ EXCEPT !.close = FALSE,
                                                   !.lateClose = TRUE]]
    /\ StaysOwned /\ UNCHANGED writes

CloseSucceedsLate(p) ==
    /\ handles[p].lateClose
    /\ Closes(p, [handles[p] EXCEPT !.lateClose = FALSE])

CloseFailsLate(p) ==
    /\ handles[p].lateClose
    /\ handles' = [handles EXCEPT ![p].lateClose = FALSE]
    /\ StaysOwned /\ UNCHANGED writes

OrphanCloses(p) ==
    /\ handles[p].orphanClose = "asked"
    /\ Closes(p, [handles[p] EXCEPT !.orphanClose = "answered"])

OrphanCloseFails(p) ==
    /\ handles[p].orphanClose = "asked"
    /\ handles' = [handles EXCEPT ![p].orphanClose = "answered"]
    /\ StaysOwned /\ UNCHANGED writes

\* The cable is pulled: the native 'close' event.
PortGoes(p) ==
    /\ handles[p].native = "open"
    /\ Closes(p, handles[p])

-----------------------------------------------------------------------------
(* Writing *)

Writable == port # NoPort /\ portState = "open" /\ handles[port].native = "open"

\* write and drain share one deadline; between them, and after them, the port
\* must still be the one that was written to.
Intact(w) == port = w.port /\ Writable

Drains(w) ==
    /\ w \in writes /\ w.phase = "write" /\ Intact(w)
    /\ writes' = (writes \ {w}) \cup {[w EXCEPT !.phase = "drain"]}
    /\ UNCHANGED <<port, portState, handles>>

Completes(w) == w \in writes /\ w.phase = "drain" /\ Intact(w)

\* A native error, the deadline, or a port that is no longer the same.  A port
\* that is still owned and open is faulted, and says so.
FaultsPort(w) == port = w.port /\ portState = "open"

WriteFails(w) ==
    /\ w \in writes
    /\ writes' = writes \ {w}
    /\ portState' = IF FaultsPort(w) THEN "faulted" ELSE portState
    /\ UNCHANGED <<port, handles>>

-----------------------------------------------------------------------------
(* Properties *)

\* A native port that is open belongs to the transport or has been told to
\* close: an open that answers after its deadline, a close that answers after
\* its own and a replaced port leave no device held by nobody, which the next
\* exclusive open would find locked (open, #abandonOpeningPort,
\* #requestOrphanClose).  And a handle that may still emit 'error' has a
\* listener for it: an EventEmitter without one throws, which would end the
\* main process (#attachPortListeners, #guardOrphanPort, #finalizeClosedPort).
PortsAreGuarded ==
    /\ \A p \in Ports : handles[p].native = "open" =>
         port = p \/ handles[p].orphanClose # "no"
    /\ \A p \in Ports : handles[p].native \in {"opening", "open"} =>
         handles[p].listeners # "none"
=============================================================================
