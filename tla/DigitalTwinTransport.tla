------------------------ MODULE DigitalTwinTransport ------------------------
(***************************************************************************)
(* RenodeDigitalTwinTransport behind PhysicalOrTwinTransport (packages/    *)
(* tinysa/src/digital-twin-transport.ts): open() and close() overtake each *)
(* other over one TwinBridge, whose process may stop, hang, say nonsense   *)
(* or leave processes behind at any time; the shell adapter keeps a copy   *)
(* of the firmware's mode and output and only forwards what changes it.    *)
(*                                                                         *)
(* The device above writes as device.ts and its scheduler do: output off   *)
(* before every change of mode and every acquisition, and after a command  *)
(* has missed its deadline nothing but output off until the close.         *)
(***************************************************************************)
EXTENDS TwinBridge, FiniteSets

CONSTANTS
    MaxLaunches,  \* bound on the bridges ever launched
    MaxAsked      \* bound on the output-offs written after one another, unanswered

ASSUME LaunchesAssumption == MaxLaunches \in Nat \ {0} /\ MaxAsked \in Nat \ {0}

Launches == 1..MaxLaunches
NoBridge == 0

VARIABLES
    clients,  \* every bridge that was launched
    client,   \* #client
    open,     \* #open
    opening,  \* #openAttempt and how far #openOnce has come
    closing,  \* #closeAttempt (and #closing) and how far #closeOnce has come
    active,   \* PhysicalOrTwinTransport.#active is the twin
    teardownOnly,
    mode, configured, enabled,  \* #mode, #generatorConfigured, #generatorEnabled
    shell     \* what the device may write next

emulation == <<mode, configured, enabled>>
routing == <<active, teardownOnly>>
twinVars == <<clients, client, open, opening, closing, active, teardownOnly,
              mode, configured, enabled, shell>>

TwinInit ==
    /\ clients = [l \in Launches |-> Unborn]
    /\ client = NoBridge /\ open = FALSE
    /\ opening = "none" /\ closing = "none"
    /\ active = FALSE /\ teardownOnly = FALSE
    /\ mode = "input" /\ configured = FALSE /\ enabled = FALSE
    /\ shell = "free"

Bridge == clients[client]
Becomes(c) == clients' = [clients EXCEPT ![client] = c]

\* Faulty variant: the next bridge is taken to be as the last one was left.
KeepEmulatedSession == UNCHANGED <<mode, configured, enabled>>

\* #resetEmulatedSession
ResetEmulatedSession == mode' = "input" /\ configured' = FALSE /\ enabled' = FALSE

-----------------------------------------------------------------------------
(* open() *)

MayOpen == ~open /\ client = NoBridge /\ opening = "none" /\ closing = "none"

\* PhysicalOrTwinTransport.open and the synchronous part of open()
OpenBegins ==
    /\ ~active /\ MayOpen
    /\ \E l \in Launches : clients[l].state = "unborn"
    /\ opening' = "launch" /\ active' = TRUE /\ teardownOnly' = FALSE
    /\ shell' = "free"
    /\ UNCHANGED <<clients, client, open, closing, emulation>>

\* The bridge command is refused before a process exists.
LaunchFails ==
    /\ opening = "launch"
    /\ opening' = "none" /\ teardownOnly' = TRUE
    /\ UNCHANGED <<clients, client, open, closing, active, emulation, shell>>

\* An overtaking close() turns the launch into a cleanup.
Launched ==
    /\ opening = "launch"
    /\ \E l \in Launches :
         /\ clients[l].state = "unborn"
         /\ \A k \in 1..(l - 1) : clients[k].state # "unborn"
         /\ client' = l
         /\ clients' = [clients EXCEPT ![l] = IF closing = "none" THEN NewClient
                                              ELSE Close(NewClient)]
    /\ opening' = IF closing = "none" THEN "boot" ELSE "cleanup"
    /\ UNCHANGED <<open, closing, routing, emulation, shell>>

StillWanted == Bridge.state = "ready" /\ closing = "none"

\* The continuation of `await starting`
OpenContinues ==
    /\ opening = "boot" /\ Bridge.state # "booting"
    /\ IF StillWanted
       THEN opening' = "none" /\ open' = TRUE /\ UNCHANGED clients
       ELSE opening' = "cleanup" /\ open' = FALSE /\ Becomes(Close(Bridge))
    /\ UNCHANGED <<client, closing, routing, emulation, shell>>

-----------------------------------------------------------------------------
(* close() *)

CloseBegins ==
    /\ active /\ closing = "none"
    /\ open' = FALSE
    /\ IF client = NoBridge /\ opening = "none"
       THEN active' = FALSE /\ teardownOnly' = FALSE /\ UNCHANGED <<closing, clients>>
       ELSE /\ teardownOnly' = TRUE /\ UNCHANGED active
            /\ closing' = IF opening = "none" THEN "client"
                          ELSE IF client = NoBridge THEN "opening" ELSE "boot"
            /\ clients' = IF client = NoBridge THEN clients
                          ELSE [clients EXCEPT ![client] = Close(@)]
    /\ UNCHANGED <<client, opening, emulation, shell>>

\* The continuation of `await opening`
OpeningWaited ==
    /\ closing = "opening" /\ opening = "none"
    /\ IF client = NoBridge
       THEN /\ closing' = "none" /\ active' = FALSE /\ teardownOnly' = FALSE
            /\ UNCHANGED clients
       ELSE closing' = "client" /\ Becomes(Close(Bridge)) /\ UNCHANGED routing
    /\ UNCHANGED <<client, open, opening, emulation, shell>>

ClientReleased == Bridge.call = "ok"

\* Everyone who waits for the bridge's close() goes on: #openOnce after a
\* failed start, #closeOnce before and after the wait for the opening.
CallSettles ==
    /\ client # NoBridge /\ Bridge.call \in {"ok", "failed"}
    /\ opening = "cleanup" \/ closing \in {"boot", "client"}
    /\ IF Bridge.call = "failed" THEN Becomes([Bridge EXCEPT !.call = "none"])
       ELSE UNCHANGED clients
    /\ client' = IF ClientReleased /\ (opening = "cleanup" \/ closing = "client")
                 THEN NoBridge ELSE client
    /\ opening' = IF opening = "cleanup" THEN "none" ELSE opening
    /\ closing' = IF closing = "boot" THEN "opening"
                  ELSE IF closing = "client" THEN "none" ELSE closing
    /\ IF closing = "client" /\ Bridge.call = "ok"
       THEN /\ ResetEmulatedSession
            /\ active' = FALSE /\ teardownOnly' = FALSE
       ELSE /\ UNCHANGED <<emulation, active>>
            /\ teardownOnly' \in {teardownOnly \/ opening = "cleanup"}
    /\ UNCHANGED <<open, shell>>

-----------------------------------------------------------------------------
(* The bridge *)

\* #poison with its notice to the transport, which a closing one ignores.
Poisons(l, c) ==
    /\ clients' = [clients EXCEPT ![l] = c]
    /\ open' = (open /\ ~(l = client /\ closing = "none" /\ c.state = "faulted"))
    /\ shell' = IF c.asked = << >> /\ shell = "busy" THEN "lost" ELSE shell
    /\ UNCHANGED <<client, opening, closing, routing, emulation>>

Ready(l) ==
    /\ clients[l].state = "booting" /\ clients[l].exit = "none"
    /\ clients' = [clients EXCEPT ![l].state = "ready"]
    /\ UNCHANGED <<client, open, opening, closing, routing, emulation, shell>>

\* Faulty variant: the shutdown request is sent without a timer.
TimedUnlessClosing(c) == c.state = "booting" \/ (c.state = "ready" /\ c.asked # << >>)

Timed(c) == c.state = "booting" \/ c.asked # << >>

\* The boot deadline or that of a request
DeadlinePasses(l) == Timed(clients[l]) /\ Poisons(l, Poison(clients[l]))

\* A malformed, unknown or fatal frame, a write that fails, the end of stdout,
\* an error of the process
Breaks(l) ==
    /\ clients[l].state \in {"booting", "ready", "closing"}
    /\ Poisons(l, Poison(clients[l]))

Exits(l, how) ==
    /\ clients[l].state # "unborn" /\ clients[l].exit = "none"
    /\ Poisons(l, Exited(clients[l], how))

\* The last process of the group is gone, of itself or killed.
GroupGoes(l) ==
    /\ clients[l].exit # "none" /\ clients[l].group
    /\ clients' = [clients EXCEPT ![l].group = FALSE]
    /\ UNCHANGED <<client, open, opening, closing, routing, emulation, shell>>

\* The exit, the confirmation and the termination of a close, or their deadlines
ClientMoves(l) ==
    LET c == clients[l]
    IN /\ \/ c.call = "exit" /\ clients' = [clients EXCEPT ![l] = ExitHeard(c)]
          \/ c.call = "confirm" /\ ~c.group
             /\ clients' = [clients EXCEPT ![l] = Confirmed(c)]
          \/ c.call = "confirm" /\ c.group
             /\ clients' = [clients EXCEPT ![l] = CloseFails(c)]
          \/ c.termination = "running" /\ c.exit # "none" /\ ~c.group
             /\ clients' = [clients EXCEPT ![l] = Terminated(c)]
          \/ c.termination = "running" /\ (c.exit = "none" \/ c.group)
             /\ clients' = [clients EXCEPT ![l] = TerminationFails(c)]
       /\ UNCHANGED <<client, open, opening, closing, routing, emulation, shell>>

-----------------------------------------------------------------------------
(* The shell adapter *)

Writable ==
    /\ active /\ ~teardownOnly /\ open /\ client # NoBridge
    /\ Len(Bridge.asked) < MaxAsked

Forwards(method) ==
    /\ IF Bridge.state = "ready"
       THEN Becomes(Request(Bridge, method)) /\ shell' = IF shell = "lost" THEN "lost" ELSE "busy"
       ELSE shell' = "lost" /\ UNCHANGED clients
    /\ UNCHANGED emulation

\* output off and output on: only a change of a configured output is forwarded.
WriteOutput(on) ==
    /\ Writable
    /\ IF on THEN shell \in {"free", "quiet"} /\ mode = "output" /\ configured
       ELSE shell # "busy"
    /\ IF mode = "output" /\ configured /\ on # enabled
       THEN Forwards(IF on THEN "on" ELSE "off")
       ELSE /\ enabled' = on
            /\ shell' = IF shell = "lost" THEN "lost" ELSE IF on THEN "free" ELSE "quiet"
            /\ UNCHANGED <<mode, configured, clients>>
    /\ UNCHANGED <<client, open, opening, closing, routing>>

\* mode input, mode output
WriteMode(m) ==
    /\ Writable /\ shell = "quiet"
    /\ mode' = m /\ enabled' = FALSE /\ shell' = "free"
    /\ configured' = (configured /\ m = "output")
    /\ UNCHANGED <<clients, client, open, opening, closing, routing>>

\* modulation off, am, fm: the generator is configured.  scan: a sweep.
WriteForwarded(method) ==
    /\ Writable
    /\ \/ method = "configure" /\ mode = "output" /\ shell \in {"free", "quiet"} /\ ~enabled
       \/ method = "acquire" /\ mode = "input" /\ shell = "quiet"
    /\ Forwards(method)
    /\ UNCHANGED <<client, open, opening, closing, routing>>

EnabledAfter(method) ==
    IF method = "on" THEN TRUE
    ELSE IF method \in {"off", "configure"} THEN FALSE ELSE enabled

\* A response and the continuation of the write that waits for it; what stdout
\* still holds is heard after a clean exit too.
Responds(l) ==
    LET method == Head(clients[l].asked)
    IN /\ clients[l].asked # << >>
       /\ clients' = [clients EXCEPT ![l] = Responded(@)]
       /\ enabled' = EnabledAfter(method)
       /\ configured' = (configured \/ method = "configure")
       /\ shell' = IF shell # "busy" \/ method = "shutdown" THEN shell
                   ELSE IF method = "off" THEN "quiet" ELSE "free"
       /\ UNCHANGED <<client, open, opening, closing, routing, mode>>

RespondsError(l) ==
    /\ clients[l].asked # << >>
    /\ clients' = [clients EXCEPT ![l] = Refused(@)]
    /\ shell' = IF shell = "busy" /\ Head(clients[l].asked) # "shutdown" THEN "lost" ELSE shell
    /\ UNCHANGED <<client, open, opening, closing, routing, emulation>>

\* The scheduler's deadline, which is shorter than the bridge's
DeviceGivesUp ==
    /\ shell = "busy" /\ shell' = "lost"
    /\ UNCHANGED <<clients, client, open, opening, closing, routing, emulation>>

-----------------------------------------------------------------------------

Moves(l) ==
    \/ Ready(l) \/ DeadlinePasses(l) \/ Breaks(l) \/ GroupGoes(l) \/ ClientMoves(l)
    \/ Responds(l) \/ RespondsError(l)
    \/ \E how \in {"clean", "dirty"} : Exits(l, how)

Device ==
    \/ \E on \in BOOLEAN : WriteOutput(on)
    \/ \E m \in {"input", "output"} : WriteMode(m)
    \/ \E method \in {"configure", "acquire"} : WriteForwarded(method)
    \/ DeviceGivesUp

TwinNext ==
    \/ OpenBegins \/ LaunchFails \/ Launched \/ OpenContinues
    \/ CloseBegins \/ OpeningWaited \/ CallSettles
    \/ Device
    \/ \E l \in Launches : Moves(l)

\* Continuations run, and every deadline passes.
TwinFairness ==
    /\ WF_twinVars(LaunchFails \/ Launched \/ OpenContinues \/ OpeningWaited \/ CallSettles)
    /\ \A l \in Launches : WF_twinVars(ClientMoves(l)) /\ WF_twinVars(DeadlinePasses(l))

TwinSpec == TwinInit /\ [][TwinNext]_twinVars /\ TwinFairness

-----------------------------------------------------------------------------
(* Properties *)

\* The types, and an open transport has a bridge that is ready: open() resolves
\* only over a ready bridge, and what ends the bridge ends the transport before
\* anyone can write again.
TwinInv ==
    /\ clients \in [Launches -> Clients]
    /\ client \in {NoBridge} \cup Launches
    /\ opening \in {"none", "launch", "boot", "cleanup"}
    /\ closing \in {"none", "opening", "boot", "client"}
    /\ {open, active, teardownOnly, configured, enabled} \subseteq BOOLEAN
    /\ mode \in {"input", "output"} /\ shell \in {"free", "quiet", "busy", "lost"}
    /\ open => client # NoBridge /\ Bridge.state = "ready"

\* Whatever open() and close() overtake, no process of a bridge is left alive
\* that the transport does not hold: the next close() reaches it.  A bridge
\* counts as closed only when no process of its group is left, not when the
\* shell that leads the group has gone.
GroupsAreOwned ==
    /\ TwinInv
    /\ \A l \in Launches :
          /\ clients[l].group => l = client
          /\ clients[l].state = "closed" => clients[l].exit # "none" /\ ~clients[l].group

\* Between the requests the adapter's copy of the output is the firmware's, over
\* any number of modes, configurations, refusals, closes and new bridges: a
\* stale 'on' would swallow the next output-off.
ShadowAgrees ==
    open /\ Bridge.asked = << >> => enabled = Bridge.rf

\* Every open(), close() and forwarded write is answered, whatever the bridge
\* does: each wait of theirs has a deadline.
TwinCallsEnd ==
    /\ opening # "none" ~> opening = "none"
    /\ closing # "none" ~> closing = "none"
    /\ shell = "busy" ~> shell # "busy"

=============================================================================
