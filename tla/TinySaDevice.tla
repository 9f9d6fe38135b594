---------------------------- MODULE TinySaDevice ----------------------------
(***************************************************************************)
(* The TinySA device service (packages/tinysa/src/device.ts) under its     *)
(* instrument session (tinysa-instrument-driver.ts): connection, RF-off    *)
(* acknowledgements and teardown over a serial port and a command          *)
(* scheduler (scheduler.ts) that can fail in the middle of any command.    *)
(*                                                                         *)
(* InstrumentManager calls one operation at a time and so does this model. *)
(* An operation is a script of shell commands and port calls.  Its code    *)
(* runs in microtasks between two answers, so ports, timers and failing    *)
(* writes are heard only while a script waits or nothing runs.  The port   *)
(* is that of a physical device.                                           *)
(***************************************************************************)
EXTENDS Naturals, Sequences

CONSTANT MaxMishaps  \* bound on refusals, time-outs and losses of the port

ASSUME MishapAssumption == MaxMishaps \in Nat

VARIABLES
    device,   \* the fields of TinySaDeviceService
    port,     \* the transport holds an open port
    stale,    \* a canceled scheduler still awaits its write to the port (the
              \* model keeps at most one)
    firmware, \* what answers at the port
    session,  \* what the driver has admitted: "none", "receiveOnly", "rf"
    bound,    \* #configuration of that session: what it measures, or "none"
    op,       \* the running operation
    panel,    \* ghost: what the device has been set to, "unknown" in between
    live,     \* ghost: RF may be on since the port opened or a command set it
    mishaps   \* how much has gone wrong

driver == <<firmware, session, bound>>
ghosts == <<panel, live>>
vars == <<device, port, stale, driver, op, ghosts, mishaps>>

-----------------------------------------------------------------------------
(* Data *)

\* What the shell is told.  "identify" and "scan" go to a scheduler that was
\* looked up before; every other command looks it up with #ready.
Commands == {"off", "on", "mode", "identify", "readback", "probe", "touch",
             "scan"}
PortCalls == {"open", "close", "shut"}

\* A custom shell's help probes are untrusted, a touch operates the panel.
Emitting == {"on", "touch", "probe"}

\* These may leave the device set to something else.
Retuning == {"mode", "touch", "probe"}

\* What the driver measures, and what the device can be configured for.
Measurements == {"analyzer", "zeroSpan"}
Modes == Measurements \cup {"generator"}

Kinds == {"none", "connect", "restore", "abort", "silence", "disconnect",
          "acquire", "on", "off", "inspect", "touch", "recover"} \cup Modes

\* Supported firmware whose help lists what a generator needs, the same
\* without, and custom firmware, which is only trusted to receive.
Firmwares == {"generator", "receiver", "custom"}

\* generatorAdvertised, and the features of the session that follow from it
Admitted == IF firmware = "generator" THEN "rf" ELSE "receiveOnly"

\* screenCapture, remoteTouch: granted to the full firmware profile
PanelAdvertised == firmware # "custom"

\* tinySaSessionProvenance: an identity that contradicts the candidate or its own
\* qualification is not admitted.
Admissions == {"none", Admitted}

\* The head of the script is under way when it has been sent.  attested: an
\* output-off receipt is newer than the operation.
NoOp == [kind |-> "none", script |-> <<>>, sent |-> FALSE, attested |-> FALSE]
Run(kind, script) ==
    [kind |-> kind, script |-> script, sent |-> FALSE, attested |-> FALSE]
InFlight(items) == op.sent /\ op.script # <<>> /\ Head(op.script) \in items

\* Why the last output-off was sent that has a receipt.
Receipts == {"none", "first", "configuration", "acquisition", "recovery",
             "disconnect"}

\* disconnectedSnapshot() and the fields that are cleared with it.  `mode` is
\* what the device is configured for: #analyzer, #zeroSpan or the generator of
\* the snapshot.
Disconnected == [connection |-> "disconnected", scheduler |-> "none",
                 offAcknowledged |-> FALSE, teardownAcknowledged |-> FALSE,
                 output |-> "unknown", mode |-> "idle", receipt |-> "none"]

Devices == [connection : {"disconnected", "connecting", "identifying", "ready",
                          "disconnecting", "faulted"},
            scheduler : {"none", "ok", "faulted"},
            offAcknowledged : BOOLEAN, teardownAcknowledged : BOOLEAN,
            output : {"unknown", "off", "on"},
            mode : Modes \cup {"idle"}, receipt : Receipts]

\* Types; and a scheduler never outlives the port whose bytes it reads.
DeviceTypeOK ==
    /\ device \in Devices
    /\ port \in BOOLEAN
    /\ stale \in BOOLEAN
    /\ firmware \in Firmwares
    /\ session \in {"none", "receiveOnly", "rf"}
    /\ bound \in Measurements \cup {"none"}
    /\ op \in [kind : Kinds, script : Seq(Commands \cup PortCalls),
               sent : BOOLEAN, attested : BOOLEAN]
    /\ panel \in Modes \cup {"unknown"}
    /\ live \in BOOLEAN
    /\ mishaps \in 0..MaxMishaps
    /\ device.scheduler # "none" => port

Init ==
    /\ device = Disconnected
    /\ port = FALSE
    /\ stale = FALSE
    /\ firmware \in Firmwares
    /\ session = "none"
    /\ bound = "none"
    /\ op = NoOp
    /\ panel = "unknown"
    /\ live = FALSE
    /\ mishaps = 0

-----------------------------------------------------------------------------
(* Handlers on the fields *)

\* #ready
Ready(d) ==
    /\ d.connection \in {"ready", "identifying", "disconnecting"}
    /\ d.scheduler = "ok"

\* #handleSchedulerFault
Faulted(d) ==
    IF d.connection = "disconnected" THEN d
    ELSE [d EXCEPT !.connection = "faulted", !.output = "unknown",
                   !.offAcknowledged = FALSE, !.teardownAcknowledged = FALSE]

\* #handleTransportEvent: a retained teardown acknowledgement outlives it.
PortLost(d) ==
    [d EXCEPT !.connection = "faulted", !.scheduler = "none", !.mode = "idle",
              !.offAcknowledged = @ /\ d.teardownAcknowledged,
              !.output = IF d.teardownAcknowledged THEN "off" ELSE "unknown"]

\* #command: an output-off that is not acknowledged
OffRefused(d) ==
    [d EXCEPT !.connection = "faulted", !.output = "unknown",
              !.offAcknowledged = FALSE]

\* #configurationFailure
ConfigurationFailed(d) ==
    [d EXCEPT !.mode = "idle",
              !.output = IF d.offAcknowledged THEN "off" ELSE "unknown"]

\* setGeneratorOutput, the output command failed
OutputUncertain(d) ==
    [d EXCEPT !.offAcknowledged = FALSE, !.teardownAcknowledged = FALSE,
              !.output = "unknown"]

\* disconnect, the output-off or its channel failed
TeardownFailed(d) ==
    [d EXCEPT !.connection = "faulted", !.offAcknowledged = FALSE,
              !.teardownAcknowledged = FALSE, !.output = "unknown",
              !.mode = "idle"]

\* #recordReceiveOnlySafetyReceipt.  Without the receipt of the connection,
\* whose first command is an output-off, nothing is recorded.
Reason ==
    CASE op.kind = "connect" /\ device.receipt = "none" -> "first"
      [] op.kind = "acquire" -> "acquisition"
      [] op.kind = "recover" -> "recovery"
      [] op.kind = "disconnect" -> "disconnect"
      [] OTHER -> "configuration"
Receipt == IF device.receipt = "none" /\ Reason # "first" THEN "none" ELSE Reason

\* connect failed and its port could not be released
Retained(d) ==
    [d EXCEPT !.connection = "faulted", !.mode = "idle",
              !.output = IF d.offAcknowledged THEN "off" ELSE "unknown"]

-----------------------------------------------------------------------------
(* How operations go on *)

Start(d, operation) == device' = d /\ op' = operation
Return(d) == Start(d, NoOp)

\* Faulty variant: the teardown trusts a faulted channel.
BeginTeardownOnOldChannel(d) ==
    Start([d EXCEPT !.connection = "disconnecting"],
          Run("disconnect", IF d.teardownAcknowledged THEN <<"close">>
                            ELSE <<"off", "close">>))

\* disconnect: nothing is repeated that has been acknowledged; a channel that
\* is lost or out of step is opened again (#ensureTeardownCommandChannel).
BeginTeardown(d) ==
    Start([d EXCEPT !.connection = "disconnecting"],
          Run("disconnect",
              IF d.teardownAcknowledged THEN <<"close">>
              ELSE IF d.scheduler = "ok" THEN <<"off", "close">>
              ELSE <<"shut", "open", "off", "close">>))

\* After a touch a receive-only session sends output-off, whether the touch
\* succeeded or not.
AfterTouch(d) ==
    Start(d, IF session = "receiveOnly" /\ Ready(d)
             THEN Run("recover", <<"off">>) ELSE NoOp)

\* Faulty variant: a failed connect always releases its port.
ConnectFailsReleasing(d) == Start(d, Run("abort", <<"close">>))

\* The catch of connect: the port is released only if it never opened or the
\* output is acknowledged off.
ConnectFails(d) ==
    IF InFlight({"open"}) \/ d.offAcknowledged
      THEN Start(d, Run("abort", <<"close">>))
      ELSE Return(Retained(d))

\* The call or command at the head of the script failed and left the fields d.
Fails(d) ==
    LET failed == Head(op.script)
    IN CASE failed = "probe" -> Start(d, Run("restore", <<"off", "mode", "readback">>))
         [] op.kind \in {"connect", "restore"} /\ failed # "probe" -> ConnectFails(d)
         [] op.kind = "abort" -> Return(Retained(d))
         [] op.kind = "disconnect" ->
              Return(IF failed = "close"
                     THEN [d EXCEPT !.connection = "faulted", !.output = "off",
                                    !.mode = "idle"]
                     ELSE TeardownFailed(d))
         [] op.kind \in Modes -> Return(ConfigurationFailed(d))
         [] op.kind \in {"on", "off", "silence", "recover"} ->
              Return(OutputUncertain(d))
         [] op.kind \in {"acquire", "inspect"} -> Return(d)
         [] op.kind = "touch" -> AfterTouch(d)

\* The same for the command in flight, whose own handler comes first.
CommandFails(d) == Fails(IF InFlight({"off"}) THEN OffRefused(d) ELSE d)

\* The last item of the script succeeded and left the fields d.
Completes(d) ==
    CASE op.kind = "connect" ->
           Return([d EXCEPT !.connection = "ready", !.mode = "idle",
                            !.output = "off"])
      [] op.kind = "restore" -> ConnectFails(d)
      [] op.kind = "silence" -> BeginTeardown([d EXCEPT !.output = "off"])
      [] op.kind \in {"abort", "disconnect"} -> Return(Disconnected)
      [] op.kind \in Modes ->
           Return([d EXCEPT !.connection = "ready", !.mode = op.kind,
                            !.output = "off"])
      [] op.kind \in {"on", "off"} -> Return([d EXCEPT !.output = op.kind])
      [] op.kind = "recover" -> Return([d EXCEPT !.output = "off"])
      [] op.kind = "acquire" ->
           Return([d EXCEPT !.output = IF d.mode = "zeroSpan" THEN "off" ELSE @])
      [] op.kind = "inspect" -> Return(d)
      [] op.kind = "touch" -> AfterTouch(d)

-----------------------------------------------------------------------------
(* Scripts *)

\* The first commands of a connection are an output-off and the identity.
Identification == <<"open", "off", "identify", "off", "mode", "readback">>

\* The probes of a custom shell, and what brings it back to its receive state;
\* supported firmware is known by its commands.
Probes == IF firmware = "custom" THEN <<"probe", "off", "mode", "readback">>
          ELSE <<>>

AnalyzerSettings == <<"off", "mode", "readback">>
ZeroSpanSettings == <<"off", "mode", "readback">>
GeneratorSettings == <<"off", "mode", "off", "mode">>

\* The output-off that the session of a device without generator sends of its
\* own, before that of the device service.
Precaution == IF session = "receiveOnly" THEN <<"off">> ELSE <<>>

\* The stored traces of supported firmware are read after a sweep.
StoredTraces == {<<>>} \cup {traces \in {<<"readback">>} : PanelAdvertised}

\* A raw sweep reads its offset first.
Sweep(zero, traces) ==
    Precaution \o <<"off">> \o zero \o <<"scan">> \o traces
Capture == Precaution \o <<"off">> \o <<"scan">>

-----------------------------------------------------------------------------
(* Calls *)

\* connect
Connect ==
    /\ op = NoOp
    /\ session = "none"
    /\ device.connection = "disconnected"
    /\ firmware' \in Firmwares
    /\ Start([Disconnected EXCEPT !.connection = "connecting"],
             Run("connect", Identification \o Probes' \o <<"readback">>))
    /\ UNCHANGED <<port, stale, session, bound, ghosts, mishaps>>

Called == UNCHANGED <<port, stale, firmware, session, ghosts, mishaps>>

\* cleanupPendingInstrumentConnection, for a device without a session
Cleanup ==
    /\ op = NoOp
    /\ session = "none"
    /\ device.connection # "disconnected"
    /\ BeginTeardown(device)
    /\ Called /\ UNCHANGED bound

\* InstrumentManager.#disconnect: a session with a generator first executes
\* set-output false, which needs #ready unless the teardown got that far; a
\* call that is refused changes nothing.
Disconnect ==
    /\ op = NoOp
    /\ \/ /\ session = "receiveOnly"
          /\ BeginTeardown(device)
       \/ /\ session = "rf"
          /\ device.connection = "faulted"
          /\ device.teardownAcknowledged
          /\ BeginTeardown(device)
       \/ /\ session = "rf"
          /\ Ready(device)
          /\ Start(device, Run("silence", <<"off">>))
    /\ Called /\ UNCHANGED bound

Operation(kind, script) ==
    /\ op = NoOp
    /\ session # "none"
    /\ Ready(device)
    /\ Start(IF kind \in Modes
             THEN [device EXCEPT !.mode = "idle", !.output = "unknown"]
             ELSE IF kind = "touch"
             THEN [device EXCEPT !.offAcknowledged = FALSE,
                                 !.teardownAcknowledged = FALSE]
             ELSE device,
             Run(kind, script))
    /\ Called

\* The device refuses before it does anything: it is not ready, or what it is
\* asked is out of its range.
Refuses == op = NoOp /\ session # "none" /\ UNCHANGED <<device, op>> /\ Called

\* Faulty variant: the binding is revoked when the device has accepted.
KeepConfiguration == UNCHANGED bound

\* #clearConfiguration: before the dispatch, so that nothing is measured under
\* it if the operation fails halfway.
ClearConfiguration == bound' = "none"

ConfigureAnalyzer ==
    /\ Operation("analyzer", AnalyzerSettings) \/ Refuses
    /\ ClearConfiguration
ConfigureZeroSpan ==
    /\ Operation("zeroSpan", ZeroSpanSettings) \/ Refuses
    /\ ClearConfiguration
ConfigureGenerator ==
    /\ session = "rf"
    /\ Operation("generator", GeneratorSettings) \/ Refuses
    /\ ClearConfiguration

\* The session measures what it has bound; the service, what it is set to.
AcquireSweep ==
    /\ bound = "analyzer" /\ device.mode = "analyzer"
    /\ \E zero \in {<<>>, <<"identify">>}, traces \in StoredTraces :
         Operation("acquire", Sweep(zero, traces))
    /\ UNCHANGED bound
AcquireZeroSpan ==
    /\ bound = "zeroSpan" /\ device.mode = "zeroSpan"
    /\ Operation("acquire", Capture)
    /\ UNCHANGED bound

\* setGeneratorOutput as a feature of the session
OutputOn ==
    /\ session = "rf"
    /\ device.mode = "generator"
    /\ Operation("on", <<"on">>)
    /\ UNCHANGED bound
OutputOff ==
    /\ session = "rf"
    /\ Operation("off", <<"off">>)
    /\ UNCHANGED bound

ReadDiagnostics ==
    /\ Operation("inspect", <<"readback", "readback">>)
    /\ UNCHANGED bound
CaptureScreen ==
    /\ PanelAdvertised
    /\ Operation("inspect", <<"identify">>)
    /\ UNCHANGED bound

\* touch and releaseTouch
Touch ==
    /\ PanelAdvertised
    /\ Operation("touch", <<"touch", "touch">>) \/ (Refuses /\ ~Ready(device))
    /\ ClearConfiguration

-----------------------------------------------------------------------------
(* Execution *)

\* Is the command at the head of the script accepted by the scheduler?
Accepted(item) ==
    IF item \in {"identify", "scan"} THEN device.scheduler = "ok"
    ELSE Ready(device)

\* The head of the script is sent; an output-off voids the last one first.
Transmit ==
    LET item == Head(op.script)
        d == IF item = "off" THEN [device EXCEPT !.offAcknowledged = FALSE]
             ELSE IF item = "shut" THEN [device EXCEPT !.scheduler = "none"]
             ELSE device
    IN /\ op.script # <<>>
       /\ ~op.sent
       /\ IF item \in PortCalls \/ Accepted(item)
            THEN /\ Start(d, [op EXCEPT !.sent = TRUE])
                 /\ live' = (live \/ item \in Emitting)
                 /\ panel' = IF item \in Retuning THEN "unknown" ELSE panel
            ELSE /\ Fails(IF item = "off" THEN OffRefused(d) ELSE d)
                 /\ UNCHANGED ghosts
       /\ UNCHANGED <<port, stale, driver, mishaps>>

\* What an acknowledgement does to the fields.
Acknowledged(item) ==
    CASE item = "off" ->
           [device EXCEPT !.offAcknowledged = TRUE,
                          !.teardownAcknowledged = @ \/ op.kind = "disconnect",
                          !.receipt = Receipt]
      [] item = "on" -> [device EXCEPT !.offAcknowledged = FALSE,
                                       !.teardownAcknowledged = FALSE]
      [] item = "open" ->
           [device EXCEPT !.scheduler = "ok",
                          !.connection = IF op.kind = "connect"
                                         THEN "identifying" ELSE @]
      [] OTHER -> device

Last == Len(op.script) = 1
Behind(item) == [op EXCEPT !.script = Tail(@), !.sent = FALSE,
                          !.attested = @ \/ (item = "off" /\ Receipt # "none")]

\* connect admits a session unless the driver rejects what it finds, in which
\* case the device is left to the cleanup; disconnect ends it.
SessionAfter ==
    IF Last /\ op.kind = "connect" THEN session' \in Admissions
    ELSE IF Last /\ op.kind = "disconnect" THEN session' = "none"
    ELSE UNCHANGED session

\* configure binds what the device has confirmed.
BoundAfter ==
    IF Last /\ op.kind \in Measurements THEN op.kind
    ELSE IF Last /\ op.kind = "disconnect" THEN "none"
    ELSE bound

\* The command or port call under way succeeds.
Answer ==
    LET item == Head(op.script)
        d == Acknowledged(item)
    IN /\ op.sent
       /\ IF Last THEN Completes(d) ELSE Start(d, Behind(item))
       /\ port' = ((port \/ item = "open") /\ item \notin {"close", "shut"})
       /\ live' = ((live \/ item = "open") /\ item # "off")
       /\ panel' = IF item = "open" THEN "unknown"
                   ELSE IF Last /\ op.kind \in Modes THEN op.kind ELSE panel
       /\ SessionAfter
       /\ bound' = BoundAfter
       /\ UNCHANGED <<stale, firmware, mishaps>>

-----------------------------------------------------------------------------
(* Mishaps *)

Mishap ==
    /\ mishaps < MaxMishaps
    /\ mishaps' = mishaps + 1

\* Code runs only between two waits.
Waiting == op.sent \/ op = NoOp

\* #closing
Closing == InFlight({"close", "shut"})
           \/ (InFlight({"open"}) /\ op.kind = "disconnect")

Refused(items) ==
    /\ InFlight(items)
    /\ Mishap
    /\ CommandFails(device)
    /\ UNCHANGED <<port, stale, driver, ghosts>>

\* assertFirmwareMutationAcknowledged: a setting is answered with a text.
SettingRefused == Refused({"off", "on", "mode", "touch"})

\* The identity or its help is not that of a ZS407; a readback is not a number
\* or not what was set; a probe names no range that could be used.
IdentityRejected == Refused({"identify"})
ReadbackRejected == Refused({"readback"})
ProbeRejected == Refused({"probe"})

\* The points of a sweep are not those that were asked for.
ScanRejected == Refused({"scan"})

\* A port call rejects.  A close that rejects is retained with its port.
PortCallRejects == Refused(PortCalls)

\* The scheduler loses its protocol: a time-out, a parser failure, or traffic
\* nobody asked for.
SchedulerFaults ==
    /\ Waiting
    /\ device.scheduler = "ok"
    /\ Mishap
    /\ LET d == [Faulted(device) EXCEPT !.scheduler = "faulted"]
       IN IF InFlight(Commands) THEN CommandFails(d) ELSE Start(d, op)
    /\ UNCHANGED <<port, stale, driver, ghosts>>

\* The port reports an error or is gone.  The command in flight is canceled;
\* its write may not have ended.
PortEvent ==
    /\ Waiting
    /\ port \/ InFlight({"open"})
    /\ ~Closing
    /\ device.connection # "disconnected"
    /\ Mishap
    /\ IF InFlight(Commands)
         THEN CommandFails(PortLost(device)) /\ stale' \in {stale, TRUE}
         ELSE Start(PortLost(device), op) /\ UNCHANGED stale
    /\ port' \in {port, FALSE}
    /\ UNCHANGED <<driver, ghosts>>

\* The write of a canceled scheduler fails at last.  The scheduler has not
\* failed before, so it reports to the device, whatever the device does now.
LateWriteFails ==
    /\ Waiting
    /\ stale
    /\ stale' = FALSE
    /\ Start(Faulted(device), op)
    /\ UNCHANGED <<port, driver, ghosts, mishaps>>

Next ==
    \/ Connect \/ Cleanup \/ Disconnect
    \/ ConfigureAnalyzer \/ ConfigureZeroSpan \/ ConfigureGenerator
    \/ AcquireSweep \/ AcquireZeroSpan
    \/ OutputOn \/ OutputOff \/ ReadDiagnostics \/ CaptureScreen \/ Touch
    \/ Transmit \/ Answer
    \/ SettingRefused \/ IdentityRejected \/ ReadbackRejected \/ ProbeRejected
    \/ ScanRejected \/ PortCallRejects
    \/ SchedulerFaults \/ PortEvent \/ LateWriteFails

SafetySpec == Init /\ [][Next]_vars

\* Code runs, what is sent is answered or fails, and whoever owns the device
\* keeps asking for its teardown.
Fairness ==
    /\ WF_vars(Transmit)
    /\ WF_vars(Answer)
    /\ WF_vars(Cleanup)
    /\ WF_vars(Disconnect)

Spec == SafetySpec /\ Fairness

-----------------------------------------------------------------------------
(* Properties *)

\* A measurement belongs to the configuration the session has bound: while its
\* scan runs, driver, service and device agree on what is measured, whatever
\* failed, was touched or was opened again before; and the output-off receipt
\* that goes with it was issued for this very acquisition.
MeasuresAsBound ==
    InFlight({"scan"}) =>
        /\ bound \in Measurements
        /\ device.mode = bound
        /\ panel = bound
        /\ op.attested
        /\ device.receipt = "acquisition"

\* The analyzer sweeps only after an output-off of this very connection was
\* acknowledged: nothing that may emit is on while `scan` runs.
ScansInSilence == DeviceTypeOK /\ (InFlight({"scan"}) => ~live)

\* The port of a device that may emit is never given up: the final close of a
\* failed connect or of a disconnect is called in silence, and a device reported
\* disconnected is silent, holds no port, no scheduler and no session.
ReleasesInSilence ==
    /\ InFlight({"close"}) => ~live
    /\ device.connection = "disconnected" =>
         ~live /\ ~port /\ device.scheduler = "none" /\ session = "none"

\* What the device does at its two dangerous moments, it does in silence.
ActsInSilence == ScansInSilence /\ ReleasesInSilence

\* Both: nothing is measured and nothing is released on what no longer holds.
ActsOnWhatHolds == ActsInSilence /\ MeasuresAsBound

\* A faulted device without a generator is left behind by retrying: it is
\* released, or a connect or configuration under way makes it ready.
ReceiveOnlyRecovers ==
    session # "rf" /\ device.connection = "faulted"
        ~> device.connection \in {"disconnected", "ready"}

\* The same of every session, as device.ts:930 describes the teardown of a
\* faulted protocol stream.
FaultedSessionRecovers ==
    device.connection = "faulted"
        ~> device.connection \in {"disconnected", "ready"}

=============================================================================
