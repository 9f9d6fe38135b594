---------------------------- MODULE MainProcess ----------------------------
(***************************************************************************)
(* The Electron main process around the instrument host                    *)
(* (apps/desktop/src/main/main.ts): startup, the window, the quit gate     *)
(* (safe-shutdown-gate.ts), the recovery after a renderer failure, the     *)
(* admission of IPC calls (privileged-ipc-admission.ts) and the startup    *)
(* preference, with kills, power failures and relaunches.  The host is     *)
(* HostContract.                                                           *)
(*                                                                         *)
(* Handlers of Electron events run to completion with their microtasks, so *)
(* whoever waits for a promise of the host continues in the step that      *)
(* settles it.                                                             *)
(***************************************************************************)
EXTENDS HostContract, InstrumentPreferenceStore, Naturals

CONSTANTS
    Recoveries,  \* bound: recoveries of failed renderers at a time
    IpcLimit     \* MAX_PENDING_PRIVILEGED_IPC_OPERATIONS

ASSUME MainAssumption == IpcLimit \in Nat \ {0}

VARIABLES
    phase,     \* loading the window, connecting, running, exited
    window,    \* mainWindow: none, live, gone (its renderer is)
    gate,      \* SafeShutdownGate: idle, pending, complete
    recovery,  \* disconnectAfterRendererFailure: idle, asks, or the promise
               \* of the host it waits for
    slot,      \* the teardown slot of the admission: none or that promise
    told,      \* what a disconnect of the renderer was told in the last step
    calls,     \* #pending of the admission
    writing    \* one of these calls is writePreference

processVars == <<phase, window, gate, recovery, slot, calls, writing>>
vars == <<hostVars, storeVars, processVars, told>>

MainTypeOK ==
    /\ HostTypeOK /\ StoreTypeOK
    /\ phase \in {"loading", "connecting", "running", "exited"}
    /\ window \in {"none", "live", "gone"}
    /\ gate \in {"idle", "pending", "complete"}
    /\ recovery \in [Recoveries -> {"idle", "asks", "disconnect", "shutdown"}]
    /\ slot \in {"none", "disconnect", "shutdown", "ok", "failed"}
    /\ told \in {"none", "ok", "failed"}
    /\ calls \in 0..IpcLimit /\ writing \in BOOLEAN
    /\ writing => calls > 0
    /\ saving = (save.step # "idle") /\ (saving => writing)

Launched ==
    /\ phase = "loading" /\ window = "live" /\ gate = "idle"
    /\ recovery = [r \in Recoveries |-> "idle"]
    /\ slot = "none" /\ told = "none" /\ calls = 0 /\ writing = FALSE

Init == HostInit /\ StoreInit /\ Launched

Running == phase # "exited"
Silent == told' = "none"

-----------------------------------------------------------------------------
(* Quit: SafeShutdownGate and before-quit *)

\* Faulty variant: a second quit request is let through.
InterceptOnce ==
    \/ gate = "idle" /\ gate' = "pending" /\ ShutdownCalled
    \/ gate = "pending" /\ gate' = "complete" /\ UNCHANGED hostVars
    \/ gate = "complete" /\ UNCHANGED <<gate, hostVars>>

\* app.quit(): the first request starts the shutdown, others wait for it.
Intercept ==
    \/ gate = "idle" /\ gate' = "pending" /\ ShutdownCalled
    \/ gate # "idle" /\ UNCHANGED <<gate, hostVars>>

QuitRequested ==
    /\ Running /\ gate = "idle" /\ Intercept /\ Silent
    /\ UNCHANGED <<storeVars, phase, window, recovery, slot, calls, writing>>

\* 'closed', then 'window-all-closed'.
CloseWindow ==
    /\ Running /\ window # "none"
    /\ window' = "none" /\ Intercept /\ Silent
    /\ UNCHANGED <<storeVars, phase, recovery, slot, calls, writing>>

Exit ==
    /\ Running /\ gate = "complete"
    /\ phase' = "exited" /\ window' = "none" /\ Silent
    /\ UNCHANGED <<hostVars, storeVars, gate, recovery, slot, calls, writing>>

-----------------------------------------------------------------------------
(* Startup: whenReady *)

WindowLoads ==
    /\ phase = "loading" /\ window # "none" /\ lifecycle = "open"
    /\ phase' = "connecting" /\ Silent
    /\ UNCHANGED <<hostVars, storeVars, window, gate, recovery, slot, calls, writing>>

\* The window does not load, or the host closes under the connection attempt.
StartupFails ==
    /\ phase = "loading" \/ (phase = "connecting" /\ lifecycle # "open")
    /\ phase' = "running" /\ Intercept /\ Silent
    /\ UNCHANGED <<storeVars, window, recovery, slot, calls, writing>>

\* The attempt was made, with or without success.
StartupEnds ==
    /\ phase = "connecting" /\ phase' = "running" /\ Silent
    /\ UNCHANGED <<hostVars, storeVars, window, gate, recovery, slot, calls, writing>>

-----------------------------------------------------------------------------
(* disconnect() of the host, for a recovery and for the renderer *)

\* A pending disconnect or shutdown is shared, a closed host is disconnected.
Attaches(promise) ==
    \/ promise = "disconnect" /\ DisconnectCalled
    \/ /\ promise = "disconnect" /\ lifecycle = "open" /\ disconnecting # "none"
       /\ UNCHANGED hostVars
    \/ promise = "shutdown" /\ lifecycle = "closing" /\ UNCHANGED hostVars
    \/ promise = "idle" /\ lifecycle = "closed" /\ UNCHANGED hostVars

RendererFails ==
    /\ Running /\ window = "live" /\ window' = "gone" /\ Silent
    /\ \E r \in Recoveries, promise \in {"disconnect", "shutdown", "idle"} :
          /\ recovery[r] = "idle" /\ Attaches(promise)
          /\ recovery' = [recovery EXCEPT ![r] = promise]
    /\ UNCHANGED <<storeVars, phase, gate, slot, calls, writing>>

\* The dialog of a failed disconnect: 'Retry disconnect' or 'Keep app open'.
OperatorAnswers ==
    /\ Running /\ Silent
    /\ \E r \in Recoveries :
          /\ recovery[r] = "asks"
          /\ \/ \E promise \in {"disconnect", "shutdown", "idle"} :
                   /\ Attaches(promise)
                   /\ recovery' = [recovery EXCEPT ![r] = promise]
             \/ recovery' = [recovery EXCEPT ![r] = "idle"] /\ UNCHANGED hostVars
    /\ UNCHANGED <<storeVars, phase, window, gate, slot, calls, writing>>

Trusted == Running /\ window = "live" /\ gate # "complete"

\* runTeardown: a pending teardown is shared, whatever else is admitted.
RunTeardown ==
    \/ slot = "none" /\ slot' \in {"disconnect", "shutdown"} /\ Attaches(slot') /\ Silent
    \/ /\ slot # "none" /\ UNCHANGED <<slot, hostVars>>
       /\ told' = IF slot \in {"ok", "failed"} THEN slot ELSE "none"

RendererDisconnects ==
    /\ Trusted /\ RunTeardown
    /\ UNCHANGED <<storeVars, phase, window, gate, recovery, calls, writing>>

-----------------------------------------------------------------------------
(* Promises of the host settle *)

\* A recovery ends or asks the operator.
Continues(promise, result) ==
    recovery' = [r \in Recoveries |->
        IF recovery[r] # promise THEN recovery[r]
        ELSE IF result = "ok" THEN "idle" ELSE "asks"]

\* The teardown slot is free again when its promise settles.
SlotSettles(promise, result) ==
    IF slot = promise THEN slot' = "none" /\ told' = result
                      ELSE UNCHANGED slot /\ Silent

DisconnectAnswers ==
    /\ DisconnectSettles
    /\ Continues("disconnect", disconnecting) /\ SlotSettles("disconnect", disconnecting)
    /\ UNCHANGED <<storeVars, phase, window, gate, calls, writing>>

\* Faulty variant: a failed shutdown does not open the gate again.
NeverRetries ==
    \/ shutdown = "ok" /\ gate' = "complete" /\ UNCHANGED window
    \/ shutdown = "failed" /\ UNCHANGED <<gate, window>>

\* complete() and the way out, or retry() with a window to say so.
ShutdownDecides ==
    \/ shutdown = "ok" /\ gate' = "complete" /\ UNCHANGED window
    \/ /\ shutdown = "failed" /\ gate' = "idle"
       /\ window' = IF window = "none" THEN "live" ELSE window

ShutdownAnswers ==
    /\ ShutdownSettles
    /\ ShutdownDecides
    /\ Continues("shutdown", shutdown) /\ SlotSettles("shutdown", shutdown)
    /\ UNCHANGED <<storeVars, phase, calls, writing>>

-----------------------------------------------------------------------------
(* Ordinary IPC calls and what the host does for them *)

\* run(): a call above the limit, or one that throws at once, changes nothing.
CallIpc(write) ==
    /\ Trusted /\ calls < IpcLimit /\ Silent
    /\ write => ~writing /\ lifecycle = "open" /\ disconnecting = "none"
    /\ calls' = calls + 1 /\ writing' = (writing \/ write)
    /\ UNCHANGED <<hostVars, storeVars, phase, window, gate, recovery, slot>>

IpcSettles ==
    /\ Running /\ calls > (IF writing THEN 1 ELSE 0) /\ Silent
    /\ calls' = calls - 1
    /\ UNCHANGED <<hostVars, storeVars, phase, window, gate, recovery, slot, writing>>

WriteRefused ==
    /\ Running /\ writing /\ ~saving /\ Silent
    /\ calls' = calls - 1 /\ writing' = FALSE
    /\ UNCHANGED <<hostVars, storeVars, phase, window, gate, recovery, slot>>

WriteStarts(preference) ==
    /\ Running /\ writing /\ Silent
    /\ StartsSaving /\ StartSave(preference)
    /\ UNCHANGED processVars

\* save() moves on; with its end the call settles.
WriteMoves ==
    /\ Running /\ saving /\ SaveMoves /\ Silent
    /\ IF save'.step = "idle"
         THEN StopsSaving /\ calls' = calls - 1 /\ writing' = FALSE
         ELSE UNCHANGED <<hostVars, calls, writing>>
    /\ UNCHANGED <<phase, window, gate, recovery, slot>>

\* The host's own work: a connection for a call or for the startup, its loss,
\* and the teardowns.
HostWorks ==
    /\ Running /\ Silent
    /\ \/ Acquires /\ (calls > 0 \/ phase = "connecting")
       \/ Releases
    /\ UNCHANGED <<storeVars, processVars>>

HostTearsDown ==
    /\ DisconnectTornDown \/ ShutdownTornDown
    /\ Silent /\ UNCHANGED <<storeVars, processVars>>

RecentDevice ==
    /\ Running /\ held /\ RecordRecentDevice /\ Silent
    /\ UNCHANGED <<hostVars, processVars>>

-----------------------------------------------------------------------------
(* Crashes, and the next launch *)

Relaunches ==
    /\ lifecycle' = "open" /\ held' = FALSE /\ saving' = FALSE
    /\ disconnecting' = "none" /\ shutdown' = "none"
    /\ phase' = "loading" /\ window' = "live" /\ gate' = "idle"
    /\ recovery' = [r \in Recoveries |-> "idle"]
    /\ slot' = "none" /\ Silent /\ calls' = 0 /\ writing' = FALSE

Killed == SaveIsCut /\ Relaunches

PowerLost == PowerFails /\ Relaunches

-----------------------------------------------------------------------------
(* The specification *)

HostAnswers == HostTearsDown \/ DisconnectAnswers \/ ShutdownAnswers

Next ==
    \/ QuitRequested \/ CloseWindow \/ Exit
    \/ WindowLoads \/ StartupFails \/ StartupEnds
    \/ RendererFails \/ OperatorAnswers \/ RendererDisconnects
    \/ HostAnswers
    \/ \E write \in BOOLEAN : CallIpc(write)
    \/ IpcSettles \/ WriteRefused
    \/ \E preference \in Preferences : WriteStarts(preference)
    \/ WriteMoves \/ HostWorks \/ RecentDevice
    \/ Killed \/ PowerLost

\* The host settles its teardowns (AtomizerInstrumentHost!CallsEnd), file
\* operations return, and an allowed quit is carried out.
MainSpec ==
    /\ Init /\ [][Next]_vars
    /\ WF_vars(HostTearsDown) /\ WF_vars(DisconnectAnswers) /\ WF_vars(ShutdownAnswers)
    /\ WF_vars(WriteMoves) /\ WF_vars(Exit)

-----------------------------------------------------------------------------
(* Properties *)

\* docs/adr/0004-instrument-driver-boundary.md:59: the process is only left
\* through a complete teardown, whatever quits, closed windows, renderer
\* failures and startup attempts race for it; and never in the middle of a
\* preference write.  Once it runs, the application has a window or is on its
\* way out: nobody is left with an invisible process that holds the instrument.
ExitsReleased ==
    /\ MainTypeOK
    /\ gate = "complete" \/ phase = "exited" =>
           lifecycle = "closed" /\ ~held /\ save.step = "idle"
    /\ phase = "running" /\ window = "none" => gate # "idle"

\* A disconnect of the renderer that is told to have succeeded did: it never
\* hears the result of an earlier teardown.
RendererDisconnectIsHonoured == told = "ok" => ~held

\* Every quit is decided and carried out, every recovery comes to an end or to
\* the operator, and every disconnect of the renderer is answered, with the truth.
TeardownsAreAnswered ==
    /\ []RendererDisconnectIsHonoured
    /\ gate = "pending" ~> gate # "pending"
    /\ gate = "complete" ~> gate # "complete" \/ phase = "exited"
    /\ \A r \in Recoveries :
          recovery[r] \in {"disconnect", "shutdown"} ~> recovery[r] \in {"idle", "asks"}
    /\ slot # "none" ~> slot = "none"

=============================================================================
