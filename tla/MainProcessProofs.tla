------------------------- MODULE MainProcessProofs -------------------------
(***************************************************************************)
(* Proofs about the main process: its store and lifecycle, and the serial  *)
(* link it owns.                                                           *)
(*                                                                         *)
(* The startup preference and the quit gate, for every set of preferences  *)
(* and recoveries and every limit of the IPC admission: StoreInv is        *)
(* inductive for the store alone; MainInv adds what the quit gate, the     *)
(* host's promises and the window know of each other.  A step of the       *)
(* process is at most one step of the store (StepMovesStore).              *)
(*                                                                         *)
(* SerialLink: no native port is forgotten, and an acknowledged output-off *)
(* is the truth, for every number of ports, writes and buffered bytes.     *)
(***************************************************************************)
EXTENDS MainProcess, SerialLink, SequenceTheorems, TLAPS

-----------------------------------------------------------------------------
(* The store *)

\* What a save under way has already done: the directory exists, its preference
\* is one a reader may expect, and behind the rename it is the file's content.
\* A directory that is not durable by this save's doing has never held an
\* acknowledged preference.
SaveInv ==
    /\ save.step # "idle" => folder # "absent" /\ save.preference \in promised
    /\ save.step = "renamed" => entry = save.preference
    /\ save.step = "folder" \/ folder = "absent" => "absent" \in promised

StoreInv == StoreTypeOK /\ SaveInv /\ PreferenceSurvives

StoreNext ==
    \/ \E p \in Preferences : StartSave(p)
    \/ SaveMoves \/ RecordRecentDevice \/ SaveIsCut \/ PowerFails

LEMMA StoreInitInv == StoreInit => StoreInv
  BY DEF StoreInit, StoreInv, StoreTypeOK, SaveInv, PreferenceSurvives, NoSave, Contents

LEMMA StartSaveKeepsInv ==
  ASSUME StoreInv, NEW p \in Preferences, StartSave(p)
  PROVE  StoreInv'
  BY DEF StartSave, StoreInv, StoreTypeOK, SaveInv, PreferenceSurvives, Contents

\* Each call of a save, and its failure
LEMMA SaveMovesKeepsInv ==
  ASSUME StoreInv, SaveMoves
  PROVE  StoreInv'
<1> USE DEF StoreInv, StoreTypeOK, SaveInv, PreferenceSurvives, Contents, Advances
<1>1. CASE SyncFolder
  BY <1>1 DEF SyncFolder
<1>2. CASE WriteTemporary
  BY <1>2 DEF WriteTemporary
<1>3. CASE SyncTemporary
  BY <1>3 DEF SyncTemporary
<1>4. CASE Rename
  BY <1>4 DEF Rename, RenamesFrom
<1>5. CASE SyncDirectory
  BY <1>5 DEF SyncDirectory, NoSave
<1>6. CASE SaveFails
  BY <1>6 DEF SaveFails, NoSave
<1>7. QED
  BY <1>1, <1>2, <1>3, <1>4, <1>5, <1>6 DEF SaveMoves

LEMMA CrashKeepsInv ==
  ASSUME StoreInv, RecordRecentDevice \/ SaveIsCut \/ PowerFails
  PROVE  StoreInv'
<1> USE DEF StoreInv, StoreTypeOK, SaveInv, PreferenceSurvives, Contents, NoSave
<1>1. CASE RecordRecentDevice
  BY <1>1 DEF RecordRecentDevice
<1>2. CASE SaveIsCut
  BY <1>2 DEF SaveIsCut
<1>3. CASE PowerFails
  BY <1>3 DEF PowerFails
<1>4. QED
  BY <1>1, <1>2, <1>3

LEMMA StoreStepKeepsInv ==
  ASSUME StoreInv, StoreNext \/ UNCHANGED storeVars
  PROVE  StoreInv'
<1>1. CASE StoreNext
  BY <1>1, StartSaveKeepsInv, SaveMovesKeepsInv, CrashKeepsInv DEF StoreNext
<1>2. CASE UNCHANGED storeVars
  BY <1>2 DEF storeVars, StoreInv, StoreTypeOK, SaveInv, PreferenceSurvives
<1>3. QED
  BY <1>1, <1>2

\* The store alone keeps an acknowledged preference through every crash.
THEOREM StoreSurvives == StoreSpec => []PreferenceSurvives
<1>1. StoreInv /\ [StoreNext]_storeVars => StoreInv'
  BY StoreStepKeepsInv
<1>2. StoreInv => PreferenceSurvives
  BY DEF StoreInv
<1>3. QED
  BY StoreInitInv, <1>1, <1>2, PTL DEF StoreSpec, StoreNext

-----------------------------------------------------------------------------
(* The process *)

\* A step of the process is at most one step of the store.
LEMMA StepMovesStore ==
  ASSUME [Next]_vars
  PROVE  StoreNext \/ UNCHANGED storeVars
  BY DEF Next, vars, storeVars, StoreNext, HostAnswers, QuitRequested, CloseWindow, Exit,
         WindowLoads, StartupFails, StartupEnds, RendererFails, OperatorAnswers,
         RendererDisconnects, HostTearsDown, DisconnectAnswers, ShutdownAnswers, CallIpc,
         IpcSettles, WriteRefused, WriteStarts, WriteMoves, HostWorks, RecentDevice,
         Killed, PowerLost

\* The process is the only user of the store, and uses it as it is meant to be.
THEOREM MainImplementsStore == MainSpec => StoreSpec
<1>1. Init => StoreInit
  BY DEF Init
<1>2. [Next]_vars => [StoreNext]_storeVars
  BY StepMovesStore
<1>3. QED
  BY <1>1, <1>2, PTL DEF MainSpec, StoreSpec, StoreNext

\* PreferenceSurvives, whatever calls, kills and power failures do.
THEOREM PreferenceAlwaysSurvives == MainSpec => []PreferenceSurvives
  BY MainImplementsStore, StoreSurvives, PTL

\* What the gate says is what the host says: it is idle while the host is open,
\* pending while it closes, and complete once it is closed.
GateInv ==
    /\ gate = "idle" <=> lifecycle = "open"
    /\ gate = "complete" <=> lifecycle = "closed"
    /\ shutdown = "none" <=> lifecycle = "open"
    /\ lifecycle = "closed" => shutdown = "ok"
    /\ phase = "exited" => gate = "complete"
    /\ window = "none" => gate # "idle"

\* A teardown that has ended found no save under way and lets none begin, and
\* after one that succeeded nothing is held.
TeardownInv ==
    /\ disconnecting \in {"ok", "failed"} \/ shutdown \in {"ok", "failed"} => ~saving
    /\ disconnecting = "ok" \/ shutdown = "ok" => ~held

\* MainTypeOK without the types of the store
ProcessTypeInv ==
    /\ HostTypeOK
    /\ phase \in {"loading", "connecting", "running", "exited"}
    /\ window \in {"none", "live", "gone"}
    /\ gate \in {"idle", "pending", "complete"}
    /\ recovery \in [Recoveries -> {"idle", "asks", "disconnect", "shutdown"}]
    /\ slot \in {"none", "disconnect", "shutdown"}
    /\ told \in {"none", "ok", "failed"}
    /\ calls \in 0..IpcLimit /\ writing \in BOOLEAN
    /\ writing => calls > 0
    /\ saving <=> save.step # "idle"
    /\ saving => writing

\* Who was told of success is not holding.
ToldInv == told = "ok" => ~held

MainInv == ProcessTypeInv /\ GateInv /\ TeardownInv /\ ToldInv

LEMMA MainInitInv == Init => MainInv
<1> SUFFICES ASSUME Init PROVE MainInv
  OBVIOUS
<1> USE DEF Init, HostInit, StoreInit, NoSave, Launched
<1>1. calls \in 0..IpcLimit
  BY MainAssumption
<1>2. recovery \in [Recoveries -> {"idle", "asks", "disconnect", "shutdown"}]
  OBVIOUS
<1>3. ProcessTypeInv
  BY <1>1, <1>2 DEF ProcessTypeInv, HostTypeOK, Promise
<1>4. GateInv /\ TeardownInv /\ ToldInv
  BY DEF GateInv, TeardownInv, ToldInv
<1>5. QED
  BY <1>3, <1>4 DEF MainInv

\* The type of the store is kept by the lemma above; the rest of the process's
\* invariant does not look into it.
LEMMA StoreTypeKept ==
  ASSUME StoreInv, [Next]_vars
  PROVE  StoreInv'
  BY StepMovesStore, StoreStepKeepsInv

\* The quit gate
LEMMA QuitKeepsInv ==
  ASSUME MainInv, QuitRequested \/ CloseWindow \/ Exit
  PROVE  MainInv'
<1> USE MainAssumption
    DEF MainInv, ProcessTypeInv, HostTypeOK, Promise, GateInv, TeardownInv,
        ToldInv, Silent, Running, hostVars, storeVars,
        Intercept, ShutdownCalled
<1>1. CASE QuitRequested
  BY <1>1 DEF QuitRequested
<1>2. CASE CloseWindow
  BY <1>2 DEF CloseWindow
<1>3. CASE Exit
  BY <1>3 DEF Exit
<1>4. QED
  BY <1>1, <1>2, <1>3

\* Startup
LEMMA StartupKeepsInv ==
  ASSUME MainInv, WindowLoads \/ StartupFails \/ StartupEnds
  PROVE  MainInv'
<1> USE MainAssumption
    DEF MainInv, ProcessTypeInv, HostTypeOK, Promise, GateInv, TeardownInv,
        ToldInv, Silent, Running, hostVars, storeVars,
        Intercept, ShutdownCalled
<1>1. CASE WindowLoads
  BY <1>1 DEF WindowLoads
<1>2. CASE StartupFails
  BY <1>2 DEF StartupFails
<1>3. CASE StartupEnds
  BY <1>3 DEF StartupEnds
<1>4. QED
  BY <1>1, <1>2, <1>3

\* Disconnects for a failed renderer, for the operator and for the renderer
LEMMA RecoveryKeepsInv ==
  ASSUME MainInv, RendererFails \/ OperatorAnswers \/ RendererDisconnects
  PROVE  MainInv'
<1> USE MainAssumption
    DEF MainInv, ProcessTypeInv, HostTypeOK, Promise, GateInv, TeardownInv,
        ToldInv, Silent, Running, hostVars, storeVars,
        Attaches, DisconnectCalled
<1>1. CASE RendererFails
  BY <1>1 DEF RendererFails
<1>2. CASE OperatorAnswers
  BY <1>2 DEF OperatorAnswers
<1>3. CASE RendererDisconnects
  BY <1>3 DEF RendererDisconnects, RunTeardown, Trusted
<1>4. QED
  BY <1>1, <1>2, <1>3

\* Teardowns of the host and their answers
LEMMA AnswersKeepInv ==
  ASSUME MainInv, HostTearsDown \/ DisconnectAnswers \/ ShutdownAnswers
  PROVE  MainInv'
<1> USE MainAssumption
    DEF MainInv, ProcessTypeInv, HostTypeOK, Promise, GateInv, TeardownInv,
        ToldInv, Silent, Running, hostVars, storeVars,
        Continues, SlotSettles
<1>1. CASE HostTearsDown
  BY <1>1 DEF HostTearsDown, DisconnectTornDown, ShutdownTornDown, TornDown, processVars
<1>2. CASE DisconnectAnswers
  BY <1>2 DEF DisconnectAnswers, DisconnectSettles
<1>3. CASE ShutdownAnswers
  BY <1>3 DEF ShutdownAnswers, ShutdownSettles, ShutdownDecides
<1>4. QED
  BY <1>1, <1>2, <1>3

\* Calls of the renderer and the saves among them
LEMMA CallsKeepInv ==
  ASSUME MainInv, (\E write \in BOOLEAN : CallIpc(write)) \/ IpcSettles \/ WriteRefused \/ (\E preference \in Preferences : WriteStarts(preference)) \/ WriteMoves
  PROVE  MainInv'
<1> USE MainAssumption
    DEF MainInv, ProcessTypeInv, HostTypeOK, Promise, GateInv, TeardownInv,
        ToldInv, Silent, Running, hostVars, storeVars
<1>1. CASE (\E write \in BOOLEAN : CallIpc(write))
  BY <1>1 DEF CallIpc, Trusted
<1>2. CASE IpcSettles
  BY <1>2 DEF IpcSettles
<1>3. CASE WriteRefused
  <2>1. calls \in Nat /\ calls > 0 /\ calls - 1 \in 0..IpcLimit
    BY <1>3 DEF WriteRefused
  <2>2. QED
    BY ZenonT(40), <1>3, <2>1 DEF WriteRefused
<1>4. CASE (\E preference \in Preferences : WriteStarts(preference))
  BY <1>4 DEF WriteStarts, StartsSaving, StartSave, processVars
<1>5. CASE WriteMoves
  <2>1. calls \in Nat /\ calls > 0 /\ calls - 1 \in 0..IpcLimit
    BY <1>5 DEF WriteMoves
  <2>2. CASE save'.step = "idle"
    BY <1>5, <2>1, <2>2 DEF WriteMoves, StopsSaving
  <2>3. CASE save'.step # "idle"
    BY <1>5, <2>3 DEF WriteMoves
  <2>4. QED
    BY <2>2, <2>3
<1>6. QED
  BY <1>1, <1>2, <1>3, <1>4, <1>5

\* The host's own work, another store's, and crashes
LEMMA WorldKeepsInv ==
  ASSUME MainInv, HostWorks \/ RecentDevice
  PROVE  MainInv'
<1>1. CASE HostWorks /\ Acquires
  BY <1>1 DEF HostWorks, Acquires, processVars, MainInv, ProcessTypeInv, HostTypeOK, Promise, GateInv,
              TeardownInv, ToldInv, Silent, Running, hostVars, storeVars
<1>2. CASE HostWorks /\ Releases
  <2>1. held' = FALSE /\ told' = "none"
    BY <1>2 DEF Releases, HostWorks, Silent
  <2>2. UNCHANGED <<lifecycle, saving, disconnecting, shutdown, save>>
    BY <1>2 DEF Releases, HostWorks, storeVars
  <2>3. UNCHANGED processVars
    BY <1>2 DEF HostWorks
  <2>4. QED
    BY <2>1, <2>2, <2>3
    DEF processVars, MainInv, ProcessTypeInv, HostTypeOK, GateInv, TeardownInv, ToldInv
<1>3. CASE RecentDevice
  BY <1>3 DEF RecentDevice, RecordRecentDevice, processVars, MainInv, ProcessTypeInv, HostTypeOK, Promise, GateInv,
              TeardownInv, ToldInv, Silent, Running, hostVars, storeVars
<1>4. QED
  BY <1>1, <1>2, <1>3 DEF HostWorks

LEMMA RelaunchKeepsInv ==
  ASSUME MainInv, Killed \/ PowerLost
  PROVE  MainInv'
<1>1. Relaunches /\ save' = NoSave
  BY DEF Killed, PowerLost, SaveIsCut, PowerFails
<1>2. recovery' \in [Recoveries -> {"idle", "asks", "disconnect", "shutdown"}]
  BY <1>1 DEF Relaunches
<1>3. calls' \in 0..IpcLimit
  BY <1>1, MainAssumption DEF Relaunches
<1>4. save'.step = "idle"
  BY <1>1 DEF NoSave
<1>5. ProcessTypeInv'
  BY <1>1, <1>2, <1>3, <1>4 DEF Relaunches, ProcessTypeInv, HostTypeOK, Promise, Silent
<1>6. GateInv' /\ TeardownInv' /\ ToldInv'
  BY <1>1 DEF Relaunches, GateInv, TeardownInv, ToldInv, Silent
<1>7. QED
  BY <1>5, <1>6 DEF MainInv

\* ExitsReleased, and what a disconnect of the renderer is told, for every limit.
LEMMA StepKeepsMainInv ==
  ASSUME MainInv, [Next]_vars
  PROVE  MainInv'
<1>1. CASE Next
  <2>1. CASE QuitRequested \/ CloseWindow \/ Exit
    BY <2>1, QuitKeepsInv
  <2>2. CASE WindowLoads \/ StartupFails \/ StartupEnds
    BY <2>2, StartupKeepsInv
  <2>3. CASE RendererFails \/ OperatorAnswers \/ RendererDisconnects
    BY <2>3, RecoveryKeepsInv
  <2>4. CASE HostAnswers
    BY <2>4, AnswersKeepInv DEF HostAnswers
  <2>5. CASE \/ \E write \in BOOLEAN : CallIpc(write)
             \/ IpcSettles \/ WriteRefused
             \/ \E preference \in Preferences : WriteStarts(preference)
             \/ WriteMoves
    BY <2>5, CallsKeepInv
  <2>6. CASE HostWorks \/ RecentDevice
    BY <2>6, WorldKeepsInv
  <2>7. CASE Killed \/ PowerLost
    BY <2>7, RelaunchKeepsInv
  <2>8. QED
    BY <1>1, <2>1, <2>2, <2>3, <2>4, <2>5, <2>6, <2>7 DEF Next
<1>2. CASE UNCHANGED vars
  <2>1. ProcessTypeInv'
    BY <1>2 DEF vars, hostVars, storeVars, processVars, MainInv, ProcessTypeInv, HostTypeOK
  <2>2. GateInv' /\ TeardownInv' /\ ToldInv'
    BY <1>2 DEF vars, hostVars, processVars, MainInv, GateInv, TeardownInv, ToldInv
  <2>3. QED
    BY <2>1, <2>2 DEF MainInv
<1>3. QED
  BY <1>1, <1>2

LEMMA MainInvHolds == MainSpec => [](StoreInv /\ MainInv)
<1>1. Init => StoreInv /\ MainInv
  BY StoreInitInv, MainInitInv DEF Init
<1>2. StoreInv /\ MainInv /\ [Next]_vars => (StoreInv /\ MainInv)'
  BY StoreTypeKept, StepKeepsMainInv
<1>3. QED
  BY <1>1, <1>2, PTL DEF MainSpec

\* The process is only left through a complete teardown and never in the middle
\* of a preference write, and it always has a window or is on its way out.
THEOREM ExitsAreReleased == MainSpec => []ExitsReleased
<1>1. StoreInv /\ MainInv => ExitsReleased
  <2> SUFFICES ASSUME StoreInv, MainInv PROVE ExitsReleased
    OBVIOUS
  <2>1. saving = (save.step # "idle")
    BY DEF MainInv, ProcessTypeInv, HostTypeOK
  <2>2. MainTypeOK
    BY <2>1 DEF MainInv, ProcessTypeInv, StoreInv, MainTypeOK
  <2>3. gate = "complete" \/ phase = "exited" =>
            lifecycle = "closed" /\ ~held /\ save.step = "idle"
    BY DEF MainInv, ProcessTypeInv, GateInv, TeardownInv
  <2>4. QED
    BY <2>2, <2>3 DEF ExitsReleased, MainInv, GateInv
<1>2. QED
  BY <1>1, MainInvHolds, PTL

\* Whatever is called, killed or torn down around it, a disconnect of the renderer
\* that is told to have succeeded left nothing held (the safety part of
\* TeardownsAreAnswered).
THEOREM DisconnectsAreHonoured == MainSpec => []RendererDisconnectIsHonoured
<1>1. MainInv => RendererDisconnectIsHonoured
  BY DEF MainInv, ProcessTypeInv, ToldInv, RendererDisconnectIsHonoured
<1>2. QED
  BY <1>1, MainInvHolds, PTL

-----------------------------------------------------------------------------
(* The inductive invariant: the service *)

\* What each operation still has to do, from the longest script to the last
\* item of it.
Dialling == <<"open", "off", "version">>
Silencing == <<"off", "version">>
Confirming == <<"version">>
Redialling == <<"close", "open", "off", "close">>
Reopening == <<"open", "off", "close">>
Leaving == <<"off", "close">>
Hanging == <<"close">>
Emitting == <<"on">>
Muting == <<"off">>

OwnerOK(o) ==
    /\ o \in Owners
    /\ o.kind = "none" =>
         /\ o.script = <<>> /\ ~o.sent
         /\ o.connection \in {"disconnected", "ready", "faulted"}
    /\ o.kind = "connect" =>
         \/ o.script = Dialling /\ o.connection \in {"connecting", "faulted"}
         \/ /\ o.script \in {Silencing, Confirming}
            /\ o.connection \in {"identifying", "faulted"}
    /\ o.kind = "abort" =>
         /\ o.script = Hanging
         /\ o.connection \in {"connecting", "identifying", "faulted"}
    /\ o.kind = "disconnect" =>
         /\ o.script \in {Redialling, Reopening, Leaving, Hanging}
         /\ o.connection \in {"disconnecting", "faulted"}
    /\ o.kind = "on" => o.script = Emitting /\ o.connection \in {"ready", "faulted"}
    /\ o.kind = "off" => o.script = Muting /\ o.connection \in {"ready", "faulted"}
    /\ o.connection = "disconnected" => o = Disconnected
    /\ o.teardownAcknowledged =>
         /\ o.offAcknowledged
         /\ o.connection \in {"disconnecting", "faulted"}
         /\ \/ o.kind = "none"
            \/ o.kind = "disconnect" /\ o.script = Hanging

\* A port is still to be opened: the service has no scheduler.
MustOpen(o) == o.script \in {Dialling, Redialling, Reopening}

-----------------------------------------------------------------------------
(* The inductive invariant: the scheduler *)

\* The command that waits behind the active one: the service and the second
\* caller have one command each.
Behind(s) == IF s.queue = <<>> THEN NoCommand ELSE Head(s.queue)
Calls(s, who) == s.active.caller = who \/ Behind(s).caller = who

\* Before the pump has run.
Queued(s) ==
    /\ s \in Schedulers
    /\ \/ s.queue = <<>>
       \/ \E c \in Commands : s.queue = <<c>> /\ c.caller # s.active.caller
    /\ s.generation <= MaxPorts
    /\ s.deaf \subseteq 1..s.generation
    /\ s.state = "ok" => s.generation > 0 /\ s.generation \notin s.deaf

SchedulerOK(s) ==
    /\ Queued(s)
    /\ s.queue # <<>> => s.active # NoCommand
    /\ s.state # "ok" =>
         s.queue = <<>> /\ s.active = NoCommand /\ s.buffer = <<>>

\* Whoever waits has a command pending, and it is the one that is awaited.
Serves(s, o, r) ==
    /\ r = Calls(s, "reader")
    /\ (o.sent /\ Head(o.script) \in Texts) <=> Calls(s, "device")
    /\ \A c \in {s.active, Behind(s)} :
         /\ c.caller = "device" => c.text = Head(o.script)
         /\ c.caller = "reader" => c.text = "version"

\* The second caller began on a ready device; what it awaits is answered before
\* the output-off of a teardown is sent.
ReaderOK(s, o, r) ==
    r => /\ o.connection \in {"ready", "disconnecting", "faulted"}
         /\ o.kind \in {"none", "on", "off", "disconnect"}
         /\ ~o.teardownAcknowledged
         /\ o.kind = "disconnect" =>
              o.script = Leaving /\ s.active.caller = "reader"

ServiceOK(s, o, r) ==
    /\ OwnerOK(o) /\ SchedulerOK(s) /\ r \in BOOLEAN
    /\ Serves(s, o, r) /\ ReaderOK(s, o, r)
    /\ MustOpen(o) \/ o.connection = "disconnected" => s.state # "ok"

-----------------------------------------------------------------------------
(* What the service takes for granted *)

\* Its last command of a connection is being sent, or is answered.
Identifying(o) == o.kind = "connect" /\ o.script = Confirming

\* It holds the output to be off.
Claims(o) == o.offAcknowledged /\ o.kind # "on"

\* It hangs up, or has no connection yet: the shell has nothing to do but
\* switch the output off.
Leaves(o) ==
    \/ o.connection = "disconnected" \/ o.kind = "abort"
    \/ o.kind = "connect" /\ o.script = Dialling
    \/ o.kind = "disconnect" /\ o.script = Hanging

\* n takes nothing for granted that o does not.
NoNews(o, n) ==
    /\ Claims(n) => /\ Claims(o)
                    /\ Identifying(o) /\ o.sent => Identifying(n) /\ n.sent
    /\ Leaves(n) => Leaves(o) \/ (Claims(o) /\ ~(Identifying(o) /\ o.sent))

-----------------------------------------------------------------------------
(* The service's scripts and what its handlers make of them *)

\* The scripts differ, and their items are done one after the other.
LEMMA Scripts ==
    /\ {Dialling, Silencing, Confirming, Redialling, Reopening, Leaving,
        Hanging, Emitting, Muting} \subseteq Seq(Items)
    /\ <<>> \in Seq(Items)
    /\ Head(Dialling) = "open" /\ Tail(Dialling) = Silencing
    /\ Head(Silencing) = "off" /\ Tail(Silencing) = Confirming
    /\ Head(Confirming) = "version" /\ Tail(Confirming) = <<>>
    /\ Head(Redialling) = "close" /\ Tail(Redialling) = Reopening
    /\ Head(Reopening) = "open" /\ Tail(Reopening) = Leaving
    /\ Head(Leaving) = "off" /\ Tail(Leaving) = Hanging
    /\ Head(Hanging) = "close" /\ Tail(Hanging) = <<>>
    /\ Head(Emitting) = "on" /\ Tail(Emitting) = <<>>
    /\ Head(Muting) = "off" /\ Tail(Muting) = <<>>
    /\ <<>> \notin {Dialling, Silencing, Confirming, Redialling, Reopening,
                    Leaving, Hanging, Emitting, Muting}
    /\ Silencing \notin {Dialling, Confirming, Redialling, Reopening, Leaving,
                         Hanging, Emitting, Muting}
    /\ Confirming \notin {Dialling, Redialling, Reopening, Leaving, Hanging,
                          Emitting, Muting}
    /\ Dialling \notin {Redialling, Reopening, Leaving, Hanging, Emitting,
                        Muting}
    /\ Redialling \notin {Reopening, Leaving, Hanging, Emitting, Muting}
    /\ Reopening \notin {Leaving, Hanging, Emitting, Muting}
    /\ Leaving \notin {Hanging, Emitting, Muting}
    /\ Hanging \notin {Emitting, Muting}
    /\ Emitting # Muting
BY DEF Dialling, Silencing, Confirming, Redialling, Reopening, Leaving,
       Hanging, Emitting, Muting, Items, Texts

\* A scheduler fault leaves the operation where it is, and nothing
\* acknowledged.
LEMMA FaultIsHandled ==
    ASSUME NEW o, OwnerOK(o)
    PROVE  LET f == FaultHandled(o)
           IN /\ OwnerOK(f)
              /\ f.kind = o.kind /\ f.script = o.script /\ f.sent = o.sent
              /\ f.connection = IF o.connection = "disconnected"
                                THEN "disconnected" ELSE "faulted"
              /\ ~f.offAcknowledged /\ ~f.teardownAcknowledged
<1> DEFINE f == FaultHandled(o)
<1>1. CASE o.connection = "disconnected"
  BY <1>1 DEF OwnerOK, FaultHandled, Disconnected
<1>2. CASE o.connection # "disconnected"
  <2>1. /\ f \in Owners
        /\ f.kind = o.kind /\ f.script = o.script /\ f.sent = o.sent
        /\ f.connection = "faulted"
        /\ f.offAcknowledged = FALSE /\ f.teardownAcknowledged = FALSE
    BY <1>2 DEF OwnerOK, Owners, FaultHandled
  <2> QED BY <1>2, <2>1 DEF OwnerOK
<1> QED BY <1>1, <1>2

\* So does what the transport reports, but a retained teardown acknowledgement
\* survives it.
LEMMA EventIsHandled ==
    ASSUME NEW o, OwnerOK(o), o.connection # "disconnected"
    PROVE  LET e == EventHandled(o)
           IN /\ OwnerOK(e)
              /\ e.kind = o.kind /\ e.script = o.script /\ e.sent = o.sent
              /\ e.connection = "faulted"
              /\ e.teardownAcknowledged = o.teardownAcknowledged
              /\ e.offAcknowledged = o.teardownAcknowledged
<1> DEFINE e == EventHandled(o)
<1>1. /\ e \in Owners
      /\ e.kind = o.kind /\ e.script = o.script /\ e.sent = o.sent
      /\ e.connection = "faulted"
      /\ e.teardownAcknowledged = o.teardownAcknowledged
      /\ e.offAcknowledged = (o.offAcknowledged /\ o.teardownAcknowledged)
  BY DEF OwnerOK, Owners, EventHandled
<1>2. o.teardownAcknowledged \in BOOLEAN /\ o.offAcknowledged \in BOOLEAN
  BY DEF OwnerOK, Owners
<1> QED BY <1>1, <1>2 DEF OwnerOK

\* A rejected item ends its operation, or aborts the connection.
LEMMA OperationFailed ==
    ASSUME NEW o, OwnerOK(o), o.kind # "none"
    PROVE  LET f == OperationFails(o)
           IN /\ OwnerOK(f) /\ ~f.sent /\ f.script \in {<<>>, Hanging}
              /\ f.connection # "disconnected"
              /\ f.kind \in {"none", "abort"}
              /\ f.kind = "abort" =>
                   /\ o.kind = "connect"
                   /\ o.script = Dialling \/ o.offAcknowledged
              /\ f.connection = "ready" => o.connection = "ready"
              /\ f.offAcknowledged =>
                   o.offAcknowledged /\ o.kind \in {"connect", "abort", "disconnect"}
              /\ f.teardownAcknowledged => o.teardownAcknowledged
              /\ f.connection \in {"faulted", o.connection}
<1> DEFINE f == OperationFails(o)
<1> USE Scripts DEF Owners, Idle
<1>1. CASE o.kind = "connect"
  <2>1. CASE Head(o.script) = "open" \/ o.offAcknowledged
    <3>1. f = [o EXCEPT !.kind = "abort", !.script = Hanging, !.sent = FALSE]
      BY <1>1, <2>1 DEF OperationFails, Hanging
    <3>2. /\ f \in Owners
          /\ f.kind = "abort" /\ f.script = Hanging /\ f.sent = FALSE
          /\ f.connection = o.connection
          /\ f.offAcknowledged = o.offAcknowledged
          /\ f.teardownAcknowledged = FALSE
      BY ZenonT(40), <1>1, <3>1 DEF OwnerOK, Kinds
    <3> QED BY <1>1, <2>1, <3>2 DEF OwnerOK
  <2>2. CASE ~(Head(o.script) = "open" \/ o.offAcknowledged)
    <3>1. f = [Idle(o) EXCEPT !.connection = "faulted"]
      BY <1>1, <2>2 DEF OperationFails
    <3>2. /\ f \in Owners
          /\ f.kind = "none" /\ f.script = <<>> /\ f.sent = FALSE
          /\ f.connection = "faulted"
          /\ f.offAcknowledged = FALSE /\ f.teardownAcknowledged = FALSE
      BY ZenonT(40), <1>1, <2>2, <3>1 DEF OwnerOK, Kinds
    <3> QED BY <3>2 DEF OwnerOK
  <2> QED BY <2>1, <2>2
<1>2. CASE o.kind = "abort"
  BY ZenonT(40), <1>2 DEF OwnerOK, Kinds, OperationFails
<1>3. CASE o.kind = "disconnect"
  <2>1. CASE o.teardownAcknowledged /\ o.script = Hanging
    <3>1. f = [Idle(o) EXCEPT !.connection = "faulted"]
      BY <1>3, <2>1 DEF OperationFails, Hanging
    <3> QED BY <1>3, <2>1, <3>1 DEF OwnerOK, Kinds
  <2>2. CASE ~(o.teardownAcknowledged /\ o.script = Hanging)
    <3>1. f = [Idle(o) EXCEPT !.connection = "faulted",
                              !.offAcknowledged = FALSE,
                              !.teardownAcknowledged = FALSE]
      BY <1>3, <2>2 DEF OperationFails, Hanging
    <3>2. /\ f \in Owners
          /\ f.kind = "none" /\ f.script = <<>> /\ f.sent = FALSE
          /\ f.connection = "faulted"
          /\ f.offAcknowledged = FALSE /\ f.teardownAcknowledged = FALSE
      BY <1>3, <3>1, Scripts DEF OwnerOK, Kinds
    <3> QED BY <1>3, <3>2 DEF OwnerOK
  <2> QED BY <2>1, <2>2
<1>4. CASE o.kind = "off"
  BY ZenonT(40), <1>4 DEF OwnerOK, Kinds, OperationFails
<1>5. CASE o.kind = "on"
  BY ZenonT(40), <1>5 DEF OwnerOK, Kinds, OperationFails
<1> QED BY <1>1, <1>2, <1>3, <1>4, <1>5 DEF OwnerOK, Kinds

\* The head of a script is done.
LEMMA ScriptAdvanced ==
    ASSUME NEW o, OwnerOK(o), o.kind # "none"
    PROVE  LET a == Advanced(o)
           IN /\ OwnerOK(a) /\ ~a.sent
              /\ Tail(o.script) # <<>> =>
                   /\ a.kind = o.kind /\ a.script = Tail(o.script)
                   /\ o.kind = "disconnect" => a.connection = o.connection
              /\ Tail(o.script) = <<>> => a.kind = "none"
              /\ a.connection = "disconnected" <=>
                   o.kind \in {"abort", "disconnect"} /\ o.script = Hanging
              /\ a.connection = "ready" =>
                   \/ o.kind = "connect" /\ o.script = Confirming
                   \/ o.kind \in {"on", "off"} /\ o.connection = "ready"
              /\ a.offAcknowledged =>
                   \/ Head(o.script) = "off"
                   \/ o.offAcknowledged /\ Head(o.script) # "on"
              /\ a.teardownAcknowledged => o.kind = "disconnect"
<1> DEFINE rest == HeadDone(o)
<1>1. /\ rest.kind = o.kind /\ rest.script = Tail(o.script) /\ ~rest.sent
      /\ rest.connection = IF Head(o.script) = "open" /\ o.kind = "connect"
                           THEN "identifying" ELSE o.connection
      /\ rest.offAcknowledged <=>
           \/ Head(o.script) = "off"
           \/ Head(o.script) # "on" /\ o.offAcknowledged
      /\ rest.teardownAcknowledged <=>
           \/ Head(o.script) = "off" /\ o.kind = "disconnect"
           \/ Head(o.script) # "on" /\ o.teardownAcknowledged
  BY DEF OwnerOK, Owners, HeadDone
<1>2. rest \in Owners
  <2>1. Tail(o.script) \in Seq(Items)
    BY Scripts DEF OwnerOK, Owners, Kinds
  <2> QED BY <2>1 DEF OwnerOK, Owners, HeadDone
<1> DEFINE idle == Idle(rest)
<1>7. /\ idle \in Owners /\ idle.kind = "none" /\ idle.script = <<>> /\ ~idle.sent
      /\ idle.connection = rest.connection
      /\ idle.offAcknowledged = rest.offAcknowledged
      /\ idle.teardownAcknowledged = rest.teardownAcknowledged
  <2> HIDE DEF rest
  <2>1. <<>> \in Seq(Items)
    OBVIOUS
  <2> QED BY <1>2, <2>1 DEF Idle, Owners, Kinds
<1> HIDE DEF rest, idle
<1> USE Scripts
<1>3. CASE Tail(o.script) # <<>>
  <2>1. Advanced(o) = rest
    BY <1>1, <1>3 DEF Advanced, rest
  <2>2. /\ o.connection # "disconnected" /\ o.kind \in {"connect", "disconnect"}
        /\ o.kind = "connect" => o.script \in {Dialling, Silencing}
        /\ o.kind = "disconnect" => o.script \in {Redialling, Reopening, Leaving}
    BY <1>3 DEF OwnerOK, Owners, Kinds, Disconnected
  <2>3. ~o.teardownAcknowledged
    BY <1>3, <2>2 DEF OwnerOK
  <2>4. CASE o.kind = "connect"
    <3>1. rest.connection \in {"identifying", "faulted"} /\ rest.connection # "ready"
      BY <1>1, <2>2, <2>4 DEF OwnerOK
    <3>2. rest.script \in {Silencing, Confirming} /\ ~rest.teardownAcknowledged
      BY <1>1, <2>2, <2>3, <2>4
    <3>3. OwnerOK(rest)
      BY <1>1, <1>2, <2>4, <3>1, <3>2 DEF OwnerOK
    <3> QED BY <1>1, <1>3, <2>1, <2>4, <3>1, <3>2, <3>3
  <2>5. CASE o.kind = "disconnect"
    <3>1. rest.connection = o.connection /\ o.connection \in {"disconnecting", "faulted"}
      BY <1>1, <2>5 DEF OwnerOK
    <3>2. /\ rest.script \in {Reopening, Leaving, Hanging}
          /\ rest.teardownAcknowledged => rest.offAcknowledged /\ rest.script = Hanging
      BY <1>1, <2>2, <2>3, <2>5
    <3>3. OwnerOK(rest)
      BY <1>1, <1>2, <2>5, <3>1, <3>2 DEF OwnerOK
    <3> QED BY <1>1, <1>3, <2>1, <2>5, <3>1, <3>2, <3>3
  <2> QED BY <2>2, <2>4, <2>5
<1>4. CASE o.kind \in {"abort", "disconnect"} /\ Tail(o.script) = <<>>
  <2>1. Advanced(o) = Disconnected
    BY <1>1, <1>4 DEF Advanced, rest
  <2>2. OwnerOK(Disconnected)
    BY DEF Disconnected, OwnerOK, Owners, Kinds
  <2>3. o.script = Hanging
    BY <1>4 DEF OwnerOK
  <2>4. /\ Disconnected.connection = "disconnected" /\ Disconnected.kind = "none"
        /\ ~Disconnected.sent /\ ~Disconnected.offAcknowledged
        /\ ~Disconnected.teardownAcknowledged
    BY DEF Disconnected
  <2> QED BY <1>4, <2>1, <2>2, <2>3, <2>4
<1>5. CASE o.kind = "connect" /\ Tail(o.script) = <<>>
  <2> DEFINE a == Advanced(o)
  <2>1. \/ a = [idle EXCEPT !.connection = "ready"]
        \/ a = [idle EXCEPT !.connection = "faulted"]
    BY <1>1, <1>5 DEF Advanced, rest, idle
  <2>2. /\ a \in Owners
        /\ a.kind = "none" /\ a.script = <<>> /\ a.sent = FALSE
        /\ a.connection \in {"ready", "faulted"}
        /\ a.offAcknowledged = rest.offAcknowledged
        /\ a.teardownAcknowledged = rest.teardownAcknowledged
    <3> HIDE DEF a
    <3> QED BY <1>7, <2>1, ZenonT(40) DEF Owners
  <2>3. o.script = Confirming /\ ~rest.teardownAcknowledged
    BY <1>1, <1>5 DEF OwnerOK
  <2> QED BY <1>1, <1>5, <2>2, <2>3 DEF OwnerOK
<1>6. CASE o.kind \in {"on", "off"} /\ Tail(o.script) = <<>>
  <2>1. Advanced(o) = idle
    BY <1>1, <1>6 DEF Advanced, rest, idle
  <2>2. /\ o.connection \in {"ready", "faulted"} /\ rest.connection = o.connection
        /\ ~o.teardownAcknowledged /\ ~rest.teardownAcknowledged
    BY <1>1, <1>6 DEF OwnerOK
  <2>3. OwnerOK(idle)
    BY <1>7, <2>2 DEF OwnerOK
  <2> QED BY <1>1, <1>6, <1>7, <2>1, <2>2, <2>3
<1> QED BY <1>3, <1>4, <1>5, <1>6 DEF OwnerOK, Owners, Kinds

-----------------------------------------------------------------------------
(* The scheduler's operations *)

\* Empty queues and buffers are queues and buffers.
LEMMA Empties == <<>> \in Seq(Commands) /\ <<>> \in Seq(Frames)
OBVIOUS

\* Who learns of a rejection.
LEMMA PendingAreCallers ==
    ASSUME NEW s, Queued(s), NEW who \in Callers
    PROVE  who \in PendingCallers(s) <=> Calls(s, who)
<1>1. s.active \in Commands \cup {NoCommand} /\ who # "none"
  BY DEF Queued, Schedulers, Callers
<1>2. \A c \in Commands : c.caller \in Callers /\ c # NoCommand
  BY DEF Commands, NoCommand, Callers
<1>3. CASE s.queue = <<>>
  BY <1>1, <1>2, <1>3 DEF PendingCallers, Calls, Behind, NoCommand
<1>4. ASSUME NEW c \in Commands, s.queue = <<c>>
      PROVE  who \in PendingCallers(s) <=> Calls(s, who)
  <2>1. {s.queue[i] : i \in DOMAIN s.queue} = {c}
    BY <1>4
  <2>2. Behind(s) = c
    BY <1>4 DEF Behind
  <2>3. PendingCallers(s) =
          {d.caller : d \in ({c} \cup {s.active}) \ {NoCommand}}
    BY <2>1 DEF PendingCallers
  <2> QED BY <1>1, <1>2, <2>2, <2>3 DEF Calls, NoCommand
<1> QED BY <1>3, <1>4 DEF Queued

\* A disposed scheduler, a failed one and the one of a new connection.
LEMMA Scrapped ==
    ASSUME NEW s, SchedulerOK(s)
    PROVE  /\ SchedulerOK(Disposed(s)) /\ Disposed(s).state = "none"
           /\ Disposed(s).active = NoCommand /\ Behind(Disposed(s)) = NoCommand
           /\ Disposed(s).generation = s.generation
           /\ Disposed(s).deaf = s.deaf
<1> DEFINE d == Disposed(s)
<1>1. /\ d.state = "none" /\ d.active = NoCommand /\ d.queue = <<>>
      /\ d.buffer = <<>> /\ d.generation = s.generation /\ d.deaf = s.deaf
      /\ d \in Schedulers
  BY Empties DEF SchedulerOK, Queued, Schedulers, Disposed, Emptied
<1> QED BY <1>1 DEF SchedulerOK, Queued, Behind

LEMMA FailedForGood ==
    ASSUME NEW s, SchedulerOK(s), s.state = "ok"
    PROVE  /\ SchedulerOK(Failed(s)) /\ Failed(s).state = "failed"
           /\ Failed(s).active = NoCommand /\ Behind(Failed(s)) = NoCommand
           /\ Failed(s).generation = s.generation
           /\ Failed(s).deaf = s.deaf \cup {s.generation}
<1> DEFINE f == Failed(s)
<1>1. s.deaf \cup {s.generation} \in SUBSET (1..MaxPorts)
  BY PortsAssumption DEF SchedulerOK, Queued, Schedulers
<1>2. /\ f.state = "failed" /\ f.active = NoCommand /\ f.queue = <<>>
      /\ f.buffer = <<>> /\ f.generation = s.generation
      /\ f.deaf = s.deaf \cup {s.generation}
      /\ f \in Schedulers
  BY <1>1, Empties DEF SchedulerOK, Queued, Schedulers, Failed, Emptied
<1>3. f.deaf \subseteq 1..s.generation
  BY <1>2 DEF SchedulerOK, Queued, Schedulers
<1> QED BY <1>2, <1>3 DEF SchedulerOK, Queued, Behind

LEMMA Renewed ==
    ASSUME NEW s, SchedulerOK(s), s.state # "ok", s.generation < MaxPorts
    PROVE  LET n == NewScheduler(s)
           IN /\ SchedulerOK(n) /\ n.state = "ok"
              /\ n.active = NoCommand /\ Behind(n) = NoCommand
              /\ n.buffer = <<>> /\ n.generation = s.generation + 1
              /\ n.deaf = s.deaf
<1> DEFINE n == NewScheduler(s)
<1>1. /\ n.state = "ok" /\ n.active = NoCommand /\ n.queue = <<>>
      /\ n.buffer = <<>> /\ n.generation = s.generation + 1 /\ n.deaf = s.deaf
      /\ n \in Schedulers
  <2>1. /\ s.active = NoCommand /\ s.queue = <<>> /\ s.buffer = <<>>
        /\ s \in Schedulers /\ s.generation + 1 \in Nat
    BY DEF SchedulerOK, Queued, Schedulers
  <2>2. n = [s EXCEPT !.state = "ok", !.generation = s.generation + 1]
    BY DEF NewScheduler
  <2> QED BY <2>1, <2>2, Empties DEF Schedulers
<1>2. n.deaf \subseteq 1..n.generation /\ n.generation \notin n.deaf
      /\ n.generation > 0 /\ n.generation <= MaxPorts
  BY <1>1, PortsAssumption DEF SchedulerOK, Queued, Schedulers
<1> QED BY <1>1, <1>2 DEF SchedulerOK, Queued, Behind

\* What #startNext makes of the scheduler, the line and the writes.
LEMMA Pumped ==
    ASSUME NEW s, NEW received, NEW unsettled, Queued(s), s.state = "ok",
           s.generation = scheduler.generation,
           received \in Seq(Texts), unsettled \subseteq Writes,
           port \in Ports \cup {NoPort},
           StartNext(s, received, unsettled)
    PROVE  /\ SchedulerOK(scheduler') /\ scheduler'.state = "ok"
           /\ scheduler'.generation = s.generation
           /\ scheduler'.deaf = s.deaf /\ scheduler'.buffer = s.buffer
           /\ \A who \in Callers : Calls(scheduler', who) <=> Calls(s, who)
           /\ \/ /\ s.active = NoCommand /\ s.queue # <<>>
                 /\ scheduler'.active = Behind(s)
                 /\ scheduler'.active \in Commands
                 /\ Behind(scheduler') = NoCommand
                 /\ wire' \in {received, Append(received, Behind(s).text)}
              \/ /\ s.active # NoCommand \/ s.queue = <<>>
                 /\ scheduler' = s /\ wire' = received
           /\ wire' \in Seq(Texts)
           /\ writes' \subseteq Writes
           /\ \A w \in writes' : w \in unsettled \/ w.generation = s.generation
<1>1. CASE StartsNext(s)
  <2>1. PICK c \in Commands : s.queue = <<c>> /\ c.caller # s.active.caller
    BY <1>1 DEF StartsNext, Queued
  <2>2. /\ Head(s.queue) = c /\ Tail(s.queue) = <<>>
        /\ Behind(s) = c /\ s.queue # <<>>
    BY <2>1 DEF Behind
  <2>3. scheduler' = [s EXCEPT !.active = c, !.queue = <<>>]
        /\ Transmits(c.text, received, unsettled)
    BY <1>1, <2>2 DEF StartNext
  <2>4. /\ scheduler'.state = "ok" /\ scheduler'.active = c
        /\ scheduler'.queue = <<>> /\ scheduler'.buffer = s.buffer
        /\ scheduler'.generation = s.generation /\ scheduler'.deaf = s.deaf
        /\ scheduler' \in Schedulers
    BY <2>3, Empties DEF Queued, Schedulers
  <2>5. c.text \in Texts /\ c.caller \in Callers /\ c # NoCommand
    BY DEF Commands, NoCommand, Callers
  <2>6. /\ wire' \in {received, Append(received, c.text)}
        /\ wire' \in Seq(Texts)
    BY <2>3, <2>5 DEF Transmits
  <2>7. PICK k \in 1..MaxWrites :
          writes' = unsettled \cup {[slot |-> k, port |-> port,
                                    generation |-> scheduler.generation,
                                    phase |-> "write"]}
    BY <2>3 DEF Transmits, FreeSlots
  <2>8. scheduler.generation \in Nat
    BY DEF Queued, Schedulers
  <2>9. /\ writes' \subseteq Writes
        /\ \A w \in writes' : w \in unsettled \/ w.generation = s.generation
    BY <2>7, <2>8 DEF Writes
  <2>10. SchedulerOK(scheduler') /\ Behind(scheduler') = NoCommand
    BY <2>4 DEF SchedulerOK, Queued, Behind
  <2>11. s.active = NoCommand
    BY <1>1 DEF StartsNext
  <2> QED
    BY <2>2, <2>4, <2>5, <2>6, <2>9, <2>10, <2>11 DEF Calls, NoCommand, Callers
<1>2. CASE ~StartsNext(s)
  <2>1. scheduler' = s /\ wire' = received /\ writes' = unsettled
    BY <1>2 DEF StartNext, Rests
  <2> QED BY <1>2, <2>1 DEF StartsNext, SchedulerOK
<1> QED BY <1>1, <1>2

-----------------------------------------------------------------------------
(* The service, its scheduler and the second caller *)

\* Nobody waits on a scheduler that is gone, and who waits has its own command.
LEMMA Callings ==
    ASSUME NEW s, NEW o, NEW r, ServiceOK(s, o, r)
    PROVE  /\ Calls(s, "device") \/ Calls(s, "reader") => s.state = "ok"
           /\ r = Calls(s, "reader")
           /\ Calls(s, "device") <=> o.sent /\ Head(o.script) \in Texts
           /\ ~Calls(s, "device") =>
                /\ s.queue = <<>> /\ Behind(s) = NoCommand
                /\ s.active = NoCommand \/ s.active.caller = "reader"
           /\ ~r => /\ s.queue = <<>> /\ Behind(s) = NoCommand
                    /\ s.active = NoCommand \/ s.active.caller = "device"
<1> USE DEF ServiceOK, Serves
<1>1. /\ s.queue = <<>> => Behind(s) = NoCommand
      /\ s.active \in Commands \cup {NoCommand}
      /\ s.state # "ok" => s.queue = <<>> /\ s.active = NoCommand
  BY DEF SchedulerOK, Queued, Schedulers, Behind
<1>2. \A c \in Commands : c.caller \in Callers /\ c # NoCommand
  BY DEF Commands, NoCommand, Callers
<1>3. NoCommand.caller = "none"
  BY DEF NoCommand
<1>4. s.queue # <<>> =>
        /\ Behind(s) \in Commands /\ s.active \in Commands
        /\ Behind(s).caller # s.active.caller
  <2>1. ASSUME NEW c \in Commands, s.queue = <<c>>,
               c.caller # s.active.caller
        PROVE  Behind(s) \in Commands /\ Behind(s).caller # s.active.caller
    BY <2>1 DEF Behind
  <2> QED BY <1>1, <2>1 DEF SchedulerOK, Queued
<1> QED BY <1>1, <1>2, <1>3, <1>4 DEF Calls, Callers

\* Everything that is pending is rejected.
LEMMA Interrupted ==
    ASSUME NEW s, NEW o, NEW r, ServiceOK(s, o, r),
           NEW p, OwnerOK(p), p.kind = o.kind, p.script = o.script,
           p.sent = o.sent,
           NEW t, SchedulerOK(t), t.state # "ok"
    PROVE  /\ ServiceOK(t, IF "device" \in PendingCallers(s)
                           THEN OperationFails(p) ELSE p,
                        r /\ "reader" \notin PendingCallers(s))
           /\ "device" \in PendingCallers(s) => Head(o.script) \in Texts
<1>1. /\ "device" \in PendingCallers(s) <=> Calls(s, "device")
      /\ "reader" \in PendingCallers(s) <=> Calls(s, "reader")
  BY PendingAreCallers DEF ServiceOK, SchedulerOK, Callers
<1>2. ~Calls(t, "device") /\ ~Calls(t, "reader")
      /\ t.active = NoCommand /\ Behind(t) = NoCommand
  BY DEF SchedulerOK, Calls, Behind, NoCommand
<1>3. r = Calls(s, "reader")
      /\ (Calls(s, "device") <=> o.sent /\ Head(o.script) \in Texts)
  BY Callings
<1>4. NoCommand.caller = "none"
  BY DEF NoCommand
<1>5. (r /\ "reader" \notin PendingCallers(s)) = FALSE
  BY <1>1, <1>3
<1>6. CASE "device" \in PendingCallers(s)
  <2>1. p.kind # "none"
    BY <1>1, <1>3, <1>6 DEF OwnerOK
  <2>2. OwnerOK(OperationFails(p)) /\ ~OperationFails(p).sent
    BY <2>1, OperationFailed
  <2>3. ServiceOK(t, OperationFails(p), FALSE)
    BY <1>2, <1>4, <2>2 DEF ServiceOK, Serves, ReaderOK
  <2> QED BY <1>1, <1>3, <1>5, <1>6, <2>3
<1>7. CASE "device" \notin PendingCallers(s)
  <2>1. ServiceOK(t, p, FALSE)
    BY <1>1, <1>2, <1>3, <1>4, <1>7 DEF ServiceOK, Serves, ReaderOK
  <2> QED BY <1>5, <1>7, <2>1
<1> QED BY <1>6, <1>7

\* A service that hears of a fault takes nothing more for granted.
LEMMA Subdued ==
    ASSUME NEW o, OwnerOK(o), NEW p, OwnerOK(p),
           p.kind = o.kind, p.script = o.script, p.sent = o.sent,
           p.offAcknowledged => o.teardownAcknowledged,
           p.connection = "disconnected" => o.connection = "disconnected"
    PROVE  /\ NoNews(o, p)
           /\ o.sent /\ Head(o.script) \in Texts => NoNews(o, OperationFails(p))
<1>1. NoNews(o, p)
  BY DEF NoNews, Claims, Leaves, Identifying, OwnerOK
<1>2. ASSUME o.sent, Head(o.script) \in Texts
      PROVE  NoNews(o, OperationFails(p))
  <2>1. p.kind # "none" /\ p.script # Hanging /\ p.script # Dialling
    BY SMTT(40), <1>2, Scripts DEF OwnerOK, Texts
  <2>2. ~p.offAcknowledged
    BY <2>1 DEF OwnerOK
  <2>3. /\ OwnerOK(OperationFails(p))
        /\ OperationFails(p).connection # "disconnected"
        /\ OperationFails(p).kind = "none"
        /\ ~OperationFails(p).offAcknowledged
    BY <2>1, <2>2, OperationFailed
  <2> QED BY <2>3 DEF NoNews, Claims, Leaves
<1> QED BY <1>1, <1>2

\* An item that is not on the line is rejected.
LEMMA Thwarted ==
    ASSUME NEW s, NEW o, NEW r, ServiceOK(s, o, r), o.kind # "none",
           ~Calls(s, "device")
    PROVE  ServiceOK(s, OperationFails(o), r)
<1> DEFINE f == OperationFails(o)
<1>1. /\ OwnerOK(f) /\ ~f.sent /\ f.script \in {<<>>, Hanging}
      /\ f.connection # "disconnected"
      /\ f.kind \in {"none", "abort"} /\ (f.kind = "abort" => o.kind = "connect")
      /\ f.teardownAcknowledged => o.teardownAcknowledged
      /\ f.connection \in {"faulted", o.connection}
  BY OperationFailed DEF ServiceOK
<1>2. ~MustOpen(f)
  BY <1>1, Scripts DEF MustOpen
<1>3. Behind(s) = NoCommand /\ (s.active = NoCommand \/ s.active.caller = "reader")
  BY Callings
<1>4. NoCommand.caller = "none"
  BY DEF NoCommand
<1> QED BY <1>1, <1>2, <1>3, <1>4 DEF ServiceOK, Serves, ReaderOK

\* The port is open: a new scheduler takes it over.
LEMMA Connected ==
    ASSUME NEW s, NEW o, NEW r, ServiceOK(s, o, r), o.kind # "none",
           Head(o.script) = "open", s.generation < MaxPorts
    PROVE  /\ ServiceOK(NewScheduler(s), Advanced(o), r)
           /\ o.script \in {Dialling, Reopening} /\ s.state # "ok" /\ ~r
<1> DEFINE a == Advanced(o)
<1>1. MustOpen(o) /\ o.script \in {Dialling, Reopening}
  BY Scripts DEF ServiceOK, OwnerOK, MustOpen, Owners, Kinds
<1>2. s.state # "ok"
  BY <1>1 DEF ServiceOK
<1>3. ~r
  BY <1>2, Callings
<1>4. /\ SchedulerOK(NewScheduler(s)) /\ NewScheduler(s).active = NoCommand
      /\ Behind(NewScheduler(s)) = NoCommand
  BY <1>2, Renewed DEF ServiceOK
<1>5. /\ OwnerOK(a) /\ ~a.sent /\ a.script = Tail(o.script)
      /\ a.connection # "disconnected"
  BY <1>1, ScriptAdvanced, Scripts DEF ServiceOK
<1>6. ~MustOpen(a)
  BY <1>1, <1>5, Scripts DEF MustOpen
<1>7. NoCommand.caller = "none"
  BY DEF NoCommand
<1> QED
  BY <1>1, <1>2, <1>3, <1>4, <1>5, <1>6, <1>7
  DEF ServiceOK, Serves, ReaderOK, Calls

\* The port is closed: the last close ends the connection.
LEMMA Closed ==
    ASSUME NEW s, NEW o, NEW r, ServiceOK(s, o, r), o.kind # "none",
           Head(o.script) = "close"
    PROVE  /\ ServiceOK(IF Advanced(o).connection = "disconnected"
                        THEN Disposed(s) ELSE s, Advanced(o), r)
           /\ o.script \in {Redialling, Hanging} /\ ~r
<1> DEFINE a == Advanced(o)
<1>1. o.script \in {Redialling, Hanging}
  BY Scripts DEF ServiceOK, OwnerOK, Owners, Kinds
<1>2. OwnerOK(a) /\ ~a.sent
  BY ScriptAdvanced DEF ServiceOK
<1>3. ~Calls(s, "device")
  BY Callings DEF Texts
<1>4. NoCommand.caller = "none"
  BY DEF NoCommand
<1>5. CASE o.script = Redialling
  <2>1. /\ a.script = Reopening /\ a.connection # "disconnected"
    BY <1>5, ScriptAdvanced, Scripts DEF ServiceOK
  <2>2. s.state # "ok" /\ ~r
    BY <1>5, Callings DEF ServiceOK, MustOpen
  <2>3. s.active = NoCommand /\ Behind(s) = NoCommand
    BY <2>2, Callings
  <2> QED
    BY <1>1, <1>2, <1>4, <2>1, <2>2, <2>3 DEF ServiceOK, Serves, ReaderOK, Calls
<1>6. CASE o.script = Hanging
  <2>1. o.kind \in {"abort", "disconnect"}
    BY <1>6, Scripts DEF ServiceOK, OwnerOK, Owners, Kinds
  <2>2. a.connection = "disconnected"
    BY <1>6, <2>1, ScriptAdvanced DEF ServiceOK
  <2>3. ~r
    BY <1>6, <2>1, Scripts DEF ServiceOK, ReaderOK
  <2>4. /\ SchedulerOK(Disposed(s)) /\ Disposed(s).state = "none"
        /\ Disposed(s).active = NoCommand /\ Behind(Disposed(s)) = NoCommand
    BY Scrapped DEF ServiceOK
  <2> QED
    BY <1>1, <1>2, <1>4, <2>2, <2>3, <2>4 DEF ServiceOK, Serves, ReaderOK, Calls
<1> QED BY <1>1, <1>5, <1>6

\* A fault of a scheduler that is gone is heard too: no call of the current one
\* is rejected.
LEMMA Rattled ==
    ASSUME NEW s, NEW o, NEW r, ServiceOK(s, o, r),
           NEW p, p = o \/ p = FaultHandled(o),
           NEW t, SchedulerOK(t), t.active = s.active, t.queue = s.queue,
           t.state = s.state
    PROVE  ServiceOK(t, p, r)
<1>1. /\ OwnerOK(p) /\ p.kind = o.kind /\ p.script = o.script /\ p.sent = o.sent
      /\ p.connection = "disconnected" <=> o.connection = "disconnected"
      /\ p.connection \in {"faulted", o.connection}
      /\ p.teardownAcknowledged => o.teardownAcknowledged
  BY FaultIsHandled DEF ServiceOK
<1>2. Behind(t) = Behind(s)
  BY DEF Behind
<1> QED
  BY <1>1, <1>2 DEF ServiceOK, Serves, ReaderOK, Calls, MustOpen

\* A command of a caller that has none pending is queued.
LEMMA Commanded ==
    ASSUME NEW s, NEW o, NEW r, ServiceOK(s, o, r), s.state = "ok",
           NEW text \in Texts, NEW who \in Callers, ~Calls(s, who)
    PROVE  LET e == Enqueued(s, text, who)
           IN /\ Queued(e) /\ e.state = "ok"
              /\ e.generation = s.generation /\ e.deaf = s.deaf
              /\ e.active = s.active /\ e.buffer = s.buffer
              /\ Behind(e) = [text |-> text, caller |-> who]
              /\ e.queue # <<>>
<1> DEFINE c == [text |-> text, caller |-> who]
<1>1. /\ s.queue = <<>>
      /\ s.active = NoCommand \/ s.active.caller # who
  BY Callings DEF Callers, Calls
<1>2. c \in Commands
  BY DEF Commands
<1>3. c.caller = who
  OBVIOUS
<1> HIDE DEF c
<1>4. Append(<<>>, c) = <<c>>
  OBVIOUS
<1>5. Enqueued(s, text, who) = [s EXCEPT !.queue = <<c>>]
  BY <1>1, <1>4 DEF Enqueued, c
<1>6. <<c>> \in Seq(Commands) /\ <<c>> # <<>> /\ Head(<<c>>) = c
  BY <1>2
<1>7. s.active.caller # who
  BY <1>1 DEF NoCommand, Callers
<1>8. Enqueued(s, text, who) \in Schedulers
  BY <1>5, <1>6 DEF ServiceOK, SchedulerOK, Queued, Schedulers
<1>9. /\ Enqueued(s, text, who).queue = <<c>>
      /\ Enqueued(s, text, who).active = s.active
      /\ Enqueued(s, text, who).state = s.state
      /\ Enqueued(s, text, who).deaf = s.deaf
      /\ Enqueued(s, text, who).buffer = s.buffer
      /\ Enqueued(s, text, who).generation = s.generation
  BY <1>5 DEF ServiceOK, SchedulerOK, Queued, Schedulers
<1>10. Behind(Enqueued(s, text, who)) = c
  BY <1>6, <1>9 DEF Behind
<1> QED
  BY <1>2, <1>3, <1>6, <1>7, <1>8, <1>9, <1>10
  DEF ServiceOK, SchedulerOK, Queued, c
\* The active command is answered and the next one takes its place.
LEMMA Resolved ==
    ASSUME ServiceOK(scheduler, owner, reader), scheduler.state = "ok",
           port \in Ports \cup {NoPort},
           NEW s, Queued(s), s.state = "ok", s.active = scheduler.active,
           s.queue = scheduler.queue, s.generation = scheduler.generation,
           s.active # NoCommand,
           NEW received \in Seq(Texts), NEW unsettled, unsettled \subseteq Writes,
           Resolves(s, received, unsettled)
    PROVE  /\ ServiceOK(scheduler', owner', reader')
           /\ scheduler'.generation = scheduler.generation
           /\ wire' \in Seq(Texts) /\ writes' \subseteq Writes
           /\ \A w \in writes' :
                w \in unsettled \/ w.generation = scheduler.generation
           /\ \/ /\ owner' = Advanced(owner) /\ reader' = reader
                 /\ owner.sent /\ Head(owner.script) \in Texts
                 /\ s.active.caller = "device"
                 /\ s.active.text = Head(owner.script)
              \/ /\ owner' = owner /\ reader /\ reader' = FALSE
                 /\ s.active.caller = "reader" /\ s.active.text = "version"
           /\ \E first \in Matches(s) :
                /\ scheduler'.buffer =
                     SubSeq(s.buffer, first + 1, Len(s.buffer))
                /\ FirstMatch(s, first)
           /\ scheduler'.state = "ok"
           /\ \/ /\ scheduler.queue # <<>>
                 /\ scheduler'.active = Behind(scheduler)
                 /\ scheduler'.active \in Commands
                 /\ Behind(scheduler') = NoCommand
                 /\ wire' \in {received,
                               Append(received, Behind(scheduler).text)}
              \/ /\ scheduler.queue = <<>>
                 /\ scheduler'.active = NoCommand
                 /\ Behind(scheduler') = NoCommand
                 /\ wire' = received
<1>1. PICK first \in Matches(s) :
        FirstMatch(s, first) /\ StartNext(Consumed(s, first), received, unsettled)
  BY DEF Resolves
<1> DEFINE c == Consumed(s, first)
<1>2. /\ s \in Schedulers /\ s.buffer \in Seq(Frames)
      /\ first \in 1..Len(s.buffer)
  BY <1>1 DEF Queued, Schedulers, Matches
<1>3. SubSeq(s.buffer, first + 1, Len(s.buffer)) \in Seq(Frames)
  BY <1>2
<1>4. /\ c \in Schedulers /\ c.state = "ok" /\ c.active = NoCommand
      /\ c.queue = s.queue /\ c.generation = s.generation /\ c.deaf = s.deaf
      /\ c.buffer = SubSeq(s.buffer, first + 1, Len(s.buffer))
  BY <1>2, <1>3 DEF Schedulers, Consumed
<1>5. NoCommand.caller = "none" /\ \A d \in Commands : d.caller \in Callers
  BY DEF NoCommand, Commands
<1>6. Queued(c)
  BY <1>4, <1>5 DEF Queued, Callers
<1>7. Behind(c) = Behind(scheduler)
  BY <1>4 DEF Behind
<1> HIDE DEF c
<1>8. StartNext(c, received, unsettled)
  BY <1>1 DEF c
<1>9. /\ SchedulerOK(scheduler') /\ scheduler'.state = "ok"
      /\ scheduler'.generation = c.generation
      /\ scheduler'.buffer = c.buffer
      /\ \A who \in Callers : Calls(scheduler', who) <=> Calls(c, who)
      /\ \/ /\ c.active = NoCommand /\ c.queue # <<>>
            /\ scheduler'.active = Behind(c)
            /\ scheduler'.active \in Commands
            /\ Behind(scheduler') = NoCommand
            /\ wire' \in {received, Append(received, Behind(c).text)}
         \/ /\ c.active # NoCommand \/ c.queue = <<>>
            /\ scheduler' = c /\ wire' = received
      /\ wire' \in Seq(Texts)
      /\ writes' \subseteq Writes
      /\ \A w \in writes' : w \in unsettled \/ w.generation = c.generation
  BY <1>4, <1>6, <1>8, Pumped
<1>10. Behind(scheduler') = NoCommand
  BY <1>4, <1>9 DEF Behind
<1>11. scheduler'.active = Behind(scheduler)
  BY <1>4, <1>7, <1>9 DEF Behind
<1>12. /\ s.active \in Commands /\ s.active.caller \in Callers
       /\ s.active.caller # Behind(scheduler).caller
  <2>1. s.active \in Commands
    BY DEF Queued, Schedulers
  <2>2. CASE s.queue = <<>>
    BY <1>5, <2>1, <2>2 DEF Behind, Callers
  <2>3. CASE s.queue # <<>>
    <3>1. PICK d \in Commands : s.queue = <<d>> /\ d.caller # s.active.caller
      BY <2>3 DEF Queued
    <3> QED BY <1>5, <2>1, <3>1 DEF Behind
  <2> QED BY <1>5, <2>1, <2>2, <2>3
<1>13. /\ Calls(scheduler', "device") <=> Behind(scheduler).caller = "device"
       /\ Calls(scheduler', "reader") <=> Behind(scheduler).caller = "reader"
  BY <1>5, <1>10, <1>11 DEF Calls
<1>14. \A d \in {scheduler.active, Behind(scheduler)} :
         /\ d.caller = "device" => d.text = Head(owner.script)
         /\ d.caller = "reader" => d.text = "version"
  BY DEF ServiceOK, Serves
<1>15. CASE s.active.caller = "device"
  <2>1. owner' = Advanced(owner) /\ reader' = reader
    BY <1>15 DEF Resolves
  <2>2. owner.sent /\ Head(owner.script) \in Texts
    BY <1>15 DEF ServiceOK, Serves, Calls
  <2>3. owner.kind # "none"
    BY <2>2 DEF ServiceOK, OwnerOK
  <2>4. OwnerOK(owner') /\ ~owner'.sent
    BY <2>1, <2>3, ScriptAdvanced DEF ServiceOK
  <2> DEFINE a == Advanced(owner)
  <2>a. owner.script \in {Silencing, Confirming, Leaving, Emitting, Muting}
    <3>1. OwnerOK(owner)
      BY DEF ServiceOK
    <3> QED BY <2>2, <2>3, <3>1, Scripts DEF OwnerOK, Owners, Kinds, Texts
  <2>b. /\ Tail(owner.script) # <<>> => a.script = Tail(owner.script)
        /\ Tail(owner.script) = <<>> => a.kind = "none"
        /\ a.connection = "disconnected" => owner.script = Hanging
        /\ a.teardownAcknowledged => owner.kind = "disconnect"
    BY <2>3, ScriptAdvanced DEF ServiceOK
  <2>c. owner'.kind = "none" => owner'.script = <<>>
    BY <2>4 DEF OwnerOK
  <2>5. /\ owner'.connection # "disconnected"
        /\ owner'.script \in {Confirming, Hanging, <<>>}
    BY <2>1, <2>a, <2>b, <2>c, Scripts
  <2>6. ~MustOpen(owner')
    BY <2>5, Scripts DEF MustOpen
  <2>7. reader = Calls(scheduler, "reader")
        /\ (Calls(scheduler, "reader") <=> Behind(scheduler).caller = "reader")
    BY <1>15 DEF ServiceOK, Serves, Calls
  <2>8. Serves(scheduler', owner', reader')
    <3>1. ~(owner'.sent /\ Head(owner'.script) \in Texts)
          /\ ~Calls(scheduler', "device")
      BY <1>12, <1>13, <1>15, <2>4
    <3>2. reader' = Calls(scheduler', "reader")
      <4>1. reader \in BOOLEAN
        BY DEF ServiceOK
      <4> QED BY <1>13, <2>1, <2>7, <4>1 DEF Calls
    <3>3. \A d \in {scheduler'.active, Behind(scheduler')} :
            /\ d.caller # "device"
            /\ d.caller = "reader" => d.text = "version"
      BY <1>5, <1>10, <1>11, <1>12, <1>14, <1>15
    <3> QED BY <3>1, <3>2, <3>3 DEF Serves
  <2>9. ReaderOK(scheduler', owner', reader')
    <3> SUFFICES ASSUME reader
                 PROVE  ReaderOK(scheduler', owner', TRUE)
      BY <2>1 DEF ServiceOK, ReaderOK
    <3>1. owner.kind \in {"on", "off"}
      BY <1>15, <2>3 DEF ServiceOK, ReaderOK
    <3>2. owner.script \in {Emitting, Muting}
      BY <3>1 DEF ServiceOK, OwnerOK
    <3>3. owner'.kind = "none" /\ ~owner'.teardownAcknowledged
      BY <2>1, <2>b, <3>1, <3>2, Scripts
    <3> QED BY <2>4, <2>5, <3>3 DEF ReaderOK, OwnerOK
  <2> QED
    BY <1>1, <1>4, <1>5, <1>7, <1>9, <1>10, <1>14, <1>15, <2>1, <2>2, <2>4, <2>5,
       <2>6, <2>8, <2>9
    DEF ServiceOK
<1>16. CASE s.active.caller = "reader"
  <2>1. owner' = owner /\ reader' = FALSE
    BY <1>16 DEF Resolves
  <2>2. reader
    BY <1>16 DEF ServiceOK, Serves, Calls
  <2>3. Serves(scheduler', owner', reader')
    BY <1>5, <1>10, <1>11, <1>12, <1>13, <1>14, <1>16, <2>1
    DEF Serves, ServiceOK, Calls
  <2> QED
    BY <1>1, <1>4, <1>5, <1>7, <1>9, <1>10, <1>14, <1>16, <2>1, <2>2, <2>3
    DEF ServiceOK, ReaderOK
<1> QED BY <1>12, <1>15, <1>16 DEF Callers

-----------------------------------------------------------------------------
(* The inductive invariant: the transport *)

Awaits(o, item) == o.sent /\ o.script # <<>> /\ Head(o.script) = item

\* A handle is opened once, by the operation that awaits it, before the
\* scheduler of its connection exists; a close is asked for only when the open
\* is no longer outstanding.
HandleOK(p, h) ==
    /\ h.native = "new" => h = NewHandle /\ port # p
    /\ h.native = "open" => port = p \/ h.orphanClose # "no"
    /\ h.native \in {"opening", "open"} => h.listeners # "none"
    /\ h.open = "pending" =>
         /\ h.native = "opening" /\ port = p /\ Awaits(owner, "open")
         /\ \A q \in Ports : handles[q] = NewHandle => p < q
    /\ h.open = "late" => h.native = "opening" /\ port # p
    /\ h.close \/ h.lateClose \/ h.orphanClose = "asked" => h.open = "none"
    /\ h.close =>
         Awaits(owner, "close") /\ \A q \in Ports : handles[q].close => p = q
    /\ h = NewHandle \/ h.open = "pending" => scheduler.generation < p

HandlesOK == \A p \in Ports : HandleOK(p, handles[p])

TransportOK ==
    /\ port \in Ports \cup {NoPort}
    /\ portState \in {"none", "opening", "open", "closing", "faulted"}
    /\ handles \in [Ports -> Handles]
    /\ rf \in {"on", "off"}

LineOK ==
    /\ wire \in Seq(Texts) /\ writes \subseteq Writes
    /\ \A w \in writes : w.generation \in 1..scheduler.generation

LinkInv ==
    /\ ServiceOK(scheduler, owner, reader)
    /\ TransportOK /\ HandlesOK /\ LineOK

-----------------------------------------------------------------------------
(* The steps of the service *)

\* What a step leaves that neither opens nor closes a port.
Carried ==
    /\ ServiceOK(scheduler', owner', reader')
    /\ scheduler'.generation = scheduler.generation
    /\ \A item \in {"open", "close"} :
         Awaits(owner, item) => Awaits(owner', item)

LEMMA HandlesCarried ==
    ASSUME HandlesOK, Carried, UNCHANGED <<port, handles>>
    PROVE  HandlesOK'
<1> SUFFICES ASSUME NEW p \in Ports
             PROVE  HandleOK(p, handles[p])'
  BY DEF HandlesOK
<1>1. HandleOK(p, handles[p])
  BY DEF HandlesOK
<1> QED BY <1>1 DEF HandleOK, Carried

LEMMA EventHeard ==
    ASSUME ServiceOK(scheduler, owner, reader), EventArrives
    PROVE  /\ Carried /\ NoNews(owner, owner')
           /\ \/ UNCHANGED <<scheduler, owner, reader>>
              \/ scheduler'.state # "ok"
<1>1. CASE Heard
  <2>1. /\ scheduler' = Disposed(scheduler)
        /\ owner' = IF "device" \in PendingCallers(scheduler)
                    THEN OperationFails(EventHandled(owner))
                    ELSE EventHandled(owner)
        /\ reader' = (reader /\ "reader" \notin PendingCallers(scheduler))
    BY <1>1 DEF EventArrives, Rejects
  <2>2. OwnerOK(owner) /\ owner.connection # "disconnected"
    BY <1>1 DEF ServiceOK, Heard
  <2>3. /\ OwnerOK(EventHandled(owner))
        /\ EventHandled(owner).kind = owner.kind
        /\ EventHandled(owner).script = owner.script
        /\ EventHandled(owner).sent = owner.sent
        /\ EventHandled(owner).connection = "faulted"
        /\ EventHandled(owner).offAcknowledged = owner.teardownAcknowledged
    BY <2>2, EventIsHandled
  <2>4. /\ SchedulerOK(Disposed(scheduler)) /\ Disposed(scheduler).state # "ok"
        /\ Disposed(scheduler).generation = scheduler.generation
    BY Scrapped DEF ServiceOK
  <2>5. /\ ServiceOK(scheduler', owner', reader')
        /\ "device" \in PendingCallers(scheduler) => Head(owner.script) \in Texts
    BY <2>1, <2>3, <2>4, Interrupted
  <2>6. "device" \in PendingCallers(scheduler) => owner.sent
    BY Callings, PendingAreCallers DEF ServiceOK, SchedulerOK, Callers
  <2>7. NoNews(owner, owner')
    BY <2>1, <2>2, <2>3, <2>5, <2>6, Subdued
  <2> QED BY <1>1, <2>1, <2>3, <2>4, <2>5, <2>6, <2>7 DEF Carried, Awaits, Texts
<1>2. CASE ~Heard
  BY <1>2 DEF EventArrives, Carried, NoNews
<1> QED BY <1>1, <1>2

LEMMA FaultHeard ==
    ASSUME ServiceOK(scheduler, owner, reader), scheduler.state = "ok", Faults
    PROVE  Carried /\ NoNews(owner, owner') /\ scheduler'.state # "ok"
<1>1. /\ scheduler' = Failed(scheduler)
      /\ owner' = IF "device" \in PendingCallers(scheduler)
                  THEN OperationFails(FaultHandled(owner))
                  ELSE FaultHandled(owner)
      /\ reader' = (reader /\ "reader" \notin PendingCallers(scheduler))
  BY DEF Faults, Rejects
<1>2. /\ OwnerOK(FaultHandled(owner))
      /\ FaultHandled(owner).kind = owner.kind
      /\ FaultHandled(owner).script = owner.script
      /\ FaultHandled(owner).sent = owner.sent
      /\ ~FaultHandled(owner).offAcknowledged
      /\ FaultHandled(owner).connection = "disconnected" =>
           owner.connection = "disconnected"
  BY FaultIsHandled DEF ServiceOK
<1>3. /\ SchedulerOK(Failed(scheduler)) /\ Failed(scheduler).state # "ok"
      /\ Failed(scheduler).generation = scheduler.generation
  BY FailedForGood DEF ServiceOK
<1>4. /\ ServiceOK(scheduler', owner', reader')
      /\ "device" \in PendingCallers(scheduler) => Head(owner.script) \in Texts
  BY <1>1, <1>2, <1>3, Interrupted
<1>5. "device" \in PendingCallers(scheduler) => owner.sent
  BY Callings, PendingAreCallers DEF ServiceOK, SchedulerOK, Callers
<1>6. NoNews(owner, owner')
  BY <1>1, <1>2, <1>4, <1>5, Subdued DEF ServiceOK
<1> QED BY <1>1, <1>2, <1>3, <1>4, <1>5, <1>6 DEF Carried, Awaits, Texts

\* The scheduler looks for the response in what it has received.
LEMMA Processed ==
    ASSUME ServiceOK(scheduler, owner, reader), TransportOK, LineOK,
           NEW s, SchedulerOK(s), s.state = scheduler.state,
           s.active = scheduler.active, s.queue = scheduler.queue,
           s.generation = scheduler.generation,
           NEW received \in Seq(Texts), NEW unsettled, unsettled \subseteq writes,
           Processes(s, received, unsettled)
    PROVE  Carried /\ LineOK'
<1>1. CASE s.active # NoCommand /\ Answered(s)
  <2>1. Resolves(s, received, unsettled)
    BY <1>1 DEF Processes
  <2>2. s.state = "ok"
    BY <1>1 DEF SchedulerOK
  <2>3. Queued(s) /\ unsettled \subseteq Writes
        /\ port \in Ports \cup {NoPort}
    BY DEF SchedulerOK, LineOK, TransportOK
  <2>4. /\ ServiceOK(scheduler', owner', reader')
        /\ scheduler'.generation = scheduler.generation
        /\ wire' \in Seq(Texts) /\ writes' \subseteq Writes
        /\ \A w \in writes' :
             w \in unsettled \/ w.generation = scheduler.generation
        /\ \/ owner.sent /\ Head(owner.script) \in Texts
           \/ owner' = owner
    BY <1>1, <2>1, <2>2, <2>3, Resolved
  <2>5. scheduler.generation \in 1..scheduler.generation
    BY <2>2 DEF ServiceOK, SchedulerOK, Queued, Schedulers
  <2> QED BY <2>4, <2>5 DEF Carried, LineOK, Awaits, Texts
<1>2. CASE ~(s.active # NoCommand /\ Answered(s))
  <2>1. /\ scheduler' = s /\ wire' = received /\ writes' = unsettled
        /\ owner' = owner /\ reader' = reader
    BY <1>2 DEF Processes, Rests
  <2>2. ServiceOK(s, owner, reader)
    BY Rattled
  <2> QED BY <2>1, <2>2 DEF Carried, LineOK
<1> QED BY <1>1, <1>2

\* Operations begin on a service that has nothing to do.
LEMMA Begun ==
    ASSUME ServiceOK(scheduler, owner, reader),
           Connect \/ Disconnect \/ SetOutput("on") \/ SetOutput("off")
    PROVE  Carried /\ ~owner.sent
<1>1. ~owner.sent /\ owner.kind = "none" /\ OwnerOK(owner)
  BY DEF ServiceOK, OwnerOK, Connect, Disconnect, SetOutput
<1>2. ~Calls(scheduler, "device")
  BY <1>1, Callings
<1>3. /\ scheduler.active.caller # "device"
      /\ Behind(scheduler).caller # "device"
      /\ Behind(scheduler) = NoCommand
  BY <1>2, Callings DEF Calls
<1>4. NoCommand.caller = "none"
  BY DEF NoCommand
<1> USE Scripts
<1>5. CASE Connect
  <2>1. /\ owner' = [Disconnected EXCEPT !.connection = "connecting",
                            !.kind = "connect", !.script = Dialling, !.sent = FALSE]
        /\ scheduler' = scheduler /\ reader' = reader
        /\ owner.connection = "disconnected"
    BY <1>5 DEF Connect, Begin, OthersUnchanged, schedulerVars, Dialling
  <2>2. /\ owner'.kind = "connect" /\ owner'.script = Dialling
        /\ owner'.connection = "connecting" /\ owner'.sent = FALSE
        /\ owner'.teardownAcknowledged = FALSE /\ owner' \in Owners
    BY <2>1 DEF Disconnected, Owners, Kinds
  <2>3. OwnerOK(owner')
    BY <2>2 DEF OwnerOK
  <2>4. scheduler.state # "ok" /\ ~reader
    BY SMTT(40), <2>1, Callings DEF ServiceOK
  <2>5. scheduler.active = NoCommand
    BY <2>4 DEF ServiceOK, SchedulerOK
  <2>6. ServiceOK(scheduler, owner', reader)
    BY <1>3, <1>4, <2>2, <2>3, <2>4, <2>5 DEF ServiceOK, Serves, ReaderOK, Calls
  <2> QED BY <1>1, <2>1, <2>6 DEF Carried, Awaits
<1>6. ASSUME NEW text \in {"on", "off"}, SetOutput(text)
      PROVE  Carried
  <2> DEFINE script == IF text = "on" THEN Emitting ELSE Muting
  <2>1. /\ owner' = [owner EXCEPT !.connection = "ready", !.kind = text,
                                  !.script = script, !.sent = FALSE]
        /\ scheduler' = scheduler /\ reader' = reader
        /\ owner.connection = "ready"
    BY <1>6 DEF SetOutput, Begin, OthersUnchanged, schedulerVars, Emitting, Muting
  <2>2. script \in {Emitting, Muting} /\ script \in Seq(Items)
    OBVIOUS
  <2> HIDE DEF script
  <2>3. /\ owner'.kind = text /\ owner'.script = script
        /\ owner'.connection = "ready" /\ owner'.sent = FALSE
        /\ owner'.teardownAcknowledged = owner.teardownAcknowledged
        /\ owner' \in Owners
    BY <1>1, <2>1, <2>2 DEF OwnerOK, Owners, Kinds
  <2>4. ~owner.teardownAcknowledged
    BY <1>1, <2>1 DEF OwnerOK
  <2>5. OwnerOK(owner')
    BY <2>3, <2>4 DEF OwnerOK, script
  <2>6. ~MustOpen(owner')
    BY <2>2, <2>3 DEF MustOpen
  <2>7. ServiceOK(scheduler, owner', reader)
    BY <1>3, <1>4, <2>3, <2>4, <2>5, <2>6
    DEF ServiceOK, Serves, ReaderOK, Calls
  <2> QED BY <1>1, <2>1, <2>7 DEF Carried, Awaits
<1>7. CASE Disconnect
  <2>1. PICK script \in {Hanging, Leaving, Redialling} :
          /\ owner' = [owner EXCEPT !.connection = "disconnecting",
                             !.kind = "disconnect", !.script = script,
                             !.sent = FALSE]
          /\ reader' = reader
          /\ owner.connection \in {"ready", "faulted"}
          /\ script = Hanging <=> owner.teardownAcknowledged
          /\ script = Leaving => scheduler.state = "ok"
          /\ script = Redialling => scheduler.state # "ok"
          /\ scheduler' = IF script = Redialling THEN Disposed(scheduler)
                          ELSE scheduler
    BY <1>7 DEF Disconnect, Begin, Hanging, Leaving, Redialling
  <2>2. /\ owner'.kind = "disconnect" /\ owner'.script = script
        /\ owner'.connection = "disconnecting" /\ owner'.sent = FALSE
        /\ owner'.teardownAcknowledged = owner.teardownAcknowledged
        /\ owner'.offAcknowledged = owner.offAcknowledged
        /\ owner' \in Owners
    BY ZenonT(40), <1>1, <2>1 DEF OwnerOK, Owners, Kinds
  <2>3. OwnerOK(owner')
    BY <1>1, <2>1, <2>2 DEF OwnerOK
  <2>4. CASE script = Redialling
    <3>1. /\ SchedulerOK(scheduler') /\ scheduler'.state # "ok"
          /\ scheduler'.active = NoCommand /\ Behind(scheduler') = NoCommand
          /\ scheduler'.generation = scheduler.generation
      BY <2>1, <2>4, Scrapped DEF ServiceOK
    <3>2. ~reader
      BY <2>1, <2>4, Callings
    <3>3. ServiceOK(scheduler', owner', reader)
      BY <1>4, <2>2, <2>3, <3>1, <3>2 DEF ServiceOK, Serves, ReaderOK, Calls
    <3> QED BY <1>1, <2>1, <3>1, <3>3 DEF Carried, Awaits
  <2>5. CASE script # Redialling
    <3>1. scheduler' = scheduler /\ ~MustOpen(owner')
      BY <2>1, <2>2, <2>5 DEF MustOpen
    <3>2. reader => script = Leaving /\ scheduler.active.caller = "reader"
      BY <1>3, <1>4, <2>1, <2>5 DEF ServiceOK, Serves, ReaderOK, Calls
    <3>3. ServiceOK(scheduler, owner', reader)
      BY <1>3, <1>4, <2>1, <2>2, <2>3, <3>1, <3>2
      DEF ServiceOK, Serves, ReaderOK, Calls
    <3> QED BY <1>1, <2>1, <3>1, <3>3 DEF Carried, Awaits
  <2> QED BY <2>4, <2>5
<1> QED BY <1>1, <1>5, <1>6, <1>7

\* A command of the service: it is queued, or its operation fails.
LEMMA Executed ==
    ASSUME ServiceOK(scheduler, owner, reader), TransportOK, LineOK,
           NEW text \in Texts, Executes(text)
    PROVE  Carried /\ LineOK' /\ ~owner.sent
<1> DEFINE o == IF text = "off" THEN [owner EXCEPT !.offAcknowledged = FALSE]
                ELSE owner
<1>1. /\ OwnerOK(owner) /\ ~owner.sent /\ owner.script # <<>>
      /\ Head(owner.script) = text
  BY DEF ServiceOK, Executes, Due, Item
<1>2. /\ owner.kind # "none" /\ owner.script # Hanging /\ ~MustOpen(owner)
      /\ ~owner.teardownAcknowledged /\ owner.connection # "disconnected"
  BY <1>1, Scripts DEF OwnerOK, Texts, MustOpen, Disconnected
<1>3. /\ o \in Owners /\ o.kind = owner.kind /\ o.script = owner.script
      /\ o.sent = FALSE /\ o.connection = owner.connection
      /\ o.teardownAcknowledged = FALSE
  BY <1>1, <1>2 DEF OwnerOK, Owners
<1> HIDE DEF o
<1>4. ~Calls(scheduler, "device") /\ NoCommand.caller = "none"
  BY <1>1, Callings DEF NoCommand
<1>5. CASE (text = "version" \/ Ready(owner)) /\ Admits(scheduler)
  <2>1. /\ StartNext(Enqueued(scheduler, text, "device"), wire, writes)
        /\ owner' = [o EXCEPT !.sent = TRUE] /\ reader' = reader
    BY <1>5 DEF Executes, o
  <2>2. scheduler.state = "ok"
    BY <1>5 DEF Admits
  <2> DEFINE e == Enqueued(scheduler, text, "device")
  <2>3. /\ Queued(e) /\ e.state = "ok" /\ e.queue # <<>>
        /\ e.generation = scheduler.generation
        /\ e.active = scheduler.active
        /\ Behind(e) = [text |-> text, caller |-> "device"]
    BY <1>4, <2>2, Commanded DEF Callers
  <2> HIDE DEF e
  <2>4. /\ SchedulerOK(scheduler') /\ scheduler'.state = "ok"
        /\ scheduler'.generation = e.generation
        /\ \A who \in Callers : Calls(scheduler', who) <=> Calls(e, who)
        /\ \/ /\ e.active = NoCommand
              /\ scheduler'.active = Behind(e)
              /\ Behind(scheduler') = NoCommand
           \/ e.active # NoCommand /\ scheduler' = e
        /\ wire' \in Seq(Texts) /\ writes' \subseteq Writes
        /\ \A w \in writes' : w \in writes \/ w.generation = e.generation
    BY <2>1, <2>3, Pumped DEF LineOK, TransportOK, e
  <2>5. /\ owner'.kind = owner.kind /\ owner'.script = owner.script
        /\ owner'.sent = TRUE /\ owner'.connection = owner.connection
        /\ owner'.teardownAcknowledged = FALSE /\ owner' \in Owners
    BY <1>3, <2>1 DEF Owners
  <2>6. OwnerOK(owner')
    BY <1>1, <1>2, <2>5 DEF OwnerOK
  <2>7. /\ Calls(scheduler', "device")
        /\ Calls(scheduler', "reader") <=> scheduler.active.caller = "reader"
    BY <2>3, <2>4 DEF Calls, Callers
  <2>8. reader <=> scheduler.active.caller = "reader"
    <3>1. Behind(scheduler) = NoCommand
      BY <1>4, Callings
    <3> QED BY <1>4, <3>1 DEF ServiceOK, Serves, Calls
  <2>9. reader' = Calls(scheduler', "reader")
    BY <2>1, <2>7, <2>8 DEF Calls, ServiceOK
  <2>10. Serves(scheduler', owner', reader')
    BY <1>1, <1>4, <2>3, <2>4, <2>5, <2>7, <2>9
    DEF Serves, ServiceOK
  <2>11. ReaderOK(scheduler', owner', reader')
    BY <1>4, <2>1, <2>3, <2>4, <2>5, <2>8 DEF ReaderOK, ServiceOK
  <2>12. scheduler.generation \in 1..scheduler.generation
    BY <2>2 DEF ServiceOK, SchedulerOK, Queued, Schedulers
  <2>13. LineOK'
    BY <2>3, <2>4, <2>12 DEF LineOK
  <2>14. ServiceOK(scheduler', owner', reader')
    BY <1>2, <2>1, <2>4, <2>5, <2>6, <2>10, <2>11 DEF ServiceOK, MustOpen
  <2> QED BY <1>1, <2>3, <2>4, <2>13, <2>14 DEF Carried, Awaits
<1>6. CASE ~((text = "version" \/ Ready(owner)) /\ Admits(scheduler))
  <2>1. /\ owner' = OperationFails(o) /\ reader' = reader
        /\ UNCHANGED <<scheduler, wire, writes>>
    BY <1>6 DEF Executes, o, transportVars, schedulerVars
  <2>2. OwnerOK(o)
    BY <1>1, <1>2, <1>3 DEF OwnerOK
  <2>3. ServiceOK(scheduler, o, reader)
    BY <1>1, <1>2, <1>3, <2>2 DEF ServiceOK, Serves, ReaderOK, MustOpen
  <2>4. ServiceOK(scheduler, OperationFails(o), reader)
    BY <1>2, <1>3, <1>4, <2>3, Thwarted
  <2> QED BY <1>1, <2>1, <2>4 DEF Carried, LineOK, Awaits
<1> QED BY <1>1, <1>5, <1>6

\* The second caller's command.
LEMMA ReadBegun ==
    ASSUME ServiceOK(scheduler, owner, reader), TransportOK, LineOK, Reads
    PROVE  Carried /\ LineOK'
<1>1. /\ owner.connection = "ready" /\ ~reader /\ scheduler.state = "ok"
      /\ StartNext(Enqueued(scheduler, "version", "reader"), wire, writes)
      /\ reader' = TRUE /\ owner' = owner
  BY DEF Reads, Admits
<1>2. ~Calls(scheduler, "reader") /\ NoCommand.caller = "none"
  BY <1>1, Callings DEF NoCommand
<1> DEFINE e == Enqueued(scheduler, "version", "reader")
<1>3. /\ Queued(e) /\ e.state = "ok" /\ e.queue # <<>>
      /\ e.generation = scheduler.generation
      /\ e.active = scheduler.active
      /\ Behind(e) = [text |-> "version", caller |-> "reader"]
  BY <1>1, <1>2, Commanded DEF Callers, Texts
<1> HIDE DEF e
<1>4. /\ SchedulerOK(scheduler') /\ scheduler'.state = "ok"
      /\ scheduler'.generation = e.generation
      /\ \A who \in Callers : Calls(scheduler', who) <=> Calls(e, who)
      /\ \/ /\ e.active = NoCommand
            /\ scheduler'.active = Behind(e)
            /\ Behind(scheduler') = NoCommand
         \/ e.active # NoCommand /\ scheduler' = e
      /\ wire' \in Seq(Texts) /\ writes' \subseteq Writes
      /\ \A w \in writes' : w \in writes \/ w.generation = e.generation
  BY <1>1, <1>3, Pumped DEF LineOK, TransportOK, e
<1>5. /\ Calls(scheduler', "reader")
      /\ Calls(scheduler', "device") <=> scheduler.active.caller = "device"
  BY <1>3, <1>4 DEF Calls, Callers
<1>6. Calls(scheduler, "device") <=> scheduler.active.caller = "device"
  BY <1>1, <1>2, Callings DEF Calls
<1>7. reader' = Calls(scheduler', "reader")
  BY <1>1, <1>5 DEF Calls
<1>8. Serves(scheduler', owner', reader')
  BY <1>1, <1>2, <1>3, <1>4, <1>5, <1>6, <1>7 DEF Serves, ServiceOK
<1>9. ReaderOK(scheduler', owner', reader')
  BY <1>1 DEF ReaderOK, ServiceOK, OwnerOK, Owners, Kinds
<1>10. scheduler.generation \in 1..scheduler.generation
  BY <1>1 DEF ServiceOK, SchedulerOK, Queued, Schedulers
<1>11. LineOK'
  BY <1>3, <1>4, <1>10 DEF LineOK
<1>12. ServiceOK(scheduler', owner', reader')
  BY <1>1, <1>4, <1>8, <1>9 DEF ServiceOK
<1> QED BY <1>1, <1>3, <1>4, <1>11, <1>12 DEF Carried

\* The service waits for its port to open or to close.
LEMMA Asked ==
    ASSUME ServiceOK(scheduler, owner, reader), ~owner.sent, owner.script # <<>>,
           Head(owner.script) \in {"open", "close"}
    PROVE  LET o == [owner EXCEPT !.sent = TRUE]
           IN /\ ServiceOK(scheduler, o, reader)
              /\ o.script = owner.script /\ o.sent
<1> DEFINE o == [owner EXCEPT !.sent = TRUE]
<1>1. OwnerOK(owner) /\ owner.kind # "none"
  BY DEF ServiceOK, OwnerOK
<1>2. /\ o \in Owners /\ o.kind = owner.kind /\ o.script = owner.script
      /\ o.sent = TRUE /\ o.connection = owner.connection
      /\ o.teardownAcknowledged = owner.teardownAcknowledged
      /\ o.offAcknowledged = owner.offAcknowledged
  BY <1>1 DEF OwnerOK, Owners
<1>3. owner.connection # "disconnected"
  BY <1>1 DEF OwnerOK, Disconnected
<1>4. OwnerOK(o)
  BY <1>1, <1>2, <1>3 DEF OwnerOK
<1> QED
  BY <1>2, <1>3, <1>4 DEF ServiceOK, Serves, ReaderOK, MustOpen, Texts

LEMMA OpenAsked ==
    ASSUME LinkInv, Opens
    PROVE  LinkInv'
<1>1. PICK p \in Ports : OpenBegins(p)
  BY DEF Opens
<1>2. /\ ~owner.sent /\ owner.script # <<>> /\ Head(owner.script) = "open"
      /\ owner' = [owner EXCEPT !.sent = TRUE]
      /\ UNCHANGED <<scheduler, wire, reader, rf>>
  BY DEF Opens, Due, Item, schedulerVars
<1>3. /\ port = NoPort /\ port' = p /\ portState' = "opening"
      /\ handles[p] = NewHandle
      /\ \A q \in Ports : q < p => handles[q] # NewHandle
      /\ handles' = [handles EXCEPT ![p] = [handles[p] EXCEPT
                        !.native = "opening", !.open = "pending",
                        !.listeners = "own"]]
      /\ writes' = writes
  BY <1>1 DEF OpenBegins
<1>4. ServiceOK(scheduler', owner', reader') /\ Awaits(owner', "open")
  BY <1>2, Asked DEF LinkInv, Awaits
<1>5. LineOK'
  BY <1>2, <1>3 DEF LinkInv, LineOK
<1>6. NewHandle \in Handles /\ p \in Nat
  BY DEF NewHandle, Handles, Ports
<1>7. TransportOK'
  BY <1>2, <1>3, <1>6 DEF LinkInv, TransportOK, Handles
<1>8. /\ \A q \in Ports : HandleOK(q, handles[q])
      /\ handles \in [Ports -> Handles]
      /\ \A q \in Ports : handles[q].open # "pending" /\ ~handles[q].close
  BY <1>2 DEF LinkInv, TransportOK, HandlesOK, HandleOK, Awaits, Handles
<1>9. /\ handles'[p].native = "opening" /\ handles'[p].open = "pending"
      /\ handles'[p].listeners = "own" /\ handles'[p].close = FALSE
      /\ handles'[p].lateClose = FALSE /\ handles'[p].orphanClose = "no"
  BY <1>3, <1>8 DEF NewHandle, Handles
<1>10. ASSUME NEW q \in Ports PROVE HandleOK(q, handles[q])'
  <2>1. CASE q = p
    <3>1. \A r \in Ports : handles'[r] = NewHandle => p < r
      <4> SUFFICES ASSUME NEW r \in Ports, handles'[r] = NewHandle
                   PROVE  p < r
        OBVIOUS
      <4>1. r # p
        BY <1>9 DEF NewHandle
      <4>2. handles[r] = NewHandle
        BY <1>3, <1>8, <4>1
      <4> QED BY <1>3, <4>1, <4>2 DEF Ports
    <3>2. scheduler'.generation < p
      BY <1>2, <1>3, <1>8 DEF HandleOK
    <3> QED BY <1>3, <1>4, <1>9, <2>1, <3>1, <3>2 DEF HandleOK
  <2>2. CASE q # p
    <3>1. handles'[q] = handles[q]
      BY <1>3, <1>8, <2>2
    <3>2. port # q
      BY <1>3 DEF NoPort, Ports
    <3> QED BY <1>2, <1>3, <1>8, <2>2, <3>1, <3>2 DEF HandleOK
  <2> QED BY <2>1, <2>2
<1> QED BY <1>4, <1>5, <1>7, <1>10 DEF LinkInv, HandlesOK

LEMMA CloseAsked ==
    ASSUME LinkInv, ClosesPort
    PROVE  LinkInv'
<1>1. /\ ~owner.sent /\ owner.script # <<>> /\ Head(owner.script) = "close"
      /\ owner' = [owner EXCEPT !.sent = TRUE]
      /\ UNCHANGED <<scheduler, wire, reader, rf, port, writes>>
      /\ port \in Ports /\ portState' = "closing"
      /\ handles' = [handles EXCEPT ![port] = [handles[port] EXCEPT !.close = TRUE]]
  BY DEF ClosesPort, CloseBegins, Due, Item, schedulerVars, LinkInv, TransportOK
<1>2. ServiceOK(scheduler', owner', reader') /\ Awaits(owner', "close")
  BY <1>1, Asked DEF LinkInv, Awaits
<1>3. LineOK'
  BY <1>1 DEF LinkInv, LineOK
<1>4. TransportOK'
  BY ZenonT(40), <1>1 DEF LinkInv, TransportOK, Handles
<1>5. /\ \A q \in Ports : HandleOK(q, handles[q])
      /\ handles \in [Ports -> Handles]
      /\ \A q \in Ports : handles[q].open # "pending" /\ ~handles[q].close
  BY <1>1 DEF LinkInv, TransportOK, HandlesOK, HandleOK, Awaits, Handles
<1>6. /\ handles'[port].native = handles[port].native
      /\ handles'[port].open = handles[port].open
      /\ handles'[port].listeners = handles[port].listeners
      /\ handles'[port].close = TRUE
      /\ handles'[port].lateClose = handles[port].lateClose
      /\ handles'[port].orphanClose = handles[port].orphanClose
  BY <1>1, <1>5 DEF Handles
<1>7. ASSUME NEW q \in Ports PROVE HandleOK(q, handles[q])'
  <2>1. CASE q = port
    <3>1. handles[port].open = "none"
      BY <1>1, <1>5 DEF HandleOK, Handles
    <3>2. handles'[q] # NewHandle
      BY <1>6, <2>1 DEF NewHandle
    <3>3. \A r \in Ports : handles'[r].close => r = q
      BY <1>1, <1>5, <2>1
    <3> QED BY <1>1, <1>2, <1>5, <1>6, <2>1, <3>1, <3>2, <3>3 DEF HandleOK
  <2>2. CASE q # port
    <3>1. handles'[q] = handles[q]
      BY <1>1, <1>5, <2>2
    <3> QED BY <1>1, <1>5, <2>2, <3>1 DEF HandleOK
  <2> QED BY <2>1, <2>2
<1> QED BY <1>2, <1>3, <1>4, <1>7 DEF LinkInv, HandlesOK

-----------------------------------------------------------------------------
(* What the transport reports *)

\* One handle changes; the others stay what they were.
LEMMA OthersKept ==
    ASSUME TransportOK, HandlesOK, NEW p \in Ports, NEW h \in Handles,
           handles' = [handles EXCEPT ![p] = h],
           scheduler'.generation = scheduler.generation,
           port' = port \/ (port = p /\ port' = NoPort),
           h # NewHandle, h.close => handles[p].close,
           \A q \in Ports \ {p} :
             /\ handles[q].open = "pending" => Awaits(owner', "open")
             /\ handles[q].close => Awaits(owner', "close"),
           HandleOK(p, h)'
    PROVE  HandlesOK' /\ handles' \in [Ports -> Handles]
<1>1. handles \in [Ports -> Handles] /\ \A q \in Ports : HandleOK(q, handles[q])
  BY DEF TransportOK, HandlesOK
<1>2. handles' \in [Ports -> Handles] /\ handles'[p] = h
  BY <1>1
<1>3. ASSUME NEW q \in Ports \ {p} PROVE HandleOK(q, handles[q])'
  <2>1. handles'[q] = handles[q] /\ HandleOK(q, handles[q])
    BY <1>1
  <2>2. port = q => port' = port
    OBVIOUS
  <2>3. port' = q => port = q
    BY DEF Ports, NoPort
  <2>4. \A r \in Ports : handles'[r] = NewHandle => handles[r] = NewHandle
    BY <1>1, <1>2
  <2>5. \A r \in Ports : handles'[r].close => handles[r].close
    BY <1>1, <1>2
  <2> QED BY <2>1, <2>2, <2>3, <2>4, <2>5 DEF HandleOK
<1> QED BY <1>2, <1>3 DEF HandlesOK

\* The native close of a handle, whoever asked for it.
LEMMA HandleClosed ==
    ASSUME TransportOK, HandlesOK, NEW p \in Ports, NEW h \in Handles,
           h.open = handles[p].open, h.open = "none",
           h.close => handles[p].close,
           h.close => Awaits(owner', "close"),
           Closes(p, h),
           scheduler'.generation = scheduler.generation,
           \A q \in Ports \ {p} :
             /\ handles[q].open = "pending" => Awaits(owner', "open")
             /\ handles[q].close => Awaits(owner', "close"),
           rf' = rf
    PROVE  HandlesOK' /\ TransportOK'
<1> DEFINE c == [h EXCEPT !.native = "closed", !.listeners = "none"]
<1>1. /\ c \in Handles /\ c.native = "closed" /\ c.open = "none"
      /\ c.close = h.close /\ c # NewHandle
  BY DEF Handles, NewHandle
<1>2. /\ handles' = [handles EXCEPT ![p] = c]
      /\ port' = port \/ (port = p /\ port' = NoPort)
      /\ portState' \in {portState, "none"}
  BY DEF Closes, Disowned, StaysOwned
<1>3. /\ handles \in [Ports -> Handles]
      /\ handles[p].close =>
           \A q \in Ports : handles[q].close => p = q
  BY DEF TransportOK, HandlesOK, HandleOK
<1> HIDE DEF c
<1>4. HandleOK(p, c)'
  <2>1. c.close => \A q \in Ports : handles'[q].close => p = q
    BY <1>1, <1>2, <1>3
  <2> QED BY <1>1, <2>1 DEF HandleOK
<1>5. c.close => handles[p].close
  BY <1>1
<1>6. HandlesOK' /\ handles' \in [Ports -> Handles]
  BY <1>1, <1>2, <1>4, <1>5, OthersKept
<1> QED BY <1>2, <1>6 DEF TransportOK

LEMMA OpenRejected ==
    ASSUME LinkInv, NEW p \in Ports, PortDoesNotOpen(p)
    PROVE  LinkInv'
<1> USE DEF LinkInv
<1>1. /\ owner.sent /\ owner.script # <<>> /\ Head(owner.script) = "open"
      /\ owner' = OperationFails(owner)
      /\ UNCHANGED <<scheduler, reader, wire, rf>>
      /\ OpenFails(p) \/ OpenTimesOut(p)
  BY DEF PortDoesNotOpen, Waits, Item, TheLinkIsIdle
<1>2. handles[p].open = "pending" /\ writes' = writes /\ Disowned
  BY <1>1 DEF OpenFails, OpenTimesOut
<1>3. /\ handles \in [Ports -> Handles]
      /\ \A q \in Ports : HandleOK(q, handles[q])
  BY DEF TransportOK, HandlesOK
<1>4. port = p /\ handles[p].native = "opening" /\ ~handles[p].close
      /\ ~handles[p].lateClose /\ handles[p].orphanClose # "asked"
  BY <1>1, <1>2, <1>3 DEF HandleOK, Awaits, Handles
<1>5. PICK h \in Handles :
        /\ handles' = [handles EXCEPT ![p] = h]
        /\ h.close = FALSE /\ h.lateClose = FALSE
        /\ h.orphanClose = handles[p].orphanClose
        /\ h.listeners = "guard"
        /\ \/ h.native = "closed" /\ h.open = "none"
           \/ h.native = "opening" /\ h.open = "late"
  <2>1. CASE OpenFails(p)
    <3> DEFINE h == [handles[p] EXCEPT !.native = "closed", !.open = "none",
                                       !.listeners = "guard"]
    <3>1. handles' = [handles EXCEPT ![p] = h]
      BY <1>3, <2>1 DEF OpenFails, Abandoned, Handles
    <3>2. /\ h \in Handles /\ h.close = FALSE /\ h.lateClose = FALSE
          /\ h.orphanClose = handles[p].orphanClose
          /\ h.listeners = "guard" /\ h.native = "closed" /\ h.open = "none"
      BY <1>3, <1>4 DEF Handles
    <3> QED BY <3>1, <3>2
  <2>2. CASE OpenTimesOut(p)
    <3> DEFINE h == [handles[p] EXCEPT !.open = "late", !.listeners = "guard"]
    <3>1. handles' = [handles EXCEPT ![p] = h]
      BY <1>3, <1>4, <2>2 DEF OpenTimesOut, Abandoned, Handles
    <3>2. /\ h \in Handles /\ h.close = FALSE /\ h.lateClose = FALSE
          /\ h.orphanClose = handles[p].orphanClose
          /\ h.listeners = "guard" /\ h.native = "opening" /\ h.open = "late"
      BY <1>3, <1>4 DEF Handles
    <3> QED BY <3>1, <3>2
  <2> QED BY <1>1, <2>1, <2>2
<1>6. h # NewHandle /\ port' = NoPort /\ NoPort # p
  BY <1>2, <1>5 DEF NewHandle, Disowned, NoPort, Ports
<1>7. HandleOK(p, h)'
  BY <1>4, <1>5, <1>6 DEF HandleOK
<1>8. \A q \in Ports \ {p} : handles[q].open # "pending" /\ ~handles[q].close
  BY <1>1, <1>3, <1>4 DEF HandleOK, Awaits
<1>9. HandlesOK' /\ handles' \in [Ports -> Handles]
  BY <1>1, <1>4, <1>5, <1>6, <1>7, <1>8, OthersKept
<1>10. TransportOK' /\ LineOK'
  BY <1>1, <1>2, <1>9 DEF TransportOK, LineOK, Disowned
<1>11. ServiceOK(scheduler', owner', reader')
  <2>1. owner.kind # "none" /\ ~Calls(scheduler, "device")
    BY <1>1, Callings DEF ServiceOK, OwnerOK, Texts
  <2> QED BY <1>1, <2>1, Thwarted
<1> QED BY <1>9, <1>10, <1>11

LEMMA OpenAnswered ==
    ASSUME LinkInv, NEW p \in Ports, PortOpens(p)
    PROVE  /\ LinkInv'
           /\ scheduler' = NewScheduler(scheduler) /\ owner' = Advanced(owner)
           /\ owner.script \in {Dialling, Reopening} /\ owner.sent
           /\ scheduler.state # "ok" /\ ~reader /\ ~reader'
           /\ wire' = wire /\ rf' = rf
<1> USE DEF LinkInv
<1>1. /\ owner.sent /\ owner.script # <<>> /\ Head(owner.script) = "open"
      /\ owner' = Advanced(owner) /\ scheduler' = NewScheduler(scheduler)
      /\ UNCHANGED <<reader, wire, rf, port, writes>>
      /\ handles[p].open = "pending" /\ port = p /\ portState' = "open"
      /\ handles' = [handles EXCEPT ![p] = [handles[p] EXCEPT
                        !.native = "open", !.open = "none"]]
  BY DEF PortOpens, Waits, Item, TheLinkIsIdle, OpenSucceeds
<1>2. /\ handles \in [Ports -> Handles]
      /\ \A q \in Ports : HandleOK(q, handles[q])
  BY DEF TransportOK, HandlesOK
<1>3. /\ handles[p].native = "opening" /\ scheduler.generation < p
      /\ \A q \in Ports : handles[q] = NewHandle => p < q
      /\ handles[p].listeners # "none" /\ ~handles[p].close
      /\ ~handles[p].lateClose /\ handles[p].orphanClose # "asked"
  BY <1>1, <1>2 DEF HandleOK, Awaits, Handles
<1>4. \A q \in Ports \ {p} : handles[q].open # "pending" /\ ~handles[q].close
  BY <1>1, <1>2 DEF HandleOK, Awaits
<1>5. owner.kind # "none" /\ scheduler.generation \in Nat
      /\ scheduler.generation < MaxPorts
  <2>1. scheduler.generation \in Nat /\ p \in 1..MaxPorts
    BY DEF ServiceOK, SchedulerOK, Queued, Schedulers, Ports
  <2> QED BY <1>1, <1>3, <2>1, PortsAssumption DEF ServiceOK, OwnerOK
<1>6. /\ ServiceOK(scheduler', owner', reader')
      /\ owner.script \in {Dialling, Reopening} /\ scheduler.state # "ok" /\ ~reader
  BY <1>1, <1>5, Connected
<1>7. scheduler'.generation = scheduler.generation + 1
  BY <1>1, <1>5, <1>6, Renewed DEF ServiceOK
<1>8. /\ handles' \in [Ports -> Handles] /\ handles'[p].native = "open"
      /\ handles'[p].open = "none" /\ ~handles'[p].close
      /\ handles'[p].listeners # "none" /\ handles'[p] # NewHandle
  BY <1>1, <1>2, <1>3 DEF Handles, NewHandle
<1>9. ASSUME NEW q \in Ports PROVE HandleOK(q, handles[q])'
  <2>1. CASE q = p
    BY <1>1, <1>8, <2>1 DEF HandleOK
  <2>2. CASE q # p
    <3>1. handles'[q] = handles[q] /\ HandleOK(q, handles[q])
      BY <1>1, <1>2, <2>2
    <3>2. handles[q] = NewHandle => scheduler'.generation < q
      BY <1>3, <1>5, <1>7 DEF Ports
    <3> QED BY <1>1, <1>4, <2>2, <3>1, <3>2 DEF HandleOK
  <2> QED BY <2>1, <2>2
<1>10. TransportOK'
  BY <1>1, <1>8 DEF TransportOK
<1>11. LineOK'
  BY <1>1, <1>5, <1>7 DEF LineOK
<1> QED BY <1>1, <1>6, <1>9, <1>10, <1>11 DEF HandlesOK

\* The last item of a service's script, or the next one, once a port is closed.
LEMMA CloseReported ==
    ASSUME ServiceOK(scheduler, owner, reader), owner.script # <<>>,
           Head(owner.script) = "close", CloseDone(owner), reader' = reader
    PROVE  /\ ServiceOK(scheduler', owner', reader')
           /\ scheduler'.generation = scheduler.generation
           /\ owner' = Advanced(owner)
           /\ owner.script \in {Redialling, Hanging} /\ ~reader
<1>1. owner.kind # "none"
  BY DEF ServiceOK, OwnerOK
<1>2. /\ owner' = Advanced(owner)
      /\ scheduler' = IF Advanced(owner).connection = "disconnected"
                      THEN Disposed(scheduler) ELSE scheduler
  BY DEF CloseDone
<1>3. /\ ServiceOK(scheduler', Advanced(owner), reader)
      /\ owner.script \in {Redialling, Hanging} /\ ~reader
  BY <1>1, <1>2, Closed
<1>4. Disposed(scheduler).generation = scheduler.generation
  BY Scrapped DEF ServiceOK
<1> QED BY <1>2, <1>3, <1>4

LEMMA NothingClosed ==
    ASSUME LinkInv, ClosesNothing
    PROVE  LinkInv'
<1> USE DEF LinkInv
<1>1. /\ ~owner.sent /\ owner.script # <<>> /\ Head(owner.script) = "close"
      /\ CloseDone(owner)
      /\ UNCHANGED <<port, portState, handles, writes, wire, reader, rf>>
  BY DEF ClosesNothing, Due, Item, transportVars
<1>2. /\ ServiceOK(scheduler', owner', reader')
      /\ scheduler'.generation = scheduler.generation
  BY <1>1, CloseReported
<1>3. Carried
  BY <1>1, <1>2 DEF Carried, Awaits
<1> QED
  BY <1>1, <1>2, <1>3, HandlesCarried DEF TransportOK, LineOK

LEMMA CloseAnswered ==
    ASSUME LinkInv, NEW p \in Ports, PortCloses(p)
    PROVE  LinkInv' /\ Awaits(owner, "close") /\ CloseDone(owner)
<1> USE DEF LinkInv
<1>1. /\ CloseSucceeds(p) /\ CloseDone(owner)
      /\ UNCHANGED <<reader, wire, rf>>
  BY DEF PortCloses, TheLinkIsIdle
<1>2. /\ handles \in [Ports -> Handles]
      /\ \A q \in Ports : HandleOK(q, handles[q])
  BY DEF TransportOK, HandlesOK
<1>3. handles[p].close
  BY <1>1 DEF CloseSucceeds
<1>4. /\ Awaits(owner, "close") /\ handles[p].open = "none"
      /\ \A q \in Ports \ {p} : handles[q].open # "pending" /\ ~handles[q].close
  BY <1>2, <1>3 DEF HandleOK, Awaits
<1>5. /\ ServiceOK(scheduler', owner', reader')
      /\ scheduler'.generation = scheduler.generation
  BY <1>1, <1>4, CloseReported DEF Awaits
<1> DEFINE h == [handles[p] EXCEPT !.close = FALSE]
<1>6. h \in Handles /\ h.open = "none" /\ h.close = FALSE
  BY <1>2, <1>4 DEF Handles
<1>7. Closes(p, h) /\ writes' = writes
  BY <1>1 DEF CloseSucceeds, Closes
<1> HIDE DEF h
<1>8. HandlesOK' /\ TransportOK'
  BY <1>1, <1>4, <1>5, <1>6, <1>7, HandleClosed
<1>9. LineOK'
  BY <1>1, <1>5, <1>7 DEF LineOK
<1> QED BY <1>1, <1>4, <1>5, <1>8, <1>9

LEMMA CloseRejected ==
    ASSUME LinkInv, NEW p \in Ports, PortDoesNotClose(p)
    PROVE  LinkInv' /\ Awaits(owner, "close")
<1> USE DEF LinkInv
<1>1. /\ CloseFails(p) \/ CloseTimesOut(p)
      /\ owner' = OperationFails(owner)
      /\ UNCHANGED <<scheduler, reader, wire, rf>>
  BY DEF PortDoesNotClose, TheLinkIsIdle
<1>2. /\ handles \in [Ports -> Handles]
      /\ \A q \in Ports : HandleOK(q, handles[q])
  BY DEF TransportOK, HandlesOK
<1>3. handles[p].close /\ UNCHANGED <<port, portState, writes>>
  BY <1>1 DEF CloseFails, CloseTimesOut, StaysOwned
<1>4. /\ Awaits(owner, "close") /\ handles[p].open = "none"
      /\ \A q \in Ports \ {p} : handles[q].open # "pending" /\ ~handles[q].close
  BY <1>2, <1>3 DEF HandleOK, Awaits
<1>5. PICK h \in Handles :
        /\ handles' = [handles EXCEPT ![p] = h]
        /\ h.close = FALSE /\ h.native = handles[p].native
        /\ h.open = handles[p].open /\ h.listeners = handles[p].listeners
        /\ h.orphanClose = handles[p].orphanClose
        /\ h.native # "new" /\ h # NewHandle
  <2>1. handles[p].native # "new"
    BY <1>2, <1>3 DEF HandleOK, NewHandle
  <2>2. CASE CloseFails(p)
    <3> DEFINE h == [handles[p] EXCEPT !.close = FALSE]
    <3>1. handles' = [handles EXCEPT ![p] = h]
      BY <1>2, <2>2 DEF CloseFails
    <3>2. /\ h \in Handles /\ h.close = FALSE /\ h.native = handles[p].native
          /\ h.open = handles[p].open /\ h.listeners = handles[p].listeners
          /\ h.orphanClose = handles[p].orphanClose
      BY <1>2 DEF Handles
    <3> QED BY <2>1, <3>1, <3>2 DEF NewHandle
  <2>3. CASE CloseTimesOut(p)
    <3> DEFINE h == [handles[p] EXCEPT !.close = FALSE, !.lateClose = TRUE]
    <3>1. handles' = [handles EXCEPT ![p] = h]
      BY <1>2, <2>3 DEF CloseTimesOut
    <3>2. /\ h \in Handles /\ h.close = FALSE /\ h.native = handles[p].native
          /\ h.open = handles[p].open /\ h.listeners = handles[p].listeners
          /\ h.orphanClose = handles[p].orphanClose
      BY <1>2 DEF Handles
    <3> QED BY <2>1, <3>1, <3>2 DEF NewHandle
  <2> QED BY <1>1, <2>2, <2>3
<1>6. HandleOK(p, h)'
  BY <1>1, <1>2, <1>3, <1>4, <1>5 DEF HandleOK
<1>7. HandlesOK' /\ handles' \in [Ports -> Handles]
  BY <1>1, <1>3, <1>4, <1>5, <1>6, OthersKept
<1>8. TransportOK' /\ LineOK'
  BY <1>1, <1>3, <1>7 DEF TransportOK, LineOK
<1>9. ServiceOK(scheduler', owner', reader')
  <2>1. owner.kind # "none" /\ ~Calls(scheduler, "device")
    BY <1>4, Callings DEF ServiceOK, OwnerOK, Texts, Awaits
  <2> QED BY <1>1, <2>1, Thwarted
<1> QED BY <1>4, <1>7, <1>8, <1>9

\* An answer that comes late, and a cable that is pulled.
LEMMA Reported ==
    ASSUME LinkInv, NEW p \in Ports, LateAnswer(p) \/ CableIsPulled(p)
    PROVE  /\ LinkInv' /\ Carried
           /\ EventArrives \/ UNCHANGED <<scheduler, owner, reader>>
           /\ UNCHANGED <<wire, rf, writes>>
<1> USE DEF LinkInv
<1>1. /\ EventArrives \/ UNCHANGED <<scheduler, owner, reader>>
      /\ UNCHANGED <<wire, rf>>
  BY DEF LateAnswer, CableIsPulled, TheLinkIsIdle
<1>2. Carried
  BY <1>1, EventHeard DEF Carried
<1>3. /\ handles \in [Ports -> Handles]
      /\ \A q \in Ports : HandleOK(q, handles[q])
  BY DEF TransportOK, HandlesOK
<1>4. \A q \in Ports : /\ handles[q].open = "pending" => Awaits(owner', "open")
                       /\ handles[q].close => Awaits(owner', "close")
  BY <1>2, <1>3 DEF HandleOK, Carried
<1> DEFINE h == handles[p]
<1>5. h \in Handles /\ HandleOK(p, h)
  BY <1>3
<1>6. CASE \E c \in Handles : /\ Closes(p, c) /\ c.open = h.open
                              /\ c.open = "none" /\ (c.close <=> h.close)
  <2>1. PICK c \in Handles : /\ Closes(p, c) /\ c.open = h.open
                             /\ c.open = "none" /\ (c.close <=> h.close)
    BY <1>6
  <2>2. HandlesOK' /\ TransportOK'
    BY <1>1, <1>2, <1>4, <2>1, HandleClosed DEF Carried
  <2>3. writes' = writes
    BY <2>1 DEF Closes
  <2> QED BY <1>1, <1>2, <2>2, <2>3 DEF Carried, LineOK
<1>7. CASE \E c \in Handles :
             /\ handles' = [handles EXCEPT ![p] = c]
             /\ UNCHANGED <<port, portState, writes>>
             /\ HandleOK(p, c)' /\ c # NewHandle /\ (c.close <=> h.close)
  <2>1. PICK c \in Handles :
             /\ handles' = [handles EXCEPT ![p] = c]
             /\ UNCHANGED <<port, portState, writes>>
             /\ HandleOK(p, c)' /\ c # NewHandle /\ (c.close <=> h.close)
    BY <1>7
  <2>2. HandlesOK' /\ handles' \in [Ports -> Handles]
    BY <1>2, <1>4, <2>1, OthersKept DEF Carried
  <2> QED BY <1>1, <1>2, <2>1, <2>2 DEF Carried, LineOK, TransportOK
<1>8. CASE CloseSucceedsLate(p)
  <2> DEFINE c == [h EXCEPT !.lateClose = FALSE]
  <2>1. Closes(p, c) /\ h.open = "none"
    BY <1>5, <1>8 DEF CloseSucceedsLate, HandleOK
  <2>2. c \in Handles /\ c.open = h.open /\ c.close = h.close
    BY <1>5 DEF Handles
  <2> QED BY <1>6, <2>1, <2>2
<1>9. CASE OrphanCloses(p)
  <2> DEFINE c == [h EXCEPT !.orphanClose = "answered"]
  <2>1. Closes(p, c) /\ h.open = "none"
    BY <1>5, <1>9 DEF OrphanCloses, HandleOK
  <2>2. c \in Handles /\ c.open = h.open /\ c.close = h.close
    BY <1>5 DEF Handles
  <2> QED BY <1>6, <2>1, <2>2
<1>10. CASE CableIsPulled(p)
  <2>1. Closes(p, h) /\ h.open = "none"
    BY <1>5, <1>10 DEF CableIsPulled, PortGoes, HandleOK, Handles
  <2> QED BY <1>5, <1>6, <2>1
<1> DEFINE Touched(c) ==
        /\ c \in Handles /\ handles' = [handles EXCEPT ![p] = c]
        /\ UNCHANGED <<port, portState, writes>>
        /\ c.close = h.close /\ c.native # "new" /\ c # NewHandle
        /\ c.open # "pending"
<1>11. ASSUME NEW c, Touched(c), h.open # "pending", h.native # "new",
              c.native = "open" => port = p \/ c.orphanClose # "no",
              c.native \in {"opening", "open"} => c.listeners # "none",
              c.open = "late" => c.native = "opening" /\ port # p,
              c.close \/ c.lateClose \/ c.orphanClose = "asked" =>
                c.open = "none"
       PROVE  Touched(c) /\ HandleOK(p, c)'
  <2>1. c.close => /\ Awaits(owner', "close")
                   /\ \A q \in Ports : handles'[q].close => p = q
    BY <1>3, <1>4, <1>5, <1>11 DEF HandleOK
  <2> QED BY <1>11, <2>1 DEF HandleOK
<1>12. CASE CloseFailsLate(p) \/ OrphanCloseFails(p)
  <2>1. PICK c : /\ Touched(c) /\ c.native = h.native /\ c.open = h.open
                 /\ c.listeners = h.listeners
                 /\ c.orphanClose # "no" <=> h.orphanClose # "no"
                 /\ h.open = "none" /\ h.native # "new"
    <3>1. h.open = "none" /\ h.native # "new"
      BY <1>5, <1>12
      DEF CloseFailsLate, OrphanCloseFails, HandleOK, NewHandle
    <3>2. CASE CloseFailsLate(p)
      <4> DEFINE c == [h EXCEPT !.lateClose = FALSE]
      <4>1. /\ handles' = [handles EXCEPT ![p] = c]
            /\ UNCHANGED <<port, portState, writes>>
        BY <1>3, <3>2 DEF CloseFailsLate, StaysOwned
      <4>2. /\ c \in Handles /\ c.native = h.native /\ c.open = h.open
            /\ c.listeners = h.listeners /\ c.orphanClose = h.orphanClose
            /\ c.close = h.close /\ c # NewHandle
        BY <1>5, <3>1 DEF Handles, NewHandle
      <4> QED BY <3>1, <4>1, <4>2
    <3>3. CASE OrphanCloseFails(p)
      <4> DEFINE c == [h EXCEPT !.orphanClose = "answered"]
      <4>1. /\ handles' = [handles EXCEPT ![p] = c]
            /\ UNCHANGED <<port, portState, writes>>
            /\ h.orphanClose = "asked"
        BY <1>3, <3>3 DEF OrphanCloseFails, StaysOwned
      <4>2. /\ c \in Handles /\ c.native = h.native /\ c.open = h.open
            /\ c.listeners = h.listeners /\ c.orphanClose = "answered"
            /\ c.close = h.close /\ c # NewHandle
        BY <1>5, <3>1 DEF Handles, NewHandle
      <4> QED BY <3>1, <4>1, <4>2
    <3> QED BY <1>12, <3>2, <3>3
  <2> HIDE DEF h
  <2>2. HandleOK(p, c)'
    BY <1>5, <1>11, <2>1 DEF HandleOK
  <2> QED BY <1>7, <2>1, <2>2
<1>13. CASE OpenSucceedsLate(p) \/ OpenFailsLate(p)
  <2>1. /\ h.open = "late" /\ h.native = "opening" /\ port # p
        /\ ~h.close /\ ~h.lateClose /\ h.orphanClose # "asked"
        /\ h.listeners # "none"
    BY <1>5, <1>13 DEF OpenSucceedsLate, OpenFailsLate, HandleOK, Handles
  <2>2. PICK c : /\ Touched(c) /\ c.open = "none" /\ c.listeners = h.listeners
                 /\ c.native = "open" => c.orphanClose # "no"
    <3>1. CASE OpenFailsLate(p)
      <4> DEFINE c == [h EXCEPT !.native = "closed", !.open = "none"]
      <4>1. /\ handles' = [handles EXCEPT ![p] = c]
            /\ UNCHANGED <<port, portState, writes>>
        BY <1>3, <3>1 DEF OpenFailsLate, StaysOwned
      <4>2. /\ c \in Handles /\ c.native = "closed" /\ c.open = "none"
            /\ c.listeners = h.listeners /\ c.close = h.close /\ c # NewHandle
        BY <1>5 DEF Handles, NewHandle
      <4> QED BY <4>1, <4>2
    <3>2. CASE OpenSucceedsLate(p)
      <4> DEFINE n == [h EXCEPT !.native = "open", !.open = "none"]
                 c == IF n.orphanClose = "no"
                      THEN [n EXCEPT !.orphanClose = "asked"] ELSE n
      <4>1. /\ handles' = [handles EXCEPT ![p] = c]
            /\ UNCHANGED <<port, portState, writes>>
        BY <1>3, <3>2
        DEF OpenSucceedsLate, StaysOwned, OpenedLate, AskedToClose
      <4>2. /\ c \in Handles /\ c.native = "open" /\ c.open = "none"
            /\ c.listeners = h.listeners /\ c.close = h.close /\ c # NewHandle
            /\ c.orphanClose # "no"
        BY <1>5 DEF Handles, NewHandle
      <4> QED BY <4>1, <4>2
    <3> QED BY <1>13, <3>1, <3>2
  <2> HIDE DEF h
  <2>3. HandleOK(p, c)'
    BY <1>5, <1>11, <2>1, <2>2
  <2> QED BY <1>7, <2>2, <2>3
<1> QED BY <1>8, <1>9, <1>10, <1>12, <1>13 DEF LateAnswer

-----------------------------------------------------------------------------
(* What the scheduler hears *)

LEMMA FrameHeard ==
    ASSUME LinkInv, NEW frame \in Frames, NEW received \in Seq(Texts),
           Receives(frame, received)
    PROVE  Carried /\ LineOK' /\ UNCHANGED <<port, portState, handles>>
<1> USE DEF LinkInv
<1>1. UNCHANGED <<port, portState, handles>>
  BY DEF Receives
<1>2. CASE scheduler.state # "ok"
  BY <1>1, <1>2 DEF Receives, Carried, LineOK
<1>3. CASE scheduler.state = "ok" /\ Overflows(scheduler)
  <2>1. Faults /\ wire' = received /\ writes' = writes
    BY <1>3 DEF Receives
  <2>2. Carried
    BY <1>3, <2>1, FaultHeard
  <2> QED BY <1>1, <2>1, <2>2 DEF Carried, LineOK
<1>4. CASE scheduler.state = "ok" /\ ~Overflows(scheduler)
  <2> DEFINE s == Received(scheduler, frame)
  <2>1. Processes(s, received, writes)
    BY <1>4 DEF Receives
  <2>2. scheduler \in Schedulers /\ scheduler.buffer \in Seq(Frames)
    BY DEF ServiceOK, SchedulerOK, Queued, Schedulers
  <2>3. Append(scheduler.buffer, frame) \in Seq(Frames)
    BY <2>2
  <2>4. /\ s \in Schedulers /\ s.state = scheduler.state
        /\ s.active = scheduler.active /\ s.queue = scheduler.queue
        /\ s.generation = scheduler.generation /\ s.deaf = scheduler.deaf
    BY <2>2, <2>3 DEF Schedulers, Received
  <2>5. SchedulerOK(s)
    BY <1>4, <2>4 DEF ServiceOK, SchedulerOK, Queued
  <2> HIDE DEF s
  <2> QED BY <1>1, <2>1, <2>4, <2>5, Processed
<1> QED BY <1>2, <1>3, <1>4

LEMMA ShellHeard ==
    ASSUME LinkInv, ShellAnswers \/ ShellBabbles
    PROVE  /\ Carried /\ LineOK' /\ UNCHANGED <<port, portState, handles>>
           /\ rf' \in {"on", "off"}
<1> USE DEF LinkInv
<1>1. CASE ShellBabbles
  <2>1. Receives("noise", wire) /\ rf' = rf
    BY <1>1 DEF ShellBabbles
  <2> QED BY <2>1, FrameHeard DEF Frames, LineOK, TransportOK
<1>2. CASE ShellAnswers
  <2>1. /\ Head(wire) \in Texts /\ Tail(wire) \in Seq(Texts)
        /\ Head(wire) \in Frames
    BY <1>2 DEF ShellAnswers, LineOK, Frames
  <2>2. rf' \in {"on", "off"}
    BY <1>2 DEF ShellAnswers, TransportOK
  <2>3. CASE Receives(Head(wire), Tail(wire))
    BY <2>1, <2>2, <2>3, FrameHeard
  <2>4. CASE /\ wire' = Tail(wire)
             /\ UNCHANGED <<transportVars, scheduler, owner, reader>>
    BY <2>1, <2>2, <2>4 DEF Carried, LineOK, transportVars
  <2> QED BY <1>2, <2>3, <2>4 DEF ShellAnswers
<1> QED BY <1>1, <1>2

LEMMA DeadlineHeard ==
    ASSUME LinkInv, ResponseIsMalformed \/ CommandTimesOut
    PROVE  /\ NoNews(owner, owner') /\ scheduler'.state # "ok"
           /\ Carried /\ LineOK' /\ UNCHANGED <<port, portState, handles, rf, wire>>
<1> USE DEF LinkInv
<1>1. /\ Faults /\ scheduler.active # NoCommand
      /\ UNCHANGED <<port, portState, handles, writes, wire, rf>>
  BY DEF ResponseIsMalformed, CommandTimesOut, transportVars
<1>2. scheduler.state = "ok"
  BY <1>1 DEF ServiceOK, SchedulerOK
<1>3. Carried /\ NoNews(owner, owner') /\ scheduler'.state # "ok"
  BY <1>1, <1>2, FaultHeard
<1> QED BY <1>1, <1>2, <1>3 DEF Carried, LineOK

LEMMA DrainHeard ==
    ASSUME LinkInv, WriteDrains
    PROVE  /\ UNCHANGED <<scheduler, wire, owner, reader, port, portState,
                          handles, rf>>
           /\ LineOK'
<1>1. PICK w \in writes : Drains(w)
  BY DEF WriteDrains
<1>2. /\ UNCHANGED <<scheduler, wire, owner, reader, port, portState, handles, rf>>
      /\ writes' = (writes \ {w}) \cup {[w EXCEPT !.phase = "drain"]}
  BY <1>1 DEF WriteDrains, Drains, schedulerVars
<1>3. /\ [w EXCEPT !.phase = "drain"] \in Writes
      /\ [w EXCEPT !.phase = "drain"].generation = w.generation
  BY DEF LinkInv, LineOK, Writes
<1> QED BY <1>2, <1>3 DEF LinkInv, LineOK

LEMMA WriteHeard ==
    ASSUME LinkInv, NEW w \in writes, WriteIsDone(w)
    PROVE  Carried /\ LineOK' /\ UNCHANGED <<port, portState, handles, rf>>
<1> USE DEF LinkInv
<1>1. UNCHANGED <<port, portState, handles, rf>>
  BY DEF WriteIsDone
<1>2. CASE w.generation = scheduler.generation
  <2>1. Processes(scheduler, wire, writes \ {w})
    BY <1>2 DEF WriteIsDone
  <2>2. SchedulerOK(scheduler) /\ wire \in Seq(Texts) /\ writes \ {w} \subseteq writes
    BY DEF ServiceOK, LineOK
  <2> QED BY <1>1, <2>1, <2>2, Processed
<1>3. CASE w.generation # scheduler.generation
  BY <1>1, <1>3 DEF WriteIsDone, Rests, Carried, LineOK
<1> QED BY <1>2, <1>3

\* What a failed write makes of the scheduler and the service.
LEMMA LossHeard ==
    ASSUME LinkInv, NEW w \in writes, WriteIsLost(w)
    PROVE  /\ Carried /\ LineOK' /\ UNCHANGED <<port, handles, rf, wire>>
           /\ portState' \in {portState, "faulted"}
           /\ NoNews(owner, owner')
           /\ \/ scheduler'.state # "ok"
              \/ /\ scheduler'.state = scheduler.state
                 /\ scheduler'.active = scheduler.active
                 /\ scheduler'.queue = scheduler.queue
                 /\ scheduler'.buffer = scheduler.buffer
                 /\ owner' \in {owner, FaultHandled(owner)} /\ reader' = reader
<1> USE DEF LinkInv
<1> DEFINE event == FaultsPort(w) /\ Heard
           mine == w.generation = scheduler.generation /\ scheduler.state = "ok"
           loud == w.generation \notin scheduler.deaf
           first == IF event THEN EventHandled(owner) ELSE owner
           p == IF loud THEN FaultHandled(first) ELSE first
           base == IF event THEN Disposed(scheduler)
                   ELSE IF mine THEN Failed(scheduler) ELSE scheduler
           t == [base EXCEPT !.deaf = @ \cup {w.generation}]
<1>1. /\ scheduler' = t
      /\ owner' = IF "device" \in (IF event \/ mine THEN PendingCallers(scheduler)
                                   ELSE {})
                  THEN OperationFails(p) ELSE p
      /\ reader' = (reader /\ "reader" \notin (IF event \/ mine
                        THEN PendingCallers(scheduler) ELSE {}))
      /\ UNCHANGED <<port, handles, rf, wire>>
      /\ writes' = writes \ {w}
      /\ portState' \in {portState, "faulted"}
  BY DEF WriteIsLost, WriteFails, Rejects, TheLinkIsIdle
<1>2. /\ OwnerOK(first) /\ first.kind = owner.kind /\ first.script = owner.script
      /\ first.sent = owner.sent
      /\ first.connection = "disconnected" => owner.connection = "disconnected"
      /\ event => first.offAcknowledged = owner.teardownAcknowledged
      /\ ~event => first = owner
  BY EventIsHandled DEF Heard, ServiceOK
<1> HIDE DEF first
<1>3. /\ OwnerOK(p) /\ p.kind = owner.kind /\ p.script = owner.script
      /\ p.sent = owner.sent
      /\ p.connection = "disconnected" => owner.connection = "disconnected"
      /\ p = first \/ ~p.offAcknowledged
      /\ loud => ~p.offAcknowledged
  BY <1>2, FaultIsHandled
<1>4. w.generation \in 1..scheduler.generation
  BY DEF LineOK
<1>5. /\ SchedulerOK(base) /\ base.generation = scheduler.generation
      /\ event \/ mine => /\ base.state # "ok" /\ base.active = NoCommand
                          /\ base.buffer = <<>>
      /\ ~(event \/ mine) => base = scheduler
  BY Scrapped, FailedForGood DEF ServiceOK, SchedulerOK
<1> HIDE DEF base
<1>6. base.deaf \cup {w.generation} \in SUBSET (1..MaxPorts)
  <2>1. /\ base.deaf \subseteq 1..MaxPorts /\ scheduler.generation \in Nat
        /\ scheduler.generation <= MaxPorts
    BY <1>5 DEF ServiceOK, SchedulerOK, Queued, Schedulers
  <2> QED BY <1>4, <2>1, PortsAssumption
<1>7. /\ t \in Schedulers /\ t.state = base.state /\ t.active = base.active
      /\ t.queue = base.queue /\ t.buffer = base.buffer
      /\ t.generation = base.generation
      /\ t.deaf = base.deaf \cup {w.generation}
  BY <1>5, <1>6 DEF SchedulerOK, Queued, Schedulers
<1>a. mine => loud
  BY DEF ServiceOK, SchedulerOK, Queued
<1>8. ~(event \/ mine) => base.state # "ok" \/ w.generation # base.generation
  BY <1>5
<1>9. event \/ mine => base.state # "ok"
  BY <1>5
<1> HIDE DEF t, p, event, mine, loud
<1>10. SchedulerOK(t)
  BY <1>4, <1>5, <1>7, <1>8, <1>9 DEF SchedulerOK, Queued
<1>11. "device" \in PendingCallers(scheduler) => owner.sent
  BY Callings, PendingAreCallers DEF ServiceOK, SchedulerOK, Callers
<1>12. writes' \subseteq writes /\ scheduler'.generation = scheduler.generation
  BY <1>1, <1>5, <1>7
<1>13. LineOK'
  BY <1>1, <1>12 DEF LineOK
<1>14. CASE event \/ mine
  <2>1. /\ owner' = IF "device" \in PendingCallers(scheduler)
                    THEN OperationFails(p) ELSE p
        /\ reader' = (reader /\ "reader" \notin PendingCallers(scheduler))
    BY <1>1, <1>14
  <2>2. t.state # "ok"
    BY <1>5, <1>7, <1>14
  <2>3. /\ ServiceOK(scheduler', owner', reader')
        /\ "device" \in PendingCallers(scheduler) => Head(owner.script) \in Texts
    BY <1>1, <1>3, <1>10, <2>1, <2>2, Interrupted
  <2>4. Carried
    BY <1>3, <1>11, <1>12, <2>1, <2>3 DEF Carried, Awaits, Texts
  <2>5. p.offAcknowledged => owner.teardownAcknowledged
    BY <1>2, <1>3, <1>a, <1>14
  <2>6. NoNews(owner, owner')
    BY <1>3, <1>11, <2>1, <2>3, <2>5, Subdued DEF ServiceOK
  <2> QED BY <1>1, <1>13, <2>2, <2>4, <2>6
<1>15. CASE ~(event \/ mine)
  <2>1. owner' = p /\ reader' = reader
    BY <1>1, <1>15 DEF ServiceOK
  <2>2. p \in {owner, FaultHandled(owner)}
    BY <1>2, <1>15 DEF p
  <2>3. /\ t.state = scheduler.state /\ t.active = scheduler.active
        /\ t.queue = scheduler.queue /\ t.buffer = scheduler.buffer
    BY <1>5, <1>7, <1>15
  <2>4. ServiceOK(t, p, reader)
    BY <1>10, <2>2, <2>3, Rattled
  <2>5. p = owner \/ ~p.offAcknowledged
    BY <2>2, FaultIsHandled DEF ServiceOK
  <2>6. NoNews(owner, p)
    BY <1>3, <2>5 DEF NoNews, Claims, Leaves, Identifying
  <2> QED
    BY <1>1, <1>3, <1>12, <1>13, <2>1, <2>2, <2>3, <2>4, <2>6 DEF Carried, Awaits
<1> QED BY <1>14, <1>15

-----------------------------------------------------------------------------
(* The invariant holds *)

LEMMA LinkBegins == LinkInit => LinkInv
<1> SUFFICES ASSUME LinkInit PROVE LinkInv
  OBVIOUS
<1> USE DEF LinkInit, TransportInit, SchedulerInit
<1>1. /\ scheduler \in Schedulers /\ scheduler.state = "none"
      /\ scheduler.generation = 0 /\ scheduler.deaf = {}
      /\ scheduler.queue = <<>> /\ scheduler.active = NoCommand
      /\ scheduler.buffer = <<>>
  BY Empties DEF Schedulers
<1>2. SchedulerOK(scheduler)
  BY <1>1, PortsAssumption DEF SchedulerOK, Queued
<1>3. OwnerOK(owner) /\ owner = Disconnected /\ reader = FALSE
  BY Scripts DEF Disconnected, OwnerOK, Owners, Kinds
<1>4. ServiceOK(scheduler, owner, reader)
  <2>1. /\ Behind(scheduler) = NoCommand /\ NoCommand.caller = "none"
        /\ ~Calls(scheduler, "device") /\ ~Calls(scheduler, "reader")
    BY <1>1 DEF Behind, NoCommand, Calls
  <2>2. owner.sent = FALSE
    BY <1>3 DEF Disconnected
  <2>3. Serves(scheduler, owner, reader)
    <3>1. reader = Calls(scheduler, "reader")
      BY <1>1, <1>3, <2>1 DEF Calls
    <3> QED BY <1>1, <2>1, <2>2, <3>1 DEF Serves
  <2> QED BY <1>1, <1>2, <1>3, <2>3 DEF ServiceOK, ReaderOK
<1>5. NewHandle \in Handles
  BY DEF NewHandle, Handles
<1>6. TransportOK /\ LineOK
  BY <1>5 DEF TransportOK, LineOK
<1>7. HandlesOK
  BY <1>1 DEF HandlesOK, HandleOK, NewHandle, NoPort, Ports
<1> QED BY <1>4, <1>6, <1>7 DEF LinkInv

\* One step at a time: what the transport, the line and the service become.
LEMMA LinkKept == LinkInv /\ [LinkNext]_linkVars => LinkInv'
<1> SUFFICES ASSUME LinkInv, [LinkNext]_linkVars
             PROVE  LinkInv'
  OBVIOUS
<1>1. ASSUME Carried, LineOK', UNCHANGED <<port, handles>>,
             portState' \in {portState, "faulted"}, rf' \in {"on", "off"}
      PROVE  LinkInv'
  BY <1>1, HandlesCarried DEF LinkInv, Carried, TransportOK
<1>2. CASE UNCHANGED linkVars
  BY <1>1, <1>2 DEF linkVars, Carried, LinkInv, LineOK, TransportOK
<1>3. CASE Operation
  <2>1. CASE Connect \/ Disconnect \/ SetOutput("on") \/ SetOutput("off")
    <3>1. /\ UNCHANGED <<port, portState, handles, rf, writes, wire>>
      BY <2>1 DEF Connect, Disconnect, SetOutput, OthersUnchanged,
                  transportVars, schedulerVars
    <3>2. Carried
      BY <2>1, Begun DEF LinkInv
    <3>3. LineOK'
      BY <3>1, <3>2 DEF Carried, LinkInv, LineOK
    <3> QED BY <1>1, <3>1, <3>2, <3>3 DEF LinkInv, TransportOK
  <2>2. CASE Reads
    <3>1. UNCHANGED <<port, portState, handles, rf>>
      BY <2>2 DEF Reads
    <3> QED BY <1>1, <2>2, <3>1, ReadBegun DEF LinkInv, TransportOK
  <2> QED BY <1>3, <2>1, <2>2 DEF Operation
<1>4. CASE Step
  <2>1. ASSUME NEW text \in Texts, Executes(text)
        PROVE  LinkInv'
    <3>1. UNCHANGED <<port, portState, handles, rf>>
      BY <2>1 DEF Executes, transportVars
    <3> QED BY <1>1, <2>1, <3>1, Executed DEF LinkInv, TransportOK
  <2> QED BY <1>4, <2>1, OpenAsked, CloseAsked, NothingClosed DEF Step
<1>5. CASE Event
  <2>1. ASSUME NEW p \in Ports, Report(p)
        PROVE  LinkInv'
    BY <2>1, OpenAnswered, OpenRejected, CloseAnswered, CloseRejected, Reported
    DEF Report
  <2>2. CASE NativeError
    <3>1. EventArrives /\ UNCHANGED <<port, portState, handles, writes, wire, rf>>
      BY <2>2 DEF NativeError, transportVars, TheLinkIsIdle
    <3>2. Carried
      BY <3>1, EventHeard DEF LinkInv
    <3>3. LineOK'
      BY <3>1, <3>2 DEF Carried, LinkInv, LineOK
    <3> QED BY <1>1, <3>1, <3>2, <3>3 DEF LinkInv, TransportOK
  <2>3. CASE ShellAnswers \/ ShellBabbles
    BY <1>1, <2>3, ShellHeard
  <2>4. CASE ResponseIsMalformed \/ CommandTimesOut
    BY <1>1, <2>4, DeadlineHeard DEF LinkInv, TransportOK
  <2> QED BY <1>5, <2>1, <2>2, <2>3, <2>4 DEF Event
<1>6. CASE WriteEvent
  <2>1. CASE WriteDrains
    <3>1. Carried
      BY <2>1, DrainHeard DEF Carried, LinkInv
    <3> QED BY <1>1, <2>1, <3>1, DrainHeard DEF LinkInv, TransportOK
  <2>2. ASSUME NEW w \in writes, WriteIsDone(w)
        PROVE  LinkInv'
    BY <1>1, <2>2, WriteHeard DEF LinkInv, TransportOK
  <2>3. ASSUME NEW w \in writes, WriteIsLost(w)
        PROVE  LinkInv'
    BY <1>1, <2>3, LossHeard DEF LinkInv, TransportOK
  <2> QED BY <1>6, <2>1, <2>2, <2>3 DEF WriteEvent
<1> QED BY <1>2, <1>3, <1>4, <1>5, <1>6 DEF LinkNext

THEOREM LinkInvariant == LinkSpec => []LinkInv
<1>1. LinkInit => LinkInv
  BY LinkBegins
<1>2. LinkInv /\ [LinkNext]_linkVars => LinkInv'
  BY LinkKept
<1> QED BY <1>1, <1>2, PTL DEF LinkSpec

THEOREM NoPortIsForgotten == LinkSpec => []PortsAreGuarded
<1>1. LinkInv => PortsAreGuarded
  BY DEF LinkInv, HandlesOK, HandleOK, PortsAreGuarded
<1> QED BY <1>1, LinkInvariant, PTL

\* The types of OffIsTrue, and that nobody waits for a command that is not
\* pending.
LEMMA LinkIsTyped == LinkInv => LinkTypeOK
<1> SUFFICES ASSUME LinkInv PROVE LinkTypeOK
  OBVIOUS
<1>1. /\ "reader" \in PendingCallers(scheduler) <=> Calls(scheduler, "reader")
      /\ "device" \in PendingCallers(scheduler) <=> Calls(scheduler, "device")
  BY PendingAreCallers DEF LinkInv, ServiceOK, SchedulerOK, Callers
<1>2. /\ reader = Calls(scheduler, "reader") /\ reader \in BOOLEAN
      /\ Calls(scheduler, "device") <=>
           owner.sent /\ Head(owner.script) \in Texts
  BY Callings DEF LinkInv, ServiceOK
<1> QED
  BY <1>1, <1>2
  DEF LinkInv, ServiceOK, OwnerOK, SchedulerOK, Queued, TransportOK, LineOK,
      LinkTypeOK, Item

-----------------------------------------------------------------------------
(* What the line holds *)

\* The shell has nothing to do but what leaves the output off.
NoOn(q) == \A i \in 1..Len(q) : q[i] # "on"

\* It switches the output on before it switches it off, if it does.
OnFirst(q) == \A i, j \in 1..Len(q) : i < j /\ q[i] = "off" => q[j] # "on"

\* Behind an output-off there are only output-offs: an answer to the first
\* finds nothing else left.
Settled(q) == \A i, j \in 1..Len(q) : i < j /\ q[i] = "off" => q[j] = "off"

\* Behind two of them.
TwoOffs(q) ==
    \A i, j, k \in 1..Len(q) :
        i < j /\ j < k /\ q[i] = "off" /\ q[j] = "off" => q[k] = "off"

Answers(b) == \E i \in 1..Len(b) : b[i] = "off"
Noise(b) == \A i \in 1..Len(b) : b[i] = "noise"

Quieting(o) == o.kind = "connect" /\ o.script = Silencing

\* Whatever the scheduler of o has received, whatever the shell has left to do
\* and whatever the output is.
Told(s, o, q, x) ==
    /\ OnFirst(q)
    /\ Answers(s.buffer) => x = "off" /\ NoOn(q) /\ (~Identifying(o) => Settled(q))
    /\ s.state = "ok" /\ ~Identifying(o) => TwoOffs(q)
    /\ s.state = "ok" /\ Quieting(o) =>
         /\ NoOn(q) /\ Settled(q)
         /\ \A i, j \in 1..Len(s.buffer) :
              i < j /\ s.buffer[i] = "off" => s.buffer[j] \in {"off", "noise"}
         /\ Answers(s.buffer) => \A i \in 1..Len(q) : q[i] = "off"
    /\ Claims(o) => /\ x = "off" /\ NoOn(q)
                    /\ ~(Identifying(o) /\ o.sent) => Settled(q)
    /\ Leaves(o) => NoOn(q) /\ Settled(q)

\* Once a connection is identified, and while the second caller waits, no answer
\* of an earlier connection is left; before, only answers to output-offs are.
Fresh(s, o, r, q) ==
    s.state = "ok" =>
      /\ Identifying(o) =>
           /\ \A i \in 1..Len(s.buffer) : s.buffer[i] \in {"off", "noise"}
           /\ \A i \in 1..Len(q) :
                q[i] = "off" \/ (q[i] = "version" /\ o.sent /\ i = Len(q))
      /\ r \/ o.connection = "ready" =>
           /\ Noise(s.buffer)
           /\ q = <<>> \/ (s.active # NoCommand /\ q = <<s.active.text>>)

LineInv ==
    /\ LinkInv
    /\ Told(scheduler, owner, wire, rf) /\ Fresh(scheduler, owner, reader, wire)

\* The shell has handled its first command.
LEMMA Thinned ==
    ASSUME NEW q \in Seq(Texts), q # <<>>
    PROVE  /\ Tail(q) \in Seq(Texts) /\ Head(q) \in Texts
           /\ Len(Tail(q)) = Len(q) - 1
           /\ \A i \in 1..Len(Tail(q)) : Tail(q)[i] = q[i + 1]
           /\ NoOn(q) => NoOn(Tail(q)) /\ Head(q) # "on"
           /\ Settled(q) => Settled(Tail(q))
           /\ OnFirst(q) => OnFirst(Tail(q))
           /\ TwoOffs(q) => TwoOffs(Tail(q))
           /\ OnFirst(q) /\ Head(q) = "off" => NoOn(Tail(q))
           /\ TwoOffs(q) /\ Head(q) = "off" => Settled(Tail(q))
           /\ Settled(q) /\ Head(q) = "off" =>
                \A i \in 1..Len(Tail(q)) : Tail(q)[i] = "off"
<1> DEFINE t == Tail(q)
<1>1. /\ t \in Seq(Texts) /\ Head(q) \in Texts /\ Len(t) = Len(q) - 1
      /\ \A i \in 1..Len(t) : t[i] = q[i + 1]
  BY HeadTailProperties
<1>2. /\ Len(q) \in Nat /\ Len(q) > 0 /\ Head(q) = q[1] /\ Len(t) \in Nat
  BY <1>1
<1>3. /\ \A i \in 1..Len(t) : i + 1 \in 1..Len(q) /\ 1 < i + 1
      /\ \A i, j \in 1..Len(t) : i < j => i + 1 < j + 1
      /\ 1 \in 1..Len(q)
  BY <1>1, <1>2
<1> HIDE DEF t
<1>4. NoOn(q) => NoOn(t) /\ Head(q) # "on"
  BY <1>1, <1>2, <1>3 DEF NoOn
<1>5. Settled(q) => Settled(t)
  BY <1>1, <1>3 DEF Settled
<1>6. OnFirst(q) => OnFirst(t)
  BY <1>1, <1>3 DEF OnFirst
<1>7. TwoOffs(q) => TwoOffs(t)
  <2> SUFFICES ASSUME TwoOffs(q), NEW i \in 1..Len(t), NEW j \in 1..Len(t),
                      NEW k \in 1..Len(t),
                      i < j /\ j < k /\ t[i] = "off" /\ t[j] = "off"
               PROVE  t[k] = "off"
    BY DEF TwoOffs
  <2> QED BY <1>1, <1>3 DEF TwoOffs
<1>8. OnFirst(q) /\ Head(q) = "off" => NoOn(t)
  BY <1>1, <1>2, <1>3 DEF OnFirst, NoOn
<1>9. TwoOffs(q) /\ Head(q) = "off" => Settled(t)
  <2> SUFFICES ASSUME TwoOffs(q), q[1] = "off", NEW i \in 1..Len(t),
                      NEW j \in 1..Len(t), i < j, t[i] = "off"
               PROVE  t[j] = "off"
    BY <1>2 DEF Settled
  <2> QED BY <1>1, <1>3 DEF TwoOffs
<1>10. Settled(q) /\ Head(q) = "off" => \A i \in 1..Len(t) : t[i] = "off"
  BY <1>1, <1>2, <1>3 DEF Settled
<1> QED
  BY <1>1, <1>4, <1>5, <1>6, <1>7, <1>8, <1>9, <1>10 DEF t

\* A command is sent.
LEMMA Grown ==
    ASSUME NEW q \in Seq(Texts), NEW text \in Texts
    PROVE  /\ NoOn(q) /\ text # "on" => NoOn(Append(q, text))
           /\ Settled(q) => Settled(Append(q, "off"))
           /\ OnFirst(q) /\ text # "on" => OnFirst(Append(q, text))
           /\ TwoOffs(q) => TwoOffs(Append(q, "off"))
<1> DEFINE n == Len(q)
           a(t) == Append(q, t)
<1>1. \A t \in Texts : /\ Len(a(t)) = n + 1 /\ a(t)[n + 1] = t
                       /\ \A i \in 1..n : a(t)[i] = q[i]
  BY AppendProperties
<1>2. /\ n \in Nat /\ \A i \in 1..(n + 1) : i \in 1..n \/ i = n + 1
      /\ "off" \in Texts /\ \A i \in 1..(n + 1) : ~(n + 1 < i)
  BY DEF Texts
<1> HIDE DEF n, a
<1>3. NoOn(q) /\ text # "on" => NoOn(a(text))
  BY <1>1, <1>2 DEF NoOn, n
<1>4. Settled(q) => Settled(a("off"))
  BY <1>1, <1>2 DEF Settled, n
<1>5. OnFirst(q) /\ text # "on" => OnFirst(a(text))
  BY <1>1, <1>2 DEF OnFirst, n
<1>6. TwoOffs(q) => TwoOffs(a("off"))
  <2> SUFFICES ASSUME TwoOffs(q), NEW i \in 1..(n + 1), NEW j \in 1..(n + 1),
                      NEW k \in 1..(n + 1), i < j, j < k,
                      a("off")[i] = "off", a("off")[j] = "off"
               PROVE  a("off")[k] = "off"
    BY <1>1, <1>2 DEF TwoOffs
  <2>1. CASE k = n + 1
    BY <1>1, <1>2, <2>1
  <2>2. CASE k \in 1..n
    <3>1. i \in 1..n /\ j \in 1..n
      BY <1>2, <2>2
    <3> QED BY <1>1, <1>2, <2>2, <3>1 DEF TwoOffs, n
  <2> QED BY <1>2, <2>1, <2>2
<1> QED BY <1>3, <1>4, <1>5, <1>6 DEF a

\* At most one command is left, or two.
LEMMA Short ==
    /\ NoOn(<<>>) /\ Settled(<<>>) /\ OnFirst(<<>>) /\ TwoOffs(<<>>)
    /\ \A t \in Texts : /\ Settled(<<t>>) /\ OnFirst(<<t>>) /\ TwoOffs(<<t>>)
                        /\ t # "on" => NoOn(<<t>>)
    /\ \A q \in Seq(Texts) : Len(q) <= 2 => TwoOffs(q)
<1>1. NoOn(<<>>) /\ Settled(<<>>) /\ OnFirst(<<>>) /\ TwoOffs(<<>>)
  BY DEF NoOn, Settled, OnFirst, TwoOffs
<1>2. ASSUME NEW t \in Texts
      PROVE  /\ Settled(<<t>>) /\ OnFirst(<<t>>) /\ TwoOffs(<<t>>)
             /\ t # "on" => NoOn(<<t>>)
  BY DEF NoOn, Settled, OnFirst, TwoOffs
<1>3. ASSUME NEW q \in Seq(Texts), Len(q) <= 2
      PROVE  TwoOffs(q)
  BY <1>3 DEF TwoOffs
<1> QED BY <1>1, <1>2, <1>3

\* A frame is received.
LEMMA Lengthened ==
    ASSUME NEW b \in Seq(Frames), NEW f \in Frames
    PROVE  /\ Len(Append(b, f)) = Len(b) + 1 /\ Len(b) \in Nat
           /\ Append(b, f)[Len(b) + 1] = f
           /\ \A i \in 1..Len(b) : Append(b, f)[i] = b[i]
           /\ Answers(Append(b, f)) <=> Answers(b) \/ f = "off"
<1>1. /\ Len(Append(b, f)) = Len(b) + 1 /\ Len(b) \in Nat
      /\ Append(b, f)[Len(b) + 1] = f
      /\ \A i \in 1..Len(b) : Append(b, f)[i] = b[i]
  BY AppendProperties
<1>2. \A i \in 1..(Len(b) + 1) : i \in 1..Len(b) \/ i = Len(b) + 1
  BY <1>1
<1>3. Len(b) + 1 \in 1..(Len(b) + 1) /\ 1..Len(b) \subseteq 1..(Len(b) + 1)
  BY <1>1
<1> QED BY <1>1, <1>2, <1>3 DEF Answers

\* The shell comes to its next command; its answer is received or lost.
LEMMA Handled ==
    ASSUME NEW s, NEW o, NEW q \in Seq(Texts), NEW x \in {"on", "off"},
           Told(s, o, q, x), q # <<>>, s.buffer \in Seq(Frames),
           NEW t, t.state = s.state,
           \/ t.buffer = s.buffer
           \/ t.state = "ok" /\ t.buffer = Append(s.buffer, Head(q))
    PROVE  Told(t, o, Tail(q), IF Head(q) \in {"on", "off"} THEN Head(q) ELSE x)
<1> DEFINE y == IF Head(q) \in {"on", "off"} THEN Head(q) ELSE x
           n == Len(s.buffer)
<1>1. /\ Head(q) \in Texts /\ Head(q) \in Frames
      /\ NoOn(q) => NoOn(Tail(q)) /\ Head(q) # "on"
      /\ Settled(q) => Settled(Tail(q))
      /\ OnFirst(q) => OnFirst(Tail(q))
      /\ TwoOffs(q) => TwoOffs(Tail(q))
      /\ OnFirst(q) /\ Head(q) = "off" => NoOn(Tail(q))
      /\ TwoOffs(q) /\ Head(q) = "off" => Settled(Tail(q))
      /\ Settled(q) /\ Head(q) = "off" =>
           \A i \in 1..Len(Tail(q)) : Tail(q)[i] = "off"
  BY Thinned DEF Frames
<1>2. /\ Len(q) \in Nat /\ Len(Tail(q)) = Len(q) - 1 /\ Head(q) = q[1]
      /\ Len(q) > 0
      /\ \A i \in 1..Len(Tail(q)) : Tail(q)[i] = q[i + 1]
  BY Thinned
<1>3. x = "off" /\ Head(q) # "on" => y = "off"
  OBVIOUS
<1>4. Answers(t.buffer) => Answers(s.buffer) \/ (s.state = "ok" /\ Head(q) = "off")
  <2>1. Answers(Append(s.buffer, Head(q))) <=> Answers(s.buffer) \/ Head(q) = "off"
    BY <1>1, Lengthened
  <2>2. CASE t.buffer = s.buffer
    BY <2>2
  <2>3. CASE t.state = "ok" /\ t.buffer = Append(s.buffer, Head(q))
    BY <2>1, <2>3
  <2> QED BY <2>2, <2>3
<1>5. Answers(t.buffer) => y = "off" /\ NoOn(Tail(q))
                           /\ (~Identifying(o) => Settled(Tail(q)))
  BY <1>1, <1>3, <1>4 DEF Told
<1>6. ASSUME s.state = "ok", Quieting(o)
      PROVE  /\ NoOn(Tail(q)) /\ Settled(Tail(q))
             /\ \A i, j \in 1..Len(t.buffer) :
                  i < j /\ t.buffer[i] = "off" => t.buffer[j] \in {"off", "noise"}
             /\ Answers(t.buffer) => \A i \in 1..Len(Tail(q)) : Tail(q)[i] = "off"
  <2>1. /\ NoOn(q) /\ Settled(q)
        /\ \A i, j \in 1..n :
              i < j /\ s.buffer[i] = "off" => s.buffer[j] \in {"off", "noise"}
        /\ Answers(s.buffer) => \A i \in 1..Len(q) : q[i] = "off"
    BY <1>6 DEF Told
  <2>2. Answers(s.buffer) => Head(q) = "off"
    BY <1>2, <2>1
  <2>3. Answers(t.buffer) => \A i \in 1..Len(Tail(q)) : Tail(q)[i] = "off"
    BY <1>1, <1>4, <2>1, <2>2
  <2>4. ASSUME NEW i \in 1..Len(t.buffer), NEW j \in 1..Len(t.buffer),
               i < j, t.buffer[i] = "off"
        PROVE  t.buffer[j] \in {"off", "noise"}
    <3>1. CASE t.buffer = s.buffer
      BY <2>1, <2>4, <3>1
    <3>2. CASE t.buffer = Append(s.buffer, Head(q))
      <4>1. /\ Len(t.buffer) = n + 1 /\ n \in Nat
            /\ t.buffer[n + 1] = Head(q)
            /\ \A k \in 1..n : t.buffer[k] = s.buffer[k]
        BY <1>1, <3>2, Lengthened
      <4>2. i \in 1..n /\ s.buffer[i] = "off"
        BY <2>4, <4>1
      <4>3. CASE j = n + 1
        <5>1. Answers(s.buffer)
          BY <4>2 DEF Answers
        <5> QED BY <2>2, <4>1, <4>3, <5>1
      <4>4. CASE j \in 1..n
        BY <2>1, <2>4, <4>1, <4>2, <4>4
      <4> QED BY <4>1, <4>3, <4>4
    <3> QED BY <3>1, <3>2
  <2> QED BY <1>1, <2>1, <2>3, <2>4
<1>7. Claims(o) => /\ y = "off" /\ NoOn(Tail(q))
                   /\ ~(Identifying(o) /\ o.sent) => Settled(Tail(q))
  BY <1>1, <1>3 DEF Told
<1>8. Leaves(o) => NoOn(Tail(q)) /\ Settled(Tail(q))
  BY <1>1 DEF Told
<1>9. OnFirst(Tail(q)) /\ (t.state = "ok" /\ ~Identifying(o) => TwoOffs(Tail(q)))
  BY <1>1 DEF Told
<1> HIDE DEF y
<1>10. Told(t, o, Tail(q), y)
  BY <1>5, <1>6, <1>7, <1>8, <1>9 DEF Told
<1> QED BY <1>10 DEF y

\* Bytes nobody asked for.
LEMMA Babbled ==
    ASSUME NEW s, NEW o, NEW q, NEW x, Told(s, o, q, x),
           s.buffer \in Seq(Frames),
           NEW t, t.state = s.state, t.buffer = Append(s.buffer, "noise")
    PROVE  Told(t, o, q, x)
<1> DEFINE n == Len(s.buffer)
<1>1. /\ Len(t.buffer) = n + 1 /\ n \in Nat /\ t.buffer[n + 1] = "noise"
      /\ \A k \in 1..n : t.buffer[k] = s.buffer[k]
      /\ Answers(t.buffer) <=> Answers(s.buffer)
  BY Lengthened DEF Frames
<1>2. ASSUME s.state = "ok", Quieting(o)
      PROVE  \A i, j \in 1..Len(t.buffer) :
                i < j /\ t.buffer[i] = "off" => t.buffer[j] \in {"off", "noise"}
  <2> SUFFICES ASSUME NEW i \in 1..Len(t.buffer), NEW j \in 1..Len(t.buffer),
                      i < j, t.buffer[i] = "off"
               PROVE  t.buffer[j] \in {"off", "noise"}
    OBVIOUS
  <2>1. i \in 1..n /\ (j \in 1..n \/ j = n + 1)
    BY <1>1
  <2> QED BY <1>1, <1>2, <2>1 DEF Told
<1> QED BY <1>1, <1>2 DEF Told

\* The scheduler is given up.
LEMMA GivenUp ==
    ASSUME NEW q, NEW x, Told(scheduler, owner, q, x), NoNews(owner, owner'),
           SchedulerOK(scheduler'), scheduler'.state # "ok"
    PROVE  Told(scheduler', owner', q, x) /\ Fresh(scheduler', owner', reader', q)
<1>1. /\ OnFirst(q)
      /\ Claims(owner') => /\ x = "off" /\ NoOn(q)
                           /\ ~(Identifying(owner') /\ owner'.sent) => Settled(q)
      /\ Leaves(owner') => NoOn(q) /\ Settled(q)
  BY DEF Told, NoNews
<1>2. scheduler'.buffer = <<>>
  BY DEF SchedulerOK
<1>3. ~Answers(scheduler'.buffer)
  BY <1>2 DEF Answers
<1> QED BY <1>1, <1>3 DEF Told, Fresh

\* Nothing is heard of the line: the scheduler is given up, or stays as it is.
LEMMA Unheard ==
    ASSUME LineInv, SchedulerOK(scheduler'), NoNews(owner, owner'),
           UNCHANGED <<wire, rf>>,
           \/ scheduler'.state # "ok"
           \/ /\ scheduler'.state = scheduler.state
              /\ scheduler'.buffer = scheduler.buffer
              /\ scheduler'.active = scheduler.active
              /\ Identifying(owner') =>
                   Identifying(owner) /\ (owner.sent => owner'.sent)
              /\ Identifying(owner) /\ ~Identifying(owner') => ~owner.sent
              /\ Quieting(owner') => Quieting(owner)
              /\ reader' \/ owner'.connection = "ready" =>
                   reader \/ owner.connection = "ready"
    PROVE  Told(scheduler', owner', wire', rf')
           /\ Fresh(scheduler', owner', reader', wire')
<1>1. Told(scheduler, owner, wire, rf) /\ Fresh(scheduler, owner, reader, wire)
  BY DEF LineInv
<1>2. /\ OnFirst(wire)
      /\ Claims(owner') => /\ rf = "off" /\ NoOn(wire)
                           /\ ~(Identifying(owner') /\ owner'.sent) => Settled(wire)
      /\ Leaves(owner') => NoOn(wire) /\ Settled(wire)
  BY <1>1 DEF Told, NoNews
<1>3. CASE scheduler'.state # "ok"
  <2>1. Told(scheduler', owner', wire, rf) /\ Fresh(scheduler', owner', reader', wire)
    BY <1>1, <1>3, GivenUp
  <2>2. wire' = wire /\ rf' = rf
    OBVIOUS
  <2> QED BY <2>1, <2>2
<1>4. CASE scheduler'.state = "ok"
  <2>1. Identifying(owner) /\ ~Identifying(owner') =>
          \A i \in 1..Len(wire) : wire[i] = "off"
    BY <1>1, <1>4 DEF Fresh
  <2>2. Identifying(owner) /\ ~Identifying(owner') => Settled(wire) /\ TwoOffs(wire)
    BY <2>1 DEF Settled, TwoOffs
  <2>3. Told(scheduler', owner', wire', rf')
    BY <1>1, <1>2, <1>4, <2>2 DEF Told
  <2>4. Fresh(scheduler', owner', reader', wire')
    BY <1>1, <1>4 DEF Fresh
  <2> QED BY <2>3, <2>4
<1> QED BY <1>3, <1>4

\* Nothing else comes before the answer, or behind it.
LastOf(s, q) ==
    \A i \in 1..Len(s.buffer) :
        s.buffer[i] = s.active.text => i = Len(s.buffer) /\ q = <<>>

\* The active command is answered.
LEMMA AnswerTold ==
    ASSUME ServiceOK(scheduler, owner, reader), scheduler.state = "ok",
           port \in Ports \cup {NoPort},
           NEW s, Queued(s), s.state = "ok", s.active = scheduler.active,
           s.queue = scheduler.queue, s.generation = scheduler.generation,
           s.active # NoCommand,
           NEW received \in Seq(Texts), NEW unsettled, unsettled \subseteq Writes,
           NEW x, Told(s, owner, received, x),
           Identifying(owner) \/ reader \/ owner.connection = "ready" =>
             LastOf(s, received),
           Resolves(s, received, unsettled)
    PROVE  Told(scheduler', owner', wire', x)
           /\ Fresh(scheduler', owner', reader', wire')
<1>1. /\ ServiceOK(scheduler', owner', reader')
      /\ \/ /\ owner' = Advanced(owner) /\ reader' = reader
            /\ owner.sent /\ Head(owner.script) \in Texts
            /\ s.active.caller = "device"
            /\ s.active.text = Head(owner.script)
         \/ /\ owner' = owner /\ reader /\ reader' = FALSE
            /\ s.active.caller = "reader" /\ s.active.text = "version"
      /\ scheduler'.state = "ok"
      /\ \/ /\ scheduler.queue # <<>>
            /\ scheduler'.active = Behind(scheduler)
            /\ scheduler'.active \in Commands
            /\ wire' \in {received, Append(received, Behind(scheduler).text)}
         \/ /\ scheduler.queue = <<>>
            /\ scheduler'.active = NoCommand
            /\ wire' = received
  BY Resolved
<1>2. PICK first \in Matches(s) :
        scheduler'.buffer = SubSeq(s.buffer, first + 1, Len(s.buffer))
  BY Resolved
<1>3. /\ s.buffer \in Seq(Frames) /\ first \in 1..Len(s.buffer)
      /\ s.buffer[first] = s.active.text
  BY <1>2 DEF Queued, Schedulers, Matches
<1>4. s.active.text = "off" => Answers(s.buffer)
  BY <1>3 DEF Answers
<1>5. /\ OwnerOK(owner)
      /\ owner.kind = "connect" => ~reader
      /\ reader => ~Leaves(owner)
      /\ ~reader => scheduler.queue = <<>>
  BY SMTT(40), Callings, Scripts DEF ServiceOK, ReaderOK, Leaves
<1>6. CASE owner' = Advanced(owner) /\ s.active.caller = "device"
  <2>1. /\ owner.sent /\ owner.kind # "none" /\ reader' = reader
        /\ s.active.text = Head(owner.script) /\ Head(owner.script) \in Texts
    BY <1>1, <1>5, <1>6 DEF OwnerOK
  <2>2. owner.script \in {Silencing, Confirming, Leaving, Emitting, Muting}
    BY <1>5, <2>1, Scripts DEF OwnerOK, Owners, Kinds, Texts
  <2>3. /\ Tail(owner.script) # <<>> =>
             owner'.kind = owner.kind /\ owner'.script = Tail(owner.script)
        /\ Tail(owner.script) = <<>> => owner'.kind = "none"
        /\ owner'.connection = "disconnected" => owner.script = Hanging
        /\ owner'.connection = "ready" =>
             \/ owner.kind = "connect" /\ owner.script = Confirming
             \/ owner.connection = "ready"
        /\ owner'.offAcknowledged =>
             \/ Head(owner.script) = "off"
             \/ owner.offAcknowledged /\ Head(owner.script) # "on"
    BY <1>5, <1>6, <2>1, ScriptAdvanced
  <2>4. /\ owner.script = Silencing <=> Quieting(owner)
        /\ owner.script = Confirming <=> Identifying(owner)
    BY SMTT(40), <1>5, <2>1, Scripts DEF OwnerOK, Kinds, Owners, Quieting, Identifying
  <2>5. /\ ~Quieting(owner')
        /\ Identifying(owner') => Quieting(owner)
        /\ Leaves(owner') => owner.script = Leaving
        /\ owner'.offAcknowledged => \/ owner.script \in {Silencing, Leaving, Muting}
                                     \/ owner.script = Confirming /\ Claims(owner)
    BY ZenonT(40), <2>1, <2>2, <2>3, <2>4, Scripts
    DEF Quieting, Identifying, Leaves, Claims
  <2>6. owner.script \in {Silencing, Leaving, Muting} => s.active.text = "off"
    BY <2>1, Scripts
  <2>7. Claims(owner') => x = "off"
    BY <1>4, <2>5, <2>6 DEF Told, Claims
  <2>8. CASE LastOf(s, received)
    <3>1. received = <<>> /\ first = Len(s.buffer)
      BY <1>3, <2>8 DEF LastOf
    <3>2. scheduler'.buffer = <<>>
      <4>1. Len(s.buffer) \in Nat
        BY <1>3
      <4> QED BY <1>2, <3>1, <4>1, SubSeqEmpty
    <3>3. ~Answers(scheduler'.buffer) /\ Noise(scheduler'.buffer)
      BY <3>2 DEF Answers, Noise
    <3>4. \/ wire' = <<>>
          \/ /\ scheduler.queue # <<>> /\ scheduler'.active # NoCommand
             /\ wire' = <<scheduler'.active.text>>
             /\ scheduler'.active.text = "version"
      <4>1. CASE scheduler.queue = <<>>
        BY <1>1, <3>1, <4>1
      <4>2. CASE scheduler.queue # <<>>
        <5>1. Behind(scheduler).text = "version" /\ Behind(scheduler) \in Commands
              /\ scheduler'.active = Behind(scheduler)
          <6>1. PICK c \in Commands :
                  s.queue = <<c>> /\ c.caller # s.active.caller
            BY <4>2 DEF Queued
          <6>2. Behind(scheduler) = c /\ c.caller = "reader"
            BY <1>6, <6>1 DEF Behind, Commands, Callers
          <6> QED BY <1>1, <4>2, <6>2 DEF ServiceOK, Serves
        <5>2. Append(<<>>, "version") = <<"version">>
          OBVIOUS
        <5> QED BY <1>1, <3>1, <4>2, <5>1, <5>2 DEF NoCommand, Commands, Texts
      <4> QED BY <4>1, <4>2
    <3>5. NoOn(wire') /\ Settled(wire') /\ OnFirst(wire') /\ TwoOffs(wire')
      BY <3>4, Short DEF Texts
    <3>6. Told(scheduler', owner', wire', x)
      BY <2>5, <2>7, <3>3, <3>5 DEF Told
    <3>7. Identifying(owner') => wire' = <<>>
      BY <1>5, <2>5, <3>4 DEF Quieting
    <3>8. Fresh(scheduler', owner', reader', wire')
      BY <3>2, <3>3, <3>4, <3>7 DEF Fresh
    <3> QED BY <3>6, <3>8
  <2>9. CASE ~LastOf(s, received)
    <3>1. ~Identifying(owner) /\ ~reader /\ owner.connection # "ready"
      BY <2>9
    <3>2. wire' = received
      BY <1>1, <1>5, <3>1
    <3>3. /\ Len(scheduler'.buffer) = Len(s.buffer) - first
          /\ \A i \in 1..Len(scheduler'.buffer) :
               /\ scheduler'.buffer[i] = s.buffer[first + i]
               /\ first < first + i /\ first + i \in 1..Len(s.buffer)
      <4>1. Len(s.buffer) \in Nat
        BY <1>3
      <4>2. \A i \in (first + 1)..Len(s.buffer) : s.buffer[i] \in Frames
        BY <1>3, <4>1
      <4>3. /\ Len(SubSeq(s.buffer, first + 1, Len(s.buffer))) =
                 IF first + 1 <= Len(s.buffer)
                 THEN Len(s.buffer) - (first + 1) + 1 ELSE 0
            /\ \A i \in 1..(Len(s.buffer) - (first + 1) + 1) :
                 SubSeq(s.buffer, first + 1, Len(s.buffer))[i] =
                   s.buffer[first + 1 + i - 1]
        <5>1. first + 1 \in Int /\ Len(s.buffer) \in Int
          BY <1>3, <4>1
        <5> HIDE DEF Frames
        <5> QED BY <4>2, <5>1, SubSeqProperties
      <4> DEFINE rest == SubSeq(s.buffer, first + 1, Len(s.buffer))
      <4>4. first \in Nat /\ first >= 1 /\ first <= Len(s.buffer)
        BY <1>3, <4>1
      <4>5. Len(rest) = Len(s.buffer) - first
        BY <4>1, <4>3, <4>4
      <4>6. ASSUME NEW i \in 1..Len(rest)
            PROVE  /\ rest[i] = s.buffer[first + i]
                   /\ first < first + i /\ first + i \in 1..Len(s.buffer)
        <5>1. /\ i \in 1..(Len(s.buffer) - (first + 1) + 1)
              /\ first + 1 + i - 1 = first + i
              /\ first < first + i /\ first + i \in 1..Len(s.buffer)
          BY <4>1, <4>4, <4>5
        <5>2. rest[i] = s.buffer[first + 1 + i - 1]
          BY <4>3, <5>1
        <5> QED BY <5>1, <5>2
      <4> HIDE DEF rest
      <4>7. scheduler'.buffer = rest
        BY <1>2 DEF rest
      <4> QED BY <4>5, <4>6, <4>7
    <3>4. Answers(scheduler'.buffer) => Answers(s.buffer)
      BY <3>3 DEF Answers
    <3>5. /\ OnFirst(wire') /\ TwoOffs(wire')
          /\ Answers(s.buffer) => x = "off" /\ NoOn(wire') /\ Settled(wire')
      BY <3>1, <3>2 DEF Told
    <3>6. Claims(owner') \/ Leaves(owner') => Answers(s.buffer)
      BY <1>4, <2>4, <2>5, <2>6, <3>1 DEF Claims
    <3>7. Told(scheduler', owner', wire', x)
      BY <2>5, <3>4, <3>5, <3>6 DEF Told
    <3>8. Identifying(owner') =>
            /\ \A i \in 1..Len(scheduler'.buffer) :
                 scheduler'.buffer[i] \in {"off", "noise"}
            /\ \A i \in 1..Len(wire') : wire'[i] = "off"
      <4> SUFFICES ASSUME Identifying(owner')
                   PROVE  /\ \A i \in 1..Len(scheduler'.buffer) :
                               scheduler'.buffer[i] \in {"off", "noise"}
                          /\ \A i \in 1..Len(wire') : wire'[i] = "off"
        OBVIOUS
      <4>1. Quieting(owner) /\ s.buffer[first] = "off" /\ Answers(s.buffer)
        BY <1>3, <1>4, <2>4, <2>5, <2>6
      <4>2. /\ \A i, j \in 1..Len(s.buffer) :
                 i < j /\ s.buffer[i] = "off" => s.buffer[j] \in {"off", "noise"}
            /\ \A i \in 1..Len(received) : received[i] = "off"
        BY <4>1 DEF Told
      <4> QED BY <1>3, <3>2, <3>3, <4>1, <4>2
    <3>9. ~reader' /\ owner'.connection # "ready"
      BY <2>1, <2>3, <2>4, <3>1
    <3>10. Fresh(scheduler', owner', reader', wire')
      BY <3>8, <3>9 DEF Fresh
    <3> QED BY <3>7, <3>10
  <2> QED BY <2>8, <2>9
<1>7. CASE owner' = owner /\ s.active.caller = "reader"
  <2>1. reader /\ reader' = FALSE /\ s.active.text = "version"
    BY <1>1, <1>7
  <2>2. /\ owner.kind # "connect" /\ ~Leaves(owner)
        /\ ~Quieting(owner) /\ ~Identifying(owner)
    BY <1>5, <2>1 DEF Quieting, Identifying
  <2>3. received = <<>> /\ first = Len(s.buffer)
    BY <1>3, <2>1 DEF LastOf
  <2>4. scheduler'.buffer = <<>>
    <3>1. Len(s.buffer) \in Nat
      BY <1>3
    <3> QED BY <1>2, <2>3, <3>1, SubSeqEmpty
  <2>5. ~Answers(scheduler'.buffer) /\ Noise(scheduler'.buffer)
    BY <2>4 DEF Answers, Noise
  <2>6. \/ wire' = <<>>
        \/ /\ scheduler'.active # NoCommand
           /\ wire' = <<scheduler'.active.text>>
           /\ scheduler'.active.text \in Texts
           /\ scheduler'.active.text = Head(owner.script)
           /\ owner.sent
    <3>1. CASE scheduler.queue = <<>>
      BY <1>1, <2>3, <3>1
    <3>2. CASE scheduler.queue # <<>>
      <4>1. PICK c \in Commands :
              s.queue = <<c>> /\ c.caller # s.active.caller
        BY <3>2 DEF Queued
      <4>2. Behind(scheduler) = c /\ c.caller = "device"
            /\ c # NoCommand /\ c.text \in Texts
        BY <1>7, <4>1 DEF Behind, Commands, Callers, NoCommand
      <4>3. c.text = Head(owner.script) /\ owner.sent
        BY <4>2, Callings DEF ServiceOK, Serves, Calls
      <4>4. Append(<<>>, c.text) = <<c.text>>
        OBVIOUS
      <4> QED BY <1>1, <2>3, <3>2, <4>2, <4>3, <4>4
    <3> QED BY <3>1, <3>2
  <2>7. OnFirst(wire') /\ Settled(wire') /\ TwoOffs(wire')
    BY <2>6, Short
  <2>8. Claims(owner) => NoOn(wire')
    <3>1. owner.sent /\ Head(owner.script) = "on" => owner.kind = "on"
      BY <1>5, Scripts DEF OwnerOK, Owners, Kinds
    <3> QED BY <2>6, <3>1, Short DEF Claims
  <2>9. Claims(owner) => x = "off"
    BY DEF Told
  <2>10. Told(scheduler', owner', wire', x)
    BY <1>7, <2>2, <2>5, <2>7, <2>8, <2>9 DEF Told
  <2>11. Fresh(scheduler', owner', reader', wire')
    BY <1>7, <2>2, <2>5, <2>6 DEF Fresh
  <2> QED BY <2>10, <2>11
<1> QED BY <1>1, <1>6, <1>7

LEMMA ProcessTold ==
    ASSUME LineInv,
           NEW s, SchedulerOK(s), s.state = scheduler.state,
           s.active = scheduler.active, s.queue = scheduler.queue,
           s.generation = scheduler.generation,
           NEW received \in Seq(Texts), NEW unsettled, unsettled \subseteq writes,
           NEW x, Told(s, owner, received, x),
           s.active # NoCommand
             /\ (Identifying(owner) \/ reader \/ owner.connection = "ready") =>
             LastOf(s, received),
           (s.active # NoCommand /\ Answered(s))
             \/ Fresh(s, owner, reader, received),
           Processes(s, received, unsettled)
    PROVE  Told(scheduler', owner', wire', x)
           /\ Fresh(scheduler', owner', reader', wire')
<1> USE DEF LineInv, LinkInv
<1>1. CASE s.active # NoCommand /\ Answered(s)
  <2>1. Resolves(s, received, unsettled)
    BY <1>1 DEF Processes
  <2>2. s.state = "ok" /\ Queued(s) /\ scheduler.state = "ok"
    BY <1>1 DEF SchedulerOK
  <2>3. unsettled \subseteq Writes /\ port \in Ports \cup {NoPort}
        /\ ServiceOK(scheduler, owner, reader)
    BY DEF LineOK, TransportOK
  <2> QED BY <1>1, <2>1, <2>2, <2>3, AnswerTold
<1>2. CASE ~(s.active # NoCommand /\ Answered(s))
  <2>1. /\ scheduler' = s /\ wire' = received
        /\ owner' = owner /\ reader' = reader
    BY <1>2 DEF Processes, Rests
  <2> QED BY <1>2, <2>1
<1> QED BY <1>1, <1>2

\* Nothing that the scheduler has received answers a command of the service that
\* has nothing else left to wait for.
LEMMA NotYetAnswered ==
    ASSUME LineInv, scheduler.state = "ok", scheduler.active # NoCommand,
           Identifying(owner) \/ reader \/ owner.connection = "ready"
    PROVE  /\ \A i \in 1..Len(scheduler.buffer) :
                scheduler.buffer[i] # scheduler.active.text
           /\ scheduler.active.text \in Texts
           /\ Identifying(owner) => scheduler.active.text = "version"
<1> USE DEF LineInv, LinkInv
<1>1. scheduler.active \in Commands /\ scheduler.active.text \in Texts
  BY DEF ServiceOK, SchedulerOK, Queued, Schedulers, Commands
<1>2. CASE Identifying(owner)
  <2>1. ~reader /\ Head(owner.script) = "version"
    BY <1>2, Scripts DEF ServiceOK, ReaderOK, Identifying
  <2>2. scheduler.active.text = "version"
    BY <1>1, <2>1, Callings DEF ServiceOK, Serves
  <2> QED BY <1>1, <1>2, <2>2 DEF Fresh
<1>3. CASE ~Identifying(owner)
  BY <1>1, <1>3 DEF Fresh, Noise, Texts
<1> QED BY <1>2, <1>3

LEMMA BabbleTold ==
    ASSUME LineInv, ShellBabbles
    PROVE  Told(scheduler', owner', wire', rf')
           /\ Fresh(scheduler', owner', reader', wire')
<1> USE DEF LineInv, LinkInv
<1>1. /\ scheduler.state = "ok" /\ Receives("noise", wire) /\ rf' = rf
      /\ scheduler \in Schedulers /\ scheduler.buffer \in Seq(Frames)
      /\ wire \in Seq(Texts)
  BY DEF ShellBabbles, ServiceOK, SchedulerOK, Queued, Schedulers, LineOK
<1>2. CASE Overflows(scheduler)
  <2>1. Faults /\ wire' = wire
    BY <1>1, <1>2 DEF Receives
  <2>2. /\ Carried /\ NoNews(owner, owner') /\ scheduler'.state # "ok"
    BY <1>1, <2>1, FaultHeard
  <2> QED BY <1>1, <2>1, <2>2, GivenUp DEF Carried, ServiceOK
<1>3. CASE ~Overflows(scheduler)
  <2> DEFINE s == Received(scheduler, "noise")
             b == scheduler.buffer
  <2>1. Processes(s, wire, writes)
    BY <1>1, <1>3 DEF Receives
  <2>2. Append(b, "noise") \in Seq(Frames)
    BY <1>1 DEF Frames
  <2>3. /\ s \in Schedulers /\ s.state = scheduler.state
        /\ s.active = scheduler.active /\ s.queue = scheduler.queue
        /\ s.generation = scheduler.generation /\ s.deaf = scheduler.deaf
        /\ s.buffer = Append(b, "noise")
    BY <1>1, <2>2 DEF Schedulers, Received
  <2>4. SchedulerOK(s)
    BY <1>1, <2>3 DEF ServiceOK, SchedulerOK, Queued
  <2> HIDE DEF s
  <2>5. Told(s, owner, wire, rf)
    BY <1>1, <2>3, Babbled
  <2>6. /\ Len(s.buffer) = Len(b) + 1 /\ Len(b) \in Nat
        /\ s.buffer[Len(b) + 1] = "noise"
        /\ \A i \in 1..Len(b) : s.buffer[i] = b[i]
    BY <1>1, <2>3, Lengthened DEF Frames
  <2>7. \A i \in 1..Len(s.buffer) : i \in 1..Len(b) \/ i = Len(b) + 1
    BY <2>6
  <2>8. s.active # NoCommand
          /\ (Identifying(owner) \/ reader \/ owner.connection = "ready") =>
          LastOf(s, wire)
    BY <1>1, <2>3, <2>6, <2>7, NotYetAnswered DEF LastOf, Texts
  <2>9. Fresh(s, owner, reader, wire)
    BY <1>1, <2>3, <2>6, <2>7 DEF Fresh, Noise
  <2> QED BY <1>1, <2>1, <2>3, <2>4, <2>5, <2>8, <2>9, ProcessTold
<1> QED BY <1>2, <1>3

\* What the shell still has to do when it has answered its next command.
LEMMA FreshLeft ==
    ASSUME LineInv, wire # <<>>, scheduler.state = "ok"
    PROVE  /\ Fresh(scheduler, owner, reader, Tail(wire))
           /\ Identifying(owner) /\ Head(wire) # "off" =>
                /\ Head(wire) = "version" /\ owner.sent /\ Tail(wire) = <<>>
           /\ reader \/ owner.connection = "ready" =>
                /\ scheduler.active # NoCommand
                /\ Head(wire) = scheduler.active.text /\ Tail(wire) = <<>>
<1>1. /\ wire \in Seq(Texts) /\ Fresh(scheduler, owner, reader, wire)
  BY DEF LineInv, LinkInv, LineOK
<1>2. /\ Tail(wire) \in Seq(Texts)
      /\ Len(Tail(wire)) = Len(wire) - 1 /\ Len(wire) \in Nat /\ Len(wire) > 0
      /\ \A i \in 1..Len(Tail(wire)) : Tail(wire)[i] = wire[i + 1]
      /\ Head(wire) = wire[1]
  BY <1>1, Thinned
<1> DEFINE q == Tail(wire)
<1>a. /\ \A i \in 1..Len(q) : i + 1 \in 1..Len(wire)
      /\ \A i \in 1..Len(q) : i + 1 = Len(wire) => i = Len(q)
      /\ Len(wire) = 1 <=> Len(q) = 0
      /\ 1 \in 1..Len(wire)
  <2> HIDE DEF q
  <2>1. Len(q) = Len(wire) - 1 /\ Len(wire) \in Nat /\ Len(wire) > 0
    BY <1>2 DEF q
  <2> QED BY <2>1
<1>b. Len(q) = 0 => q = <<>>
  BY <1>2, EmptySeq
<1> HIDE DEF q
<1>3. ASSUME Identifying(owner)
      PROVE  /\ \A i \in 1..Len(Tail(wire)) :
                  \/ Tail(wire)[i] = "off"
                  \/ /\ Tail(wire)[i] = "version" /\ owner.sent
                     /\ i = Len(Tail(wire))
             /\ Head(wire) # "off" =>
                  Head(wire) = "version" /\ owner.sent /\ Tail(wire) = <<>>
  <2>1. \A i \in 1..Len(wire) :
          wire[i] = "off" \/ (wire[i] = "version" /\ owner.sent /\ i = Len(wire))
    BY <1>1, <1>3 DEF Fresh
  <2>2. ASSUME NEW i \in 1..Len(Tail(wire))
        PROVE  i + 1 \in 1..Len(wire) /\ (i + 1 = Len(wire) => i = Len(Tail(wire)))
    BY SMTT(40), <1>a DEF q
  <2>3. Head(wire) # "off" => Len(Tail(wire)) = 0 /\ Head(wire) = "version" /\ owner.sent
    BY <1>2, <1>a, <2>1 DEF q
  <2>4. Len(Tail(wire)) = 0 => Tail(wire) = <<>>
    BY <1>b DEF q
  <2> QED BY <1>2, <2>1, <2>2, <2>3, <2>4
<1>4. ASSUME reader \/ owner.connection = "ready"
      PROVE  /\ scheduler.active # NoCommand
             /\ Head(wire) = scheduler.active.text /\ Tail(wire) = <<>>
  <2>1. scheduler.active # NoCommand /\ wire = <<scheduler.active.text>>
    BY <1>1, <1>4 DEF Fresh
  <2>2. \A t : Head(<<t>>) = t /\ Tail(<<t>>) = <<>>
    OBVIOUS
  <2> QED BY <2>1, <2>2
<1>5. Fresh(scheduler, owner, reader, Tail(wire))
  BY <1>1, <1>3, <1>4 DEF Fresh
<1> QED BY <1>3, <1>4, <1>5

LEMMA AnswersTold ==
    ASSUME LineInv, ShellAnswers
    PROVE  Told(scheduler', owner', wire', rf')
           /\ Fresh(scheduler', owner', reader', wire')
<1> USE DEF LineInv, LinkInv
<1> DEFINE f == Head(wire)
           q == Tail(wire)
           b == scheduler.buffer
<1>1. /\ wire \in Seq(Texts) /\ wire # <<>>
      /\ rf' = IF f \in {"on", "off"} THEN f ELSE rf
      /\ rf \in {"on", "off"} /\ Told(scheduler, owner, wire, rf)
      /\ scheduler \in Schedulers /\ b \in Seq(Frames)
  BY DEF ShellAnswers, ServiceOK, SchedulerOK, Queued, Schedulers, LineOK,
         TransportOK
<1>2. f \in Texts /\ q \in Seq(Texts) /\ f \in Frames
  BY <1>1, Thinned DEF Frames
<1>3. Told(scheduler, owner, q, rf')
  BY <1>1, Handled
<1>4. CASE /\ wire' = q /\ UNCHANGED <<scheduler, owner, reader>>
  <2>1. Fresh(scheduler, owner, reader, q)
    <3>1. CASE scheduler.state = "ok"
      BY <1>1, <3>1, FreshLeft
    <3>2. CASE scheduler.state # "ok"
      BY <3>2 DEF Fresh
    <3> QED BY <3>1, <3>2
  <2> QED BY <1>3, <1>4, <2>1
<1>5. CASE Receives(f, q) /\ scheduler.state # "ok"
  <2>1. wire' = q /\ UNCHANGED <<scheduler, owner, reader>>
    BY <1>5 DEF Receives
  <2> QED BY <1>4, <2>1
<1>6. CASE Receives(f, q) /\ scheduler.state = "ok" /\ Overflows(scheduler)
  <2>1. Faults /\ wire' = q
    BY <1>6 DEF Receives
  <2>2. /\ Carried /\ NoNews(owner, owner') /\ scheduler'.state # "ok"
    BY <1>6, <2>1, FaultHeard
  <2>3. SchedulerOK(scheduler')
    BY <2>2 DEF Carried, ServiceOK
  <2> QED BY <1>3, <2>1, <2>2, <2>3, GivenUp
<1>7. CASE Receives(f, q) /\ scheduler.state = "ok" /\ ~Overflows(scheduler)
  <2> DEFINE s == Received(scheduler, f)
  <2>1. Processes(s, q, writes)
    BY <1>7 DEF Receives
  <2>2. Append(b, f) \in Seq(Frames)
    BY <1>1, <1>2
  <2>3. /\ s \in Schedulers /\ s.state = scheduler.state
        /\ s.active = scheduler.active /\ s.queue = scheduler.queue
        /\ s.generation = scheduler.generation /\ s.deaf = scheduler.deaf
        /\ s.buffer = Append(b, f)
    BY <1>1, <2>2 DEF Schedulers, Received
  <2>4. SchedulerOK(s)
    BY <1>7, <2>3 DEF ServiceOK, SchedulerOK, Queued
  <2> HIDE DEF s
  <2>5. Told(s, owner, q, rf')
    BY <1>1, <1>7, <2>3, Handled
  <2>6. /\ Len(s.buffer) = Len(b) + 1 /\ Len(b) \in Nat
        /\ s.buffer[Len(b) + 1] = f
        /\ \A i \in 1..Len(b) : s.buffer[i] = b[i]
    BY <1>1, <1>2, <2>3, Lengthened
  <2>7. \A i \in 1..Len(s.buffer) : i \in 1..Len(b) \/ i = Len(b) + 1
    BY <2>6
  <2>8. /\ Fresh(scheduler, owner, reader, q)
        /\ Identifying(owner) /\ f # "off" =>
             /\ f = "version" /\ owner.sent /\ q = <<>>
        /\ reader \/ owner.connection = "ready" =>
             /\ scheduler.active # NoCommand
             /\ f = scheduler.active.text /\ q = <<>>
    BY <1>1, <1>7, FreshLeft
  <2>9. s.active # NoCommand
          /\ (Identifying(owner) \/ reader \/ owner.connection = "ready") =>
          LastOf(s, q)
    BY <1>7, <2>3, <2>6, <2>7, <2>8, NotYetAnswered DEF LastOf
  <2>10. Identifying(owner) /\ f # "off" => scheduler.active # NoCommand
    BY SMTT(40), <2>8, Callings, Scripts
    DEF ServiceOK, ReaderOK, Identifying, Calls, Texts, NoCommand
  <2>11. scheduler.active # NoCommand /\ f = scheduler.active.text => Answered(s)
    BY <2>3, <2>6 DEF Answered, Matches
  <2>12. (s.active # NoCommand /\ Answered(s)) \/ Fresh(s, owner, reader, q)
    <3>1. CASE reader \/ owner.connection = "ready"
      BY <2>3, <2>8, <2>11, <3>1
    <3>2. CASE Identifying(owner) /\ f # "off"
      BY <1>7, <2>3, <2>8, <2>10, <2>11, <3>2, NotYetAnswered
    <3>3. CASE ~(reader \/ owner.connection = "ready")
               /\ ~(Identifying(owner) /\ f # "off")
      BY <2>3, <2>6, <2>7, <2>8, <3>3 DEF Fresh
    <3> QED BY <3>1, <3>2, <3>3
  <2> QED BY <1>2, <2>1, <2>3, <2>4, <2>5, <2>9, <2>12, ProcessTold
<1>8. Receives(f, q) \/ (wire' = q /\ UNCHANGED <<scheduler, owner, reader>>)
  BY DEF ShellAnswers
<1> HIDE DEF f, q
<1> QED BY <1>4, <1>5, <1>6, <1>7, <1>8

-----------------------------------------------------------------------------
(* What the service's own steps leave on the line *)

\* A rejected item of an operation.
LEMMA Rebuffed ==
    ASSUME NEW o, OwnerOK(o), o.kind # "none", ~(Identifying(o) /\ o.sent),
           NEW p, OwnerOK(p), p.kind = o.kind, p.script = o.script,
           p.offAcknowledged => o.offAcknowledged, p.connection = o.connection
    PROVE  LET f == OperationFails(p)
           IN /\ NoNews(o, f) /\ ~Identifying(f) /\ ~Quieting(f)
              /\ f.connection = "ready" => o.connection = "ready"
<1> DEFINE f == OperationFails(p)
<1>1. /\ f.connection # "disconnected" /\ f.kind \in {"none", "abort"}
      /\ f.kind = "abort" =>
           p.kind = "connect" /\ (p.script = Dialling \/ p.offAcknowledged)
      /\ f.connection = "ready" => p.connection = "ready"
      /\ f.offAcknowledged =>
           p.offAcknowledged /\ p.kind \in {"connect", "abort", "disconnect"}
  BY OperationFailed
<1> HIDE DEF f
<1>2. NoNews(o, f)
  BY <1>1 DEF NoNews, Claims, Leaves
<1> QED BY <1>1, <1>2 DEF Identifying, Quieting, f

LEMMA BeginTold ==
    ASSUME LineInv, Connect \/ Disconnect \/ SetOutput("on") \/ SetOutput("off")
    PROVE  Told(scheduler', owner', wire', rf')
           /\ Fresh(scheduler', owner', reader', wire')
<1> USE DEF LineInv, LinkInv
<1>1. /\ Carried /\ ~owner.sent /\ UNCHANGED <<wire, rf, reader>>
      /\ owner.kind = "none" /\ OwnerOK(owner) /\ SchedulerOK(scheduler')
  BY Begun DEF Connect, Disconnect, SetOutput, OthersUnchanged, transportVars,
               schedulerVars, ServiceOK, Carried
<1>2. ~Identifying(owner)
  BY <1>1 DEF Identifying
<1>3. CASE Connect
  <2>1. /\ owner'.offAcknowledged = FALSE /\ scheduler' = scheduler
        /\ owner.connection = "disconnected"
    BY <1>3 DEF Connect, Begin, Disconnected, OthersUnchanged, schedulerVars
  <2>2. NoNews(owner, owner')
    BY <2>1 DEF NoNews, Claims, Leaves
  <2>3. scheduler'.state # "ok"
    BY <2>1 DEF ServiceOK
  <2> QED BY <1>1, <2>2, <2>3, Unheard
<1>4. ASSUME NEW text \in {"on", "off"}, SetOutput(text)
      PROVE  Told(scheduler', owner', wire', rf')
             /\ Fresh(scheduler', owner', reader', wire')
  <2>1. /\ owner'.kind = text /\ owner'.connection = "ready"
        /\ owner'.offAcknowledged = owner.offAcknowledged
        /\ scheduler' = scheduler /\ owner.connection = "ready"
    BY <1>1, <1>4
    DEF SetOutput, Begin, OthersUnchanged, schedulerVars, OwnerOK, Owners
  <2>2. NoNews(owner, owner') /\ ~Identifying(owner') /\ ~Quieting(owner')
    BY <1>1, <2>1 DEF NoNews, Claims, Leaves, Identifying, Quieting
  <2> QED BY <1>1, <1>2, <2>1, <2>2, Unheard
<1>5. CASE Disconnect
  <2>1. /\ owner'.kind = "disconnect" /\ owner'.connection = "disconnecting"
        /\ owner'.offAcknowledged = owner.offAcknowledged
        /\ \/ owner.teardownAcknowledged
           \/ ~owner.teardownAcknowledged /\ owner'.script = Leaving
           \/ ~owner.teardownAcknowledged /\ owner'.script = Redialling
        /\ scheduler' = scheduler \/ scheduler' = Disposed(scheduler)
    BY <1>1, <1>5 DEF Disconnect, Begin, OwnerOK, Owners, Leaving, Redialling
  <2>2. owner.teardownAcknowledged => owner.offAcknowledged
    BY <1>1 DEF OwnerOK
  <2>3. NoNews(owner, owner') /\ ~Identifying(owner') /\ ~Quieting(owner')
    BY <1>1, <1>2, <2>1, <2>2, Scripts
    DEF NoNews, Claims, Leaves, Identifying, Quieting
  <2>4. scheduler' = scheduler \/ scheduler'.state # "ok"
    BY <2>1, Scrapped DEF ServiceOK
  <2> QED BY <1>1, <1>2, <2>1, <2>3, <2>4, Unheard
<1> QED BY <1>3, <1>4, <1>5

\* The service asks for its port to be opened or closed, or hears that it will
\* not be.
LEMMA PortTold ==
    ASSUME LineInv,
           \/ Opens \/ ClosesPort \/ ClosesNothing
           \/ \E p \in Ports : \/ PortDoesNotOpen(p) \/ PortCloses(p)
                               \/ PortDoesNotClose(p)
    PROVE  Told(scheduler', owner', wire', rf')
           /\ Fresh(scheduler', owner', reader', wire')
<1> USE DEF LineInv, LinkInv
<1>1. LinkInv /\ LinkInv' /\ UNCHANGED <<wire, rf>>
  <2>1. LinkInv'
    BY OpenAsked, CloseAsked, NothingClosed, OpenRejected, CloseAnswered,
       CloseRejected
  <2> QED BY <2>1 DEF Opens, ClosesPort, ClosesNothing, PortDoesNotOpen,
                      PortCloses, PortDoesNotClose, TheLinkIsIdle, schedulerVars
<1>2. SchedulerOK(scheduler') /\ OwnerOK(owner) /\ SchedulerOK(scheduler)
  BY <1>1 DEF ServiceOK
<1>3. CASE Opens \/ ClosesPort
  <2>1. /\ owner' = [owner EXCEPT !.sent = TRUE] /\ scheduler' = scheduler
        /\ reader' = reader /\ Head(owner.script) \in {"open", "close"}
    BY <1>3 DEF Opens, ClosesPort, schedulerVars, Due, Item
  <2>2. /\ owner'.kind = owner.kind /\ owner'.script = owner.script
        /\ owner'.connection = owner.connection
        /\ owner'.offAcknowledged = owner.offAcknowledged
    BY <1>2, <2>1 DEF OwnerOK, Owners
  <2>3. ~Identifying(owner) /\ ~Identifying(owner')
    BY <2>1, <2>2, Scripts DEF Identifying
  <2>4. NoNews(owner, owner')
    BY <2>2, <2>3 DEF NoNews, Claims, Leaves
  <2>5. Quieting(owner') => Quieting(owner)
    BY <2>2 DEF Quieting
  <2> QED BY <1>1, <1>2, <2>1, <2>2, <2>3, <2>4, <2>5, Unheard
<1>4. CASE ClosesNothing \/ \E p \in Ports : PortCloses(p)
  <2>1. /\ CloseDone(owner) /\ reader' = reader /\ owner.script # <<>>
        /\ Head(owner.script) = "close"
    <3>1. CASE ClosesNothing
      BY <3>1 DEF ClosesNothing, Due, Item
    <3>2. ASSUME NEW p \in Ports, PortCloses(p)
          PROVE  /\ CloseDone(owner) /\ reader' = reader /\ owner.script # <<>>
                 /\ Head(owner.script) = "close"
      BY <3>2, CloseAnswered DEF Awaits, PortCloses
    <3> QED BY <1>4, <3>1, <3>2
  <2>2. /\ owner' = Advanced(owner) /\ owner.script \in {Redialling, Hanging}
        /\ owner.kind # "none"
    BY <2>1, CloseReported DEF ServiceOK, OwnerOK
  <2>3. owner.kind \in {"abort", "disconnect"}
    BY <1>2, <2>2, Scripts DEF OwnerOK, Owners, Kinds
  <2>4. /\ owner'.offAcknowledged => owner.offAcknowledged
        /\ owner'.connection = "disconnected" => owner.script = Hanging
        /\ Tail(owner.script) # <<>> => owner'.script = Tail(owner.script)
        /\ Tail(owner.script) = <<>> => owner'.kind = "none"
        /\ owner.script = Hanging => owner'.connection = "disconnected"
    BY <1>2, <2>1, <2>2, <2>3, ScriptAdvanced
  <2>5. NoNews(owner, owner')
    <3>1. owner.script = Redialling => owner'.script = Reopening
      BY <2>4, Scripts
    <3>2. owner.script = Hanging => Leaves(owner)
      BY <2>3 DEF Leaves
    <3>3. ~Identifying(owner)
      BY <2>3 DEF Identifying
    <3>4. OwnerOK(owner')
      BY <1>1 DEF ServiceOK
    <3>5. owner.script = Redialling => ~Leaves(owner')
      BY <2>4, <3>1, <3>4, Scripts DEF Leaves, OwnerOK
    <3> QED BY <2>2, <2>3, <2>4, <3>2, <3>3, <3>5 DEF NoNews, Claims
  <2>6. scheduler'.state # "ok"
    <3>1. owner.script = Redialling => scheduler.state # "ok"
      BY DEF ServiceOK, MustOpen
    <3>2. Disposed(scheduler).state # "ok"
      BY <1>2, Scrapped
    <3> QED BY <2>1, <2>2, <2>4, <3>1, <3>2 DEF CloseDone
  <2> QED BY <1>1, <1>2, <2>5, <2>6, Unheard
<1>5. CASE \E p \in Ports : PortDoesNotOpen(p) \/ PortDoesNotClose(p)
  <2>1. /\ owner' = OperationFails(owner) /\ scheduler' = scheduler
        /\ reader' = reader
        /\ owner.script # <<>> /\ Head(owner.script) \in {"open", "close"}
    <3>1. ASSUME NEW p \in Ports, PortDoesNotOpen(p)
          PROVE  /\ owner' = OperationFails(owner) /\ scheduler' = scheduler
                 /\ reader' = reader
                 /\ owner.script # <<>> /\ Head(owner.script) \in {"open", "close"}
      BY <3>1 DEF PortDoesNotOpen, Waits, Item
    <3>2. ASSUME NEW p \in Ports, PortDoesNotClose(p)
          PROVE  /\ owner' = OperationFails(owner) /\ scheduler' = scheduler
                 /\ reader' = reader
                 /\ owner.script # <<>> /\ Head(owner.script) \in {"open", "close"}
      BY <3>2, CloseRejected DEF PortDoesNotClose, Awaits
    <3> QED BY <1>5, <3>1, <3>2
  <2>2. owner.kind # "none" /\ ~Identifying(owner)
    BY <1>2, <2>1, Scripts DEF OwnerOK, Identifying
  <2>3. /\ NoNews(owner, owner') /\ ~Identifying(owner') /\ ~Quieting(owner')
        /\ owner'.connection = "ready" => owner.connection = "ready"
    BY <1>2, <2>1, <2>2, Rebuffed
  <2> QED BY <1>1, <1>2, <2>1, <2>2, <2>3, Unheard
<1> QED BY <1>3, <1>4, <1>5

\* The service sends a command, or is refused.
LEMMA ExecuteTold ==
    ASSUME LineInv, NEW text \in Texts, Executes(text)
    PROVE  Told(scheduler', owner', wire', rf')
           /\ Fresh(scheduler', owner', reader', wire')
<1> USE DEF LineInv, LinkInv
<1> DEFINE o == IF text = "off" THEN [owner EXCEPT !.offAcknowledged = FALSE]
                ELSE owner
<1>1. /\ OwnerOK(owner) /\ ~owner.sent /\ owner.script # <<>>
      /\ Head(owner.script) = text /\ rf' = rf /\ reader' = reader
      /\ Told(scheduler, owner, wire, rf) /\ Fresh(scheduler, owner, reader, wire)
      /\ wire \in Seq(Texts) /\ SchedulerOK(scheduler')
  BY Executed DEF ServiceOK, Executes, Due, Item, LineOK, Carried
<1>2. /\ owner.kind # "none" /\ owner.kind # "abort" /\ owner.script # Hanging
      /\ owner.script # Dialling /\ owner.connection # "disconnected"
      /\ text = "on" <=> owner.kind = "on"
      /\ text = "version" <=> Identifying(owner)
      /\ text = "on" => owner.connection \in {"ready", "faulted"}
  BY <1>1, Scripts DEF OwnerOK, Owners, Kinds, Texts, Disconnected, Identifying
<1>3. /\ o \in Owners /\ o.kind = owner.kind /\ o.script = owner.script
      /\ o.sent = FALSE /\ o.connection = owner.connection
      /\ o.teardownAcknowledged = owner.teardownAcknowledged
      /\ o.offAcknowledged = (owner.offAcknowledged /\ text # "off")
  BY <1>1 DEF OwnerOK, Owners
<1> HIDE DEF o
<1>4. /\ ~Calls(scheduler, "device") /\ Behind(scheduler) = NoCommand
      /\ scheduler.active = NoCommand => ~reader
  BY <1>1, Callings DEF ServiceOK, Calls, NoCommand
<1>5. CASE (text = "version" \/ Ready(owner)) /\ Admits(scheduler)
  <2>1. /\ StartNext(Enqueued(scheduler, text, "device"), wire, writes)
        /\ owner' = [o EXCEPT !.sent = TRUE]
    BY <1>5 DEF Executes, o
  <2>2. scheduler.state = "ok" /\ (text = "on" => owner.connection = "ready")
    BY <1>2, <1>5 DEF Admits, Ready
  <2> DEFINE e == Enqueued(scheduler, text, "device")
  <2>3. /\ Queued(e) /\ e.state = "ok" /\ e.queue # <<>>
        /\ e.generation = scheduler.generation
        /\ e.active = scheduler.active /\ e.buffer = scheduler.buffer
        /\ Behind(e) = [text |-> text, caller |-> "device"]
    BY <1>4, <2>2, Commanded DEF Callers, ServiceOK
  <2> HIDE DEF e
  <2>4. /\ scheduler'.state = "ok" /\ scheduler'.buffer = e.buffer
        /\ \/ /\ e.active = NoCommand
              /\ scheduler'.active = Behind(e)
              /\ scheduler'.active \in Commands
              /\ wire' \in {wire, Append(wire, Behind(e).text)}
           \/ e.active # NoCommand /\ scheduler' = e /\ wire' = wire
    BY <2>1, <2>3, Pumped DEF LineOK, TransportOK, e
  <2>5. /\ owner'.kind = owner.kind /\ owner'.script = owner.script
        /\ owner'.sent = TRUE /\ owner'.connection = owner.connection
        /\ owner'.offAcknowledged = (owner.offAcknowledged /\ text # "off")
    BY <1>3, <2>1 DEF Owners
  <2>6. /\ scheduler'.buffer = scheduler.buffer
        /\ Identifying(owner') <=> Identifying(owner)
        /\ Quieting(owner') <=> Quieting(owner)
        /\ ~Leaves(owner')
        /\ Claims(owner') => Claims(owner) /\ Identifying(owner') /\ owner'.sent
    BY <1>2, <2>3, <2>4, <2>5
    DEF Identifying, Quieting, Leaves, Claims, Texts
  <2>7. /\ reader \/ owner.connection = "ready" =>
             /\ Noise(scheduler.buffer)
             /\ scheduler.active = NoCommand => wire = <<>>
        /\ Identifying(owner) =>
             /\ \A i \in 1..Len(scheduler.buffer) :
                  scheduler.buffer[i] \in {"off", "noise"}
             /\ \A i \in 1..Len(wire) : wire[i] = "off"
    BY <1>1, <2>2 DEF Fresh
  <2>8. Noise(scheduler.buffer) => ~Answers(scheduler.buffer)
    BY DEF Noise, Answers
  <2>9. CASE wire' = wire
    <3>1. Told(scheduler', owner', wire', rf')
      BY <1>1, <2>2, <2>4, <2>6, <2>9 DEF Told
    <3>2. Fresh(scheduler', owner', reader', wire')
      BY <1>1, <2>2, <2>3, <2>4, <2>5, <2>6, <2>7, <2>9 DEF Fresh
    <3> QED BY <3>1, <3>2
  <2>10. CASE /\ wire' = Append(wire, text) /\ scheduler.active = NoCommand
              /\ scheduler'.active = [text |-> text, caller |-> "device"]
              /\ scheduler'.active \in Commands
    <3> DEFINE q == Append(wire, text)
    <3>1. /\ Len(q) = Len(wire) + 1 /\ Len(wire) \in Nat
          /\ q[Len(wire) + 1] = text
          /\ \A i \in 1..Len(wire) : q[i] = wire[i]
      BY <1>1
    <3>2. wire = <<>> => q = <<text>>
      OBVIOUS
    <3> HIDE DEF q
    <3>3. \A i \in 1..Len(q) : i \in 1..Len(wire) \/ i = Len(q)
      BY <3>1
    <3>4. scheduler'.active # NoCommand /\ scheduler'.active.text = text
      BY <2>10 DEF Commands, NoCommand, Texts
    <3>5. reader \/ owner.connection = "ready" =>
            wire = <<>> /\ q = <<text>> /\ ~Answers(scheduler.buffer)
      BY <2>7, <2>8, <2>10, <3>2
    <3>6. CASE text = "on"
      <4>1. q = <<text>> /\ ~Answers(scheduler.buffer)
        BY <2>2, <3>5, <3>6
      <4>2. OnFirst(q) /\ TwoOffs(q)
        BY <4>1, Short
      <4>3. ~Claims(owner') /\ ~Quieting(owner') /\ ~Identifying(owner')
        BY <1>2, <2>6, <3>6 DEF Quieting
      <4>4. Told(scheduler', owner', q, rf)
        BY <1>1, <2>6, <4>1, <4>2, <4>3 DEF Told
      <4>5. Fresh(scheduler', owner', reader', q)
        BY <1>1, <2>5, <2>6, <2>7, <3>4, <3>5, <4>3 DEF Fresh
      <4> QED BY <1>1, <2>10, <4>4, <4>5 DEF q
    <3>7. CASE text = "off"
      <4>1. /\ NoOn(wire) => NoOn(q)
            /\ Settled(wire) => Settled(q)
            /\ OnFirst(wire) => OnFirst(q)
            /\ TwoOffs(wire) => TwoOffs(q)
        BY <1>1, <3>7, Grown DEF q, Texts
      <4>2. ~Claims(owner') /\ ~Identifying(owner') /\ ~Identifying(owner)
        BY <1>2, <2>6, <3>7
      <4>3. (\A i \in 1..Len(wire) : wire[i] = "off")
              => \A i \in 1..Len(q) : q[i] = "off"
        BY <3>1, <3>3, <3>7
      <4>4. Told(scheduler', owner', q, rf)
        BY <1>1, <2>2, <2>6, <4>1, <4>2, <4>3 DEF Told
      <4>5. Fresh(scheduler', owner', reader', q)
        BY <1>1, <2>5, <2>6, <2>7, <3>4, <3>5, <4>2 DEF Fresh
      <4> QED BY <1>1, <2>10, <4>4, <4>5 DEF q
    <3>8. CASE text = "version"
      <4>1. (NoOn(wire) => NoOn(q)) /\ (OnFirst(wire) => OnFirst(q))
        BY <1>1, <3>8, Grown DEF q, Texts
      <4>2. /\ Identifying(owner') /\ Identifying(owner) /\ owner'.sent
            /\ ~Quieting(owner')
        BY <1>2, <2>5, <2>6, <3>8, Scripts DEF Identifying, Quieting
      <4>3. Told(scheduler', owner', q, rf)
        BY <1>1, <2>6, <4>1, <4>2 DEF Told
      <4>4. \A i \in 1..Len(q) :
              q[i] = "off" \/ (q[i] = "version" /\ i = Len(q))
        BY <2>7, <3>1, <3>3, <3>8, <4>2
      <4>5. Fresh(scheduler', owner', reader', q)
        BY <1>1, <2>5, <2>6, <2>7, <3>4, <3>5, <4>2, <4>4 DEF Fresh
      <4> QED BY <1>1, <2>10, <4>3, <4>5 DEF q
    <3> QED BY <3>6, <3>7, <3>8 DEF Texts
  <2> QED BY <2>3, <2>4, <2>9, <2>10
<1>6. CASE ~((text = "version" \/ Ready(owner)) /\ Admits(scheduler))
  <2>1. /\ owner' = OperationFails(o) /\ UNCHANGED <<scheduler, wire>>
    BY <1>6 DEF Executes, o, transportVars, schedulerVars
  <2>2. OwnerOK(o)
    BY <1>1, <1>2, <1>3, Scripts DEF OwnerOK
  <2>3. /\ NoNews(owner, owner') /\ ~Identifying(owner') /\ ~Quieting(owner')
        /\ owner'.connection = "ready" => owner.connection = "ready"
    BY <1>1, <1>2, <1>3, <2>1, <2>2, Rebuffed
  <2> QED BY <1>1, <2>1, <2>3, Unheard
<1> QED BY <1>5, <1>6

\* The second caller's command.
LEMMA ReadTold ==
    ASSUME LineInv, Reads
    PROVE  Told(scheduler', owner', wire', rf')
           /\ Fresh(scheduler', owner', reader', wire')
<1> USE DEF LineInv, LinkInv
<1>1. /\ owner.connection = "ready" /\ ~reader /\ scheduler.state = "ok"
      /\ StartNext(Enqueued(scheduler, "version", "reader"), wire, writes)
      /\ owner' = owner /\ rf' = rf /\ wire \in Seq(Texts) /\ OwnerOK(owner)
      /\ Told(scheduler, owner, wire, rf) /\ Fresh(scheduler, owner, reader, wire)
  BY DEF Reads, Admits, LineOK, ServiceOK
<1>2. /\ ~Identifying(owner) /\ ~Quieting(owner) /\ ~Leaves(owner)
  BY <1>1, Scripts DEF Identifying, Quieting, Leaves, OwnerOK
<1>3. ~Calls(scheduler, "reader")
  BY <1>1, Callings DEF ServiceOK
<1> DEFINE e == Enqueued(scheduler, "version", "reader")
<1>4. /\ Queued(e) /\ e.state = "ok" /\ e.queue # <<>>
      /\ e.generation = scheduler.generation
      /\ e.active = scheduler.active /\ e.buffer = scheduler.buffer
      /\ Behind(e) = [text |-> "version", caller |-> "reader"]
  BY <1>1, <1>3, Commanded DEF Callers, Texts, ServiceOK
<1> HIDE DEF e
<1>5. /\ scheduler'.state = "ok" /\ scheduler'.buffer = e.buffer
      /\ \/ /\ e.active = NoCommand
            /\ scheduler'.active = Behind(e)
            /\ scheduler'.active \in Commands
            /\ wire' \in {wire, Append(wire, Behind(e).text)}
         \/ e.active # NoCommand /\ scheduler' = e /\ wire' = wire
  BY <1>1, <1>4, Pumped DEF LineOK, TransportOK, e
<1>6. /\ Noise(scheduler.buffer) /\ ~Answers(scheduler.buffer)
      /\ scheduler.active = NoCommand => wire = <<>>
      /\ wire = <<>> \/ wire = <<scheduler.active.text>>
  BY <1>1 DEF Fresh, Noise, Answers
<1>7. CASE wire' = wire
  <2>1. Told(scheduler', owner', wire', rf')
    BY <1>1, <1>4, <1>5, <1>7 DEF Told
  <2>2. Fresh(scheduler', owner', reader', wire')
    BY <1>1, <1>2, <1>4, <1>5, <1>6, <1>7 DEF Fresh
  <2> QED BY <2>1, <2>2
<1>8. CASE /\ wire' = Append(wire, "version") /\ scheduler.active = NoCommand
           /\ scheduler'.active = [text |-> "version", caller |-> "reader"]
           /\ scheduler'.active \in Commands
  <2>1. wire' = <<"version">> /\ "version" \in Texts
    BY <1>6, <1>8 DEF Texts
  <2>2. /\ Settled(wire') /\ OnFirst(wire') /\ TwoOffs(wire') /\ NoOn(wire')
    BY <2>1, Short
  <2>3. Told(scheduler', owner', wire', rf')
    BY <1>1, <1>2, <1>4, <1>5, <1>6, <2>2 DEF Told
  <2>4. scheduler'.active # NoCommand /\ scheduler'.active.text = "version"
    BY <1>8 DEF Commands, NoCommand, Texts
  <2>5. Fresh(scheduler', owner', reader', wire')
    BY <1>1, <1>2, <1>4, <1>5, <1>6, <2>1, <2>4 DEF Fresh
  <2> QED BY <2>3, <2>5
<1> QED BY <1>4, <1>5, <1>7, <1>8

\* A port opens: the shell may still have what an earlier connection left.
LEMMA OpenTold ==
    ASSUME LineInv, MaxStale <= 2, NEW p \in Ports, PortOpens(p)
    PROVE  Told(scheduler', owner', wire', rf')
           /\ Fresh(scheduler', owner', reader', wire')
<1> USE DEF LineInv, LinkInv
<1>1. /\ scheduler' = NewScheduler(scheduler) /\ owner' = Advanced(owner)
      /\ owner.script \in {Dialling, Reopening}
      /\ scheduler.state # "ok" /\ ~reader' /\ wire' = wire /\ rf' = rf
  BY OpenAnswered
<1>2. /\ OwnerOK(owner) /\ SchedulerOK(scheduler) /\ wire \in Seq(Texts)
      /\ Told(scheduler, owner, wire, rf) /\ Len(wire) <= MaxStale
  BY DEF ServiceOK, LineOK, PortOpens
<1>3. TwoOffs(wire)
  <2>1. Len(wire) <= 2
    <3>1. Len(wire) \in Nat /\ MaxStale \in Nat
      BY <1>2, LinkAssumption
    <3> QED BY <1>2, <3>1
  <2> QED BY <1>2, <2>1, Short
<1>4. scheduler'.buffer = <<>>
  BY <1>1, <1>2 DEF SchedulerOK, Queued, Schedulers, NewScheduler
<1>5. ~Answers(scheduler'.buffer) /\ 1..Len(scheduler'.buffer) = {}
  BY <1>4 DEF Answers
<1>6. /\ owner.kind \in {"connect", "disconnect"}
      /\ owner.script = Dialling <=> owner.kind = "connect"
      /\ owner.kind = "connect" => Leaves(owner)
      /\ owner.connection # "ready" /\ ~Identifying(owner)
  <2>1. owner.kind \in {"connect", "disconnect"}
    BY ZenonT(40), <1>1, <1>2, Scripts DEF OwnerOK, Owners, Kinds
  <2>2. owner.script = Dialling <=> owner.kind = "connect"
    BY SMTT(40), <1>1, <1>2, <2>1, Scripts DEF OwnerOK
  <2>3. owner.connection # "ready" /\ owner.script # Confirming
    BY <1>1, <1>2, <2>1, Scripts DEF OwnerOK
  <2> QED BY <2>1, <2>2, <2>3 DEF Leaves, Identifying
<1>7. /\ owner'.kind = owner.kind /\ OwnerOK(owner')
      /\ owner'.script \in {Silencing, Leaving}
      /\ owner'.connection # "disconnected" /\ owner'.connection # "ready"
      /\ owner'.offAcknowledged => owner.offAcknowledged
  BY ZenonT(40), <1>1, <1>2, <1>6, ScriptAdvanced, Scripts
<1>8. /\ ~Identifying(owner') /\ ~Leaves(owner')
      /\ Quieting(owner') => Leaves(owner)
      /\ Claims(owner') => Claims(owner)
  BY <1>6, <1>7, Scripts DEF Identifying, Leaves, Quieting, Claims
<1>9. Told(scheduler', owner', wire', rf')
  BY <1>1, <1>2, <1>3, <1>5, <1>6, <1>8 DEF Told
<1>10. Fresh(scheduler', owner', reader', wire')
  BY <1>1, <1>7, <1>8 DEF Fresh
<1> QED BY <1>9, <1>10

\* What the transport reports of itself.
LEMMA ReportTold ==
    ASSUME LineInv,
           \/ NativeError
           \/ \E p \in Ports : LateAnswer(p) \/ CableIsPulled(p)
    PROVE  Told(scheduler', owner', wire', rf')
           /\ Fresh(scheduler', owner', reader', wire')
<1> USE DEF LineInv, LinkInv
<1>1. /\ EventArrives \/ UNCHANGED <<scheduler, owner, reader>>
      /\ UNCHANGED <<wire, rf>>
  BY Reported DEF NativeError, TheLinkIsIdle
<1>2. /\ NoNews(owner, owner') /\ SchedulerOK(scheduler')
      /\ \/ UNCHANGED <<scheduler, owner, reader>>
         \/ scheduler'.state # "ok"
  BY <1>1, EventHeard DEF NoNews, ServiceOK, Carried
<1> QED BY <1>1, <1>2, Unheard

\* What the scheduler hears of its writes.
LEMMA WriteTold ==
    ASSUME LineInv, WriteEvent
    PROVE  Told(scheduler', owner', wire', rf')
           /\ Fresh(scheduler', owner', reader', wire')
<1> USE DEF LineInv, LinkInv
<1>1. CASE WriteDrains
  BY <1>1, DrainHeard
<1>2. ASSUME NEW w \in writes, WriteIsDone(w)
      PROVE  Told(scheduler', owner', wire', rf')
             /\ Fresh(scheduler', owner', reader', wire')
  <2>1. /\ rf' = rf /\ wire \in Seq(Texts) /\ writes \ {w} \subseteq writes
        /\ SchedulerOK(scheduler)
        /\ Told(scheduler, owner, wire, rf)
        /\ Fresh(scheduler, owner, reader, wire)
    BY <1>2 DEF WriteIsDone, LineOK, ServiceOK
  <2>2. CASE Processes(scheduler, wire, writes \ {w})
    <3>1. scheduler.active # NoCommand => scheduler.state = "ok"
      BY <2>1 DEF SchedulerOK
    <3>2. scheduler.active # NoCommand
            /\ (Identifying(owner) \/ reader \/ owner.connection = "ready") =>
            LastOf(scheduler, wire)
      BY <3>1, NotYetAnswered DEF LastOf
    <3> QED BY <2>1, <2>2, <3>2, ProcessTold
  <2>3. CASE ~Processes(scheduler, wire, writes \ {w})
    BY <1>2, <2>1, <2>3 DEF WriteIsDone, Rests
  <2> QED BY <2>2, <2>3
<1>3. ASSUME NEW w \in writes, WriteIsLost(w)
      PROVE  Told(scheduler', owner', wire', rf')
             /\ Fresh(scheduler', owner', reader', wire')
  <2>1. /\ SchedulerOK(scheduler') /\ NoNews(owner, owner')
        /\ UNCHANGED <<wire, rf>> /\ OwnerOK(owner)
        /\ \/ scheduler'.state # "ok"
           \/ /\ scheduler'.state = scheduler.state
              /\ scheduler'.active = scheduler.active
              /\ scheduler'.buffer = scheduler.buffer
              /\ owner' \in {owner, FaultHandled(owner)} /\ reader' = reader
    BY <1>3, LossHeard DEF Carried, ServiceOK
  <2>2. /\ FaultHandled(owner).kind = owner.kind
        /\ FaultHandled(owner).script = owner.script
        /\ FaultHandled(owner).sent = owner.sent
        /\ FaultHandled(owner).connection # "ready"
    BY <2>1, FaultIsHandled
  <2> QED BY <2>1, <2>2, Unheard DEF Identifying, Quieting
<1> QED BY <1>1, <1>2, <1>3 DEF WriteEvent

-----------------------------------------------------------------------------
(* An acknowledged output-off is the truth *)

LEMMA LineBegins == LinkInit => LineInv
<1> SUFFICES ASSUME LinkInit PROVE LineInv
  OBVIOUS
<1>1. /\ wire = <<>> /\ scheduler.buffer = <<>> /\ scheduler.state = "none"
      /\ owner = Disconnected
  BY DEF LinkInit, SchedulerInit
<1>2. ~Answers(scheduler.buffer) /\ ~Claims(owner)
  BY <1>1 DEF Answers, Claims, Disconnected
<1>3. Told(scheduler, owner, wire, rf) /\ Fresh(scheduler, owner, reader, wire)
  BY <1>1, <1>2, Short DEF Told, Fresh
<1> QED BY <1>3, LinkBegins DEF LineInv

LEMMA LineKept ==
    ASSUME MaxStale <= 2, LineInv, [LinkNext]_linkVars
    PROVE  LineInv'
<1>1. LinkInv'
  BY LinkKept DEF LineInv
<1> SUFFICES Told(scheduler', owner', wire', rf')
             /\ Fresh(scheduler', owner', reader', wire')
  BY <1>1 DEF LineInv
<1>2. CASE UNCHANGED linkVars
  BY <1>2 DEF linkVars, LineInv
<1>3. CASE Operation
  BY <1>3, BeginTold, ReadTold DEF Operation
<1>4. CASE Step
  BY <1>4, PortTold, ExecuteTold DEF Step
<1>5. CASE Event
  <2>1. ASSUME NEW p \in Ports, Report(p)
        PROVE  Told(scheduler', owner', wire', rf')
               /\ Fresh(scheduler', owner', reader', wire')
    BY <2>1, OpenTold, PortTold, ReportTold DEF Report
  <2>2. CASE ResponseIsMalformed \/ CommandTimesOut
    <3>1. /\ NoNews(owner, owner') /\ scheduler'.state # "ok"
          /\ UNCHANGED <<wire, rf>> /\ SchedulerOK(scheduler')
      BY <2>2, DeadlineHeard DEF LineInv, Carried, ServiceOK
    <3> QED BY <3>1, Unheard
  <2> QED BY <1>5, <2>1, <2>2, ReportTold, AnswersTold, BabbleTold DEF Event
<1>6. CASE WriteEvent
  BY <1>6, WriteTold
<1> QED BY <1>2, <1>3, <1>4, <1>5, <1>6 DEF LinkNext

\* An acknowledged output-off is the truth, whatever is late, lost or opened
\* again, as long as a port opens on a shell that has at most two commands left:
\* with three, <<"off", "version", "off">>, an answer to the first acknowledges
\* the new connection's own output-off, the second its identification, and the
\* third is taken for the answer to a later command.
THEOREM AcknowledgedOffIsTrue ==
    ASSUME MaxStale <= 2
    PROVE  LinkSpec => []OffIsTrue
<1>1. LinkInit => LineInv
  BY LineBegins
<1>2. LineInv /\ [LinkNext]_linkVars => LineInv'
  BY LineKept
<1>3. LineInv => OffIsTrue
  <2> SUFFICES ASSUME LineInv PROVE OffIsTrue
    OBVIOUS
  <2>1. LinkTypeOK
    BY LinkIsTyped DEF LineInv
  <2>2. Claims(owner) => rf = "off" /\ NoOn(wire)
    BY DEF LineInv, Told
  <2>3. DOMAIN wire = 1..Len(wire)
    BY DEF LineInv, LinkInv, LineOK
  <2> QED BY <2>1, <2>2, <2>3 DEF OffIsTrue, Claims, NoOn
<1> QED BY <1>1, <1>2, <1>3, PTL DEF LinkSpec

=============================================================================
