# Atomizer: specification, model checking and proofs

Atom Atomizer is an Electron application that drives RF instruments: a TinySA
spectrum analyzer over a serial port (or an emulated one, the firmware twin), a
Neptune P210 receiver over the network, and SignalLab, a synthesizer inside the
process. Some of these can transmit. The application's central promise is about
that: RF output is off unless the user asked for it, what the program says about
RF output is true, and no device that may be transmitting is ever given up.

This directory specifies the program from the renderer, its agent and its signal
analysis down to the serial port. Paths below are relative to the repository; IM is
`packages/instrument-runtime/src/instrument-manager.ts`, HOST is
`apps/desktop/src/main/atomizer-instrument-host.ts`, DEVICE is
`packages/tinysa/src/device.ts`.

1. The system
2. Modules
3. Runs
4. Fairness
5. Proofs
6. What the code does not keep
7. Abstractions and what is not modelled
8. Plan

## 1. The system

```
 Atom agent ──► renderer controllers ──IPC──► privileged admission, quit gate
     │ text turns          ▲ events                    │
     ▼                     └────────────────┐          ▼
 AI gateway ──► Realtime API              AtomizerInstrumentHost ──► preference store
                                              │  one operation at a time
                                              ▼
                                        InstrumentManager ──► registry
                                              │  driver.connect(), session.*, events
                  ┌───────────────────────────┼───────────────────┐
                  ▼                           ▼                   ▼
            TinySA driver               Neptune driver        SignalLab
                  ▼                           ▼
          TinySaDeviceService        iio_attr / iio_readdev processes
                  ▼
           CommandScheduler ──► serial port, or the bridge of the firmware twin

 accepted measurement ──► detector ──► tracker ──► rows ──► classifier worker
   (renderer)                             │ history           ▲        │ result
                                          └─► extractor, capture target, receipt
```

Everything runs in JavaScript event loops: code between two `await`s is atomic,
and whatever may happen at an `await` happens: another call is admitted, a
driver event arrives, a port is unplugged, a process hangs, a timer fires. Two
details decide several properties: a *microtask* continuation runs before any
timer or I/O event, and yet two continuations can have other microtasks between
them. Between the renderer and the main process, replies and events travel in
two streams of their own.

### Components, their state, and what makes them correct

**Admission queue of the manager** (IM 78-232, 1115-1183). A FIFO of at most 64
normal operations, one teardown slot, two counters, the connection epoch, the
pending disconnect. A teardown overtakes operations that were admitted but not
started. *Correct when* the counters are exact, a disconnect always finds its
slot, nothing that could open or change a session starts behind it, and it
settles under any flood of calls.

**Session lifecycle of the manager** (IM 234-1105). The active session with its
configuration, RF belief, fault and open acquisition; a retained teardown of a
rejected session; a cleanup barrier. A terminal event may come between two
awaits, a connect may fail after it has opened something, and every part of a
teardown can fail and be retried separately. *Correct when* `off` is reported
only of a silent device, whatever is open has an owner that blocks the next
connect and is retried, a disconnect tells the truth, and a measurement is
published only under the authority of a live transaction.

**Canonical operations** (`canonical-parameters.ts`, the contracts, the surfaces
of three drivers, the panel). Each driver offers operations with settings that
are automatic or explicit; a request names the revision of the surface it was
made against. *Correct when* automatic settings always resolve, one revision
names one surface, an applied operation did what was asked, and the manager's
own copy of the session is the driver's.

**Host** (HOST). A bounded queue with a teardown slot, the stream and its pump,
stream blockers, lifecycle, startup admission, copies of manager state. *Correct
when* reservations are exact, no stream lives through a transition, a finished
disconnect or shutdown leaves nothing behind, its copies are fresh, and
everything that was asked to end does.

**Main process** (`main.ts`, `safe-shutdown-gate.ts`,
`privileged-ipc-admission.ts`, `instrument-preference.ts`). Quit requests, window
close, renderer failure, startup and crashes race for one shutdown. *Correct when*
the process does not exit over a held instrument, never stays without a window,
answers every disconnect, and an acknowledged preference survives.

**Renderer controllers** (`controllers/*.ts`, `store.ts`). One transaction gate,
a scalar run that streams in the host, a pump of bounded I/Q captures, the
operator's stop, and the acceptance of replies, events and state reads. *Correct
when* what is live is shown and can be stopped, the view converges to the host's,
evidence belongs to the configuration it is shown with, and every stop ends.

**Atom agent** (`useAtomAgent.ts`, `ai-gateway.ts`, `realtime-text.ts`). Typed
operations over bounded text sessions, one voice session, batches of tool calls
with approvals. Barge-ins, unmounts, time-outs and lost turns supersede what
still runs. *Correct when* every session and capture has an owner, no call is
executed without authority, and every operation ends.

**TinySA** (DEVICE, `tinysa-instrument-driver.ts`, `scheduler.ts`,
`serial-transport.ts`). Connection, command channel, RF-off acknowledgements,
the open port. Every command can be refused, time out or lose its port; a
battery-powered analyzer goes on transmitting when its cable is pulled. *Correct
when* an acknowledged output-off is the truth, sweeps and releases happen in
silence, no port is left open by nobody, every call settles, and retrying leaves
faults behind.

**Firmware twin** (`digital-twin-transport.ts`). A bridge process per launch,
open and close that overtake each other, an adapter with a copy of the
firmware's output. *Correct when* no bridge outlives its owner, the copy is the
firmware's, and every call is answered.

**Neptune P210** (`neptune-p210-instrument-driver.ts`, `iio-transport.ts`). One
process per command, which may hang, be killed, and leave the device half tuned.
*Correct when* no process outlives its call, samples are taken as configured, a
stuck device is left alone, and every call ends.

**Signal analysis** (`packages/analysis/src`: `index.ts`,
`bayesian-signal-detector.ts`, `regular-spectral-component.ts`,
`multicomponent-swept-region.ts`, `frequency-agile-geometry.ts`,
`bayesian-agile-association.ts`, `observable-features.ts`,
`classification-target-ranking.ts`, `detected-power-capture-receipt.ts`). Every
accepted sweep is grouped into frequency-local candidates; a tracker follows them
from sweep to sweep, binds some to combs, regions or a frequency-agile activity,
and keeps for each row the sweeps that speak for it. Three later places derive the
same claims again: the feature extractor, which refuses what it cannot replay, the
ranking of targets, and the receipt of a detected-power capture. *Correct when* the
extractor never refuses a row the display presents as qualified, an identity means
one signal for ever, members of a lineage agree, and a capture over displayed
evidence ends with a consistent receipt or a typed refusal.

**Classifier and recovery controllers** (`controllers/classification.ts`,
`controllers/iq-recovery.ts` and their workers). One worker job at a time, the
newest evidence waiting, scopes that end jobs, a consensus over a few results, a rate
limit. *Correct when* what is shown is about the evidence of now, and nobody waits
for ever.

## 2. Modules

| Module | Models | Role |
|---|---|---|
| `RfLease` | - | abstract: one holder of a connection, released only in silence |
| `ManagerContract` | IM as its callers see it | abstract: snapshot, cleanup requirement, outcome of the last disconnect |
| `ManagerQueue` | IM 78-232, 1115-1183 | the admission queue |
| `InstrumentManager` | IM | extends `ManagerQueue`; implements it, `RfLease` and `ManagerContract` |
| `HostContract` | HOST as the main process sees it | abstract |
| `AtomizerInstrumentHost` | HOST | over `ManagerContract`; implements `HostContract` |
| `InstrumentPreferenceStore` | `instrument-preference.ts` | `save()` step by step over a volatile and a durable directory |
| `MainProcess` | `main.ts`, quit gate, IPC admission | over `HostContract` and the store |
| `RendererAcquisition`, `RendererSession` | controllers of the renderer; with the host's side and the two channels | |
| `RealtimeText`, `AtomAgent` | text gateway; agent hook with voice | |
| `TinySaDevice` | DEVICE and its driver, for supported firmware with and without a generator and for custom firmware | what stands behind the driver interface |
| `NodeSerialTransport`, `CommandScheduler`, `SerialLink` | `serial-transport.ts`; `scheduler.ts`; both under the device service | each extends the one before |
| `TwinBridge`, `DigitalTwinTransport` | one bridge; the transport and shell adapter over it | |
| `NeptuneP210` | driver, session and processes | |
| `CanonicalParameters` | ranges, intents, surfaces | |
| `TinySaSurface`, `NeptuneCaptureSurface`, `SignalLabSurface` | the drivers' surfaces and their resolution | |
| `CanonicalOperations` | panel, manager and driver around a surface | |
| `ComponentAssociations` | comb and region grouping rules | which components of one sweep belong together, exact on integer frequencies |
| `BayesianDetector`, `FrequencyAgile`, `SignalTracker` | detector's grouping, agile windows, tracker | each extends the one before |
| `ObservableAdmission` | `observable-features.ts` | the second implementation of the tracker's rules |
| `CaptureTargets`, `CaptureReceipt` | ranking and selection; receipts | |
| `ClassificationController`, `IqRecovery` | controllers with their workers | operators on a controller's record |
| `SignalEvidence` | the renderer around all of them | state, actions and properties of the nine modules above |
| `MCInstrumentManager`, `MCCanonicalOperations`, `MCAtomAgent`, `MCSignalEvidence` | - | constants for TLC |
| `InstrumentManagerProofs` | - | theorems about the manager and its queue |
| `AtomizerInstrumentHostProofs`, `TinySaDeviceProofs`, `AtomAgentProofs`, `CanonicalOperationsProofs` | - | theorems about the modules they are named for |
| `RendererProofs` | - | theorems about `RendererSession` and `SignalEvidence` |
| `MainProcessProofs` | - | theorems about `MainProcess` and `SerialLink`, the link that process owns |
| `ChildProcessProofs` | - | theorems about `NeptuneP210` and `DigitalTwinTransport` |

**How they compose.** The layers meet in abstract specifications, because their
product is out of reach: the manager is checked and proved to implement
`ManagerContract`; the host is built on that contract and checked and proved to
implement `HostContract`; the main process is built on `HostContract`. `RendererSession`
reduces the main process to the host's session, configuration and stream.
`SerialLink` runs the real scheduler over the real transport and shows what
`TinySaDevice` takes for granted: an acknowledged output-off is the truth
(`OffIsTrue`, up to the limit that section 5 names). `NeptuneP210` and `TinySaDevice` are drivers; the manager's model
allows its driver more than they do, except for liveness
(`FaultedSessionRecovers`, section 6). `SignalEvidence` begins where
`RendererSession` ends: with a measurement the renderer has accepted.

Each module's header says what its variables stand for; `map` in `PROJECT.json`
names the lines of every definition. Some notes that need more room:

*InstrumentManager.* One action per stretch of code between two awaits. `pc` names
the promise that the running operation waits for, `body` the operation whose code
it is in: a canonical operation calls the code of `configure` and of features, so
`body` moves. `clean` is the comparison of `faultRevision` with the captured
value. `open`, `live`, `held`, `subscribed` and `orphaned` are the world behind
the driver interface, which the code cannot read; `live` is the worst case, true
from the dispatch of a command that may switch RF on until an output-off is
acknowledged. In `ManagerQueue` the connection epoch, an object compared for
identity only, is stored as the result of that comparison (`current`).

*AtomizerInstrumentHost.* `awaiting` is the FIFO of continuations of
`await run.done`, `run` is `#streamRun` with its pump; the answers of the manager
are the moves that `ManagerContract` allows.

*TinySaDevice.* An operation is a *script* of commands and port calls. Handlers of
the class are operators on the record of its fields, so that a fault and the
`catch` of the operation it interrupts compose in one step as they do in the code.
`firmware` is what answers at the port, which may be another device each time it
opens; `session` and `bound` are the driver's. `panel` (what the device is set to)
and `live` (RF may be on) are ghosts of the instrument: `live` becomes true when a
port opens, because nothing is known of a device that was on battery, and when a
command is *dispatched* that may emit, and false with an acknowledged output-off.
`attested` says that a receipt of an output-off was recorded within the operation.

*RendererAcquisition.* The code is a chain of calls on one kernel; helpers map a
renderer state to the next one, and a step is one message, timer or command.
`crossing` says that events have overtaken replies or the reverse.

*SignalEvidence.* The analysis is pure, so nine of its ten modules only define
operators. A level is an integer and a posterior test a threshold; what is kept
exactly is every rule that relates looks, rows, sweeps and names, because three
implementations must agree on them. Each budget of the run is one initial state.

*AtomAgent.* An operation is superseded by dropping a token or advancing a
generation; in the model its batch loses `live`, and what it executes goes on.

## 3. Runs

| Run | Question | States |
|---|---|---|
| `manager` | queue, RF truth, ownership of resources, what a disconnect claims; refinement of `RfLease`, `ManagerContract`, `ManagerQueue` (with its fairness); repeated disconnects recover | 150 452 |
| `host` | reservations, transitions, fresh copies; refinement of `HostContract`; disconnect, shutdown and stop end | 310 502 |
| `tinysa_device` | sweeps and releases in silence, scans of what is bound under a receipt of their own; a receive-only device leaves faults behind | 18 346 |
| `serial_link` | ports are guarded, off is true, calls settle | 61 696 |
| `main_process` | exits over a released instrument only, the preference survives, teardowns are answered | 216 392 |
| `renderer_session` | the renderer agrees with the host, taps tell the truth, stops and transactions end | 196 640 |
| `digital_twin` | process groups are owned, the adapter's copy agrees, calls end | 204 782 |
| `neptune` | the device is left alone outside its calls, samples are as configured, operations end | 220 032 |
| `canonical` | automatic settings resolve, revisions name surfaces, replies honour requests, the manager mirrors the driver | 213 250 |
| `agent` | sessions are owned, tools run under authority, calls end | 215 124 |
| `rf_enable_approved` | violated: section 6 | |
| `signal_evidence` | qualified rows can be replayed, identities are exact, captures over displayed evidence are qualified, what is shown is of now, jobs end | 91 161 |

Every property of a passing run has a mutant in `PROJECT.json`: a plausible bug in
one definition with which the same run fails. The mutated forms stand beside the
originals as "Faulty variant". Several properties are conjunctions of named parts
that the modules state one by one.

**Bounds and why they are enough.**

- `manager`: `Limit` 2 (64 in the code) has "full", "one more" and "the teardown
  beside a full queue"; two drivers, because the cleanup loop needs one that fails
  before one that succeeds and the reverse; `MaxSeq` 2, because an event can carry
  the number of the open acquisition, of the one before, or a wrong one. The
  proofs hold for every value.
- `host`: `HostLimit` 2 (64 in the code): one running, one queued or waiting; one
  operation of each kind that can hold up another. One restart waits at a time.
- `tinysa_device`: three mishaps: a fault, one in the teardown that answers it, one
  in the retry. At most one abandoned write is pending. Safety is proved for every
  number of mishaps (section 5).
- `serial_link`: two ports (one abandoned, one replacing it), two commands in
  flight or late, two buffered frames. `MaxStale` 2 bounds the unhandled commands
  on which a port may open, and cuts nothing off here. Three ports (1 077 160 states)
  pass for safety.
- `main_process`: two ordinary IPC calls fill the cap (32 in the code), one dead
  renderer, two preferences to tell the old one from the new.
- `renderer_session`: two sessions and two configurations tell old from new; three
  commands let each pair meet a third. Four commands (1 480 000 states) and three
  configurations were checked for safety too.
- `digital_twin`: a bridge and two replacements, two requests in flight.
- `neptune`: a named device and one that only the sweep or the operator knows, two
  revisions.
- `canonical`: six units (a TinySA with and without generator, Neptune, three
  SignalLab statuses), grids of three to five values with a boundary, a default and
  a step, two or three commands. A larger instance of 1 005 784 states passes.
- `agent`: one text session of capacity one (the eviction and refusal cases), two
  backends, four batches with every kind of call, two late captures. Capacity two
  with two sessions (944 244 states) and a three-call batch (1 623 573) pass for safety.
- `signal_evidence`: a narrow grid of 26 bins of 100 kHz with a comb, the comb without
  a line, a raster of regions, the same inside one tested region, and a line alone; the 2.4 GHz band in 11 bins; the
  derived spectrum of a capture. Windows are shortened so that each fills, slides and
  overflows: `HistoryLimit` 4 (128 in the code), `AdmissionWindow` 3, `LookWindow` and
  `ClassifierWindow` 2, `OpportunityWindow` 4, `PromoteAfter` 2, `ReleaseAfter` 1,
  `MinimumPositives` 3, `MinimumCells` 2. Seven budgets share the work: long runs of
  sweeps with the operator's detection changes, one *oddity* (a sweep that is late, follows a lost one, or
  carries a clock that was set back), and short runs with captures, sessions, unmounts and
  visits of the workspace, one with three captures, so that a recovery begins before
  the timer of the last one fires.

`CHECK_DEADLOCK FALSE` is set where the system may stop: a closed host accepts
nothing, a faulted TinySA session with a generator has no step left
(`FaultedSessionRecovers`, section 6), and the bounded environments spend their commands.

## 4. Fairness

There is no fairness on callers except where a property says so, and no strong
fairness. What is assumed, and why the code justifies it:

- `ManagerQueue`, `InstrumentManager`: microtasks run, and every driver promise
  settles (deadlines in `scheduler.ts:105`, `serial-transport.ts:120-207`).
  `DisconnectRecovers` assumes in the property itself that from some moment on the
  driver answers teardown calls successfully and somebody keeps asking.
- `AtomizerInstrumentHost`: continuations and timers run; every call of the
  manager or the store is answered. `CallsEnd` of the host then justifies the
  answers that `MainProcess`, `RendererSession` and `AtomAgent` assume.
- `TinySaDevice`: what is sent is answered or fails; the owner keeps asking for a
  teardown. Mishaps are bounded, not fair.
- `SerialLink`: the deadlines of open, write, close and commands fire. The
  operating system and the shell may stay silent for ever.
- `MainProcess`: host calls are answered, file system calls finish, a process that
  is allowed to exit does.
- `RendererSession`: the host answers, what is in a channel is delivered, the
  timers of cadence and receipts fire.
- `DigitalTwinTransport`: continuations run and deadlines fire; the bridge and its
  children owe nothing.
- `NeptuneP210`: continuations run, deadlines signal, and a process that has been
  signalled is eventually reported closed; one that has not may hang for ever.
- `AtomAgent`: turns have deadlines, ready results are sent, tools are answered, the
  startup timer fires. The browser, the API and the human may stay silent.
- `SignalEvidence`: a classification worker answers or its deadline fires, the recovery
  worker answers (it is asked with one capture and has no deadline), handlers,
  `finally` blocks, timers and effects run. Sweeps, captures and the operator owe
  nothing.

## 5. Proofs

TLAPS checks the proofs for every value of the constants, from the named
assumptions of the modules (`QueueAssumption`, `ManagerAssumption`,
`LaunchesAssumption` and so on), which TLC evaluates in the runs too. Each inductive
invariant was first checked by TLC on the instance of its module's run.

**Queue** (`InstrumentManagerProofs`, first part). `QueueInv` strengthens the counters with what
makes them inductive: queued operations have not begun; the teardown is in its
slot or running but not both, and then a disconnect is pending; an idle queue is
empty; and while a disconnect is pending no queued session operation is current.
The last part carries `NothingStartsBehindTeardown`. It follows that counters are
exact, and that the "teardown already pending" rejection is dead code.

**RF truth** (`InstrumentManagerProofs`). Every step of the manager is a queue step
(`ManagerImplementsQueue`), so all queue theorems hold of the manager. `SilenceInv`
says what each await means for RF output: `off` implies silence, no session
implies silence, `rfOutput` is `unknown` while a command that may switch RF on is
under way (`AwaitsRf`), and at the awaits reached behind an acknowledgement
(`AwaitsInSilence`) the device is still silent because nothing that switches RF on
can be dispatched there. There is one lemma per operation. It yields
`OffMeansSilent`.

**Ownership** (`InstrumentManagerProofs`, last part). `OInv` has six parts.
`LinkInv`: one operation executes at a time, and the queue and `pc` agree about
which. `AwaitInv`: what each await of connect and disconnect knows of the session.
`OwnerInv`: the session owns everything that is open, or the rejected teardown
does, or the barrier. `LoopInv`: a driver that the cleanup loop has passed without
failure holds nothing, which is why the *last* answer may lift the barrier.
`TruthInv`: the outcome of the last disconnect stays true until the next connect
or disconnect. `AuthorityInv`: an acquisition that no fault has overtaken still
has its configuration and its output-off. From these follow the remaining safety
properties of the `manager` run and the two refinements: `ManagerImplementsLease`
and `ManagerImplementsContract` map every step to one abstract step or a stutter.

`LeftoversAreOwned` and `ImplementsInterfaces` are conjunctions of these parts.
Four theorems state facts that no run lists, because they are dead code or types:
`TeardownSlotFree`, `OneConnectionAtATime`, `UnannouncedIsTeardownOnly` and type
correctness.

**Host** (`AtomizerInstrumentHostProofs`). The counters are sums over two sequences, so
the proof begins with lemmas about what `Append` and `RemoveAt` do to the number of
transitions in a sequence. `HostInv` has eight parts. `QueueInv`: once the host
leaves a connection, by a disconnect or a shutdown, nothing bound to it that is queued
or about to run is current. `WaiterInv`: the same of the transitions that wait for a
run; at most one teardown waits, the safety slot is free for it, and when it is
released no run is left. `CountInv` is the exactness of the three counters. `LifeInv`
lists the combinations of lifecycle, disconnect and shutdown that occur: an open host has no
shutdown, a disconnect beside a shutdown is the one that shutdown has joined.
`TeardownInv`: behind the wait for the run no run is left, and behind the
teardown nothing of the old connection has got past its first check.
`StreamInv`, `AnswerInv` and `MemoryInv` carry the stream, the answers the manager may
still give, and what is remembered: the event of an acquisition that has just
been answered is the only one that may still be new. One lemma per action. The
theorems are `TransitionsStayReserved`, `HostAlwaysRemembersTruly` and
`HostImplementsContract`; for the last, `TeardownInv` and `AnswerInv` are what shows
that a disconnect which is about to succeed finds nothing held, as the contract says.

**Main process and preference** (`MainProcessProofs`, first part). `StoreInv` adds to
`PreferenceSurvives` what a save has already done at each of its steps: its
directory exists, its preference is one a reader may find, and behind the rename it
is what the file holds. It is inductive for the store with crashes at any point
(`StoreSurvives`). Every step of the process is at most one step of the store
(`MainImplementsStore`), which carries the result over. `MainInv` relates the quit
gate, the host's promises and the window. `GateInv`: the gate says what the host
says, idle while it is open, pending while it closes, complete once it is closed, and
the window is missing only when the gate is not idle. `TeardownInv`: a teardown that
has ended found no save under way, and after a successful one nothing is
held. `ToldInv`: whoever was told of success was told it of a host that holds nothing.
From it follow `ExitsReleased` and `RendererDisconnectIsHonoured`, the safety part of
`TeardownsAreAnswered`.

**Neptune** (`ChildProcessProofs`, first part). `CallInv` ties the step of the call under way to
its session, `ChildInv` every process to the call that waits for it, `TuneInv` the
attributes of the device to the settings that this call has written so far. The
last is why a capture may start although an earlier configuration died half-way:
each call writes all three settings again before it reads.

**Firmware twin** (`ChildProcessProofs`, second part). `BridgeInv` says of one bridge what each of
its states means for its close(), its forced termination, its group and its requests: a
shutdown request is the last one, and `closed` is reached only over an empty group.
It is preserved by every operator of `TwinBridge`, one lemma each. `OwnerInv` says that every bridge
but the transport's own is unborn or closed, whatever open() and close() overtake;
`FreshInv` that an adapter whose bridge has not been opened yet is as new; and
`ShadowInv` that copy and firmware agree also *while* requests are under way, that an
output-on in flight is of a configured generator, and that only one request is in flight
unless the device has lost one. `GroupsAreOwned` and `ShadowAgrees` follow.

**TinySA** (`TinySaDeviceProofs`). `ActsOnWhatHolds` speaks of the command at the
head of a script, so it is inductive only together with what is promised of the commands
behind it. `ScriptOK` says which kind of operation gives which commands, that a probe is
followed by an output-off, and that a teardown is at one of its four points. `Silence` is
the promise: while RF may be on, every scan and every close of the script still has an
output-off before it (`Sheltered`), and an acknowledgement stands beside a live output
only between the command that may emit and the output-off or the revocation behind
it. `Channel`: a command in flight has a scheduler, and an acknowledgement outlives its
scheduler only as that of a teardown. `Owned` says who may hold session, port and
binding; `Bound` that what is bound is what the panel shows unless the service
knows better, and that an acquisition behind its output-off carries that
acquisition's receipt. A fault may replace the script at any time, so each lemma about
an action shows two things: that what is left of the old script keeps the promise, and
that what is composed in its place makes it again. The invariant also shows that the
model's bound on mishaps is only a bound.

**Command link** (`MainProcessProofs`, second part). The link composes three layers, and so does
its invariant. `ServiceOK` relates the service to its scheduler: `OwnerOK` says
which operation may have which script left, `Serves` that whoever waits has exactly
one command pending and it is the one awaited, `ReaderOK` that the second caller's
command is answered before a teardown's output-off is sent. `HandlesOK` says what a
native handle is while its open or close is awaited, late or abandoned;
`NoPortIsForgotten` follows from it, for every number of ports.

`OffIsTrue` needs to know what answers may still be under way. Two answers to the
same text cannot be told apart, so the invariant (`Told`, `Fresh`) is about the
*order* of the shell's unhandled commands: none that switches the output on stands
behind an output-off (`OnFirst`); where the answer to the first output-off could be
taken for the one awaited, only output-offs are behind it (`Settled`), and behind two
of them always (`TwoOffs`), because the first may acknowledge the connection's own
output-off while the identification is still to find its answer; and once a
connection is identified nothing of an earlier one is left (`Fresh`). TLC checked all
of it on the instance of the `serial_link` run.

The theorem `AcknowledgedOffIsTrue` has a hypothesis, `MaxStale <= 2`: a port opens
on a shell that has at most two commands of earlier connections to handle. It is not
for the prover's sake. Of three, `<<"off", "version", "off">>`, the first
acknowledges the new connection's output-off and the second its identification. The
third is left, and when an output-on times out, the teardown's output-off is
acknowledged by an earlier one while that output-on is still unhandled. TLC finds it
from an initial state with this `wire`, two ports and `MaxStale` 3; opening seven
ports leads there from `LinkInit`. The model makes it easier than the device does: its
identification is the one command `version`, where `connect` sends `version`, `info`,
`help`, a second output-off, `mode input` and queries (DEVICE 135-147), and the
answer to each would have to be left over too, in order. But only that length stands
against it in the code: responses carry no number, and nothing waits for the shell to
fall silent before the first command of a connection is sent.

**Atom agent** (`AtomAgentProofs`). The gateway is proved by itself: what the next
prompt, the idle timer, an answer and a failure do to the sequence of kept
conversations and to the count of slots. `SessionsKept` adds to the property that a
socket which connects is awaited by the turn that made it, and that what is kept or
awaits a response has been configured; otherwise a closed socket could be taken for a
session that was let go. In the window, `VoiceOK` orders a voice session's steps
(verified behind updating behind an open channel, a response only when verified) and
ties the microphone to them; `BatchesOwned` gives each live batch to the operation that
runs, with no live batch beside a response that may call tools, which is what keeps a
second batch from starting. `EverySessionIsOwned` follows. `Sound` and `BatchMade`
carry `NothingRunsUnauthorised`: the call a batch comes to is a cleanup if anything
failed before it, and it waits for an approval if it needs one, so that only
`ApprovalDecided` can start it. That the least of the remaining calls exists is
the well-foundedness of the natural numbers. No step of the proof uses the model's two
bounds, one superseded batch and `MaxLate`.

**Canonical operations** (`CanonicalOperationsProofs`). `SurfaceInv` has one shape for
each variable (what a session of each driver is made of, which commands may be under way,
which settings an operation has) and, while the session has not faulted, five parts.
`ConfigurationInv`: the manager's configuration is the driver's, except while a
TinySA's configuration is accepted and its output-off is still to be acknowledged, when
only the driver has the new one. `OutputInv` ties the RF belief to the driver's output
between commands, and says that a receive-only or touched instrument does not
transmit. `CatalogInv` is exact at every step: `AdmittedCatalogIs` shows that the
one entry the manager substitutes is all that the service changed, for each of its
three operations. `RevisionInv` and `ShownInv` carry the revisions. A surface
the panel shows, or is about to, is the current one or belongs to an earlier epoch, or to an earlier
configuration of this epoch (`Named`). Two counters would make that plain, were it not
for Neptune, whose surface returns to revision 0 whenever a configuration is on
its way. It is saved by what revision 0 is: always the same surface, that of a session
nobody has configured, and never with the intents of a configuration over it. `Advances` lists
how a step may change surface and revision, and `NamedStays` that each of these keeps
what the panel has apart. SignalLab's part needs that it accepts whatever the manager
admitted (`LabBindsAccepted`); otherwise an epoch could lose its configuration without a new revision.
`ManagerMirrors` and `RevisionsNameSurfaces` follow.

`HonestInv` is the conversation with the panel, and takes `SurfaceInv` for granted.
`FitInv`: whatever may be asked fits its setting, wherever it waits: in the choices of a
surface the panel has or will have, in its edits, in the request, in the ledgers
of the drivers and in the overlay of the manager. It is needed because an
explicit value comes back by these ways: an output that is no boolean, or a sweep
setting that is explicitly nothing, would be shown as something else. `Conversation`:
a request is on its way, being executed or answered, one of the
three. `CommandKeeps`: the command under way does what the intents ask
(`Keeps`), and a TinySA's ledger holds those intents until the device has
answered (`Remembers`). Each driver then takes two steps: what it resolves keeps the intents
(`ResolutionKeeps`, `LabResolutionKeeps`), and the surface behind it shows
what was kept: of a receiver operation by the overlay, of a source operation by the
ledger (`SourceHonours`, `OutputHonours`). With `RepliesHonourRequests` and
`RevisionsNameSurfaces`, `PanelIsTold` is the whole of `PanelIsToldTheTruth`.

`AutomaticAlwaysResolves` is `AutomaticSettingsResolve`. An automatic setting is what is
configured, what the source is set to, or what the driver prefers, so one more
invariant is needed: `SettingsInv`, that a TinySA's sweep and source, and
those a command under way is about to set, lie within the advertised ranges, and a
pinned waveform is one there is. It takes the other two for granted, because what
a caller asks for must have been a choice of a surface. The rest is arithmetic of ranges,
which no driver's step depends on: what is admitted is a whole number of steps above the
minimum and below the maximum (`IsAdmitted`, `AdmitsIs`); the nearest value is admitted, and is the
preferred one if that is (`RangeValueIs`, from `RoundedIs`); so for a value with a
least or a greatest bound, where one is found (`AtLeastIs`, `AtMostIs`), and the value found
is found again from itself (`AtLeastKeeps`, `AtMostKeeps`), which is why Neptune's automatic rate
and bandwidth survive being resolved around each other. SignalLab's capture is the one with
rules beyond its ranges (`IqIsSound`): with a native rate the least rate it asks for is that
rate (`LeastIs`), which is on the lattice and is therefore returned unrounded; a rate that
had been rounded up would need a derived transport the profile may not have.

The assumptions are about the instance only (`UnitsAssumption`), and are what the contract's
schemas demand of capabilities or the drivers make of a device. Of every range: integers, a positive
step, and a maximum not below its minimum. Of a TinySA (`AdvertisesTinySa`): two
frequencies to sweep between, as `tinySaCapabilities` advertises no sweep otherwise, a level if
a trigger other than automatic is offered, and modulation rates that include the 1 kHz it starts with.
Of Neptune (`AdvertisesNeptune`) and of SignalLab's profiles (`AdvertisesLab`): that
an automatic capture exists. The drivers throw where none does, also when they are asked for
their surface, and there is then nothing to resolve; that it can fail at all is a question to the
service's profiles, which are not in this repository. Of a profile's transport (`IsTransport`):
that the native rate is one of the rates and wide enough for the signal and the native bandwidth, which
`signalLabIqProfileCapabilitySchema` checks. SignalLab's status is at first one of its own profiles.
`UndefinedAssumption`: the constant for the absent
value is no operation and no waveform. The properties can be stated for every unit only because a session without a configuration, a source or a ledger holds a record that says so
(`NoConfiguration`, `Nothing`, `NoFeature`, `NoLedger`), and not the absent value, of
which no field may be read.

**Renderer** (`RendererProofs`, first part). The proof has two halves. `GateOk` is the order of
calls: at most one gated call is at the host or its reply on the way, and the
transaction in the gate waits for exactly that reply (`Orderly`). It is needed because
every reply is interpreted by the phase of the transaction, not by its own name. The
kernel's operators nest (a reply may end an operation, which drains a stop, which
resumes the pump, which sends the next capture), so each is shown to be `Small`: it
keeps what is shown of the instrument, and a transaction without its reply keeps
waiting for it; or `Done`, where it ends the transaction. The other half, `Agrees`, is
what the channel says. Delivered in order, there is a chain of views from what the
renderer shows to what the host shows, one link for each message (`Told`): an event turns a
view of its own session into the next, and a reply of `read`, `connect` or
`disconnect` finds the view it would set already there, or has been superseded
(`fresh`). Delivered out of order there is no chain, only its end: of the first
session, the last event that says anything says what the host shows, and a read that is
still trusted says it too, or such an event is behind it (`AtLast`). One lemma says
how a chain grows by what a step of the host publishes, one how it loses the message
that is delivered. `ViewConverges` follows.

`EvidenceIsCurrent` needs more about the kernel (`Proper`): while an operation is
applied there is no evidence, and only I/Q configurations are retained, so no
measurement that was on its way can bring evidence back before the apply is answered;
a stream's owner is never I/Q, so what an owner records is not what a capture
shows; no run waits for the pump; and a one-shot acquisition is of the configuration on display, or that
has been withdrawn since. Of the channel it needs `Due`: behind a `configured` event comes the reply
of its apply, so the event meets the kernel while the evidence is withdrawn
(`PhaseProper` ... `EventProper`, one lemma for each operator of the kernel,
`MainKeeps` for what the main process posts, `ScreenNext` for the step).

**Evidence on display** (`RendererProofs`, second part). `DisplayInv` has four parts that
share one record, `Now`: the session, the configuration, the names given so far and
the number of the last sweep. Of the classifier (`ClassifierOK`): what waits, what
is worked on and what is shown are of one scope, that of `Now`, or nothing is there; what
waits is newer than what is worked on, and that than the samples shown (`Ahead`), because
a result is appended behind them; and a wait is for something (`WaitsForWork`). A job that the scope has
left may answer whenever it likes, and the invariant asks nothing of it but that
it says so. The controller's methods compose (`submit` resets, enqueues and drains), so
there is one lemma for each of its operators, and the steps cite them. Of the
recovery (`RecoveryOK`): what is shown, waits or is worked on is of the workspace's
scope, which is why an answer that comes after a rescope is dropped. Of the tracker
(`TrackOK`, `NamesOK`): each row's origin is on record under its name, a name has had
one origin, and the counter is above every name. The passes of an update are folds over the sweep's
associations, and what they bind to what cannot be computed here; it is enough that
none of them touches a row's name or origin (`StepsOfARow`, `AgedOK`), and
that new rows are numbered along the places of a set, whose order comes from an injection of
ranks (`Rank`). `ShownEvidenceIsCurrent` is `ShownIsCurrent`; `NamesAreForEver` is the
first part of `IdentitiesAreExact`. Two assumptions about the instance: a configuration
sweeps or captures but not both, and each has a scene (`EvidenceAssumption`); a
scene's levels are a sequence of numbers (`ScenesAssumption`).

Only model-checked: all liveness, which is beyond the prover (`ImplementsQueue`
beyond its safety part, `DisconnectRecovers`, every `...End` and `...Settle`,
`TeardownsAreAnswered` beyond its safety part); of the signal analysis what its folds compute
(`RowsAreAdmissible`, `CapturesAreQualified`, and `LineagesAreExact`, the second part of
`IdentitiesAreExact`), which takes an induction over data; and so far the modules that section 8 lists.

## 6. What the code does not keep

One run is expected to fail; it checks a sentence of the repository that
`PROJECT.json` quotes. `rf_enable_approved`: `AppShell.tsx:213` does not hand
`requiresActionApproval` to the agent's hook, so an operation that its driver
declares high-impact is executed without an approval.

The modules state more sentences of the repository that the code does not keep.
Add the name to the cfg of its module's run as an INVARIANT (or PROPERTY, where
the definition is a formula of actions) and TLC shows the behaviour.

| Definition | Behaviour |
|---|---|
| `FaultedSessionRecovers` (`TinySaDevice`) | The manager asks a session with a generator for output-off before it disconnects it. `setGeneratorOutput` refuses while the device is faulted (DEVICE 580), so `TinySaDeviceService.disconnect`, which would reopen the port and send output-off on a fresh channel (DEVICE 930), is never reached. After a cable loss, a time-out or one refused output-off no number of retries disconnects the session, reconnecting is blocked behind it, and the quit gate waits for it. A receive-only session recovers (`ReceiveOnlyRecovers`). |
| `NoConfigurationAfterFault` (`InstrumentManager`) | `#configure` resumes a microtask after its last fault check; a terminal event in between leaves a faulted session configured (IM 545; the test at `instrument-manager.test.ts:597` says it is not readmitted). Acquisition is still stopped, so the damage is a wrong snapshot. |
| `NoAcquisitionAfterFault` (`InstrumentManager`) | The same window before `session.acquire()` (IM 648). The result is not published and the device is silent. |
| `EventLeaseIsNeverForgotten` (`InstrumentManager`) | An unsubscribe that throws while an unannounced session is cleaned up is dropped (IM 495); in a disconnect the same failure is retained. |
| `TeardownRunsFirst`, `DisconnectWaitsForPump` (`AtomizerInstrumentHost`) | The host's disconnect waits for the stream before it takes the teardown slot, so a discovery queued meanwhile runs first (HOST 251; `docs/adr/0004-instrument-driver-boundary.md:123`). |
| `AcknowledgedIsDurable` (`InstrumentPreferenceStore`) | `save()` syncs the parent only of directories it creates itself; the device history store creates the same directory unsynced, and a save that was cut leaves one behind (`instrument-preference.ts:153-163`). |
| `RetunesLive` (`RendererSession`) | An operation applied while a scalar run streams stops the host's stream; the run stays shown and is not resumed, although `README.md:248` promises 'live pause-verify-resume retuning' (`instrument-events.ts:228`). |
| `DirectEditApplies` (`CanonicalOperations`) | Every acquisition of an RF-capable TinySA sends an output-off, which advances the surface's epoch (`tinysa-instrument-driver.ts:446`) without an event that makes the panel read it again; the next edit is refused as stale (`docs/UI_UX_CONTRACTS.md:39`, XP-09). |

Observed while modelling, without a definition:

- Manager and surfaces: a failed configuration of an instrument without RF changes
  the surface revision with no event. `source.set-output` with `true` is offered
  but faults the session when generator mode is not configured (DEVICE 582-584).
  SignalLab's intent ledger is replaced, not merged
  (`in-process-signal-lab-driver.ts:178-181`). A setting can refuse Auto after
  another was set (AM rate, then FM; mixer frequency, then path `normal`). The
  comment "Latest-wins" at `instrument-events.ts:256` describes a check that only
  compares the session.
- Renderer: a late 'streaming faulted' event of an old run clears its replacement
  when it overtakes a reply (`instrument-events.ts:112-119`), and a connect reply
  may overwrite a newer fault; `LiveStreamIsShown` and `ViewConverges` exclude
  these. With three sessions the first has a second form: the 'connected' and
  'disconnected' events of the second session are taken after the reply that connected
  the third, and clear a run that was started since (a state read has already shown
  its configuration). `resumeContinuousWithActiveConfiguration` cannot succeed
  (`acquisition.ts:437-460`). The comment at `acquisition.ts:212-214` and line 130
  disagree. The receipt of an invalidating tap does not name its request.
- Agent: a barge-in during tool calls leaves the microphone off, because the
  superseded continuation returns before it would switch it on
  (`useAtomAgent.ts:355`); a response that starts while such a tool still runs ends
  the voice session (309); unmuting during tool calls switches the microphone on at
  once (85). Loader calls do not count against the tool limit. `isSafetyCleanup`
  (389-393) has stop and disconnect but not the RF-off that
  `docs/AI_NATIVE_CONTRACTS.md:484` names. Missing microphone settings are logged,
  although the same document says they end the startup (AI-44). A typed operation
  that fails its tool limits leaves its conversation to the idle timer.
- Signal analysis: of several prior rows of one lineage `index.ts:286-313` keeps the
  *first* with the most looks, so a stale member at the edge that ties wins and an admitted
  look is lost, against `docs/SIGNALLAB_EMSO_CLASSIFIER_CONTRACT.md:408-409` and
  `docs/BAYESIAN_DETECTION_CLASSIFICATION_RESEARCH.md:823-824`. `README.md:318-336,367` says the
  application issues a detected-power receipt, but configuring detected power withdraws
  the rows first (`instrument-events.ts:233`), so `CapturesAreQualified` is about captures
  over displayed evidence, which the package's interface allows.
  `packages/agent/src/index.ts:227` speaks of the strongest *visible* region;
  `acquisition.ts:512-518` takes the strongest row that is not released, one this
  sweep has missed too. A clock that steps back makes qualified rows refused with an
  ordinary error (`observable-features.ts:697-702`): hence `TimesIncrease`. A promoted
  agile activity that a single track follows is shown and never classified.
  `releaseAfterMissedSweeps` may be 100 (`packages/contracts/src/index.ts:1005`) beside a history of
  128. The recovery's test for a repeated capture ignores the generation
  (`iq-recovery.ts:76`), which its container cannot reach. Components of a region that
  tested the same bins (two peaks near an edge of the grid) tie as its anchor:
  the tracker takes the first candidate (`multicomponent-swept-region.ts:95`), the
  extractor the lowest row (`observable-features.ts:1243-1251`), so fresh rows whose names are
  not in the order of their frequencies are not qualified (`AnchorIsFirst`). `reset(false)` and
  `explicitClassificationId` have no caller.
- Neptune and twin: comments of `iio-transport.ts` (418-421) promise more than
  `terminateAll`, which drops a child after its second grace period; the transports of discovery are never
  disposed; `record()` over an unreadable store forgets devices. A failing
  `handle.close()` in the twin's `launch()` would leak the child.

## 7. Abstractions and what is not modelled

- **Refusals.** Stale candidates, revisions, unsupported capabilities and invalid
  arguments are one step that settles an operation without an effect, possible
  whenever any such reason could exist.
- **Data.** Configurations, measurements, candidates and messages are revisions or
  kinds. `CanonicalOperations` is the exception: there settings have domains and
  values, on small grids, one setting standing for those resolved in the same way.
- **Benign status events**, producer epochs and logging change nothing the
  properties see.
- **Host.** Pacing between acquisitions is left out: the pump may loop at any time.
  Listeners do not throw into the host.
- **TinySA.** What the shell answers is accepted or not; queries of one phase are one
  command. What the driver finds wrong with an identity (`Admissions`) or with the points
  and the receipt of an acquisition is one outcome, which changes nothing in the device. The device's own streaming loop is not used by the driver. In
  `SerialLink` text commands stand for the three framings.
- **Neptune.** A `close` event follows a SIGKILL; the manager serializes driver calls;
  nobody else tunes the device; a write reaches it before its process has closed or
  never; Bonjour is part of the sweep.
- **Twin.** The bridge script is not in the repository: it answers in order or stops,
  and an error answer changes nothing in the firmware. A touch of the panel that
  changes the output without the adapter is left out.
- **Canonical.** One session; after a fault requests are only refused; overlapping
  identical refreshes are counted once; edits are of one setting at a time, or all
  automatic.
- **Renderer.** Zero span, export and discovery are left out; classification is in
  `SignalEvidence`, over measurements that are already accepted.
- **Signal analysis.** A bin's level stands for the statistics behind it: noise, above
  the threshold, or admitted by prominence and posterior. Observable features, digests, the
  models inside the workers (one of three outcomes), traces, markers, channel and
  envelope measurements are left out. Frequencies are exact integers on the modelled
  grids, where the code computes in floating point.
- **Agent.** The API is well formed and in order; contents of conversations, tool
  schemas and what tools do are left out; a reply and its continuation are one step;
  one superseded batch at a time.

Not modelled: the floating point and statistics of detection and classification,
beyond a model checker's reach; zod schemas; presentation; exports,
asset protocol and preload; the browser client, which runs the same manager behind a
worker; tools and test doubles. `PROJECT.json` lists each with its reason.

## 8. Plan

What is left is to be proved. In the order of value:

1. `RendererSession`: the remaining part of `RendererAgrees`, `LiveStreamIsShown`.
2. `SerialLink` with an identification of several commands, and `AcknowledgedOffIsTrue`
   for a bound that grows with its length.
