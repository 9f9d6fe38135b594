---------------------------- MODULE NeptuneP210 ----------------------------
(***************************************************************************)
(* The Neptune P210 driver and session (packages/neptune-p210/src/neptune- *)
(* p210-instrument-driver.ts) over the transport that runs one iio_attr or *)
(* iio_readdev process per command (iio-transport.ts), with the store of   *)
(* recently connected devices.                                             *)
(*                                                                         *)
(* The manager calls the driver one operation at a time.  What makes it    *)
(* hard is below: a command may fail, hang and be killed after it has      *)
(* changed the device or before, and the sweep of the local network runs   *)
(* one confirming process per host.  A configuration is its revision; the  *)
(* connected device has one attribute for each of the three settings.      *)
(* Nobody else is assumed to tune it, and a write is assumed to reach it   *)
(* before its process has closed or never.  The pause between two captures *)
(* only takes time.                                                        *)
(***************************************************************************)
EXTENDS Naturals, FiniteSets

CONSTANTS
    Endpoints,    \* addresses a device may answer at
    Configured,   \* those the environment variables name
    MaxRevision   \* bound on the configurations ever applied

ASSUME NeptuneAssumption ==
    Configured \subseteq Endpoints /\ MaxRevision \in Nat \ {0}

Revisions == 1..MaxRevision
Settings == {"tune", "rate", "band"}
Foreign == 0                  \* any tuning that no configuration of this session asked for
MaxConsecutiveFailures == 3   \* NEPTUNE_P210_MAX_CONSECUTIVE_CAPTURE_FAILURES

VARIABLES
    children,    \* processes alive: what each does, where, and whether it was signalled
    tuned,       \* the attributes of the connected device
    candidates,  \* #candidates
    remembered,  \* the devices on disk that are not too old to be listed
    pending,     \* #pendingTransport is set
    session,     \* the session the manager holds
    op,          \* the call under way
    streak       \* captures failed in a row in this session

vars == <<children, tuned, candidates, remembered, pending, session, op, streak>>
atRest == <<candidates, remembered, pending, session, streak>>

Children == [at : Endpoints, does : {"query", "read"} \cup Settings,
             rev : {Foreign} \cup Revisions, signalled : BOOLEAN]

NoSession == [at |-> "nowhere", config |-> Foreign, failures |-> 0]
NoOp == [kind |-> "none", step |-> "none", at |-> "nowhere", rev |-> Foreign,
         setting |-> "none", todo |-> {}, known |-> {}, found |-> {}]
Untuned == [s \in Settings |-> Foreign]

Init ==
    /\ children = {} /\ tuned = Untuned
    /\ candidates = {} /\ remembered = {} /\ pending = FALSE
    /\ session = NoSession /\ op = NoOp /\ streak = 0

Idle == op.kind = "none"
Connected == session # NoSession
Running(child) == child \in children

-----------------------------------------------------------------------------
(* Commands of the transport (#spawnCollect) *)

Command(endpoint, does, rev) ==
    [at |-> endpoint, does |-> does, rev |-> rev, signalled |-> FALSE]
Query(endpoint) == Command(endpoint, "query", Foreign)

\* The processes the call under way waits for
Awaited(child) ==
    CASE op.step \in {"query", "probe", "manual", "range", "readback"} ->
            child.does = "query" /\ child.at = op.at
      [] op.step = "sweep" -> child.does = "query" /\ child.at \in op.todo
      [] op.step = "write" ->
            child.does = op.setting /\ child.at = op.at /\ child.rev = op.rev
      [] op.step = "read" -> child.does = "read" /\ child.at = op.at
      [] OTHER -> FALSE

\* A setter may reach the device as long as it lives.
Applies(child) ==
    /\ Running(child) /\ child.does \in Settings
    /\ tuned' = [tuned EXCEPT ![child.does] = child.rev]
    /\ UNCHANGED <<children, op>> /\ UNCHANGED atRest

\* Faulty variant: the command that reads samples has no deadline.
SignalsWriters(child) ==
    /\ Running(child) /\ ~child.signalled /\ child.does # "read"
    /\ children' = (children \ {child}) \cup {[child EXCEPT !.signalled = TRUE]}
    /\ UNCHANGED <<tuned, op>> /\ UNCHANGED atRest

\* The deadline of the command: SIGTERM, and SIGKILL after the grace
Signals(child) ==
    /\ Running(child) /\ ~child.signalled
    /\ children' = (children \ {child}) \cup {[child EXCEPT !.signalled = TRUE]}
    /\ UNCHANGED <<tuned, op>> /\ UNCHANGED atRest

\* Faulty variant: a command that was signalled is answered without its end.
AnswersWhenSignalled(child) == child.signalled

\* The command is answered when its process has closed.
Answers(child) == FALSE

\* A command that was signalled or exits with a code fails.
Closes(child) == children' = IF Answers(child) THEN children ELSE children \ {child}
Succeeds(child) ==
    /\ Running(child) /\ Awaited(child) /\ ~child.signalled
    /\ child.does \in Settings => tuned[child.does] = child.rev
    /\ Closes(child)
Fails(child) == Running(child) /\ Awaited(child) /\ Closes(child)

Start(commands, step) ==
    /\ children' = children \cup commands
    /\ op' = step
    /\ UNCHANGED tuned /\ UNCHANGED atRest

-----------------------------------------------------------------------------
(* discover() and addManualEndpoint() *)

\* A record too old is not listed, whether or not the disk lets list() prune it,
\* and a file that cannot be read lists nothing.
Discover ==
    \E listed \in {remembered, {}} :
        Idle /\ Start({}, [NoOp EXCEPT !.kind = "known", !.step = "next",
                                      !.todo = Configured \cup listed,
                                      !.known = Configured \cup listed])

\* #discoverOne of the next known endpoint or of the next hit of the scan
DiscoverOne ==
    /\ op.step = "next"
    /\ \E e \in op.todo : Start({Query(e)}, [op EXCEPT !.step = "query", !.at = e])

Discovered(child) ==
    LET after == [op EXCEPT !.step = "next", !.todo = @ \ {child.at}]
    IN /\ op.step = "query"
       /\ \/ Succeeds(child) /\ op' = [after EXCEPT !.found = @ \cup {child.at}]
          \/ Fails(child) /\ op' = after
       /\ UNCHANGED tuned /\ UNCHANGED atRest

\* scanNetwork(): the hosts that accept a connection, each with its own probe.
\* What Bonjour announces is probed before in the same way, one after another.
Sweep ==
    /\ op.kind = "known" /\ op.step = "next" /\ op.todo = {}
    /\ \E hosts \in SUBSET Endpoints :
         Start({Query(e) : e \in hosts}, [op EXCEPT !.step = "sweep", !.todo = hosts])

\* An answered host stays among the hits; one whose probe failed is dropped.
SweepAnswers(child) ==
    /\ op.step = "sweep"
    /\ \/ Succeeds(child) /\ UNCHANGED op
       \/ Fails(child) /\ op' = [op EXCEPT !.todo = @ \ {child.at}]
    /\ UNCHANGED tuned /\ UNCHANGED atRest

\* Known endpoints are not probed a second time, whether they answered or not.
Swept ==
    /\ op.step = "sweep"
    /\ \A child \in children : ~Awaited(child)
    /\ op' = [op EXCEPT !.kind = "hits", !.step = "next", !.at = "nowhere",
                        !.todo = @ \ op.known]
    /\ UNCHANGED <<children, tuned>> /\ UNCHANGED atRest

\* Replace, never merge.
FinishDiscover ==
    /\ op.kind = "hits" /\ op.step = "next" /\ op.todo = {}
    /\ candidates' = op.found /\ op' = NoOp
    /\ UNCHANGED <<children, tuned, remembered, pending, session, streak>>

AddManualEndpoint(e) ==
    Idle /\ Start({Query(e)}, [NoOp EXCEPT !.kind = "manual", !.step = "manual", !.at = e])

\* record() is best effort: nothing is written, or the others could not be read.
Record(e) == remembered' \in {remembered, remembered \cup {e}, {e}}

ManualAnswered(child) ==
    /\ op.step = "manual"
    /\ \/ Succeeds(child) /\ Record(child.at)
       \/ Fails(child) /\ UNCHANGED remembered
    /\ op' = NoOp
    /\ UNCHANGED <<tuned, candidates, pending, session, streak>>

-----------------------------------------------------------------------------
(* connect(), cleanupPendingConnection() and disconnect() *)

Connect(e) ==
    /\ Idle /\ ~Connected /\ e \in candidates /\ ~pending
    /\ pending' = TRUE
    /\ children' = children \cup {Query(e)}
    /\ op' = [NoOp EXCEPT !.kind = "connect", !.step = "probe", !.at = e]
    /\ UNCHANGED <<tuned, candidates, remembered, session, streak>>

Probed(child) ==
    /\ op.step = "probe"
    /\ \/ Succeeds(child) /\ op' = [op EXCEPT !.step = "ranges", !.todo = Settings]
       \/ Fails(child) /\ op' = NoOp
    /\ UNCHANGED tuned /\ UNCHANGED atRest

\* #buildCapabilities reads three ranges, one after another.
ReadRange ==
    /\ op.step = "ranges"
    /\ \E s \in op.todo : Start({Query(op.at)}, [op EXCEPT !.step = "range", !.todo = @ \ {s}])

\* A range that cannot be read has a documented fallback.
RangeRead(child) ==
    /\ op.step = "range"
    /\ Succeeds(child) \/ Fails(child)
    /\ op' = [op EXCEPT !.step = "ranges"]
    /\ UNCHANGED tuned /\ UNCHANGED atRest

\* The lease passes to the session before the store is asked.
Opened ==
    /\ op.step = "ranges" /\ op.todo = {}
    /\ session' = [NoSession EXCEPT !.at = op.at]
    /\ pending' = FALSE /\ streak' = 0 /\ tuned' = Untuned
    /\ Record(op.at)
    /\ op' = NoOp
    /\ UNCHANGED <<children, candidates>>

\* dispose() finds no process to terminate: ChildrenEndWithTheirCall.
CleanupPendingConnection ==
    /\ Idle /\ pending
    /\ pending' = FALSE
    /\ UNCHANGED <<children, tuned, candidates, remembered, session, op, streak>>

Disconnect ==
    /\ Idle /\ Connected
    /\ session' = NoSession /\ streak' = 0 /\ tuned' = Untuned
    /\ UNCHANGED <<children, candidates, remembered, pending, op>>

-----------------------------------------------------------------------------
(* configure() and acquire() *)

NextSetting == [tune |-> "rate", rate |-> "band"]
WriteOf(at, rev) == [NoOp EXCEPT !.step = "write", !.setting = "tune", !.at = at, !.rev = rev]

\* The binding is revoked before anything is written.
Configure(rev) ==
    /\ Idle /\ Connected
    /\ session' = [session EXCEPT !.config = Foreign]
    /\ children' = children \cup {Command(session.at, "tune", rev)}
    /\ op' = [WriteOf(session.at, rev) EXCEPT !.kind = "configure"]
    /\ UNCHANGED <<tuned, candidates, remembered, pending, streak>>

\* Faulty variant: one more failure is let through.
SuspendedAfter(s) == s.failures > MaxConsecutiveFailures

\* #captureSuspendedReason
Suspended(s) == s.failures >= MaxConsecutiveFailures

Acquire ==
    /\ Idle /\ Connected /\ session.config # Foreign /\ ~Suspended(session)
    /\ Start({Command(session.at, "tune", session.config)},
             [WriteOf(session.at, session.config) EXCEPT !.kind = "acquire"])

\* Each setting is written when the one before has been; configure() reads the
\* tune back.
Written(child) ==
    /\ op.step = "write" /\ op.setting # "band" /\ Succeeds(child)
    /\ op' = [op EXCEPT !.step = IF op.kind = "configure" /\ op.setting = "tune" THEN "verify"
                                 ELSE "written"]
    /\ UNCHANGED tuned /\ UNCHANGED atRest

VerifyTune ==
    op.step = "verify" /\ Start({Query(op.at)}, [op EXCEPT !.step = "readback"])

ReadBack(child) ==
    /\ op.step = "readback"
    /\ Succeeds(child) /\ tuned["tune"] = op.rev
    /\ op' = [op EXCEPT !.step = "written"]
    /\ UNCHANGED tuned /\ UNCHANGED atRest

WriteNext ==
    LET setting == NextSetting[op.setting]
    IN /\ op.step = "written"
       /\ Start({Command(op.at, setting, op.rev)},
                [op EXCEPT !.step = "write", !.setting = setting])

\* The last setting commits a configuration or starts the read.
BandWritten(child) ==
    /\ op.step = "write" /\ op.setting = "band" /\ Succeeds(child)
    /\ IF op.kind = "configure"
       THEN session' = [session EXCEPT !.config = op.rev] /\ op' = NoOp
       ELSE UNCHANGED session /\ op' = [op EXCEPT !.step = "capture"]
    /\ UNCHANGED <<tuned, candidates, remembered, pending, streak>>

ReadSamples ==
    op.step = "capture" /\ Start({Command(op.at, "read", op.rev)}, [op EXCEPT !.step = "read"])

\* A write or the readback of a configuration fails: it stays revoked.
ConfigureFails(child) ==
    /\ op.kind = "configure" /\ Fails(child) /\ op' = NoOp
    /\ UNCHANGED tuned /\ UNCHANGED atRest

\* A write, the read, or the length of what it produced
CaptureFails(child) ==
    /\ op.kind = "acquire" /\ Fails(child) /\ op' = NoOp
    /\ session' = [session EXCEPT !.failures = @ + 1] /\ streak' = streak + 1
    /\ UNCHANGED <<tuned, candidates, remembered, pending>>

Captured(child) ==
    /\ op.step = "read" /\ Succeeds(child) /\ op' = NoOp
    /\ session' = [session EXCEPT !.failures = 0] /\ streak' = 0
    /\ UNCHANGED <<tuned, candidates, remembered, pending>>

-----------------------------------------------------------------------------

\* A record grows too old.
TimePasses(e) ==
    /\ e \in remembered /\ Idle
    /\ remembered' = remembered \ {e}
    /\ UNCHANGED <<children, tuned, candidates, pending, session, op, streak>>

Answered(child) ==
    \/ Discovered(child) \/ SweepAnswers(child) \/ ManualAnswered(child)
    \/ Probed(child) \/ RangeRead(child)
    \/ Written(child) \/ ReadBack(child) \/ BandWritten(child)
    \/ ConfigureFails(child) \/ CaptureFails(child) \/ Captured(child)

\* The continuations of the call under way
Continues ==
    \/ DiscoverOne \/ Sweep \/ Swept \/ FinishDiscover
    \/ ReadRange \/ Opened \/ VerifyTune \/ WriteNext \/ ReadSamples

Next ==
    \/ Discover \/ CleanupPendingConnection \/ Disconnect \/ Acquire
    \/ \E e \in Endpoints : AddManualEndpoint(e) \/ Connect(e) \/ TimePasses(e)
    \/ \E rev \in Revisions : Configure(rev)
    \/ Continues
    \/ \E child \in children : Applies(child) \/ Signals(child) \/ Answered(child)

\* Continuations run and deadlines pass.  A process may hang, but not when it has
\* been killed.
Fairness ==
    /\ WF_vars(Continues)
    /\ WF_vars(\E child \in children : Signals(child))
    /\ WF_vars(\E child \in children : child.signalled /\ Answered(child))

Spec == Init /\ [][Next]_vars /\ Fairness

-----------------------------------------------------------------------------
(* Properties *)

TypeOK ==
    /\ children \subseteq Children
    /\ candidates \subseteq Endpoints /\ pending \in BOOLEAN
    /\ session.failures \in 0..MaxConsecutiveFailures

\* No process outlives the call it was started for, whatever hangs and is
\* killed: the transports that discovery never disposes leave nothing behind,
\* and dispose() after a failed connect or at a disconnect has nothing to do.
ChildrenEndWithTheirCall == TypeOK /\ \A child \in children : Awaited(child)

\* While samples are read, all three settings are those of the configuration
\* the measurement will name, although any earlier command may have died before
\* or after it changed the device.
SamplesAreAsConfigured ==
    op.step = "read" => \A s \in Settings : tuned[s] = op.rev

\* After three failed captures in a row the session starts no further one: the
\* device is not touched by acquire() until somebody has reconnected.
StuckDeviceIsSpared == streak >= MaxConsecutiveFailures => op.kind # "acquire"

\* Both: outside the calls that may use it, nothing touches the device.
DeviceIsLeftAlone == ChildrenEndWithTheirCall /\ StuckDeviceIsSpared

\* Every call ends, and so it lets the next operation and the teardown in.
OperationsEnd == op.kind # "none" ~> op.kind = "none"

=============================================================================
