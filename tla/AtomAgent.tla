----------------------------- MODULE AtomAgent -----------------------------
(***************************************************************************)
(* The Atom agent of one window: the hook useAtomAgent (useAtomAgent.ts),  *)
(* which runs one typed operation or one voice session and the tools that  *)
(* the model calls in it, with the response lifecycle it keeps             *)
(* (realtime-voice-lifecycle.ts), over the text gateway of RealtimeText.   *)
(*                                                                         *)
(* An operation is superseded by dropping its token or by advancing a      *)
(* generation; here the tools it still runs lose `live'.  What a promise   *)
(* or an event handler does before it awaits is one step.  The Realtime    *)
(* API, the browser's media and the human are the environment: the API's   *)
(* events are well formed and in order, but arrive at any time, whatever   *)
(* the client has done meanwhile.  Repeated call IDs, malformed events,    *)
(* the voice session's own ledger of 4096 calls, lost connections and the  *)
(* operator's stop are VoiceBreaks.                                        *)
(***************************************************************************)
EXTENDS RealtimeText

CONSTANTS
    Backends,    \* identities of an execution backend (session and execution)
    Batches,     \* what one response may call: sequences of kinds of calls
    ToolLimit,   \* ATOM_REALTIME_TOOL_CALL_LIMIT
    LedgerLimit, \* ATOM_REALTIME_CALL_ID_LIMIT, per typed conversation
    MaxLate      \* bound: microphone captures that nobody waits for

VARIABLES
    typed,        \* the typed operation: where it is, its session and its counts
    conversation, \* textConversation
    ledger,       \* textCallIds.size
    voice,        \* the voice session
    muted,        \* microphoneMuted
    mics,         \* microphone captures that are live
    late,         \* getUserMedia calls of voice attempts that have ended
    batches,      \* tool batches in progress: at most one live and one superseded
    backend       \* the backend the application context names, or None

typedVars == <<typed, conversation, ledger>>
voiceVars == <<voice, mics, late>>
vars == <<gatewayVars, typedVars, voiceVars, muted, batches, backend>>

\* at: "turn" awaits agentTurn, "tools" a batch, "deliver" has results to send
NoText == [at |-> "none", session |-> None, loaded |-> FALSE, count |-> 0]

\* peer: "none", or the step of startVoice that is awaited, or "open"
NoVoice == [peer |-> "none", startTimer |-> FALSE, verifyTimer |-> FALSE, updating |-> FALSE,
            verified |-> FALSE, track |-> "none", response |-> "none",
            loaded |-> FALSE, count |-> 0]

Init ==
    /\ GatewayInit
    /\ typed = NoText /\ conversation = None /\ ledger = 0
    /\ voice = NoVoice /\ muted = TRUE /\ mics = 0 /\ late = 0
    /\ batches = {}
    /\ backend \in Backends \cup {None}

-----------------------------------------------------------------------------
(* A batch of calls.  Kinds: "observe", "act", "enable" (a canonical        *)
(* operation that its driver declares high-impact), "touch" (approved at    *)
(* the action), "cleanup" (stopping the sweep or disconnecting), and        *)
(* "badObserve" and "badAct", which the preflight refuses.                  *)

Kinds == {"observe", "act", "enable", "touch", "cleanup", "badObserve", "badAct"}

ASSUME AgentAssumption ==
    /\ ToolLimit \in Nat /\ LedgerLimit \in Nat /\ MaxLate \in Nat
    /\ None \notin Backends /\ Batches \subseteq Seq(Kinds)

Refused(kind) == kind \in {"badObserve", "badAct"}
IsAction(kind) == kind \notin {"observe", "badObserve"}

\* needsApproval: AppShell gives the hook no requiresActionApproval.
NeedsApproval(kind) == kind = "touch"

\* One failure, before or while the batch runs, leaves only cleanup of a batch
\* that acts.
Stopped(calls, failed) ==
    /\ \E i \in DOMAIN calls : IsAction(calls[i])
    /\ failed \/ \E i \in DOMAIN calls : Refused(calls[i])

\* The calls after the i-th that are executed.
Remaining(calls, i, failed) ==
    {j \in DOMAIN calls : /\ j > i /\ ~Refused(calls[j])
                          /\ calls[j] = "cleanup" \/ ~Stopped(calls, failed)}

\* The next call, or 0.  An approval is asked for a backend; without one the
\* call fails at once.
Advance(calls, i, failed) ==
    LET next == Remaining(calls, i, failed)
        j == IF next = {} THEN 0 ELSE Min(next)
        rest == Remaining(calls, j, TRUE)
    IN IF j = 0 \/ ~NeedsApproval(calls[j]) \/ backend # None
       THEN [at |-> j, failed |-> failed]
       ELSE [at |-> IF rest = {} THEN 0 ELSE Min(rest), failed |-> TRUE]

\* holds: voiceContinuationOwner is the owner of this batch
Batch(owner, calls, position) ==
    IF position.at = 0 THEN {}
    ELSE LET asks == NeedsApproval(calls[position.at]) IN
         {[owner |-> owner, live |-> TRUE, calls |-> calls, at |-> position.at,
           failed |-> position.failed, stage |-> IF asks THEN "approval" ELSE "execute",
           asked |-> IF asks THEN backend ELSE None, holds |-> owner = "voice"]}

Live == {b \in batches : b.live}
Continuing == \E b \in batches : b.holds

\* The operation of that kind is no longer current: an approval it waits for is
\* denied, what it executes goes on and its result will be ignored.
Superseded(owner, holds) ==
    {IF b.owner = owner THEN [b EXCEPT !.live = FALSE, !.holds = @ /\ holds] ELSE b :
        b \in {x \in batches : ~(x.live /\ x.owner = owner /\ x.stage = "approval")}}

\* Bound: one superseded batch at a time.
Supersede(owner, holds) ==
    /\ Cardinality({b \in Superseded(owner, holds) : ~b.live}) <= 1
    /\ batches' = Superseded(owner, holds)

-----------------------------------------------------------------------------
(* Ending a voice session *)

Capturing == voice.track # "none"

\* stopVoice of a session whose getUserMedia has been answered, or has not.
EndVoice(answered) ==
    /\ voice' = NoVoice
    /\ mics' = IF Capturing THEN mics - 1 ELSE mics
    /\ late' = IF voice.peer = "capture" /\ ~answered THEN late + 1 ELSE late

StopVoice ==
    IF voice.peer = "none" THEN UNCHANGED <<voiceVars, batches>>
                           ELSE EndVoice(FALSE) /\ Supersede("voice", FALSE)

\* Faulty variant: a superseded startup keeps the capture it is given.
KeepTracks(captures) == captures

\* A capture that arrives after its attempt has ended is stopped at once.
StopTracks(captures) == captures - 1

LateCapture ==
    /\ late > 0 /\ late' = late - 1
    /\ mics' \in {mics, StopTracks(mics + 1)}
    /\ UNCHANGED <<gatewayVars, typedVars, voice, muted, batches, backend>>

-----------------------------------------------------------------------------
(* A typed operation *)

Fails == typed' = NoText /\ conversation' = None /\ ledger' = 0

\* agentTurn with a conversation that the gateway has, or has no longer.
Resumes(s) ==
    \/ Continues(s) /\ typed' = [typed EXCEPT !.at = "turn", !.session = s]
                    /\ UNCHANGED <<conversation, ledger>>
    \/ ContinuesClosed(s) /\ Fails
    \/ s \notin ToSet(kept) /\ UNCHANGED gatewayVars /\ Fails

SendText ==
    /\ typed.at = "none" /\ StopVoice
    /\ IF conversation # None THEN Resumes(conversation)
       ELSE \/ \E s \in Sessions : /\ Begins(s)
                                   /\ typed' = [NoText EXCEPT !.at = "turn", !.session = s]
                                   /\ conversation' = None /\ ledger' = 0
            \/ Evicted = {} /\ UNCHANGED gatewayVars /\ Fails
    /\ UNCHANGED <<muted, backend>>

TextBatch(calls) ==
    LET position == Advance(calls, 0, FALSE)
        count == typed.count + Len(calls)
    IN IF ~typed.loaded \/ count > ToolLimit \/ ledger + Len(calls) > LedgerLimit
       THEN Fails /\ UNCHANGED batches
       ELSE /\ batches' = batches \cup Batch("text", calls, position)
            /\ typed' = [typed EXCEPT !.count = count,
                                      !.at = IF position.at = 0 THEN "deliver" ELSE "tools"]
            /\ conversation' = typed.session /\ ledger' = ledger + Len(calls)

\* load_atom_tools, the only call of its response
TextLoads ==
    IF ledger + 1 > LedgerLimit THEN Fails
    ELSE /\ typed' = [typed EXCEPT !.at = "deliver", !.loaded = TRUE]
         /\ conversation' = typed.session /\ ledger' = ledger + 1

TurnAnswers ==
    /\ typed.at = "turn" /\ TurnSucceeds(typed.session)
    /\ \/ /\ typed' = NoText /\ conversation' = typed.session
          /\ UNCHANGED <<ledger, batches>>
       \/ TextLoads /\ UNCHANGED batches
       \/ \E calls \in Batches : TextBatch(calls)
    /\ UNCHANGED <<voiceVars, muted, backend>>

TurnRefused ==
    /\ typed.at = "turn" /\ TurnFails(typed.session) /\ Fails
    /\ UNCHANGED <<voiceVars, muted, batches, backend>>

\* The results of the batch
DeliverText ==
    /\ typed.at = "deliver" /\ Resumes(typed.session)
    /\ UNCHANGED <<voiceVars, muted, batches, backend>>

\* The gateway's own events, and turns whose caller has gone.
GatewayMoves ==
    /\ \E s \in Sessions :
          \/ SocketOpens(s) \/ Configured(s) \/ SocketCloses(s) \/ Expires(s)
          \/ (typed.at # "turn" \/ typed.session # s) /\ (TurnSucceeds(s) \/ TurnFails(s))
    /\ UNCHANGED <<typedVars, voiceVars, muted, batches, backend>>

-----------------------------------------------------------------------------
(* A voice session *)

\* Faulty variant: the deadline covers what follows the microphone only.
StartsUnbounded == [NoVoice EXCEPT !.peer = "capture"]

\* The startup deadline covers the microphone too.
Starts == [NoVoice EXCEPT !.peer = "capture", !.startTimer = TRUE]

\* While text is in flight nothing starts; a second click stops.
StartVoice ==
    /\ typed.at = "none" /\ voice.peer = "none" /\ late < MaxLate
    /\ voice' = Starts
    /\ UNCHANGED <<gatewayVars, typedVars, mics, late, muted, batches, backend>>

Unchanged == UNCHANGED <<gatewayVars, typedVars, mics, late, backend>>

VoiceEnds(answered) ==
    /\ EndVoice(answered) /\ Supersede("voice", FALSE)
    /\ UNCHANGED <<gatewayVars, typedVars, muted, backend>>

VoiceBreaks == voice.peer # "none" /\ VoiceEnds(FALSE)

MicrophoneDenied == voice.peer = "capture" /\ VoiceEnds(TRUE)

StartupTimesOut == voice.startTimer /\ VoiceEnds(FALSE)

VerificationTimesOut == voice.verifyTimer /\ VoiceEnds(FALSE)

MicrophoneGranted ==
    /\ voice.peer = "capture"
    /\ voice' = [voice EXCEPT !.peer = "call", !.track = "off"]
    /\ mics' = mics + 1
    /\ UNCHANGED <<gatewayVars, typedVars, late, muted, batches, backend>>

\* The offer is answered, then the data channel opens.
CallAnswers ==
    /\ voice.peer = "call"
    /\ voice' = [voice EXCEPT !.peer = "channel"]
    /\ Unchanged /\ UNCHANGED <<muted, batches>>

ChannelOpens ==
    /\ voice.peer = "channel"
    /\ voice' = [voice EXCEPT !.peer = "open", !.verifyTimer = TRUE]
    /\ Unchanged /\ UNCHANGED <<muted, batches>>

\* session.created is answered with session.update.
SessionCreated ==
    /\ voice.peer = "open" /\ ~voice.updating
    /\ voice' = [voice EXCEPT !.updating = TRUE]
    /\ Unchanged /\ UNCHANGED <<muted, batches>>

Track(verified, muted_) == IF verified /\ ~muted_ THEN "on" ELSE "off"

\* session.updated as sent, or once more; one that differs is VoiceBreaks.
SessionUpdated ==
    /\ voice.updating
    /\ voice' = [voice EXCEPT !.startTimer = FALSE, !.verifyTimer = FALSE,
                              !.verified = TRUE, !.track = Track(TRUE, muted)]
    /\ Unchanged /\ UNCHANGED <<muted, batches>>

SetMicrophoneMute ==
    /\ muted' = ~muted
    /\ voice' = IF Capturing THEN [voice EXCEPT !.track = Track(voice.verified, muted')]
                ELSE voice
    /\ Unchanged /\ UNCHANGED batches

\* speech_started: a new operation; a response of the last one may still go on.
SpeechStarts ==
    /\ voice.verified /\ Supersede("voice", TRUE)
    /\ voice' = [voice EXCEPT !.loaded = FALSE, !.count = 0,
                              !.response = IF @ = "none" THEN @ ELSE "old"]
    /\ Unchanged /\ UNCHANGED muted

\* response.created: a tool continuation that is not complete refuses it.
ResponseCreated ==
    /\ voice.verified /\ voice.response = "none"
    /\ IF Continuing
       THEN VoiceEnds(FALSE)
       ELSE voice' = [voice EXCEPT !.response = "current"] /\ Unchanged /\ UNCHANGED batches
    /\ UNCHANGED muted

\* response.done of a superseded operation, or without calls
ResponseEnds ==
    /\ voice.response # "none"
    /\ voice' = [voice EXCEPT !.response = "none"]
    /\ Unchanged /\ UNCHANGED <<muted, batches>>

\* The loader's result is delivered at once.
VoiceLoads ==
    /\ voice.response = "current"
    /\ voice' = [voice EXCEPT !.response = "none", !.loaded = TRUE, !.track = Track(TRUE, muted)]
    /\ Unchanged /\ UNCHANGED <<muted, batches>>

\* The results of a batch that is over are delivered, with the microphone as
\* the human left it; during the batch it is off, unless it is unmuted then.
Delivered(position, track) == IF position.at = 0 THEN Track(TRUE, muted) ELSE track

VoiceBatch ==
    /\ voice.response = "current"
    /\ \E calls \in Batches :
          LET count == voice.count + Len(calls)
              position == Advance(calls, 0, FALSE)
          IN IF ~voice.loaded \/ count > ToolLimit
             THEN VoiceEnds(FALSE)
             ELSE /\ batches' = batches \cup Batch("voice", calls, position)
                  /\ voice' = [voice EXCEPT !.response = "none", !.count = count,
                                            !.track = Delivered(position, "off")]
                  /\ Unchanged
    /\ UNCHANGED muted

-----------------------------------------------------------------------------
(* The tools of either *)

\* A call of a live batch is over: the batch goes on behind it.
GoesOn(b, failed) ==
    LET position == Advance(b.calls, b.at, b.failed \/ failed)
    IN /\ batches' = (batches \ {b}) \cup Batch(b.owner, b.calls, position)
       /\ IF b.owner = "voice"
          THEN voice' = [voice EXCEPT !.track = Delivered(position, @)] /\ UNCHANGED typed
          ELSE /\ typed' = IF position.at = 0 THEN [typed EXCEPT !.at = "deliver"] ELSE typed
               /\ UNCHANGED voice

\* A superseded batch ends with the call it executes.
Finishes(b) ==
    IF b.live THEN \E failed \in BOOLEAN : GoesOn(b, failed)
    ELSE batches' = batches \ {b} /\ UNCHANGED <<typed, voice>>

ToolFinishes ==
    /\ \E b \in batches : b.stage = "execute" /\ Finishes(b)
    /\ UNCHANGED <<gatewayVars, conversation, ledger, mics, late, muted, backend>>

\* Faulty variant: an approval holds for whatever backend is active now.
SomeBackend(asked) == backend # None

\* sameBackendIdentity
SameBackend(asked) == backend = asked

\* The human's decision about an approval
ApprovalDecided ==
    /\ \E b \in batches :
          /\ b.stage = "approval"
          /\ \/ /\ SameBackend(b.asked)
                /\ batches' = (batches \ {b}) \cup {[b EXCEPT !.stage = "execute"]}
                /\ UNCHANGED <<typed, voice>>
             \/ GoesOn(b, TRUE)
    /\ UNCHANGED <<gatewayVars, conversation, ledger, mics, late, muted, backend>>

\* Connections come and go, by the agent's tools and the operator.
BackendChanges ==
    /\ backend' \in (Backends \cup {None}) \ {backend}
    /\ UNCHANGED <<gatewayVars, typedVars, voiceVars, muted, batches>>

\* The hook is unmounted, and another one is mounted.
Remounts ==
    /\ typed' = NoText /\ conversation' = None /\ ledger' = 0 /\ muted' = TRUE
    /\ IF voice.peer = "none" THEN Supersede("text", FALSE) /\ UNCHANGED voiceVars
                              ELSE Supersede("voice", FALSE) /\ EndVoice(FALSE)
    /\ UNCHANGED <<gatewayVars, backend>>

-----------------------------------------------------------------------------
(* The specification *)

Next ==
    \/ SendText \/ TurnAnswers \/ TurnRefused \/ DeliverText \/ GatewayMoves
    \/ StartVoice \/ VoiceBreaks \/ MicrophoneDenied \/ MicrophoneGranted \/ LateCapture
    \/ StartupTimesOut \/ VerificationTimesOut
    \/ CallAnswers \/ ChannelOpens \/ SessionCreated \/ SessionUpdated
    \/ SetMicrophoneMute \/ SpeechStarts
    \/ ResponseCreated \/ ResponseEnds \/ VoiceLoads \/ VoiceBatch
    \/ ToolFinishes \/ ApprovalDecided \/ BackendChanges \/ Remounts

\* A turn has deadlines, what is ready is sent, a tool call is answered (as
\* AtomizerInstrumentHost!CallsEnd has it), and the startup timer fires.
Fairness ==
    /\ WF_vars(TurnAnswers \/ TurnRefused) /\ WF_vars(DeliverText)
    /\ WF_vars(ToolFinishes) /\ WF_vars(StartupTimesOut)

Spec == Init /\ [][Next]_vars /\ Fairness

-----------------------------------------------------------------------------
(* Properties *)

\* Nothing of a voice session outlives it, and nothing of it is heard before
\* its configuration is verified: the microphone is captured once, by the
\* session that holds its peer, and sends only then and while it is not muted;
\* text and voice exclude each other; an approval that the human is asked for
\* can still take effect; and a batch is live only in the operation that called
\* it (docs/AI_NATIVE_CONTRACTS.md:153, AI-44 and AI-45).
VoiceIsOwned ==
    /\ mics = IF Capturing THEN 1 ELSE 0
    /\ voice.track = "on" => voice.verified /\ ~muted
    /\ typed.at # "none" => voice.peer = "none"
    /\ Cardinality(Live) <= 1
    /\ \A b \in batches :
          /\ b.stage = "approval" => b.live
          /\ b.live => IF b.owner = "text" THEN typed.at = "tools" ELSE voice.verified

\* Nobody holds what nobody will let go: the sessions of the gateway and those
\* of the window.
SessionsAreOwned == TextSessionsAreOwned /\ VoiceIsOwned

\* The calls whose execution this step starts
Dispatched ==
    {b \in batches' \ batches : b.stage = "execute" /\ ~\E a \in batches :
        a.stage = "execute" /\ a.owner = b.owner /\ a.calls = b.calls /\ a.at = b.at}

Approved(b) ==
    \E a \in batches : a.stage = "approval" /\ a.calls = b.calls /\ a.at = b.at
                       /\ a.asked = backend

\* No call of a superseded operation is executed, none that needs approval
\* without the human's consent for the backend it will reach, and behind a
\* failure in a batch that acts nothing but cleanup (useAtomAgent.ts
\* executeCallBatch, executePreflightedCall; docs/AI_NATIVE_CONTRACTS.md:484).
ToolsRunUnderAuthority == [][
    \A b \in Dispatched :
        /\ b.live
        /\ NeedsApproval(b.calls[b.at]) => Approved(b)
        /\ Stopped(b.calls, b.failed) => b.calls[b.at] = "cleanup"]_vars

Asking == \E b \in batches : b.stage = "approval"

\* A typed operation ends, a voice session is verified or ends, and so does the
\* tool continuation that keeps its microphone off, whatever the browser, the
\* network, the API and the tools never answer; only the human may take long.
AgentCallsEnd ==
    /\ typed.at # "none" ~> typed.at = "none" \/ Asking
    /\ voice.peer # "none" ~> voice.peer = "none" \/ voice.verified
    /\ Continuing ~> ~Continuing \/ Asking

-----------------------------------------------------------------------------
(* A statement of the repository that the code does not keep *)

\* docs/AI_NATIVE_CONTRACTS.md:438: "RF enable always requests action-time
\* approval."
RfEnableIsApproved == [][
    \A b \in Dispatched : b.calls[b.at] = "enable" => Approved(b)]_vars
=============================================================================
