--------------------------- MODULE RendererSession ---------------------------
(***************************************************************************)
(* The renderer of RendererAcquisition with the commands it is given, the  *)
(* main process it talks to, and the messages between them.  The main      *)
(* process is what AtomizerInstrumentHost shows of itself: one session,    *)
(* its configuration, a stream, an answer to every call.                   *)
(***************************************************************************)
EXTENDS RendererAcquisition

CONSTANTS
    Commands,    \* the commands the operator and the agent give
    MaxCommands, \* bound: how many of them
    MaxWaiting   \* bound: operations that wait for the pump

ASSUME SessionAssumption ==
    /\ MaxCommands \in Nat /\ MaxWaiting \in Nat
    /\ Commands \subseteq {"run", "stop", "apply", "tap", "capture", "sweep",
                           "connect", "disconnect", "read"}

VARIABLES
    r,         \* the renderer: the refs of its kernel and its store
    host,      \* the instrument host
    channel,   \* messages to the renderer, oldest first
    crossing,  \* replies and events may overtake each other
    commands   \* commands given so far

vars == <<r, host, channel, crossing, commands>>

Kinds == {"swept", "iq"}

RendererInit(config) ==
    [session |-> 1, config |-> config, fault |-> FALSE,
     owner |-> NoOwner, gen |-> 0, touches |-> 0, requested |-> FALSE, continuous |-> FALSE,
     mode |-> "spectrum", txn |-> NoTxn, waiting |-> <<>>, depth |-> 0,
     pump |-> "off", lease |-> FALSE, retained |-> {},
     stop |-> "none", abort |-> None, stopFailed |-> None,
     evidence |-> NoEvidence, fresh |-> FALSE,
     call |-> NoCall, asks |-> {}]

\* The renderer has connected a session and applied a configuration.
Init ==
    /\ \E kind \in Kinds :
         LET config == [rev |-> 1, kind |-> kind]
         IN  /\ r = RendererInit(config)
             /\ host = [session |-> 1, sessions |-> 1, config |-> config, revs |-> 1,
                        fault |-> FALSE, stream |-> FALSE, broke |-> FALSE]
    /\ channel = <<>> /\ crossing \in BOOLEAN /\ commands = 0

-----------------------------------------------------------------------------
(* Commands of the operator and of the agent *)

Commanded(command) ==
    /\ command \in Commands /\ commands < MaxCommands
    /\ commands' = commands + 1
    /\ UNCHANGED <<host, channel, crossing>>

Gated(op) ==
    /\ Commanded(op) /\ Len(r.waiting) < MaxWaiting
    /\ r' = Transact(r, op)

\* startContinuous, for the kind of the configuration
PressRun ==
    /\ Commanded("run")
    /\ ~r.requested /\ ~r.continuous /\ Connected(r) /\ r.config # NoConfig
    /\ r' = IF r.config.kind = "iq" THEN RunIq(r) ELSE Transact(r, "run")

\* stopContinuous: outside the gate
PressStop ==
    /\ Commanded("stop")
    /\ r.stop = "none" /\ (r.continuous \/ r.owner # NoOwner \/ r.requested)
    /\ r' = DrainStop([Unrequest(r) EXCEPT !.stop = "pending"])

PressConnect == Gated("connect") /\ ~Connected(r)

\* Disconnect and a state read are sent outside the gate.
Ask(op) ==
    /\ Commanded(op) /\ op \notin r.asks
    /\ \A i \in 1..Len(channel) : channel[i].type # op
    /\ r' = [r EXCEPT !.asks = @ \cup {op}, !.fresh = (op = "read") \/ @]

Command ==
    \/ PressRun \/ PressStop \/ PressConnect
    \/ \E op \in {"apply", "tap", "capture", "sweep"} : Gated(op)
    \/ Ask("disconnect") /\ Connected(r)
    \/ Ask("read")

-----------------------------------------------------------------------------
(* Timers *)

\* waitForContinuousIqCadence
CadenceEnds ==
    /\ r.pump = "cadence" /\ r' = PumpTurn(r)
    /\ UNCHANGED <<host, channel, crossing, commands>>

\* INVALIDATING_FEATURE_RECEIPT_TIMEOUT_MILLISECONDS
ReceiptTimesOut ==
    /\ r.txn.at = "touch"
    /\ r' = RejectReceipt(r)
    /\ UNCHANGED <<host, channel, crossing, commands>>

-----------------------------------------------------------------------------
(* The main process *)

Post(messages) == channel' = channel \o messages

\* What the end of a live stream publishes.
StreamEnd(type) == IF host.stream THEN <<Event(type, None, NoConfig)>> ELSE <<>>

Faults == <<Event("faulted", host.session, NoConfig)>>
Faulted(h) == [h EXCEPT !.fault = TRUE, !.config = NoConfig, !.stream = FALSE]

\* A feature that invalidates the configuration publishes its two receipts.
Invalidating(touch) == <<Lifecycle("feature-result", host.session, touch),
                         Lifecycle("invalidated", host.session, touch)>>

Answer(ok) == <<Reply(r.call.op, host.session, NoConfig, ok)>>

Answered(op) ==
    /\ r.call.op = op /\ r' = [r EXCEPT !.call = NoCall]
    /\ UNCHANGED <<crossing, commands>>

Operational == host.session # None /\ ~host.fault

\* The admission of the call refuses it.
Refuse ==
    /\ r.call # NoCall /\ Answered(r.call.op)
    /\ Post(Answer(FALSE)) /\ UNCHANGED host

Starts ==
    /\ Answered("start") /\ Operational /\ host.config.kind = "swept"
    /\ host' = [host EXCEPT !.stream = TRUE] /\ Post(Answer(TRUE))

Stops ==
    /\ Answered("stop")
    /\ host' = [host EXCEPT !.stream = FALSE]
    /\ Post(StreamEnd("stream-stopped") \o Answer(TRUE))

\* A canonical operation stops the stream, then configures, or executes a
\* feature that invalidates the configuration, or fails.
Applies ==
    /\ Answered("apply") /\ Operational
    /\ \/ \E kind \in Kinds :
            LET config == [rev |-> host.revs + 1, kind |-> kind]
            IN  /\ host.revs < MaxRevision
                /\ host' = [host EXCEPT !.stream = FALSE, !.config = config, !.revs = @ + 1]
                /\ Post(StreamEnd("stream-stopped")
                        \o <<Event("session-state", host.session, NoConfig),
                             Event("configured", host.session, config)>> \o Answer(TRUE))
       \/ /\ host' = [host EXCEPT !.stream = FALSE, !.config = NoConfig]
          /\ Post(StreamEnd("stream-stopped")
                  \o Invalidating(None) \o Answer(TRUE))
       \/ /\ host' = [host EXCEPT !.stream = FALSE]
          /\ Post(StreamEnd("stream-stopped") \o Answer(FALSE))
       \/ /\ host' = Faulted(host)
          /\ Post(StreamEnd("stream-stopped") \o Faults \o Answer(FALSE))

Touches ==
    /\ Answered("touch") /\ Operational
    /\ \/ /\ host' = [host EXCEPT !.stream = FALSE, !.config = NoConfig]
          /\ Post(StreamEnd("stream-stopped")
                  \o Invalidating(r.touches) \o Answer(TRUE))
       \/ /\ host' = Faulted(host)
          /\ Post(StreamEnd("stream-stopped") \o Faults \o Answer(FALSE))

Acquires ==
    /\ Answered("acquire") /\ Operational /\ ~host.stream
    /\ host.config = r.txn.config
    /\ Post(<<Reply("acquire", host.session, host.config, TRUE)>>) /\ UNCHANGED host

Connects ==
    /\ Answered("connect") /\ host.session = None /\ host.sessions < MaxSession
    /\ host' = [host EXCEPT !.session = host.sessions + 1, !.sessions = @ + 1,
                            !.fault = FALSE, !.config = NoConfig]
    /\ Post(<<Event("connected", host.sessions + 1, NoConfig),
              Reply("connect", host.sessions + 1, NoConfig, TRUE)>>)

\* The teardown releases the session, or leaves it faulted.
Disconnects ==
    /\ "disconnect" \in r.asks /\ r' = [r EXCEPT !.asks = @ \ {"disconnect"}]
    /\ LET reply(ok) == <<Reply("disconnect", None, NoConfig, ok)>>
       IN  \/ /\ host' = [Faulted(host) EXCEPT !.session = None, !.fault = FALSE]
              /\ Post(StreamEnd("stream-stopped")
                      \o (IF host.session = None THEN <<>>
                          ELSE <<Event("disconnected", host.session, NoConfig)>>)
                      \o reply(TRUE))
           \/ /\ Operational /\ host' = Faulted(host)
              /\ Post(StreamEnd("stream-stopped") \o Faults \o reply(FALSE))
    /\ UNCHANGED <<crossing, commands>>

ReadsState ==
    /\ "read" \in r.asks /\ r' = [r EXCEPT !.asks = @ \ {"read"}]
    /\ Post(<<Reply("read", host.session, host.config, ~host.fault)>>)
    /\ UNCHANGED <<host, crossing, commands>>

Answers == Starts \/ Stops \/ Applies \/ Touches \/ Acquires \/ Connects \/ Refuse

\* A live stream publishes; one measurement is on its way at a time.
Measures ==
    /\ host.stream /\ \A i \in 1..Len(channel) : channel[i].type # "measurement"
    /\ Post(<<Event("measurement", host.session, host.config)>>)
    /\ UNCHANGED <<r, host, crossing, commands>>

\* An acquisition of the stream fails, with or without its session.
StreamFaults ==
    /\ host.stream /\ host' = [host EXCEPT !.stream = FALSE, !.broke = TRUE]
    /\ Post(StreamEnd("stream-faulted"))
    /\ UNCHANGED <<r, crossing, commands>>

SessionFaults ==
    /\ Operational /\ host' = [Faulted(host) EXCEPT !.broke = @ \/ host.stream]
    /\ Post(Faults \o StreamEnd("stream-faulted"))
    /\ UNCHANGED <<r, crossing, commands>>

-----------------------------------------------------------------------------
(* Delivery *)

Oldest(i, reply) ==
    channel[i].reply = reply /\ \A j \in 1..(i - 1) : channel[j].reply # reply

Deliverable(i, reply) ==
    /\ i \in 1..Len(channel) /\ Oldest(i, reply)
    /\ crossing \/ i = 1

Taken(i) ==
    /\ channel' = SubSeq(channel, 1, i - 1) \o SubSeq(channel, i + 1, Len(channel))
    /\ UNCHANGED <<host, crossing, commands>>

DeliverReply ==
    \E i \in 1..Len(channel) :
      /\ Deliverable(i, TRUE) /\ Taken(i)
      /\ LET m == channel[i]
         IN  r' = CASE m.type = "disconnect" -> Disconnected(r, m)
                    [] m.type = "read" -> StateRead(r, m)
                    [] OTHER -> OnReply(r, m)

DeliverEvent ==
    \E i \in 1..Len(channel), good \in BOOLEAN :
      /\ Deliverable(i, FALSE) /\ Taken(i)
      /\ good \/ channel[i].type = "measurement"
      /\ r' = OnEvent(r, channel[i], good)

MainStep == Answers \/ Disconnects \/ ReadsState \/ Measures \/ StreamFaults \/ SessionFaults
Next == Command \/ CadenceEnds \/ ReceiptTimesOut \/ MainStep \/ DeliverReply \/ DeliverEvent

\* The host settles every call (its property CallsEnd), a message arrives,
\* a timer fires.
Fairness ==
    /\ WF_vars(Answers) /\ WF_vars(Disconnects) /\ WF_vars(ReadsState)
    /\ WF_vars(DeliverReply) /\ WF_vars(DeliverEvent)
    /\ WF_vars(CadenceEnds) /\ WF_vars(ReceiptTimesOut)

Spec == Init /\ [][Next]_vars /\ Fairness

-----------------------------------------------------------------------------
(* Properties *)

\* Types, and three bonds between the gate, the pump and the operator's stop:
\* every pause of the pump belongs to an operation that runs or waits, the
\* transaction of the pump is its capture, and a stop that holds the gate is
\* the operator's.
TypeOK ==
    /\ r.session \in 0..MaxSession /\ r.config \in Configs
    /\ r.owner.gen \in 0..MaxCommands /\ r.gen \in 0..MaxCommands
    /\ r.mode \in {"spectrum", "iq"} /\ r.pump \in {"off", "admission", "acquire", "cadence"}
    /\ r.depth = Len(r.waiting) + (IF r.txn.paused THEN 1 ELSE 0)
    /\ (r.pump = "acquire") = (r.txn.op = "pump")
    /\ r.stop \in {"none", "pending", "gate", "iq"}
    /\ (r.stop = "gate") = (r.txn.op = "stop")
    /\ host.session \in 0..MaxSession /\ host.config \in Configs
    /\ host.stream => Operational /\ host.config.kind = "swept"

\* Nothing is under way between the renderer and the main process.
Quiet == channel = <<>> /\ r.call = NoCall /\ r.asks = {} /\ ~Held(r) /\ r.waiting = <<>>

\* A stream that is live in the main process is shown as a run and can be
\* stopped, whichever reply, refusal or pause went wrong on the way
\* (startStreamingWithConfiguration, runWithContinuousPaused,
\* startContinuousOwned).  Where events may overtake replies it fails after a
\* stream that broke, or in a third session: see the README.
LiveStreamIsShown ==
    Quiet /\ host.stream /\ (crossing => ~host.broke /\ host.sessions <= 2)
        => r.owner # NoOwner /\ r.continuous

\* When everything is delivered the renderer has the session, configuration and
\* fault of the main process: no late state read, reply or event of an older
\* session has undone a newer one (acceptInstrumentStateSnapshot).  The replies
\* of connect and disconnect carry no order, so where they may be overtaken it
\* is said of the first session only.
ViewConverges ==
    Quiet /\ (crossing => host.session = 1)
        => r.session = host.session /\ r.config = host.config /\ r.fault = host.fault

\* Evidence on the screen is of the session and configuration it is shown with,
\* through retunes, reconnections, pauses and late measurements
\* (invalidateAcquiredEvidence, processContinuousMeasurement).
EvidenceIsCurrent ==
    r.evidence # NoEvidence /\ ~crossing =>
        /\ r.evidence.session = r.session
        /\ r.config.rev \in {None, r.evidence.rev}

\* All three, of the two streams of replies and events
RendererAgrees == LiveStreamIsShown /\ ViewConverges /\ EvidenceIsCurrent

\* A requested I/Q run has a pump, and a pump that waits for admission waits for
\* an operation that will wake it (waitForContinuousIqAdmission).
PumpIsServed ==
    /\ Current(r) => r.pump # "off"
    /\ r.pump = "admission" => r.depth > 0

\* When a remote tap ends its paused run as superseded, the renderer has already
\* withdrawn the configuration that the tap invalidated: no operation after it
\* is admitted against the old one (performRemoteTap,
\* reconcileInvalidatingFeatureReceipt).
TapTellsTheTruth == [][
    r.txn.op = "tap" /\ r.txn.at = "touch" /\ r.mode = "spectrum"
    /\ r.requested /\ r'.txn.op # "tap" /\ ~r'.continuous
        => r'.config = NoConfig]_vars

\* The operator's stop, the operation that holds the gate and those that wait
\* for the pump all end, however they interleave with faults and with each
\* other, and the pump is never left behind by them (waitForContinuousIqAdmission,
\* drainOperatorContinuousStop, runInstrumentTransaction).
CallsEnd ==
    /\ [](TypeOK /\ PumpIsServed)
    /\ (r.stop # "none") ~> (r.stop = "none")
    /\ Held(r) ~> ~Held(r)
    /\ (r.waiting # <<>>) ~> (r.waiting = <<>>)

-----------------------------------------------------------------------------
(* A statement of the repository that the code does not keep *)

\* README.md:248 'live pause-verify-resume retuning': a run that is requested,
\* and shown with a configuration newer than the one it started with, streams.
RetunesLive ==
    Quiet /\ r.requested /\ r.owner # NoOwner /\ r.owner.config.rev < r.config.rev
        => host.stream
=============================================================================
