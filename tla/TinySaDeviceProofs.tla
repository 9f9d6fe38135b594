------------------------- MODULE TinySaDeviceProofs -------------------------
(***************************************************************************)
(* For every number of mishaps, the device service of TinySaDevice sweeps  *)
(* and gives its port up only in silence, and measures only what the       *)
(* session has bound.                                                      *)
(*                                                                         *)
(* ActsOnWhatHolds speaks of the command at the head of a script.  It is   *)
(* inductive only together with what has been promised of the commands     *)
(* behind it: while RF may be on, every "scan" and "close" of the script   *)
(* still has an output-off before it (Sheltered).  A promise is made when  *)
(* a script is composed, kept while its head is answered, because the only *)
(* item whose loss could break it is the "off" that ends the emission, and *)
(* made again by the script that replaces a failed one.                    *)
(***************************************************************************)
EXTENDS TinySaDevice, SequenceTheorems, TLAPS

-----------------------------------------------------------------------------
(* The inductive invariant *)

Items == Commands \cup PortCalls
Operations == [kind : Kinds, script : Seq(Items), sent : BOOLEAN, attested : BOOLEAN]

\* Which operation gives which commands and port calls.
Fits(kind, item) ==
    /\ item = "shut" => kind = "disconnect"
    /\ item = "open" => kind \in {"connect", "disconnect"}
    /\ item = "close" => kind \in {"abort", "disconnect"}
    /\ item = "probe" => kind = "connect"
    /\ item = "scan" => kind = "acquire"
    /\ item = "mode" => kind \in {"connect", "restore"} \cup Modes
    /\ item = "touch" <=> kind = "touch"
    /\ item = "on" <=> kind = "on"
    /\ kind = "silence" => item = "off"
Given(kind, s) == \A i \in 1..Len(s) : Fits(kind, s[i])

\* What a teardown has still to do.
Teardowns == {<<"shut", "open", "off", "close">>, <<"open", "off", "close">>,
              <<"off", "close">>, <<"close">>}

\* An output-off comes before item i; before every item that relies on one;
\* somewhere.
Preceded(s, i) == \E j \in 1..(i - 1) : s[j] = "off"
Sheltered(s) ==
    \A i \in 1..Len(s) : s[i] \in {"scan", "close"} => Preceded(s, i)
HasOff(s) == \E j \in 1..Len(s) : s[j] = "off"

\* A probe, which may leave RF on, is followed by an output-off.
Restored(s) ==
    \A i \in 1..Len(s) : s[i] = "probe" => i < Len(s) /\ s[i + 1] = "off"

\* The port is opened at once or not at all.
OpensFirst(s) == \A i \in 2..Len(s) : s[i] # "open"
Opens(s) == \E i \in 1..Len(s) : s[i] = "open"

\* A running operation has a script that its kind can have.
ScriptOK ==
    /\ \A i \in 1..Len(op.script) : Fits(op.kind, op.script[i])
    /\ op.kind = "none" => op = NoOp
    /\ op.script = <<>> => op.kind = "none"
    /\ op.kind = "abort" => op.script = <<"close">>
    /\ op.kind = "disconnect" => op.script \in Teardowns
    /\ Restored(op.script)
    /\ op.kind = "connect" => \A i \in 2..Len(op.script) : op.script[i] # "open"

\* A command waits on a scheduler that can answer it, and an acknowledgement
\* outlives its scheduler only as that of a teardown.
Channel ==
    /\ InFlight(Commands) => device.scheduler = "ok"
    /\ InFlight({"shut"}) => device.scheduler = "none"
    /\ device.scheduler # "ok" /\ device.offAcknowledged => device.teardownAcknowledged

\* What the acknowledgements are worth: RF may be on behind one only between
\* an emitting command and the output-off or the revocation that follows it.
Silence ==
    /\ live => Sheltered(op.script)
    /\ device.offAcknowledged /\ live =>
         \/ InFlight(Emitting)
         \/ op.script # <<>> /\ ~op.sent /\ Head(op.script) = "off"
    /\ op.kind = "touch" => ~device.offAcknowledged
    /\ op.kind = "disconnect" /\ Len(op.script) >= 3 => ~device.offAcknowledged
    /\ op.kind = "connect" /\ Head(op.script) = "open" => ~live /\ ~device.offAcknowledged
    /\ device.teardownAcknowledged =>
         /\ device.offAcknowledged
         /\ \/ op = NoOp /\ device.connection = "faulted"
            \/ op.kind = "disconnect" /\ op.script = <<"close">>

\* Who may hold what.
Owned ==
    /\ device.connection = "disconnected" =>
         /\ op = NoOp /\ ~live /\ ~port /\ session = "none"
         /\ device.scheduler = "none"
         /\ ~device.offAcknowledged
    /\ op.kind \in {"connect", "restore", "abort"} => session = "none"
    /\ op.kind \in Modes => session # "none"
    /\ session = "none" => bound = "none"

\* What is bound is what the device is set to, unless the service knows that it
\* is not; and an acquisition that has passed its output-off carries its receipt.
Bound ==
    /\ op.kind \in Modes \cup {"touch"} => bound = "none"
    /\ op.kind # "disconnect" /\ bound # "none" /\ device.mode = bound => panel = bound
    /\ op.kind = "acquire" => bound # "none" /\ device.mode = bound
    /\ session # "none" => device.receipt # "none"
    /\ op.kind = "connect" => device.receipt # "none" \/ Preceded(op.script, Len(op.script))
    /\ op.kind = "acquire" => session # "none" /\
           ((op.attested /\ device.receipt = "acquisition") \/ Sheltered(op.script))

IInv == DeviceTypeOK /\ ScriptOK /\ Channel /\ Silence /\ Owned /\ Bound

-----------------------------------------------------------------------------
(* Scripts *)

\* The head and the tail of a sequence.
LEMMA Heads ==
  ASSUME NEW S, NEW s \in Seq(S), s # << >>
  PROVE  /\ Head(s) = s[1] /\ Head(s) \in S
         /\ Len(s) \in Nat /\ Len(s) >= 1
         /\ Tail(s) \in Seq(S) /\ Len(Tail(s)) = Len(s) - 1
         /\ \A i \in 1..(Len(s) - 1) : Tail(s)[i] = s[i + 1]
BY HeadTailProperties, EmptySeq, LenProperties, SMT

\* The scripts that are written out item by item.
LEMMA OffScript ==
  ASSUME NEW s, s = <<"off">>
  PROVE  /\ s \in Seq(Items) /\ s # << >> /\ Len(s) = 1 /\ Head(s) = "off"
         /\ \A i \in 1..Len(s) : s[i] = "off"
BY SMT DEF Items, Commands, PortCalls

\* The same for the last call of a failed connect or a teardown.
LEMMA CloseScript ==
  ASSUME NEW s, s = <<"close">>
  PROVE  /\ s \in Seq(Items) /\ s # << >> /\ Len(s) = 1 /\ Head(s) = "close"
         /\ \A i \in 1..Len(s) : s[i] = "close"
BY SMT DEF Items, Commands, PortCalls

\* The same for what brings a device back to a known state.
LEMMA Recall ==
  ASSUME NEW s, s = <<"off", "mode", "readback">>
  PROVE  /\ s \in Seq(Items) /\ s # << >> /\ Len(s) = 3 /\ Head(s) = "off"
         /\ \A i \in 1..Len(s) : s[i] \in {"off", "mode", "readback"}
BY SMT DEF Items, Commands, PortCalls

\* What is left of a teardown still begins by making the port safe to close,
\* except its very last call.
LEMMA TeardownScripts ==
  ASSUME NEW s \in Teardowns
  PROVE  /\ s \in Seq(Items) /\ s # << >> /\ Len(s) \in 1..4
         /\ \A i \in 1..Len(s) : s[i] \in {"shut", "open", "off", "close"}
         /\ s # <<"close">> => Sheltered(s)
         /\ s # <<"close">> => Tail(s) \in Teardowns
         /\ Len(s) = 1 <=> s = <<"close">>
         /\ Len(s) = 2 <=> s = <<"off", "close">>
         /\ Head(s) = "close" <=> s = <<"close">>
         /\ Head(s) = "off" <=> s = <<"off", "close">>
         /\ Head(s) = "shut" => Len(s) = 4
         /\ Head(s) = "open" => Len(s) = 3
<1>1. CASE s = <<"close">>
  BY <1>1, SMT DEF Items, Commands, PortCalls
<1>2. CASE s = <<"off", "close">>
  <2>1. Len(s) = 2 /\ s[1] = "off" /\ s[2] = "close" /\ Tail(s) = <<"close">> /\ s \in Seq(Items)
    BY <1>2, SMT DEF Items, Commands, PortCalls
  <2>2. Sheltered(s)
    BY <2>1, SMT DEF Sheltered, Preceded
  <2> QED BY <1>2, <2>1, <2>2, SMT DEF Teardowns
<1>3. CASE s = <<"open", "off", "close">>
  <2>1. Len(s) = 3 /\ s[1] = "open" /\ s[2] = "off" /\ s[3] = "close" /\ Tail(s) = <<"off", "close">> /\ s \in Seq(Items)
    BY <1>3, SMT DEF Items, Commands, PortCalls
  <2>2. Sheltered(s)
    BY <2>1, SMT DEF Sheltered, Preceded
  <2> QED BY <1>3, <2>1, <2>2, SMT DEF Teardowns
<1>4. CASE s = <<"shut", "open", "off", "close">>
  <2>1. Len(s) = 4 /\ s[1] = "shut" /\ s[2] = "open" /\ s[3] = "off" /\ s[4] = "close" /\ Tail(s) = <<"open", "off", "close">> /\ s \in Seq(Items)
    BY <1>4, SMT DEF Items, Commands, PortCalls
  <2>2. Sheltered(s)
    BY <2>1, SMT DEF Sheltered, Preceded
  <2> QED BY <1>4, <2>1, <2>2, SMT DEF Teardowns
<1> QED BY <1>1, <1>2, <1>3, <1>4 DEF Teardowns

-----------------------------------------------------------------------------
(* Operations that end, fail or go over into another *)

\* What a failed command or call may leave of the device.
Left(d) ==
    /\ d \in Devices
    /\ d.connection # "disconnected"
    /\ d.receipt = device.receipt
    /\ d.mode \in {device.mode, "idle"}
    /\ d.scheduler # "ok" /\ d.offAcknowledged => d.teardownAcknowledged
    /\ d.offAcknowledged => device.offAcknowledged /\ Head(op.script) # "off"
    /\ d.teardownAcknowledged => device.teardownAcknowledged /\ d.offAcknowledged

\* The cases of Fails, one for each kind of operation.
LEMMA FailsAs ==
  ASSUME NEW d, Fails(d), op.kind \in Kinds, op.kind # "none",
         Fits(op.kind, Head(op.script))
  PROVE  \/ op.kind = "connect" /\ Head(op.script) = "probe"
            /\ Start(d, Run("restore", <<"off", "mode", "readback">>))
         \/ op.kind \in {"connect", "restore"} /\ Head(op.script) # "probe" /\ ConnectFails(d)
         \/ op.kind = "abort" /\ Return(Retained(d))
         \/ op.kind = "disconnect" /\ Head(op.script) = "close"
            /\ Return([d EXCEPT !.connection = "faulted", !.output = "off", !.mode = "idle"])
         \/ op.kind = "disconnect" /\ Head(op.script) # "close" /\ Return(TeardownFailed(d))
         \/ op.kind \in Modes /\ Return(ConfigurationFailed(d))
         \/ op.kind \in {"on", "off", "silence", "recover"} /\ Return(OutputUncertain(d))
         \/ op.kind \in {"acquire", "inspect"} /\ Return(d)
         \/ op.kind = "touch" /\ AfterTouch(d)
BY ZenonT(60) DEF Fails, Fits, Kinds, Modes, Measurements

\* What holds whatever the operation is.
Always ==
    /\ device.scheduler # "ok" /\ device.offAcknowledged => device.teardownAcknowledged
    /\ device.teardownAcknowledged => device.offAcknowledged
    /\ device.connection = "disconnected" =>
         /\ ~live /\ ~port /\ session = "none"
         /\ device.scheduler = "none"
         /\ ~device.offAcknowledged
    /\ session = "none" => bound = "none"
    /\ session # "none" => device.receipt # "none"

\* What must hold for the device to be left alone.
AtRest ==
    /\ device.offAcknowledged => ~live
    /\ device.teardownAcknowledged => device.connection = "faulted"
    /\ bound # "none" /\ device.mode = bound => panel = bound

\* An operation that starts, ends or goes over into another.
Settled == ScriptOK /\ Channel /\ Silence /\ Owned /\ Bound

\* An operation is over.
LEMMA Rests ==
  ASSUME op' = NoOp, Always', AtRest'
  PROVE  Settled'
<1>1. op'.kind = "none" /\ op'.script = << >> /\ ~op'.sent
  BY DEF NoOp
<1>2. ScriptOK'
  <2>1. Len(op'.script) = 0
    BY <1>1, EmptySeq
  <2> QED BY <1>1, <2>1, SMT DEF ScriptOK, Restored
<1>3. Channel'
  BY <1>1, Zenon DEF Channel, InFlight, Always
<1>4. Silence'
  <2>1. Sheltered(op'.script)
    BY <1>1, EmptySeq, SMT DEF Sheltered
  <2> QED BY <1>1, <2>1, Zenon DEF Silence, Always, AtRest
<1>5. Owned' /\ Bound'
  BY <1>1, Zenon DEF Owned, Bound, Always, AtRest, Modes, Measurements
<1> QED BY <1>2, <1>3, <1>4, <1>5 DEF Settled

\* The output-off after a touch begins.
LEMMA Recovers ==
  ASSUME op' = Run("recover", <<"off">>), Always', AtRest',
         ~device'.teardownAcknowledged, device'.connection # "disconnected"
  PROVE  Settled'
<1>1. op'.kind = "recover" /\ op'.script = <<"off">> /\ ~op'.sent
  BY DEF Run
<1>2. Len(op'.script) = 1 /\ Head(op'.script) = "off" /\ op'.script # << >>
      /\ \A i \in 1..Len(op'.script) : op'.script[i] = "off"
  BY <1>1, OffScript
<1>3. ScriptOK'
  BY <1>1, <1>2, Zenon DEF ScriptOK, Restored, Fits
<1>4. Channel'
  BY <1>1, Zenon DEF Channel, InFlight, Always
<1>5. Silence'
  <2>1. Sheltered(op'.script)
    BY <1>2, Zenon DEF Sheltered
  <2> QED BY <1>1, <1>2, <2>1, Zenon DEF Silence
<1>6. Owned' /\ Bound'
  BY <1>1, Zenon DEF Owned, Bound, Always, AtRest, Modes, Measurements
<1> QED BY <1>3, <1>4, <1>5, <1>6 DEF Settled

\* The port of a failed connect is released in silence.
LEMMA Aborts ==
  ASSUME op' = Run("abort", <<"close">>), Always', ~live', session' = "none",
         ~device'.teardownAcknowledged, device'.connection # "disconnected"
  PROVE  Settled'
<1>1. op'.kind = "abort" /\ op'.script = <<"close">> /\ ~op'.sent
  BY DEF Run
<1>2. Len(op'.script) = 1 /\ Head(op'.script) = "close" /\ op'.script # << >>
      /\ \A i \in 1..Len(op'.script) : op'.script[i] = "close"
  BY <1>1, CloseScript
<1>3. ScriptOK'
  BY <1>1, <1>2, Zenon DEF ScriptOK, Restored, Fits
<1>4. Channel'
  BY <1>1, Zenon DEF Channel, InFlight, Always
<1>5. Silence'
  BY <1>1, <1>2, Zenon DEF Silence
<1>6. Owned' /\ Bound'
  BY <1>1, Zenon DEF Owned, Bound, Always, Modes, Measurements
<1> QED BY <1>3, <1>4, <1>5, <1>6 DEF Settled

\* A failed probe is followed by the way back to a known state.
LEMMA Restores ==
  ASSUME op' = Run("restore", <<"off", "mode", "readback">>), Always', session' = "none",
         ~device'.teardownAcknowledged, device'.connection # "disconnected"
  PROVE  Settled'
<1>1. op'.kind = "restore" /\ op'.script = <<"off", "mode", "readback">> /\ ~op'.sent
  BY DEF Run
<1>2. Len(op'.script) = 3 /\ Head(op'.script) = "off" /\ op'.script # << >>
      /\ \A i \in 1..Len(op'.script) : op'.script[i] \in {"off", "mode", "readback"}
  BY <1>1, Recall
<1>3. ScriptOK'
  BY <1>1, <1>2, Zenon DEF ScriptOK, Restored, Fits
<1>4. Channel'
  BY <1>1, Zenon DEF Channel, InFlight, Always
<1>5. Silence'
  <2>1. Sheltered(op'.script)
    BY <1>2, Zenon DEF Sheltered
  <2> QED BY <1>1, <1>2, <2>1, Zenon DEF Silence
<1>6. Owned' /\ Bound'
  BY <1>1, Zenon DEF Owned, Bound, Always, Modes, Measurements
<1> QED BY <1>3, <1>4, <1>5, <1>6 DEF Settled

\* A teardown begins; it leaves out the output-off only in silence.
LEMMA TearsDown ==
  ASSUME NEW s \in Teardowns, op' = Run("disconnect", s), Always',
         device'.connection # "disconnected",
         s = <<"close">> => ~live',
         device'.offAcknowledged => ~live' /\ Len(s) < 3,
         device'.teardownAcknowledged => s = <<"close">>
  PROVE  Settled'
<1>1. op'.kind = "disconnect" /\ op'.script = s /\ ~op'.sent
  BY DEF Run
<1>2. /\ Len(s) \in 1..4 /\ s # << >>
      /\ \A i \in 1..Len(s) : s[i] \in {"shut", "open", "off", "close"}
      /\ s # <<"close">> => Sheltered(s)
  BY TeardownScripts
<1>3. ScriptOK'
  <2>1. \A i \in 1..Len(s) : Fits("disconnect", s[i]) /\ s[i] # "probe"
    BY <1>2, Zenon DEF Fits
  <2> QED BY <1>1, <1>2, <2>1, Zenon DEF ScriptOK, Restored
<1>4. Channel'
  BY <1>1, Zenon DEF Channel, InFlight, Always
<1>5. Silence'
  <2>1. device'.offAcknowledged => ~(Len(s) >= 3)
    BY <1>2, SMT
  <2> QED BY <1>1, <1>2, <2>1, Zenon DEF Silence, Always
<1>6. Owned' /\ Bound'
  BY <1>1, Zenon DEF Owned, Bound, Always, Modes, Measurements
<1> QED BY <1>3, <1>4, <1>5, <1>6 DEF Settled

\* The same as Heads for the script of the running operation.
LEMMA Starts ==
  ASSUME DeviceTypeOK, op.script # << >>
  PROVE  /\ Head(op.script) = op.script[1] /\ Head(op.script) \in Items
         /\ Len(op.script) \in Nat /\ Len(op.script) >= 1
         /\ Tail(op.script) \in Seq(Items) /\ Len(Tail(op.script)) = Len(op.script) - 1
         /\ \A i \in 1..(Len(op.script) - 1) : Tail(op.script)[i] = op.script[i + 1]
<1>1. op.script \in Seq(Items)
  BY DEF DeviceTypeOK, Items
<1> QED BY <1>1, Heads

\* No session is bound to a device that is not configured.
LEMMA IdleIsUnbound ==
  ASSUME DeviceTypeOK
  PROVE  bound # "idle" /\ (bound # "none" => bound \in Measurements)
BY DEF DeviceTypeOK, Measurements

\* The fields of no operation.
LEMMA NoOpIs == NoOp.kind = "none" /\ NoOp.script = << >> /\ ~NoOp.sent /\ ~NoOp.attested
BY DEF NoOp

\* What is left of the fields when an operation returns with an error.
Remains(e, d) ==
    /\ e \in Devices
    /\ e.scheduler = d.scheduler
    /\ e.receipt = d.receipt
    /\ e.mode \in {d.mode, "idle"}
    /\ e.connection # "disconnected"
    /\ \/ /\ e.offAcknowledged <=> d.offAcknowledged
          /\ e.teardownAcknowledged <=> d.teardownAcknowledged
       \/ ~e.offAcknowledged /\ ~e.teardownAcknowledged

\* The handlers of failed operations touch nothing else.
LEMMA Remaining ==
  ASSUME NEW d \in Devices, d.connection # "disconnected"
  PROVE  /\ Remains(d, d)
         /\ Remains(Retained(d), d) /\ Retained(d).mode = "idle"
         /\ Retained(d).connection = "faulted"
         /\ Remains(ConfigurationFailed(d), d)
         /\ Remains(OutputUncertain(d), d)
         /\ ~OutputUncertain(d).offAcknowledged
         /\ Remains(TeardownFailed(d), d)
         /\ TeardownFailed(d).mode = "idle"
         /\ ~TeardownFailed(d).offAcknowledged
<1>1. Remains(d, d)
  BY DEF Remains
<1>2. Remains(Retained(d), d) /\ Retained(d).mode = "idle" /\ Retained(d).connection = "faulted"
  BY Zenon DEF Remains, Retained, Devices, Modes, Measurements
<1>3. Remains(ConfigurationFailed(d), d)
  BY Zenon DEF Remains, ConfigurationFailed, Devices, Modes, Measurements
<1>4. Remains(OutputUncertain(d), d) /\ ~OutputUncertain(d).offAcknowledged
  BY Zenon DEF Remains, OutputUncertain, Devices, Modes, Measurements
<1>5. Remains(TeardownFailed(d), d) /\ TeardownFailed(d).mode = "idle" /\ ~TeardownFailed(d).offAcknowledged
  BY Zenon DEF Remains, TeardownFailed, Devices, Modes, Measurements
<1> QED BY <1>1, <1>2, <1>3, <1>4, <1>5

\* A failure leaves nothing behind that it must not.
LEMMA FailsSettles ==
  ASSUME IInv, NEW d, Left(d), Fails(d), op.script # << >>,
         UNCHANGED <<session, bound, ghosts>>
  PROVE  Settled' /\ device'.scheduler = d.scheduler /\ device' \in Devices /\ op' \in
             [kind : Kinds, script : Seq(Items), sent : BOOLEAN, attested : BOOLEAN]
<1> DEFINE first == Head(op.script)
<1>1. /\ op.kind \in Kinds /\ op.kind # "none"
      /\ Fits(op.kind, first)
      /\ first = op.script[1]
      /\ Len(op.script) \in Nat /\ Len(op.script) >= 1
  <2>1. op.kind # "none"
    BY NoOpIs, Zenon DEF IInv, ScriptOK
  <2>2. op.kind \in Kinds
    BY DEF IInv, DeviceTypeOK
  <2>3. first = op.script[1] /\ Len(op.script) \in Nat /\ Len(op.script) >= 1
    BY Starts DEF IInv
  <2>4. Fits(op.kind, first)
    BY <2>3, SMT DEF IInv, ScriptOK
  <2> QED BY <2>1, <2>2, <2>3, <2>4
<1>2. /\ session' = session /\ bound' = bound /\ panel' = panel /\ live' = live
  BY DEF ghosts
<1>3. /\ session = "none" => bound = "none"
      /\ session # "none" => device.receipt # "none"
      /\ op.kind \in {"connect", "restore", "abort"} => session = "none"
      /\ op.kind # "disconnect" /\ bound # "none" /\ device.mode = bound => panel = bound
      /\ op.kind = "touch" => bound = "none" /\ ~device.offAcknowledged
  BY Zenon DEF IInv, Owned, Bound, Silence
<1>4. d.offAcknowledged /\ live => first \in Emitting
  BY Zenon DEF Left, IInv, Silence, InFlight
<1>5. op.kind # "disconnect" => ~d.teardownAcknowledged
  BY <1>1, NoOpIs, Zenon DEF Left, IInv, Silence
<1>6. first = "close" => ~live
  <2>1. ~Preceded(op.script, 1)
    BY SMT DEF Preceded
  <2>2. live /\ first = "close" => Preceded(op.script, 1)
    BY <1>1, SMT DEF IInv, Silence, Sheltered
  <2> QED BY <2>1, <2>2
<1>7. /\ d \in Devices /\ d.connection # "disconnected"
      /\ d.receipt = device.receipt
      /\ d.mode \in {device.mode, "idle"}
      /\ d.scheduler # "ok" /\ d.offAcknowledged => d.teardownAcknowledged
      /\ d.offAcknowledged => device.offAcknowledged /\ first # "off"
      /\ d.teardownAcknowledged => d.offAcknowledged
  BY DEF Left
<1>unbound. bound # "idle"
  BY IdleIsUnbound DEF IInv

\* It ends in silence or without acknowledgement, and measures what is set.
<1> DEFINE Ended == /\ op' = NoOp /\ Remains(device', d)
                    /\ device'.offAcknowledged => ~live
                    /\ device'.teardownAcknowledged => device'.connection = "faulted"
                    /\ bound # "none" /\ device'.mode = bound => panel = bound
<1>ends. ASSUME Ended
         PROVE  Settled' /\ device'.scheduler = d.scheduler /\ device' \in Devices /\ op' \in
                   [kind : Kinds, script : Seq(Items), sent : BOOLEAN, attested : BOOLEAN]
  <2>1. Always'
    BY <1>ends, <1>2, <1>3, <1>7, Zenon DEF Always, Remains
  <2>2. AtRest'
    BY <1>ends, <1>2, Zenon DEF AtRest
  <2>3. Settled'
    BY <1>ends, <2>1, <2>2, Rests
  <2>4. NoOp \in [kind : Kinds, script : Seq(Items), sent : BOOLEAN, attested : BOOLEAN]
    BY EmptySeq DEF NoOp, Kinds
  <2> QED BY <1>ends, <2>3, <2>4, Zenon DEF Remains
<1> HIDE DEF Ended
<1>8. CASE op.kind = "connect" /\ first = "probe" /\ Start(d, Run("restore", <<"off", "mode", "readback">>))
  <2>1. device' = d /\ op' = Run("restore", <<"off", "mode", "readback">>)
    BY <1>8 DEF Start
  <2>2. Always' /\ session' = "none"
    BY <2>1, <1>2, <1>3, <1>7, <1>8, Zenon DEF Always
  <2>3. Settled'
    BY <2>1, <2>2, <1>5, <1>7, <1>8, Restores
  <2>4. <<"off", "mode", "readback">> \in Seq(Items)
    BY Recall
  <2> QED BY <2>1, <2>3, <2>4, <1>7 DEF Run, Kinds
<1>9. CASE op.kind \in {"connect", "restore"} /\ first # "probe" /\ ConnectFails(d)
  <2>1. d.offAcknowledged => ~live
    BY <1>1, <1>4, <1>9, Zenon DEF Fits, Emitting
  <2>2. CASE Start(d, Run("abort", <<"close">>)) /\ (InFlight({"open"}) \/ d.offAcknowledged)
    <3>1. device' = d /\ op' = Run("abort", <<"close">>)
      BY <2>2 DEF Start
    <3>2. ~live
      <4>1. InFlight({"open"}) => op.kind = "connect" /\ first = "open"
        BY <1>1, <1>9, Zenon DEF InFlight, Fits
      <4> QED BY <4>1, <2>1, <2>2, Zenon DEF IInv, Silence
    <3>3. Always' /\ session' = "none"
      BY <3>1, <1>2, <1>3, <1>7, <1>9, Zenon DEF Always
    <3>4. Settled'
      BY <3>1, <3>2, <3>3, <1>2, <1>5, <1>7, <1>9, Aborts
    <3>5. <<"close">> \in Seq(Items)
      BY CloseScript
    <3> QED BY <3>1, <3>4, <3>5, <1>7 DEF Run, Kinds
  <2>3. CASE Return(Retained(d)) /\ ~d.offAcknowledged
    <3>1. device' = Retained(d) /\ op' = NoOp
      BY <2>3 DEF Start, Return
    <3>2. Remains(device', d) /\ ~device'.offAcknowledged
      BY <2>3, <3>1, <1>7, Remaining, Zenon DEF Remains
    <3>3. Ended
      BY <3>1, <3>2, <1>3, <1>5, <1>7, <1>9, Zenon DEF Ended, Remains
    <3> QED BY <3>3, <1>ends
  <2> QED BY <2>2, <2>3, <1>9 DEF ConnectFails
<1>10. CASE op.kind = "abort" /\ Return(Retained(d))
  <2>1. device' = Retained(d) /\ op' = NoOp
    BY <1>10 DEF Start, Return
  <2>2. Remains(device', d) /\ device'.connection = "faulted"
    BY <2>1, <1>7, Remaining
  <2>3. first = "close"
    BY <1>1, <1>10, CloseScript, Zenon DEF IInv, ScriptOK
  <2>4. Ended
    BY <2>1, <2>2, <2>3, <1>3, <1>6, <1>10, Zenon DEF Ended
  <2> QED BY <2>4, <1>ends
<1>11. CASE /\ op.kind = "disconnect" /\ first = "close"
            /\ Return([d EXCEPT !.connection = "faulted", !.output = "off", !.mode = "idle"])
  <2> DEFINE e == [d EXCEPT !.connection = "faulted", !.output = "off", !.mode = "idle"]
  <2>1. device' = e /\ op' = NoOp
    BY <1>11 DEF Start, Return
  <2>2. Remains(e, d) /\ e.mode = "idle" /\ e.connection = "faulted"
    BY <1>7, Zenon DEF Remains, Devices, Modes, Measurements
  <2>3. Ended
    BY <2>1, <2>2, <1>6, <1>11, <1>unbound, Zenon DEF Ended
  <2> QED BY <2>3, <1>ends
<1>12. CASE op.kind = "disconnect" /\ first # "close" /\ Return(TeardownFailed(d))
  <2>1. device' = TeardownFailed(d) /\ op' = NoOp
    BY <1>12 DEF Start, Return
  <2>2. Remains(device', d) /\ device'.mode = "idle" /\ ~device'.offAcknowledged
    BY <2>1, <1>7, Remaining
  <2>3. Ended
    BY <2>1, <2>2, <1>7, <1>unbound, Zenon DEF Ended, Remains
  <2> QED BY <2>3, <1>ends
<1>13. CASE op.kind \in Modes /\ Return(ConfigurationFailed(d))
  <2>1. device' = ConfigurationFailed(d) /\ op' = NoOp
    BY <1>13 DEF Start, Return
  <2>2. Remains(device', d) /\ bound = "none"
    BY <2>1, <1>7, <1>13, Remaining, Zenon DEF IInv, Bound
  <2>3. d.offAcknowledged => ~live
    BY <1>1, <1>4, <1>13, Zenon DEF Fits, Emitting, Modes, Measurements
  <2>4. Ended
    BY <2>1, <2>2, <2>3, <1>5, <1>13, Zenon DEF Ended, Remains, Modes, Measurements
  <2> QED BY <2>4, <1>ends
<1>14. CASE op.kind \in {"on", "off", "silence", "recover"} /\ Return(OutputUncertain(d))
  <2>1. device' = OutputUncertain(d) /\ op' = NoOp
    BY <1>14 DEF Start, Return
  <2>2. Remains(device', d) /\ ~device'.offAcknowledged
    BY <2>1, <1>7, Remaining
  <2>3. Ended
    BY <2>1, <2>2, <1>3, <1>7, <1>14, <1>unbound, Zenon DEF Ended, Remains
  <2> QED BY <2>3, <1>ends
<1>15. CASE op.kind \in {"acquire", "inspect"} /\ Return(d)
  <2>1. device' = d /\ op' = NoOp
    BY <1>15 DEF Start, Return
  <2>2. Remains(device', d)
    BY <2>1, <1>7, Remaining
  <2>3. d.offAcknowledged => ~live
    BY <1>1, <1>4, <1>15, Zenon DEF Fits, Emitting
  <2>4. Ended
    BY <2>1, <2>2, <2>3, <1>3, <1>5, <1>7, <1>15, <1>unbound, Zenon DEF Ended, Remains
  <2> QED BY <2>4, <1>ends
<1>16. CASE op.kind = "touch" /\ AfterTouch(d)
  <2>1. CASE Start(d, NoOp)
    <3>1. device' = d /\ op' = NoOp
      BY <2>1 DEF Start
    <3>2. Remains(device', d)
      BY <3>1, <1>7, Remaining
    <3>3. Ended
      BY <3>1, <3>2, <1>3, <1>5, <1>7, <1>16, Zenon DEF Ended, Remains
    <3> QED BY <3>3, <1>ends
  <2>2. CASE Start(d, Run("recover", <<"off">>))
    <3>1. device' = d /\ op' = Run("recover", <<"off">>)
      BY <2>2 DEF Start
    <3>2. Always' /\ AtRest'
      BY <3>1, <1>2, <1>3, <1>5, <1>7, <1>16, Zenon DEF Always, AtRest
    <3>3. Settled'
      BY <3>1, <3>2, <1>5, <1>7, <1>16, Recovers
    <3>4. <<"off">> \in Seq(Items)
      BY OffScript
    <3> QED BY <3>1, <3>3, <3>4, <1>7 DEF Run, Kinds
  <2> QED BY <2>1, <2>2, <1>16 DEF AfterTouch
<1> QED BY <1>1, <1>8, <1>9, <1>10, <1>11, <1>12, <1>13, <1>14, <1>15, <1>16, FailsAs, ZenonT(60)

-----------------------------------------------------------------------------
(* Mishaps *)

\* What a mishap leaves of the device, before the command in flight fails of it.
Hit(d) ==
    /\ d \in Devices
    /\ d.connection # "disconnected"
    /\ d.receipt = device.receipt
    /\ d.mode \in {device.mode, "idle"}
    /\ d.scheduler # "ok" /\ d.offAcknowledged => d.teardownAcknowledged
    /\ d.offAcknowledged => device.offAcknowledged
    /\ d.teardownAcknowledged => device.teardownAcknowledged /\ d.offAcknowledged

\* An output-off is only sent while there is no acknowledgement to tear down with.
LEMMA OffIsFirst ==
  ASSUME IInv, op.script # << >>, Head(op.script) # "close"
  PROVE  ~device.teardownAcknowledged
<1>1. op.kind # "none"
  BY NoOpIs, Zenon DEF IInv, ScriptOK
<1> QED BY <1>1, NoOpIs, CloseScript, Zenon DEF IInv, Silence

\* An output-off that is refused leaves no acknowledgement behind.
LEMMA Refuse ==
  ASSUME IInv, NEW d, Hit(d), op.script # << >>, Head(op.script) = "off"
  PROVE  Left(OffRefused(d)) /\ OffRefused(d).scheduler = d.scheduler
<1>1. ~d.teardownAcknowledged
  BY OffIsFirst DEF Hit
<1>2. /\ OffRefused(d) \in Devices
      /\ OffRefused(d).connection = "faulted"
      /\ OffRefused(d).receipt = d.receipt
      /\ OffRefused(d).mode = d.mode
      /\ OffRefused(d).scheduler = d.scheduler
      /\ ~OffRefused(d).offAcknowledged
      /\ OffRefused(d).teardownAcknowledged <=> d.teardownAcknowledged
  BY Zenon DEF Hit, OffRefused, Devices
<1> QED BY <1>1, <1>2, Zenon DEF Left, Hit

\* FailsSettles with the handler of a refused output-off in front.
LEMMA CommandFailsSettles ==
  ASSUME IInv, NEW d, Hit(d), op.script # << >>, op.sent, CommandFails(d),
         UNCHANGED <<session, bound, ghosts>>
  PROVE  Settled' /\ device'.scheduler = d.scheduler /\ device' \in Devices /\ op' \in Operations
<1>1. CASE Head(op.script) = "off"
  <2>1. InFlight({"off"})
    BY <1>1 DEF InFlight
  <2>2. Fails(OffRefused(d))
    BY <2>1, Zenon DEF CommandFails
  <2> QED BY <1>1, <2>2, Refuse, FailsSettles, Zenon DEF Operations
<1>2. CASE Head(op.script) # "off"
  <2>1. ~InFlight({"off"})
    BY <1>2 DEF InFlight
  <2>2. Fails(d)
    BY <2>1, Zenon DEF CommandFails
  <2>3. Left(d)
    BY <1>2, Zenon DEF Left, Hit
  <2> QED BY <2>2, <2>3, FailsSettles, Zenon DEF Operations
<1> QED BY <1>1, <1>2

\* What the mishaps do not touch keeps its type.
LEMMA TypeKept ==
  ASSUME DeviceTypeOK, UNCHANGED <<session, bound, ghosts>>
  PROVE  /\ session' \in {"none", "receiveOnly", "rf"}
         /\ bound' \in Measurements \cup {"none"}
         /\ panel' \in Modes \cup {"unknown"} /\ live' \in BOOLEAN
BY Zenon DEF DeviceTypeOK, ghosts

\* While an operation runs the device is not disconnected.
LEMMA Busy ==
  ASSUME IInv, op.script # << >>
  PROVE  /\ op # NoOp
         /\ op.kind # "none" /\ op.kind \in Kinds
         /\ device.connection # "disconnected"
<1>1. op.kind # "none" /\ op # NoOp
  BY NoOpIs, Zenon DEF IInv, ScriptOK
<1> QED BY <1>1, Zenon DEF IInv, Owned, DeviceTypeOK

\* A refused command leaves the device as it was.
LEMMA HitAnyway ==
  ASSUME IInv, device.connection # "disconnected"
  PROVE  Hit(device)
BY Zenon DEF IInv, Hit, DeviceTypeOK, Channel, Silence

\* SettingRefused, IdentityRejected, ReadbackRejected, ProbeRejected,
\* ScanRejected and PortCallRejects: every answer a caller does not accept.
LEMMA RefusedKeeps ==
  ASSUME IInv, NEW items, Refused(items)
  PROVE  IInv'
<1>1. /\ op.script # << >> /\ op.sent
      /\ CommandFails(device)
      /\ UNCHANGED <<session, bound, ghosts>>
      /\ UNCHANGED <<port, stale, firmware>>
      /\ mishaps < MaxMishaps /\ mishaps' = mishaps + 1
  BY DEF Refused, InFlight, Mishap, driver
<1>2. Hit(device)
  BY <1>1, Busy, HitAnyway
<1>3. Settled' /\ device'.scheduler = device.scheduler /\ device' \in Devices /\ op' \in Operations
  BY <1>1, <1>2, CommandFailsSettles
<1>4. mishaps' \in 0..MaxMishaps
  BY <1>1, MishapAssumption, SMT DEF IInv, DeviceTypeOK
<1>5. DeviceTypeOK'
  BY <1>1, <1>3, <1>4, Zenon DEF IInv, DeviceTypeOK, Operations, Items, ghosts
<1> QED BY <1>3, <1>5 DEF IInv, Settled

\* A mishap the operation under way does not hear of at once.
LEMMA Lingers ==
  ASSUME IInv, Hit(device'), op' = op, UNCHANGED <<session, bound, ghosts>>,
         device'.connection = "faulted",
         InFlight(Commands) => device'.scheduler = "ok",
         InFlight({"shut"}) => device'.scheduler = "none",
         op.kind = "acquire" => device'.mode = device.mode
  PROVE  Settled'
<1>1. /\ session' = session /\ bound' = bound /\ panel' = panel /\ live' = live
  BY DEF ghosts
<1>2. ScriptOK'
  BY Zenon DEF IInv, ScriptOK
<1>3. Channel'
  BY Zenon DEF IInv, Channel, InFlight, Hit
<1>4. Silence'
  BY <1>1, Zenon DEF IInv, Silence, InFlight, Hit
<1>5. Owned'
  BY <1>1, Zenon DEF IInv, Owned
<1>6. bound # "idle"
  BY IdleIsUnbound DEF IInv
<1>7. Bound'
  BY <1>1, <1>6, Zenon DEF IInv, Bound, Hit
<1> QED BY <1>2, <1>3, <1>4, <1>5, <1>7 DEF Settled

\* The scheduler loses its protocol.
LEMMA SchedulerFaultsKeeps ==
  ASSUME IInv, SchedulerFaults
  PROVE  IInv'
<1> DEFINE d == [Faulted(device) EXCEPT !.scheduler = "faulted"]
<1>1. /\ device.scheduler = "ok"
      /\ UNCHANGED <<session, bound, ghosts>>
      /\ UNCHANGED <<port, stale, firmware>>
      /\ mishaps < MaxMishaps /\ mishaps' = mishaps + 1
  BY DEF SchedulerFaults, Mishap, driver
<1>2. device \in Devices /\ device.connection # "disconnected"
  BY <1>1, Zenon DEF IInv, DeviceTypeOK, Owned
<1>3. /\ d \in Devices
      /\ d.connection = "faulted" /\ d.scheduler = "faulted"
      /\ d.receipt = device.receipt /\ d.mode = device.mode
      /\ ~d.offAcknowledged /\ ~d.teardownAcknowledged
  BY <1>2, Zenon DEF Faulted, Devices
<1>4. Hit(d)
  BY <1>3, Zenon DEF Hit
<1>5. Settled' /\ device'.scheduler = "faulted" /\ device' \in Devices /\ op' \in Operations
  <2>1. CASE InFlight(Commands) /\ CommandFails(d)
    <3>1. op.script # << >> /\ op.sent
      BY <2>1 DEF InFlight
    <3> QED BY <1>1, <1>3, <1>4, <2>1, <3>1, CommandFailsSettles
  <2>2. CASE ~InFlight(Commands) /\ Start(d, op)
    <3>1. device' = d /\ op' = op
      BY <2>2 DEF Start
    <3>2. ~InFlight({"shut"})
      BY <1>1, Zenon DEF IInv, Channel
    <3>3. Settled'
      BY <1>1, <1>3, <1>4, <2>2, <3>1, <3>2, Lingers, Zenon
    <3> QED BY <1>3, <3>1, <3>3, Zenon DEF IInv, DeviceTypeOK, Operations, Items
  <2> QED BY <2>1, <2>2, Zenon DEF SchedulerFaults
<1>6. mishaps' \in 0..MaxMishaps
  BY <1>1, MishapAssumption, SMT DEF IInv, DeviceTypeOK
<1>7. port
  BY <1>1, Zenon DEF IInv, DeviceTypeOK
<1>8. DeviceTypeOK'
  BY <1>1, <1>5, <1>6, <1>7, Zenon DEF IInv, DeviceTypeOK, Operations, Items, ghosts
<1> QED BY <1>5, <1>8 DEF IInv, Settled

\* The port reports an error or is gone.
LEMMA PortEventKeeps ==
  ASSUME IInv, PortEvent
  PROVE  IInv'
<1> DEFINE d == PortLost(device)
<1>1. /\ Waiting
      /\ device.connection # "disconnected"
      /\ UNCHANGED <<session, bound, ghosts>>
      /\ UNCHANGED firmware
      /\ port' \in {port, FALSE} /\ stale' \in {stale, TRUE}
      /\ mishaps < MaxMishaps /\ mishaps' = mishaps + 1
  BY DEF PortEvent, Mishap, driver
<1>2. device \in Devices
  BY DEF IInv, DeviceTypeOK
<1>3. /\ d \in Devices
      /\ d.connection = "faulted" /\ d.scheduler = "none"
      /\ d.receipt = device.receipt /\ d.mode = "idle"
      /\ d.offAcknowledged <=> device.offAcknowledged /\ device.teardownAcknowledged
      /\ d.teardownAcknowledged <=> device.teardownAcknowledged
  BY <1>2, ZenonT(60) DEF PortLost, Devices, Modes, Measurements
<1>4. Hit(d)
  BY <1>3, Zenon DEF Hit, IInv, Silence
<1>5. Settled' /\ device'.scheduler = "none" /\ device' \in Devices /\ op' \in Operations
  <2>1. CASE InFlight(Commands) /\ CommandFails(d)
    <3>1. op.script # << >> /\ op.sent
      BY <2>1 DEF InFlight
    <3> QED BY <1>1, <1>3, <1>4, <2>1, <3>1, CommandFailsSettles
  <2>2. CASE ~InFlight(Commands) /\ Start(d, op)
    <3>1. device' = d /\ op' = op
      BY <2>2 DEF Start
    <3>2. op.kind # "acquire"
      <4>1. ASSUME op.script # << >>, op.kind = "acquire"
            PROVE  Head(op.script) \in Commands
        <5>1. Fits(op.kind, Head(op.script)) /\ Head(op.script) \in Items
          BY <4>1, Starts, SMT DEF IInv, ScriptOK
        <5> QED BY <4>1, <5>1, Zenon DEF Fits, Items, PortCalls
      <4> QED BY <1>1, <2>2, <4>1, NoOpIs, Zenon DEF Waiting, InFlight, IInv, ScriptOK
    <3>3. Settled'
      BY <1>1, <1>3, <1>4, <2>2, <3>1, <3>2, Lingers, Zenon
    <3> QED BY <1>3, <3>1, <3>3, Zenon DEF IInv, DeviceTypeOK, Operations, Items
  <2> QED BY <2>1, <2>2, Zenon DEF PortEvent
<1>6. mishaps' \in 0..MaxMishaps
  BY <1>1, MishapAssumption, SMT DEF IInv, DeviceTypeOK
<1>7. DeviceTypeOK'
  BY <1>1, <1>5, <1>6, Zenon DEF IInv, DeviceTypeOK, Operations, Items, ghosts
<1> QED BY <1>5, <1>7 DEF IInv, Settled

\* A write that was given up fails later.
LEMMA LateWriteFailsKeeps ==
  ASSUME IInv, LateWriteFails
  PROVE  IInv'
<1>1. /\ device' = Faulted(device) /\ op' = op /\ stale' = FALSE
      /\ UNCHANGED <<session, bound, ghosts>>
      /\ UNCHANGED <<port, firmware, mishaps>>
  BY DEF LateWriteFails, Start, driver
<1>2. CASE device.connection = "disconnected"
  <2>1. device' = device
    BY <1>1, <1>2 DEF Faulted
  <2>2. DeviceTypeOK'
    BY <1>1, <2>1, TypeKept, Zenon DEF IInv, DeviceTypeOK
  <2>3. session' = session /\ bound' = bound /\ panel' = panel /\ live' = live /\ port' = port
    BY <1>1 DEF ghosts
  <2>4. ScriptOK' /\ Channel' /\ Silence'
    BY <1>1, <2>1, <2>3, ZenonT(60) DEF IInv, ScriptOK, Channel, Silence, InFlight
  <2>5. Owned'
    BY <1>1, <2>1, <2>3, SMT DEF IInv, Owned
  <2>6. Bound'
    BY <1>1, <2>1, <2>3, SMT DEF IInv, Bound
  <2> QED BY <2>2, <2>4, <2>5, <2>6 DEF IInv
<1>3. CASE device.connection # "disconnected"
  <2>1. device \in Devices
    BY DEF IInv, DeviceTypeOK
  <2>2. /\ device' \in Devices
        /\ device'.connection = "faulted" /\ device'.scheduler = device.scheduler
        /\ device'.receipt = device.receipt /\ device'.mode = device.mode
        /\ ~device'.offAcknowledged /\ ~device'.teardownAcknowledged
    BY <1>1, <1>3, <2>1, Zenon DEF Faulted, Devices
  <2>3. Hit(device')
    BY <2>2, Zenon DEF Hit
  <2>4. Settled'
    BY <1>1, <2>2, <2>3, Lingers, Zenon DEF IInv, Channel
  <2>5. DeviceTypeOK'
    BY <1>1, <2>2, TypeKept, Zenon DEF IInv, DeviceTypeOK
  <2> QED BY <2>4, <2>5 DEF IInv, Settled
<1> QED BY <1>2, <1>3

-----------------------------------------------------------------------------
(* Execution: a command is sent, its answer comes *)

\* The head of the script is sent, or refused by a scheduler that is not ready.
LEMMA TransmitKeeps ==
  ASSUME IInv, Transmit
  PROVE  IInv'
<1> DEFINE item == Head(op.script)
           d == IF item = "off" THEN [device EXCEPT !.offAcknowledged = FALSE]
                ELSE IF item = "shut" THEN [device EXCEPT !.scheduler = "none"]
                ELSE device
           sent == [op EXCEPT !.sent = TRUE]
<1>1. /\ op.script # << >> /\ ~op.sent
      /\ UNCHANGED <<session, bound>>
      /\ UNCHANGED <<port, stale, firmware, mishaps>>
  BY DEF Transmit, driver
<1>2. /\ op # NoOp /\ op.kind # "none" /\ op.kind \in Kinds
      /\ device.connection # "disconnected"
  BY <1>1, Busy
<1>3. /\ item = op.script[1] /\ item \in Items
      /\ Len(op.script) \in Nat /\ Len(op.script) >= 1
  BY <1>1, Starts DEF IInv
<1>4. Fits(op.kind, item)
  BY <1>3, SMT DEF IInv, ScriptOK
<1>5. device \in Devices /\ op \in Operations
  BY Zenon DEF IInv, DeviceTypeOK, Operations, Items
<1>6. /\ d \in Devices
      /\ d.connection = device.connection
      /\ d.scheduler = IF item = "shut" THEN "none" ELSE device.scheduler
      /\ d.receipt = device.receipt /\ d.mode = device.mode
      /\ d.offAcknowledged <=> device.offAcknowledged /\ item # "off"
      /\ d.teardownAcknowledged <=> device.teardownAcknowledged
  BY <1>5, Zenon DEF Devices
<1>7. item # "close" => ~device.teardownAcknowledged
  BY <1>1, OffIsFirst
<1>8. CASE /\ item \in PortCalls \/ Accepted(item)
           /\ Start(d, sent)
           /\ live' = (live \/ item \in Emitting)
           /\ panel' = IF item \in Retuning THEN "unknown" ELSE panel
  <2>1. device' = d /\ op' = sent
    BY <1>8 DEF Start
  <2>2. /\ op' \in Operations
        /\ op'.kind = op.kind /\ op'.script = op.script /\ op'.sent
        /\ op'.attested <=> op.attested
        /\ op' # NoOp
    BY <1>2, <1>5, <2>1, NoOpIs, Zenon DEF Operations
  <2>3. DeviceTypeOK'
    <3>1. panel' \in Modes \cup {"unknown"} /\ live' \in BOOLEAN
      BY <1>8, Zenon DEF IInv, DeviceTypeOK
    <3> QED BY <1>1, <1>6, <2>1, <2>2, <3>1, Zenon DEF IInv, DeviceTypeOK, Operations, Items
  <2>4. ScriptOK'
    BY <1>2, <2>2, Zenon DEF IInv, ScriptOK
  <2>5. Channel'
    <3>1. item \in Commands => device.scheduler = "ok"
      BY <1>8, Zenon DEF Accepted, Ready, Commands, PortCalls
    <3>2. item \in Commands => item # "shut"
      BY DEF Commands
    <3>3. device'.scheduler # "ok" /\ device'.offAcknowledged => device'.teardownAcknowledged
      <4>1. CASE item = "shut"
        <5>1. op.kind = "disconnect" /\ Len(op.script) = 4
          BY <1>4, <4>1, TeardownScripts, Zenon DEF Fits, IInv, ScriptOK
        <5>2. ~device.offAcknowledged
          BY <5>1, SMT DEF IInv, Silence
        <5> QED BY <2>1, <1>6, <5>2
      <4>2. CASE item # "shut"
        BY <2>1, <1>6, <4>2, Zenon DEF IInv, Channel
      <4> QED BY <4>1, <4>2
    <3> QED BY <2>1, <2>2, <1>6, <3>1, <3>2, <3>3, Zenon DEF Channel, InFlight
  <2>6. Silence'
    <3>1. item \in Emitting => Sheltered(op.script)
      <4>1. CASE item \in Emitting
        <5>1. op.kind \in {"connect", "on", "touch"}
          BY <1>4, <4>1, Zenon DEF Fits, Emitting
        <5>2. \A i \in 1..Len(op.script) : op.script[i] \notin {"scan", "close"}
          BY <5>1, Zenon DEF IInv, ScriptOK, Fits
        <5> QED BY <5>2, Zenon DEF Sheltered
      <4> QED BY <4>1
    <3>2. live' => Sheltered(op'.script)
      BY <1>8, <2>2, <3>1, Zenon DEF IInv, Silence
    <3>3. device'.offAcknowledged /\ live' => item \in Emitting
      BY <1>1, <1>6, <1>8, <2>1, Zenon DEF IInv, Silence, InFlight
    <3>4. op.kind = "connect" /\ item = "open" => ~live' /\ ~device'.offAcknowledged
      BY <1>6, <1>8, <2>1, Zenon DEF IInv, Silence, Emitting
    <3>5. device'.teardownAcknowledged =>
            /\ device'.offAcknowledged
            /\ op'.kind = "disconnect" /\ op'.script = <<"close">>
      BY <1>2, <1>6, <1>7, <2>1, <2>2, Zenon DEF IInv, Silence
    <3> QED BY <1>1, <1>6, <2>1, <2>2, <3>2, <3>3, <3>4, <3>5, Zenon DEF IInv, Silence, InFlight
  <2>7. Owned'
    BY <1>1, <1>2, <1>6, <2>1, <2>2, Zenon DEF IInv, Owned
  <2>8. Bound'
    <3>1. item \in Retuning => bound = "none" \/ op.kind = "disconnect"
      <4>1. item \in Retuning => op.kind \in {"connect", "restore", "touch"} \cup Modes
        BY <1>4, Zenon DEF Fits, Retuning
      <4> QED BY <4>1, Zenon DEF IInv, Bound, Owned
    <3> QED BY <1>1, <1>6, <1>8, <2>1, <2>2, <3>1, Zenon DEF IInv, Bound
  <2> QED BY <2>3, <2>4, <2>5, <2>6, <2>7, <2>8 DEF IInv
<1>9. CASE /\ ~(item \in PortCalls \/ Accepted(item))
           /\ Fails(IF item = "off" THEN OffRefused(d) ELSE d)
           /\ UNCHANGED ghosts
  <2>1. item # "shut" /\ item # "close"
    BY <1>9 DEF PortCalls
  <2>2. Hit(d)
    <3>1. device.scheduler # "ok" /\ device.offAcknowledged => device.teardownAcknowledged
      BY DEF IInv, Channel
    <3> QED BY <1>2, <1>6, <1>7, <2>1, <3>1, Zenon DEF Hit
  <2>3. Settled' /\ device'.scheduler = d.scheduler /\ device' \in Devices /\ op' \in Operations
    <3>1. CASE item = "off"
      <4>1. Left(OffRefused(d)) /\ OffRefused(d).scheduler = d.scheduler
        BY <1>1, <2>2, <3>1, Refuse
      <4>2. Fails(OffRefused(d))
        BY <1>9, <3>1
      <4> HIDE DEF d
      <4> QED BY <1>1, <1>9, <4>1, <4>2, FailsSettles DEF Operations
    <3>2. CASE item # "off"
      <4>1. Fails(d)
        BY <1>9, <3>2
      <4>2. Left(d)
        BY <2>2, <3>2, Zenon DEF Hit, Left
      <4> HIDE DEF d
      <4> QED BY <1>1, <1>9, <4>1, <4>2, FailsSettles DEF Operations
    <3> QED BY <3>1, <3>2
  <2>4. device'.scheduler = device.scheduler
    BY <1>6, <2>1, <2>3
  <2>5. DeviceTypeOK'
    BY <1>1, <1>9, <2>3, <2>4, TypeKept, Zenon DEF IInv, DeviceTypeOK, Operations, Items
  <2> QED BY <2>3, <2>5 DEF IInv, Settled
<1> QED BY <1>8, <1>9 DEF Transmit

\* A receipt is never lost, and that of an acquisition is its own.
LEMMA ReceiptIs ==
  ASSUME DeviceTypeOK
  PROVE  /\ Receipt \in Receipts
         /\ device.receipt # "none" => Receipt # "none"
         /\ op.kind = "connect" => Receipt # "none"
         /\ op.kind = "acquire" /\ device.receipt # "none" => Receipt = "acquisition"
<1>1. Reason \in Receipts /\ Reason # "none"
  BY Zenon DEF Reason, Receipts
<1>2. op.kind = "connect" /\ device.receipt = "none" => Reason = "first"
  BY Zenon DEF Reason
<1>3. op.kind = "acquire" => Reason = "acquisition"
  BY Zenon DEF Reason
<1> QED BY <1>1, <1>2, <1>3, Zenon DEF Receipt, Receipts

\* An acknowledgement touches only the fields it is about.
LEMMA AcknowledgedIs ==
  ASSUME DeviceTypeOK, NEW item
  PROVE  /\ Acknowledged(item) \in Devices
         /\ item # "open" => /\ Acknowledged(item).scheduler = device.scheduler
                             /\ Acknowledged(item).connection = device.connection
         /\ item = "open" => /\ Acknowledged(item).scheduler = "ok"
                             /\ Acknowledged(item).connection \in {"identifying", device.connection}
         /\ Acknowledged(item).mode = device.mode
         /\ item = "off" =>
              /\ Acknowledged(item).offAcknowledged
              /\ Acknowledged(item).teardownAcknowledged
                   <=> device.teardownAcknowledged \/ op.kind = "disconnect"
              /\ Acknowledged(item).receipt = Receipt
         /\ item = "on" => /\ ~Acknowledged(item).offAcknowledged
                           /\ ~Acknowledged(item).teardownAcknowledged
         /\ item \notin {"off", "on"} =>
              /\ Acknowledged(item).offAcknowledged <=> device.offAcknowledged
              /\ Acknowledged(item).teardownAcknowledged <=> device.teardownAcknowledged
         /\ item # "off" => Acknowledged(item).receipt = device.receipt
<1>0. device \in Devices /\ Receipt \in Receipts
  BY ReceiptIs DEF DeviceTypeOK
<1>1. CASE item = "off"
  <2> DEFINE d == [device EXCEPT !.offAcknowledged = TRUE,
                                 !.teardownAcknowledged = @ \/ op.kind = "disconnect",
                                 !.receipt = Receipt]
  <2>1. Acknowledged(item) = d
    BY <1>1, Zenon DEF Acknowledged
  <2>2. /\ d \in Devices /\ d.scheduler = device.scheduler
        /\ d.connection = device.connection /\ d.mode = device.mode
        /\ d.offAcknowledged /\ d.receipt = Receipt
        /\ d.teardownAcknowledged <=> device.teardownAcknowledged \/ op.kind = "disconnect"
    BY <1>0, Zenon DEF Devices
  <2> QED BY <1>1, <2>1, <2>2
<1>2. CASE item = "on"
  <2> DEFINE d == [device EXCEPT !.offAcknowledged = FALSE, !.teardownAcknowledged = FALSE]
  <2>1. Acknowledged(item) = d
    BY <1>2, Zenon DEF Acknowledged
  <2>2. /\ d \in Devices /\ d.scheduler = device.scheduler
        /\ d.connection = device.connection /\ d.mode = device.mode
        /\ ~d.offAcknowledged /\ ~d.teardownAcknowledged /\ d.receipt = device.receipt
    BY <1>0, Zenon DEF Devices
  <2> QED BY <1>2, <2>1, <2>2
<1>3. CASE item = "open"
  <2> DEFINE d == [device EXCEPT !.scheduler = "ok",
                                 !.connection = IF op.kind = "connect" THEN "identifying" ELSE @]
  <2>1. Acknowledged(item) = d
    BY <1>3, Zenon DEF Acknowledged
  <2>2. /\ d \in Devices /\ d.scheduler = "ok" /\ d.mode = device.mode
        /\ d.connection \in {"identifying", device.connection}
        /\ d.offAcknowledged <=> device.offAcknowledged
        /\ d.teardownAcknowledged <=> device.teardownAcknowledged
        /\ d.receipt = device.receipt
    BY <1>0, Zenon DEF Devices
  <2> QED BY <1>3, <2>1, <2>2
<1>4. CASE item \notin {"off", "on", "open"}
  <2>1. Acknowledged(item) = device
    BY <1>4, Zenon DEF Acknowledged
  <2> QED BY <1>0, <1>4, <2>1
<1> QED BY <1>1, <1>2, <1>3, <1>4

\* What comes after the head of a script keeps its shape.
LEMMA Shifts ==
  ASSUME NEW s \in Seq(Items), s # << >>, Len(s) # 1
  PROVE  /\ Tail(s) # << >>
         /\ Sheltered(s) /\ Head(s) # "off" => Sheltered(Tail(s))
         /\ Restored(s) => Restored(Tail(s))
         /\ Restored(s) /\ Head(s) = "probe" => Head(Tail(s)) = "off"
         /\ Preceded(s, Len(s)) /\ Head(s) # "off" => Preceded(Tail(s), Len(Tail(s)))
         /\ Head(Tail(s)) = s[2]
<1>1. /\ Head(s) = s[1] /\ Len(s) \in Nat /\ Len(s) >= 1
      /\ Tail(s) \in Seq(Items) /\ Len(Tail(s)) = Len(s) - 1
      /\ \A i \in 1..(Len(s) - 1) : Tail(s)[i] = s[i + 1]
  BY Heads
<1>2. Len(s) >= 2
  BY <1>1, SMT
<1>3. Tail(s) # << >>
  <2>1. Len(Tail(s)) # 0
    BY <1>1, <1>2, SMT
  <2> QED BY <2>1, EmptySeq
<1>4. Head(Tail(s)) = s[2]
  BY <1>1, <1>2, <1>3, Heads, SMT
<1>5. ASSUME Sheltered(s), Head(s) # "off"
      PROVE  Sheltered(Tail(s))
  <2> SUFFICES ASSUME NEW i \in 1..Len(Tail(s)), Tail(s)[i] \in {"scan", "close"}
               PROVE  \E j \in 1..(i - 1) : Tail(s)[j] = "off"
    BY DEF Sheltered, Preceded
  <2>1. i + 1 \in 1..Len(s) /\ s[i + 1] \in {"scan", "close"}
    BY <1>1, SMT
  <2>2. PICK k \in 1..i : s[k] = "off"
    BY <1>5, <2>1, SMT DEF Sheltered, Preceded
  <2>3. k # 1
    BY <1>1, <1>5, <2>2
  <2>4. k - 1 \in 1..(i - 1) /\ k - 1 \in 1..(Len(s) - 1) /\ (k - 1) + 1 = k
    BY <1>1, <2>2, <2>3, SMT
  <2>5. Tail(s)[k - 1] = "off"
    BY <1>1, <2>2, <2>4, Zenon
  <2> QED BY <2>4, <2>5
<1>6. ASSUME Restored(s)
      PROVE  Restored(Tail(s))
  <2> SUFFICES ASSUME NEW i \in 1..Len(Tail(s)), Tail(s)[i] = "probe"
               PROVE  i < Len(Tail(s)) /\ Tail(s)[i + 1] = "off"
    BY DEF Restored
  <2>1. i + 1 \in 1..Len(s) /\ s[i + 1] = "probe"
    BY <1>1, SMT
  <2>2. i + 1 < Len(s) /\ s[(i + 1) + 1] = "off"
    BY <1>6, <2>1, Zenon DEF Restored
  <2> QED BY <1>1, <2>1, <2>2, SMT
<1>7. Restored(s) /\ Head(s) = "probe" => Head(Tail(s)) = "off"
  BY <1>1, <1>4, SMT DEF Restored
<1>8. ASSUME Preceded(s, Len(s)), Head(s) # "off"
      PROVE  Preceded(Tail(s), Len(Tail(s)))
  <2>1. PICK k \in 1..(Len(s) - 1) : s[k] = "off"
    BY <1>8, Zenon DEF Preceded
  <2>2. k # 1
    BY <1>1, <1>8, <2>1
  <2>3. k - 1 \in 1..(Len(Tail(s)) - 1) /\ k - 1 \in 1..(Len(s) - 1) /\ (k - 1) + 1 = k
    BY <1>1, <2>1, <2>2, SMT
  <2>4. Tail(s)[k - 1] = "off"
    BY <1>1, <2>1, <2>3, Zenon
  <2> QED BY <2>3, <2>4 DEF Preceded
<1> QED BY <1>3, <1>4, <1>5, <1>6, <1>7, <1>8

\* The script goes on.
LEMMA Continues ==
  ASSUME IInv, Answer, ~Last
  PROVE  IInv'
<1> DEFINE item == Head(op.script)
           d == Acknowledged(item)
<1>1. /\ op.script # << >> /\ op.sent
      /\ device' = d /\ op' = Behind(item)
      /\ port' = ((port \/ item = "open") /\ item \notin {"close", "shut"})
      /\ live' = ((live \/ item = "open") /\ item # "off")
      /\ panel' = IF item = "open" THEN "unknown" ELSE panel
      /\ session' = session /\ bound' = bound
      /\ UNCHANGED <<stale, firmware, mishaps>>
  <2>1. op.script # << >>
    BY NoOpIs, Zenon DEF Answer, IInv, ScriptOK
  <2> QED BY <2>1, Zenon DEF Answer, Start, SessionAfter, BoundAfter
<1>2. /\ op # NoOp /\ op.kind # "none" /\ op.kind \in Kinds
      /\ device.connection # "disconnected"
  BY <1>1, Busy
<1>3. /\ op.script \in Seq(Items)
      /\ item = op.script[1] /\ item \in Items
      /\ Len(op.script) \in Nat /\ Len(op.script) >= 2 /\ Len(op.script) # 1
      /\ Tail(op.script) \in Seq(Items) /\ Len(Tail(op.script)) = Len(op.script) - 1
      /\ \A i \in 1..(Len(op.script) - 1) : Tail(op.script)[i] = op.script[i + 1]
  <2>1. op.script \in Seq(Items)
    BY Zenon DEF IInv, DeviceTypeOK, Items
  <2>2. Len(op.script) # 1
    BY DEF Last
  <2>3. Len(op.script) >= 2
    <3>1. Len(op.script) \in Nat /\ Len(op.script) >= 1
      BY <1>1, Starts DEF IInv
    <3>2. \A n \in Nat : n >= 1 /\ n # 1 => n >= 2
      BY SMT
    <3> QED BY <2>2, <3>1, <3>2, Zenon
  <2> QED BY <1>1, <2>1, <2>2, <2>3, Starts DEF IInv
<1>4. Fits(op.kind, item)
  BY <1>3, SMT DEF IInv, ScriptOK
<1>5. /\ d \in Devices
      /\ item # "open" => /\ d.scheduler = device.scheduler
                          /\ d.connection = device.connection
      /\ item = "open" => /\ d.scheduler = "ok"
                          /\ d.connection \in {"identifying", device.connection}
      /\ d.mode = device.mode
      /\ item = "off" =>
           /\ d.offAcknowledged
           /\ d.teardownAcknowledged
                <=> device.teardownAcknowledged \/ op.kind = "disconnect"
           /\ d.receipt = Receipt
      /\ item = "on" => ~d.offAcknowledged /\ ~d.teardownAcknowledged
      /\ item \notin {"off", "on"} =>
           /\ d.offAcknowledged <=> device.offAcknowledged
           /\ d.teardownAcknowledged <=> device.teardownAcknowledged
      /\ item # "off" => d.receipt = device.receipt
  BY AcknowledgedIs DEF IInv
<1>6. /\ op' \in Operations
      /\ op'.kind = op.kind /\ op'.script = Tail(op.script) /\ ~op'.sent
      /\ op'.attested <=> op.attested \/ (item = "off" /\ Receipt # "none")
  <2>1. op \in Operations
    BY Zenon DEF IInv, DeviceTypeOK, Operations, Items
  <2> QED BY <1>1, <1>3, <2>1, Zenon DEF Behind, Operations
<1> HIDE DEF d
<1>7. /\ Tail(op.script) # << >>
      /\ Sheltered(op.script) /\ item # "off" => Sheltered(Tail(op.script))
      /\ Restored(Tail(op.script))
      /\ item = "probe" => Head(Tail(op.script)) = "off"
      /\ Preceded(op.script, Len(op.script)) /\ item # "off"
           => Preceded(Tail(op.script), Len(Tail(op.script)))
      /\ Head(Tail(op.script)) = op.script[2]
  BY <1>1, <1>3, Shifts, Zenon DEF IInv, ScriptOK
<1>8. op.kind = "disconnect" =>
        /\ op.script \in Teardowns /\ Tail(op.script) \in Teardowns
        /\ op.script # <<"close">>
        /\ Len(op.script) \in 1..4
        /\ item = "off" => Tail(op.script) = <<"close">>
        /\ item = "shut" => Len(op.script) = 4
        /\ item = "open" => Len(op.script) = 3
  <2>1. op.kind = "disconnect" => op.script \in Teardowns /\ op.script # <<"close">>
    BY <1>3, CloseScript, Zenon DEF IInv, ScriptOK
  <2>2. op.script = <<"off", "close">> => Tail(op.script) = <<"close">>
    BY SMT
  <2> QED BY <2>1, <2>2, TeardownScripts
<1>9. item # "close" /\ ~device.teardownAcknowledged
  <2>1. op.kind # "abort"
    BY <1>3, CloseScript, Zenon DEF IInv, ScriptOK
  <2>2. item = "close" => op.kind = "disconnect" /\ op.script = <<"close">>
    BY <1>4, <1>8, <2>1, TeardownScripts, Zenon DEF Fits
  <2>3. item # "close"
    BY <1>8, <2>2
  <2> QED BY <1>1, <2>3, OffIsFirst
<1>10. DeviceTypeOK'
  <2>1. panel' \in Modes \cup {"unknown"} /\ live' \in BOOLEAN /\ port' \in BOOLEAN
    BY <1>1, Zenon DEF IInv, DeviceTypeOK
  <2>2. device'.scheduler # "none" => port'
    <3>1. CASE item = "shut"
      BY <1>1, <1>5, <3>1, Zenon DEF IInv, Channel, InFlight
    <3>2. CASE item # "shut"
      BY <1>1, <1>5, <1>9, <3>2, Zenon DEF IInv, DeviceTypeOK
    <3> QED BY <3>1, <3>2
  <2> QED BY <1>1, <1>5, <1>6, <2>1, <2>2, Zenon DEF IInv, DeviceTypeOK, Operations, Items
<1>11. ScriptOK'
  <2>1. \A i \in 1..Len(Tail(op.script)) : Fits(op.kind, Tail(op.script)[i])
    <3> SUFFICES ASSUME NEW i \in 1..Len(Tail(op.script))
                 PROVE  Fits(op.kind, Tail(op.script)[i])
      OBVIOUS
    <3>1. i + 1 \in 1..Len(op.script) /\ Tail(op.script)[i] = op.script[i + 1]
      BY <1>3, SMT
    <3> QED BY <3>1, Zenon DEF IInv, ScriptOK
  <2>2. op.kind = "connect" => \A i \in 2..Len(Tail(op.script)) : Tail(op.script)[i] # "open"
    BY <1>3, SMT DEF IInv, ScriptOK
  <2>3. op.kind # "abort"
    BY <1>3, CloseScript, Zenon DEF IInv, ScriptOK
  <2> QED BY <1>2, <1>6, <1>7, <1>8, <2>1, <2>2, <2>3, Zenon DEF ScriptOK
<1>12. Channel'
  <2>1. item \in {"off", "on"} => device.scheduler = "ok"
    BY <1>1, Zenon DEF IInv, Channel, InFlight, Commands
  <2>2. device'.scheduler # "ok" /\ device'.offAcknowledged => device'.teardownAcknowledged
    BY <1>1, <1>5, <2>1, Zenon DEF IInv, Channel
  <2> QED BY <1>6, <2>2, Zenon DEF Channel, InFlight
<1>13. Silence'
  <2>1. live' => Sheltered(Tail(op.script))
    <3>1. CASE item = "open"
      <4>1. CASE op.kind = "connect"
        <5>1. \A i \in 1..Len(op'.script) : op'.script[i] \notin {"scan", "close"}
          BY <4>1, <1>6, <1>11, Zenon DEF ScriptOK, Fits
        <5> QED BY <1>6, <5>1, Zenon DEF Sheltered
      <4>2. CASE op.kind = "disconnect"
        <5>1. Tail(op.script) # <<"close">>
          <6>1. Len(Tail(op.script)) # 1
            <7>1. Len(op.script) = 3 /\ Len(Tail(op.script)) = Len(op.script) - 1
              BY <1>3, <1>8, <3>1, <4>2
            <7> QED BY <7>1, SMT
          <6> QED BY <6>1, CloseScript
        <5> QED BY <1>8, <4>2, <5>1, TeardownScripts
      <4> QED BY <1>4, <3>1, <4>1, <4>2, Zenon DEF Fits
    <3>2. CASE item # "open"
      BY <1>1, <1>7, <3>2, Zenon DEF IInv, Silence
    <3> QED BY <3>1, <3>2
  <2>2. device'.offAcknowledged /\ live' => Head(Tail(op.script)) = "off"
    <3>1. CASE item = "open"
      <4>1. ~device.offAcknowledged
        <5>1. op.kind = "disconnect" => Len(op.script) >= 3
          BY <1>8, <3>1, SMT
        <5> QED BY <1>4, <3>1, <5>1, Zenon DEF Fits, IInv, Silence
      <4> QED BY <1>1, <1>5, <3>1, <4>1, Zenon
    <3>2. CASE item # "open"
      <4>1. live' => live /\ item # "off"
        BY <1>1, <3>2
      <4>2. device.offAcknowledged /\ live => item \in Emitting
        BY <1>1, Zenon DEF IInv, Silence, InFlight
      <4>3. item = "touch" => ~device.offAcknowledged
        BY <1>4, Zenon DEF Fits, IInv, Silence
      <4> QED BY <1>1, <1>5, <1>7, <4>1, <4>2, <4>3, Zenon DEF Emitting
    <3> QED BY <3>1, <3>2
  <2>3. op.kind = "touch" => ~device'.offAcknowledged
    BY <1>1, <1>4, <1>5, Zenon DEF Fits, IInv, Silence
  <2>4. op.kind = "disconnect" /\ Len(Tail(op.script)) >= 3 => ~device'.offAcknowledged
    <3>1. op.kind = "disconnect" /\ Len(Tail(op.script)) >= 3 => Len(op.script) = 4
      <4>1. Len(Tail(op.script)) = Len(op.script) - 1
        BY <1>3
      <4>2. op.kind = "disconnect" => Len(op.script) \in 1..4
        BY <1>8
      <4>3. \A n \in 1..4 : n - 1 >= 3 => n = 4
        BY SMT
      <4> QED BY <4>1, <4>2, <4>3, Zenon
    <3>2. op.kind = "disconnect" /\ Len(op.script) = 4 => item = "shut"
      <4>1. op.script \in Teardowns /\ Len(op.script) = 4 => op.script[1] = "shut"
        BY SMT DEF Teardowns
      <4> QED BY <1>3, <1>8, <4>1
    <3>3. op.kind = "disconnect" /\ Len(op.script) = 4 => ~device.offAcknowledged
      BY SMT DEF IInv, Silence
    <3> QED BY <1>1, <1>5, <3>1, <3>2, <3>3, Zenon
  <2>5. op.kind = "connect" => Head(Tail(op.script)) # "open"
    BY <1>3, <1>7, SMT DEF IInv, ScriptOK
  <2>6. device'.teardownAcknowledged =>
          /\ device'.offAcknowledged
          /\ op.kind = "disconnect" /\ Tail(op.script) = <<"close">>
    BY <1>1, <1>5, <1>8, <1>9, Zenon
  <2> QED BY <1>6, <1>7, <2>1, <2>2, <2>3, <2>4, <2>5, <2>6, Zenon DEF Silence
<1>14. Owned'
  <2>1. device'.connection # "disconnected"
    BY <1>1, <1>2, <1>5, Zenon
  <2> QED BY <1>1, <1>6, <2>1, Zenon DEF IInv, Owned
<1>15. Bound'
  <2>1. item = "open" => bound = "none" \/ op.kind = "disconnect"
    BY <1>4, Zenon DEF Fits, IInv, Owned
  <2>2. /\ device.receipt # "none" => Receipt # "none"
        /\ op.kind = "connect" => Receipt # "none"
        /\ op.kind = "acquire" /\ device.receipt # "none" => Receipt = "acquisition"
    BY ReceiptIs DEF IInv
  <2>3. device.receipt # "none" => device'.receipt # "none"
    BY <1>1, <1>5, <2>2, Zenon
  <2>4. op.kind = "connect" =>
          device'.receipt # "none" \/ Preceded(Tail(op.script), Len(Tail(op.script)))
    BY <1>1, <1>5, <1>7, <2>2, Zenon DEF IInv, Bound
  <2>5. op.kind = "acquire" =>
          /\ session # "none"
          /\ (op'.attested /\ device'.receipt = "acquisition") \/ Sheltered(Tail(op.script))
    BY <1>1, <1>5, <1>6, <1>7, <2>2, Zenon DEF IInv, Bound
  <2>6. op.kind # "disconnect" /\ bound # "none" /\ device'.mode = bound => panel' = bound
    BY <1>1, <1>5, <2>1, Zenon DEF IInv, Bound
  <2> QED BY <1>1, <1>5, <1>6, <2>3, <2>4, <2>5, <2>6, Zenon DEF IInv, Bound
<1> QED BY <1>10, <1>11, <1>12, <1>13, <1>14, <1>15 DEF IInv

\* The cases of Completes, one for each kind of operation.
LEMMA CompletesAs ==
  ASSUME NEW d, Completes(d), op.kind \in Kinds, op.kind # "none"
  PROVE  \/ op.kind = "connect"
            /\ Return([d EXCEPT !.connection = "ready", !.mode = "idle", !.output = "off"])
         \/ op.kind = "restore" /\ ConnectFails(d)
         \/ op.kind = "silence" /\ BeginTeardown([d EXCEPT !.output = "off"])
         \/ op.kind \in {"abort", "disconnect"} /\ Return(Disconnected)
         \/ op.kind \in Modes
            /\ Return([d EXCEPT !.connection = "ready", !.mode = op.kind, !.output = "off"])
         \/ op.kind \in {"on", "off"} /\ Return([d EXCEPT !.output = op.kind])
         \/ op.kind = "recover" /\ Return([d EXCEPT !.output = "off"])
         \/ op.kind = "acquire"
            /\ Return([d EXCEPT !.output = IF d.mode = "zeroSpan" THEN "off" ELSE @])
         \/ op.kind = "inspect" /\ Return(d)
         \/ op.kind = "touch" /\ AfterTouch(d)
BY ZenonT(60) DEF Completes, Kinds, Modes, Measurements

\* The fields of a disconnected device.
LEMMA DisconnectedIs ==
  /\ Disconnected \in Devices
  /\ Disconnected.connection = "disconnected" /\ Disconnected.scheduler = "none"
  /\ ~Disconnected.offAcknowledged /\ ~Disconnected.teardownAcknowledged
  /\ Disconnected.mode = "idle" /\ Disconnected.receipt = "none"
BY Zenon DEF Disconnected, Devices, Modes, Measurements, Receipts

\* What a success leaves of the fields.
Success(e, d) ==
    /\ e \in Devices
    /\ e.scheduler = d.scheduler /\ e.receipt = d.receipt
    /\ e.connection # "disconnected"
    /\ e.offAcknowledged <=> d.offAcknowledged
    /\ e.teardownAcknowledged <=> d.teardownAcknowledged

\* The handlers of successful operations leave channel and acknowledgements
\* alone.
LEMMA Successes ==
  ASSUME NEW d \in Devices, d.connection # "disconnected",
         NEW mode \in Modes \cup {"idle"}, NEW output \in {"unknown", "off", "on"}
  PROVE  /\ Success(d, d)
         /\ Success([d EXCEPT !.output = output], d)
         /\ [d EXCEPT !.output = output].mode = d.mode
         /\ Success([d EXCEPT !.connection = "ready", !.mode = mode, !.output = output], d)
         /\ [d EXCEPT !.connection = "ready", !.mode = mode, !.output = output].mode = mode
         /\ Success(Retained(d), d)
         /\ Success([d EXCEPT !.connection = "disconnecting"], d)
<1>1. Success(d, d)
  BY DEF Success
<1>2. Success([d EXCEPT !.output = output], d) /\ [d EXCEPT !.output = output].mode = d.mode
  BY Zenon DEF Success, Devices
<1>3. /\ Success([d EXCEPT !.connection = "ready", !.mode = mode, !.output = output], d)
      /\ [d EXCEPT !.connection = "ready", !.mode = mode, !.output = output].mode = mode
  BY Zenon DEF Success, Devices
<1>4. Success(Retained(d), d)
  BY Zenon DEF Success, Retained, Devices, Modes, Measurements
<1>5. Success([d EXCEPT !.connection = "disconnecting"], d)
  BY Zenon DEF Success, Devices
<1> QED BY <1>1, <1>2, <1>3, <1>4, <1>5

\* The script is over.
LEMMA Finishes ==
  ASSUME IInv, Answer, Last
  PROVE  IInv'
<1> DEFINE item == Head(op.script)
           d == Acknowledged(item)
<1>1. /\ op.script # << >> /\ op.sent
      /\ Completes(d)
      /\ port' = ((port \/ item = "open") /\ item \notin {"close", "shut"})
      /\ live' = ((live \/ item = "open") /\ item # "off")
      /\ panel' = IF item = "open" THEN "unknown"
                  ELSE IF op.kind \in Modes THEN op.kind ELSE panel
      /\ IF op.kind = "connect" THEN session' \in {"none", Admitted}
         ELSE IF op.kind = "disconnect" THEN session' = "none" ELSE session' = session
      /\ bound' = IF op.kind \in Measurements THEN op.kind
                  ELSE IF op.kind = "disconnect" THEN "none" ELSE bound
      /\ UNCHANGED <<stale, firmware, mishaps>>
  <2>1. op.script # << >>
    BY NoOpIs, Zenon DEF Answer, IInv, ScriptOK
  <2> QED BY <2>1, Zenon DEF Answer, SessionAfter, Admissions, BoundAfter
<1>2. /\ op # NoOp /\ op.kind # "none" /\ op.kind \in Kinds
      /\ device.connection # "disconnected"
  BY <1>1, Busy
<1>3. item = op.script[1] /\ item \in Items /\ Len(op.script) = 1
  BY <1>1, Starts DEF IInv, Last
<1>4. Fits(op.kind, item) /\ item # "probe"
  BY <1>3, SMT DEF IInv, ScriptOK, Restored
<1>5. /\ d \in Devices
      /\ item # "open" => /\ d.scheduler = device.scheduler
                          /\ d.connection = device.connection
      /\ item = "open" => /\ d.scheduler = "ok"
                          /\ d.connection \in {"identifying", device.connection}
      /\ d.mode = device.mode
      /\ item = "off" =>
           /\ d.offAcknowledged
           /\ d.teardownAcknowledged
                <=> device.teardownAcknowledged \/ op.kind = "disconnect"
           /\ d.receipt = Receipt
      /\ item = "on" => ~d.offAcknowledged /\ ~d.teardownAcknowledged
      /\ item \notin {"off", "on"} =>
           /\ d.offAcknowledged <=> device.offAcknowledged
           /\ d.teardownAcknowledged <=> device.teardownAcknowledged
      /\ item # "off" => d.receipt = device.receipt
  BY AcknowledgedIs DEF IInv
<1> HIDE DEF d
<1>6. d.connection # "disconnected"
  BY <1>2, <1>5, Zenon
<1>7. op.kind # "disconnect" => ~d.teardownAcknowledged
  <2>1. op.kind # "disconnect" => ~device.teardownAcknowledged
    BY <1>2, Zenon DEF IInv, Silence
  <2> QED BY <1>5, <2>1, Zenon
<1>8. d.scheduler # "ok" /\ d.offAcknowledged => d.teardownAcknowledged
  <2>1. item \in {"off", "on"} => device.scheduler = "ok"
    BY <1>1, Zenon DEF IInv, Channel, InFlight, Commands
  <2> QED BY <1>5, <2>1, Zenon DEF IInv, Channel
<1>9. op.kind # "disconnect" /\ d.offAcknowledged => ~live'
  <2>1. device.offAcknowledged /\ live => item \in Emitting
    BY <1>1, Zenon DEF IInv, Silence, InFlight
  <2>2. item = "touch" => ~device.offAcknowledged
    BY <1>4, Zenon DEF Fits, IInv, Silence
  <2>3. op.kind # "disconnect" /\ item = "open" => ~device.offAcknowledged
    BY <1>4, Zenon DEF Fits, IInv, Silence
  <2> QED BY <1>1, <1>4, <1>5, <2>1, <2>2, <2>3, Zenon DEF Emitting
<1>10. op.kind # "disconnect" /\ session' # "none" => d.receipt # "none"
  <2>1. ~Preceded(op.script, Len(op.script))
    BY <1>3, SMT DEF Preceded
  <2>2. op.kind # "disconnect" /\ session' # "none" => device.receipt # "none"
    BY <1>1, <2>1, Zenon DEF IInv, Bound
  <2>3. device.receipt # "none" => Receipt # "none"
    BY ReceiptIs DEF IInv
  <2> QED BY <1>5, <2>2, <2>3, Zenon
<1>11. session' = "none" => bound' = "none"
  BY <1>1, Zenon DEF IInv, Owned, Modes, Measurements
<1>12. bound # "idle" /\ bound # "generator" /\ (bound # "none" => bound \in Measurements)
  BY IdleIsUnbound, Zenon DEF IInv, Measurements
<1>13. ASSUME op.kind \notin {"abort", "disconnect"}, Success(device', d)
       PROVE  Always' /\ ~device'.teardownAcknowledged /\ (device'.offAcknowledged => ~live')
  BY <1>7, <1>8, <1>9, <1>10, <1>11, <1>13, Zenon DEF Always, Success
<1>14. ASSUME op' \in Operations, device' \in Devices, device'.scheduler # "none" => port'
       PROVE  DeviceTypeOK'
  <2>1. /\ port' \in BOOLEAN /\ live' \in BOOLEAN
        /\ session' \in {"none", "receiveOnly", "rf"}
        /\ bound' \in Measurements \cup {"none"}
        /\ panel' \in Modes \cup {"unknown"}
    BY <1>1, Zenon DEF IInv, DeviceTypeOK, Admitted
  <2> QED BY <1>1, <1>14, <2>1, Zenon DEF IInv, DeviceTypeOK, Operations, Items
<1>15. op.kind \notin {"abort", "disconnect"} => (d.scheduler # "none" => port')
  BY <1>1, <1>4, <1>5, Zenon DEF Fits, IInv, DeviceTypeOK
<1>16. ASSUME op.kind \notin {"abort", "disconnect"}, Success(device', d), op' = NoOp,
              bound' # "none" /\ device'.mode = bound' => panel' = bound'
       PROVE  IInv'
  <2>1. Always' /\ AtRest'
    BY <1>13, <1>16, Zenon DEF AtRest
  <2>2. Settled'
    BY <1>16, <2>1, Rests
  <2>3. NoOp \in Operations
    BY EmptySeq DEF NoOp, Kinds, Operations
  <2>4. DeviceTypeOK'
    BY <1>14, <1>15, <1>16, <2>3, Zenon DEF Success
  <2> QED BY <2>2, <2>4 DEF IInv, Settled
<1>17. op.kind \notin {"connect", "disconnect"} \cup Modes => item # "open" /\ panel' = panel
  BY <1>1, <1>4, Zenon DEF Fits
<1>18. op.kind \notin {"connect", "restore", "abort", "disconnect"} \cup Modes =>
         (bound' # "none" /\ d.mode = bound' => panel' = bound')
  BY <1>1, <1>5, <1>17, Zenon DEF IInv, Bound, Modes, Measurements
<1>19. CASE op.kind = "connect" /\ Return([d EXCEPT !.connection = "ready", !.mode = "idle", !.output = "off"])
  <2> DEFINE e == [d EXCEPT !.connection = "ready", !.mode = "idle", !.output = "off"]
  <2>1. device' = e /\ op' = NoOp
    BY <1>19 DEF Return, Start
  <2>2. Success(e, d)
    BY <1>5, <1>6, Successes
  <2>3. bound' = "none"
    BY <1>1, <1>19, Zenon DEF IInv, Owned, Measurements
  <2> QED BY <1>16, <1>19, <2>1, <2>2, <2>3
<1>20. CASE op.kind = "restore" /\ ConnectFails(d)
  <2>1. session' = "none" /\ bound' = "none"
    BY <1>1, <1>11, <1>20, Zenon DEF IInv, Owned
  <2>2. CASE Start(d, Run("abort", <<"close">>)) /\ d.offAcknowledged
    <3>1. device' = d /\ op' = Run("abort", <<"close">>)
      BY <2>2 DEF Start
    <3>2. Success(device', d)
      BY <3>1, <1>5, <1>6, Successes
    <3>3. Always' /\ ~device'.teardownAcknowledged /\ ~live'
      BY <1>13, <1>20, <2>2, <3>1, <3>2
    <3>4. Settled'
      BY <1>6, <2>1, <3>1, <3>3, Aborts
    <3>5. op' \in Operations
      BY <3>1, CloseScript DEF Run, Kinds, Operations
    <3>6. DeviceTypeOK'
      BY <1>5, <1>14, <1>15, <1>20, <3>1, <3>5
    <3> QED BY <3>4, <3>6 DEF IInv, Settled
  <2>3. CASE Return(Retained(d))
    <3>1. device' = Retained(d) /\ op' = NoOp
      BY <2>3 DEF Return, Start
    <3>2. Success(device', d)
      BY <3>1, <1>5, <1>6, Successes
    <3> QED BY <1>16, <1>20, <2>1, <3>1, <3>2
  <2>4. ~InFlight({"open"})
    BY <1>4, <1>20, Zenon DEF Fits, InFlight
  <2> QED BY <1>20, <2>2, <2>3, <2>4 DEF ConnectFails
<1>21. CASE op.kind = "silence" /\ BeginTeardown([d EXCEPT !.output = "off"])
  <2> DEFINE e == [d EXCEPT !.output = "off"]
             f == [e EXCEPT !.connection = "disconnecting"]
  <2>1. item = "off" /\ ~live'
    BY <1>1, <1>4, <1>21, Zenon DEF Fits
  <2>2. Success(e, d)
    BY <1>5, <1>6, Successes
  <2>3. Success(f, e)
    BY <2>2, Successes, Zenon DEF Success
  <2>4. Success(f, d)
    BY <2>2, <2>3, Zenon DEF Success
  <2>5. d.scheduler = "ok" /\ ~d.teardownAcknowledged
    BY <1>1, <1>5, <1>7, <1>21, <2>1, Zenon DEF IInv, Channel, InFlight, Commands
  <2>6. e.scheduler = "ok" /\ ~e.teardownAcknowledged
    BY <2>2, <2>5, Zenon DEF Success
  <2> HIDE DEF e
  <2>7. device' = f /\ op' = Run("disconnect", <<"off", "close">>)
    BY <1>21, <2>6, Zenon DEF BeginTeardown, Start, e
  <2>8. Always' /\ ~device'.teardownAcknowledged
    BY <1>13, <1>21, <2>4, <2>7
  <2> DEFINE s == <<"off", "close">>
  <2>9. s \in Teardowns
    BY DEF Teardowns
  <2>10. s \in Seq(Items) /\ Len(s) = 2
    BY <2>9, TeardownScripts
  <2>11. Len(s) < 3
    BY <2>10, SMT
  <2>12. f.connection # "disconnected" /\ f \in Devices
    BY <2>3 DEF Success
  <2>13. op' = Run("disconnect", s)
    BY <2>7
  <2> HIDE DEF s
  <2>14. Settled'
    BY <2>1, <2>7, <2>8, <2>9, <2>11, <2>12, <2>13, TearsDown
  <2>15. op' \in Operations
    BY <2>10, <2>13 DEF Run, Kinds, Operations
  <2>16. device'.scheduler # "none" => port'
    BY <1>15, <1>21, <2>4, <2>7, Zenon DEF Success
  <2>17. DeviceTypeOK'
    BY <1>14, <2>7, <2>12, <2>15, <2>16, Zenon
  <2> QED BY <2>14, <2>17 DEF IInv, Settled
<1>22. CASE op.kind \in {"abort", "disconnect"} /\ Return(Disconnected)
  <2>1. device' = Disconnected /\ op' = NoOp
    BY <1>22 DEF Return, Start
  <2>2. item = "close"
    <3>1. CASE op.kind = "abort"
      BY <3>1, CloseScript, Zenon DEF IInv, ScriptOK
    <3>2. CASE op.kind = "disconnect"
      BY <1>3, <3>2, TeardownScripts, CloseScript, Zenon DEF IInv, ScriptOK
    <3> QED BY <1>22, <3>1, <3>2
  <2>3. ~live
    <3>1. ~Preceded(op.script, 1)
      BY SMT DEF Preceded
    <3>2. live => Preceded(op.script, 1)
      BY <1>3, <2>2, SMT DEF IInv, Silence, Sheltered
    <3> QED BY <3>1, <3>2
  <2>4. session' = "none" /\ bound' = "none"
    BY <1>1, <1>11, <1>22, Zenon DEF IInv, Owned
  <2>5. Always' /\ AtRest'
    BY <1>1, <2>1, <2>2, <2>3, <2>4, DisconnectedIs, Zenon DEF Always, AtRest
  <2>6. Settled'
    BY <2>1, <2>5, Rests
  <2>7. NoOp \in Operations
    BY EmptySeq DEF NoOp, Kinds, Operations
  <2>8. DeviceTypeOK'
    BY <1>14, <2>1, <2>7, DisconnectedIs
  <2> QED BY <2>6, <2>8 DEF IInv, Settled
<1>23. CASE op.kind \in Modes /\ Return([d EXCEPT !.connection = "ready", !.mode = op.kind, !.output = "off"])
  <2> DEFINE e == [d EXCEPT !.connection = "ready", !.mode = op.kind, !.output = "off"]
  <2>1. device' = e /\ op' = NoOp
    BY <1>23 DEF Return, Start
  <2>2. op.kind \in Modes \cup {"idle"} /\ op.kind \notin {"abort", "disconnect", "connect"}
    BY <1>23, Zenon DEF Modes, Measurements
  <2>3. Success(e, d) /\ e.mode = op.kind
    BY <1>5, <1>6, <2>2, Successes
  <2>4. bound' # "none" /\ e.mode = bound' => panel' = bound'
    <3>1. item # "open"
      BY <1>4, <2>2, Zenon DEF Fits
    <3> QED BY <1>1, <1>23, <2>3, <3>1
  <2> QED BY <1>16, <2>1, <2>2, <2>3, <2>4
<1>24. CASE op.kind \in {"on", "off"} /\ Return([d EXCEPT !.output = op.kind])
  <2> DEFINE e == [d EXCEPT !.output = op.kind]
  <2>1. device' = e /\ op' = NoOp
    BY <1>24 DEF Return, Start
  <2>2. op.kind \in {"unknown", "off", "on"} /\ op.kind \notin {"connect", "restore", "abort", "disconnect"} \cup Modes
    BY <1>24, Zenon DEF Modes, Measurements
  <2>3. Success(e, d) /\ e.mode = d.mode
    BY <1>5, <1>6, <2>2, Successes, ZenonT(60)
  <2> QED BY <1>16, <1>18, <2>1, <2>2, <2>3, Zenon
<1>25. CASE op.kind = "recover" /\ Return([d EXCEPT !.output = "off"])
  <2> DEFINE e == [d EXCEPT !.output = "off"]
  <2>1. device' = e /\ op' = NoOp
    BY <1>25 DEF Return, Start
  <2>2. op.kind \notin {"connect", "restore", "abort", "disconnect"} \cup Modes
    BY <1>25, Zenon DEF Modes, Measurements
  <2>3. Success(e, d) /\ e.mode = d.mode
    BY <1>5, <1>6, Successes
  <2> QED BY <1>16, <1>18, <2>1, <2>2, <2>3, Zenon
<1>26. CASE /\ op.kind = "acquire"
            /\ Return([d EXCEPT !.output = IF d.mode = "zeroSpan" THEN "off" ELSE @])
  <2> DEFINE e == [d EXCEPT !.output = IF d.mode = "zeroSpan" THEN "off" ELSE @]
  <2>1. device' = e /\ op' = NoOp
    BY <1>26 DEF Return, Start
  <2>2. op.kind \notin {"connect", "restore", "abort", "disconnect"} \cup Modes
    BY <1>26, Zenon DEF Modes, Measurements
  <2>3. Success(e, d) /\ e.mode = d.mode
    BY <1>5, <1>6, Zenon DEF Success, Devices
  <2> QED BY <1>16, <1>18, <2>1, <2>2, <2>3, Zenon
<1>27. CASE op.kind = "inspect" /\ Return(d)
  <2>1. device' = d /\ op' = NoOp
    BY <1>27 DEF Return, Start
  <2>2. op.kind \notin {"connect", "restore", "abort", "disconnect"} \cup Modes
    BY <1>27, Zenon DEF Modes, Measurements
  <2>3. Success(d, d)
    BY <1>5, <1>6, Successes
  <2> QED BY <1>16, <1>18, <2>1, <2>2, <2>3, Zenon
<1>28. CASE op.kind = "touch" /\ AfterTouch(d)
  <2>1. op.kind \notin {"connect", "restore", "abort", "disconnect"} \cup Modes
    BY <1>28, Zenon DEF Modes, Measurements
  <2>2. Success(d, d)
    BY <1>5, <1>6, Successes
  <2>3. CASE Start(d, NoOp)
    BY <1>16, <1>18, <2>1, <2>2, <2>3, Zenon DEF Start
  <2>4. CASE Start(d, Run("recover", <<"off">>))
    <3>1. device' = d /\ op' = Run("recover", <<"off">>)
      BY <2>4 DEF Start
    <3>2. Always' /\ ~device'.teardownAcknowledged /\ AtRest'
      BY <1>13, <1>18, <2>1, <2>2, <3>1, Zenon DEF AtRest
    <3>3. Settled'
      BY <1>6, <3>1, <3>2, Recovers
    <3>4. op' \in Operations
      BY <3>1, OffScript DEF Run, Kinds, Operations
    <3>5. DeviceTypeOK'
      BY <1>5, <1>14, <1>15, <2>1, <3>1, <3>4
    <3> QED BY <3>3, <3>5 DEF IInv, Settled
  <2> QED BY <1>28, <2>3, <2>4 DEF AfterTouch
<1> QED BY <1>1, <1>2, <1>19, <1>20, <1>21, <1>22, <1>23, <1>24, <1>25, <1>26, <1>27, <1>28, CompletesAs, ZenonT(60)

-----------------------------------------------------------------------------
(* Calls *)

\* What two scripts have in common, their concatenation has, and what the
\* first shelters stays sheltered.
LEMMA Concatenation ==
  ASSUME NEW a \in Seq(Items), NEW b \in Seq(Items), NEW kind
  PROVE  /\ a \o b \in Seq(Items)
         /\ a # << >> => a \o b # << >> /\ Head(a \o b) = Head(a)
         /\ Given(kind, a) /\ Given(kind, b) => Given(kind, a \o b)
         /\ Sheltered(a) /\ HasOff(a) => Sheltered(a \o b) /\ HasOff(a \o b)
         /\ HasOff(b) => HasOff(a \o b)
         /\ Restored(a) /\ Restored(b) => Restored(a \o b)
         /\ OpensFirst(a) /\ ~Opens(b) => OpensFirst(a \o b)
         /\ HasOff(a) /\ b # << >> => Preceded(a \o b, Len(a \o b))
<1> DEFINE s == a \o b
<1>1. /\ s \in Seq(Items) /\ Len(s) = Len(a) + Len(b)
      /\ \A i \in 1..(Len(a) + Len(b)) : s[i] = IF i <= Len(a) THEN a[i] ELSE b[i - Len(a)]
  BY ConcatProperties
<1>2. Len(a) \in Nat /\ Len(b) \in Nat
  BY LenProperties
<1>3. \A i \in 1..Len(a) : i \in 1..Len(s) /\ s[i] = a[i]
  BY <1>1, <1>2, SMT
<1>4. \A i \in 1..Len(b) : Len(a) + i \in 1..Len(s) /\ s[Len(a) + i] = b[i]
  BY <1>1, <1>2, SMT
<1>5. \A i \in 1..Len(s) : i \in 1..Len(a) \/ \E j \in 1..Len(b) : i = Len(a) + j
  <2> SUFFICES ASSUME NEW i \in 1..Len(s), i \notin 1..Len(a)
               PROVE  \E j \in 1..Len(b) : i = Len(a) + j
    OBVIOUS
  <2>1. i - Len(a) \in 1..Len(b) /\ i = Len(a) + (i - Len(a))
    BY <1>1, <1>2, SMT
  <2> QED BY <2>1
<1> HIDE DEF s
<1>6. a # << >> => Len(a) >= 1
  BY <1>2, EmptySeq, SMT
<1>7. b # << >> => Len(b) >= 1
  BY <1>2, EmptySeq, SMT
<1>8. a # << >> => s # << >> /\ Head(s) = Head(a)
  <2> SUFFICES ASSUME a # << >>
               PROVE  s # << >> /\ Head(s) = Head(a)
    OBVIOUS
  <2>1. 1 \in 1..Len(a)
    BY <1>2, <1>6, SMT
  <2>2. 1 \in 1..Len(s) /\ s[1] = a[1]
    BY <1>3, <2>1
  <2>3. Len(s) # 0
    BY <2>2, SMT
  <2>4. s # << >>
    BY <2>3, EmptySeq
  <2> QED BY <1>1, <2>2, <2>4, Heads
<1>9. Given(kind, a) /\ Given(kind, b) => Given(kind, s)
  BY <1>3, <1>4, <1>5, Zenon DEF Given
<1>10. HasOff(a) => HasOff(s)
  BY <1>3, Zenon DEF HasOff
<1>11. HasOff(b) => HasOff(s)
  BY <1>4, Zenon DEF HasOff
<1>12. ASSUME Sheltered(a), HasOff(a)
       PROVE  Sheltered(s)
  <2> SUFFICES ASSUME NEW i \in 1..Len(s), s[i] \in {"scan", "close"}
               PROVE  \E j \in 1..(i - 1) : s[j] = "off"
    BY DEF Sheltered, Preceded
  <2>1. CASE i \in 1..Len(a)
    <3>1. PICK j \in 1..(i - 1) : a[j] = "off"
      BY <1>3, <1>12, <2>1, Zenon DEF Sheltered, Preceded
    <3>2. j \in 1..Len(a)
      BY <1>2, <2>1, <3>1, SMT
    <3> QED BY <1>3, <3>1, <3>2
  <2>2. CASE \E k \in 1..Len(b) : i = Len(a) + k
    <3>1. PICK j \in 1..Len(a) : a[j] = "off"
      BY <1>12 DEF HasOff
    <3>2. j \in 1..(i - 1)
      BY <1>2, <2>2, <3>1, SMT
    <3> QED BY <1>3, <3>1, <3>2
  <2> QED BY <1>5, <2>1, <2>2
<1>13. ASSUME Restored(a), Restored(b)
       PROVE  Restored(s)
  <2> SUFFICES ASSUME NEW i \in 1..Len(s), s[i] = "probe"
               PROVE  i < Len(s) /\ s[i + 1] = "off"
    BY DEF Restored
  <2>1. CASE i \in 1..Len(a)
    <3>1. i < Len(a) /\ a[i + 1] = "off"
      BY <1>3, <1>13, <2>1, Zenon DEF Restored
    <3>2. i + 1 \in 1..Len(a) /\ i < Len(s)
      BY <1>1, <1>2, <2>1, <3>1, SMT
    <3> QED BY <1>3, <3>1, <3>2
  <2>2. CASE \E k \in 1..Len(b) : i = Len(a) + k
    <3>1. PICK k \in 1..Len(b) : i = Len(a) + k
      BY <2>2
    <3>2. k < Len(b) /\ b[k + 1] = "off"
      BY <1>4, <1>13, <3>1, Zenon DEF Restored
    <3>3. k + 1 \in 1..Len(b) /\ Len(a) + (k + 1) = i + 1 /\ i < Len(s)
      BY <1>1, <1>2, <3>1, <3>2, SMT
    <3> QED BY <1>4, <3>2, <3>3, Zenon
  <2> QED BY <1>5, <2>1, <2>2
<1>14. ASSUME OpensFirst(a), ~Opens(b)
       PROVE  OpensFirst(s)
  <2> SUFFICES ASSUME NEW i \in 2..Len(s)
               PROVE  s[i] # "open"
    BY DEF OpensFirst
  <2>1. i \in 1..Len(s)
    BY <1>1, <1>2, SMT
  <2>2. CASE i \in 1..Len(a)
    <3>1. i \in 2..Len(a)
      BY <1>2, <2>2, SMT
    <3> QED BY <1>3, <1>14, <2>2, <3>1, Zenon DEF OpensFirst
  <2>3. CASE \E k \in 1..Len(b) : i = Len(a) + k
    BY <1>4, <1>14, <2>3, Zenon DEF Opens
  <2> QED BY <1>5, <2>1, <2>2, <2>3
<1>15. ASSUME HasOff(a), b # << >>
       PROVE  Preceded(s, Len(s))
  <2>1. PICK j \in 1..Len(a) : a[j] = "off"
    BY <1>15 DEF HasOff
  <2>2. Len(b) >= 1
    BY <1>7, <1>15
  <2>3. j \in 1..(Len(s) - 1)
    BY <1>1, <1>2, <2>1, <2>2, SMT
  <2> QED BY <1>3, <2>1, <2>3 DEF Preceded
<1> QED BY <1>1, <1>8, <1>9, <1>10, <1>11, <1>12, <1>13, <1>14, <1>15 DEF s

\* The empty script asks for nothing.
LEMMA EmptyScript ==
  /\ << >> \in Seq(Items) /\ ~HasOff(<< >>) /\ ~Opens(<< >>)
  /\ Sheltered(<< >>) /\ Restored(<< >>)
  /\ \A kind \in Kinds : Given(kind, << >>)
<1>1. << >> \in Seq(Items) /\ Len(<< >>) = 0
  BY EmptySeq
<1>2. 1..0 = {}
  BY SMT
<1> QED BY <1>1, <1>2, Zenon DEF HasOff, Opens, Sheltered, Restored, Given

\* A script of one harmless command.
LEMMA OneItem ==
  ASSUME NEW item \in Items, item \notin {"scan", "close", "probe", "open"}
  PROVE  LET s == <<item>>
         IN /\ s \in Seq(Items) /\ s # << >> /\ Sheltered(s) /\ Restored(s) /\ ~Opens(s)
            /\ OpensFirst(s)
            /\ item = "off" => HasOff(s)
            /\ \A kind \in Kinds : Fits(kind, item) => Given(kind, s)
<1> DEFINE s == <<item>>
<1>1. s \in Seq(Items) /\ Len(s) = 1 /\ s[1] = item /\ s # << >>
  BY SMT
<1>2. \A i \in 1..Len(s) : s[i] = item
  BY <1>1, SMT
<1>3. 1 \in 1..Len(s) /\ 2..Len(s) = {}
  BY <1>1, SMT
<1> HIDE DEF s
<1>4. Sheltered(s) /\ Restored(s) /\ ~Opens(s) /\ OpensFirst(s)
  BY <1>2, <1>3, Zenon DEF Sheltered, Restored, Opens, OpensFirst
<1>5. item = "off" => HasOff(s)
  BY <1>2, <1>3, Zenon DEF HasOff
<1>6. \A kind \in Kinds : Fits(kind, item) => Given(kind, s)
  BY <1>2, Zenon DEF Given
<1> QED BY <1>1, <1>4, <1>5, <1>6 DEF s

\* A scheduler that stays keeps its port.
LEMMA PortStays ==
  ASSUME DeviceTypeOK, device'.scheduler = device.scheduler, port' = port
  PROVE  device'.scheduler # "none" => port'
<1>1. device.scheduler # "none" => port
  BY DEF DeviceTypeOK
<1> QED BY <1>1, Zenon

\* What a session starts while nothing else runs.
LEMMA Begins ==
  ASSUME IInv, op = NoOp, device.connection # "disconnected", ~device.teardownAcknowledged,
         NEW kind \in Modes \cup {"acquire", "on", "off", "silence", "inspect", "touch"},
         NEW s \in Seq(Items), s # << >>, Given(kind, s), Restored(s), Sheltered(s),
         op' = Run(kind, s),
         device' = IF kind \in Modes
                   THEN [device EXCEPT !.mode = "idle", !.output = "unknown"]
                   ELSE IF kind = "touch"
                   THEN [device EXCEPT !.offAcknowledged = FALSE, !.teardownAcknowledged = FALSE]
                   ELSE device,
         session # "none",
         UNCHANGED <<port, stale, firmware, session, ghosts, mishaps>>,
         bound' \in {bound, "none"},
         kind \in Modes \cup {"touch"} => bound' = "none",
         kind = "acquire" => bound' # "none" /\ device.mode = bound'
  PROVE  IInv'
<1>1. /\ session' = session /\ panel' = panel /\ live' = live /\ port' = port
  BY DEF ghosts
<1>2. device \in Devices
  BY DEF IInv, DeviceTypeOK
<1>3. /\ device' \in Devices
      /\ device'.scheduler = device.scheduler /\ device'.receipt = device.receipt
      /\ device'.connection = device.connection
      /\ device'.mode \in {"idle", device.mode}
      /\ kind \notin Modes => device'.mode = device.mode
      /\ device'.offAcknowledged <=> device.offAcknowledged /\ kind # "touch"
      /\ ~device'.teardownAcknowledged
  <2>1. CASE kind \in Modes
    <3> DEFINE e == [device EXCEPT !.mode = "idle", !.output = "unknown"]
    <3>1. device' = e
      BY <2>1
    <3>2. /\ e \in Devices
          /\ e.scheduler = device.scheduler /\ e.receipt = device.receipt
          /\ e.connection = device.connection
          /\ e.mode = "idle"
          /\ e.offAcknowledged <=> device.offAcknowledged
          /\ e.teardownAcknowledged <=> device.teardownAcknowledged
      BY <1>2, Zenon DEF Devices
    <3>3. kind # "touch"
      BY <2>1 DEF Modes, Measurements
    <3> QED BY <2>1, <3>1, <3>2, <3>3
  <2>2. CASE kind = "touch"
    <3> DEFINE e == [device EXCEPT !.offAcknowledged = FALSE, !.teardownAcknowledged = FALSE]
    <3>1. kind \notin Modes
      BY <2>2 DEF Modes, Measurements
    <3>2. device' = e
      BY <2>2, <3>1
    <3>3. /\ e \in Devices
          /\ e.scheduler = device.scheduler /\ e.receipt = device.receipt
          /\ e.connection = device.connection /\ e.mode = device.mode
          /\ ~e.offAcknowledged /\ ~e.teardownAcknowledged
      BY <1>2, Zenon DEF Devices
    <3> QED BY <2>2, <3>2, <3>3
  <2>3. CASE kind \notin Modes \cup {"touch"}
    BY <1>2, <2>3
  <2> QED BY <2>1, <2>2, <2>3
<1>4. /\ op'.kind = kind /\ op'.script = s /\ ~op'.sent
      /\ op' \in Operations
      /\ kind \in Kinds \ {"none", "connect", "restore", "abort", "disconnect"}
  <2>1. kind \in Kinds \ {"none", "connect", "restore", "abort", "disconnect"}
    BY DEF Kinds, Modes, Measurements
  <2>2. op'.kind = kind /\ op'.script = s /\ ~op'.sent
    BY DEF Run
  <2>3. op' \in Operations
    BY <2>1 DEF Run, Operations
  <2> QED BY <2>1, <2>2, <2>3
<1>5. device.offAcknowledged => ~live
  BY NoOpIs, Zenon DEF IInv, Silence, InFlight
<1>6. DeviceTypeOK'
  <2>1. bound' \in Measurements \cup {"none"} /\ stale' = stale /\ firmware' = firmware
        /\ mishaps' = mishaps
    BY Zenon DEF IInv, DeviceTypeOK
  <2>2. device'.scheduler # "none" => port'
    BY <1>1, <1>3, PortStays DEF IInv
  <2>3. /\ port' \in BOOLEAN /\ live' \in BOOLEAN /\ stale' \in BOOLEAN
        /\ firmware' \in Firmwares /\ session' \in {"none", "receiveOnly", "rf"}
        /\ panel' \in Modes \cup {"unknown"} /\ mishaps' \in 0..MaxMishaps
    BY <1>1, <2>1, Zenon DEF IInv, DeviceTypeOK
  <2>4. op' \in [kind : Kinds, script : Seq(Commands \cup PortCalls), sent : BOOLEAN, attested : BOOLEAN]
    BY <1>4 DEF Operations, Items
  <2> QED BY <1>3, <2>1, <2>2, <2>3, <2>4, Zenon DEF DeviceTypeOK
<1>7. ScriptOK'
  BY <1>4, Zenon DEF ScriptOK, Given
<1>8. Channel'
  BY <1>3, <1>4, Zenon DEF IInv, Channel, InFlight
<1>9. Silence'
  BY <1>1, <1>3, <1>4, <1>5, Zenon DEF Silence
<1>10. Owned'
  BY <1>1, <1>3, <1>4, Zenon DEF Owned
<1>11. Bound'
  <2>1. bound # "idle"
    BY IdleIsUnbound DEF IInv
  <2>2. bound' # "none" /\ device'.mode = bound' => panel' = bound'
    BY <1>1, <1>3, <2>1, NoOpIs, Zenon DEF IInv, Bound
  <2>3. kind = "acquire" => device'.mode = device.mode
    BY <1>3, Zenon DEF Modes, Measurements
  <2>4. device'.receipt # "none"
    BY <1>3, Zenon DEF IInv, Bound
  <2> QED BY <1>1, <1>4, <2>2, <2>3, <2>4, Zenon DEF Bound
<1> QED BY <1>6, <1>7, <1>8, <1>9, <1>10, <1>11 DEF IInv

\* Nothing the device is ready for starts between an acknowledged teardown and
\* its close.
LEMMA ReadyToStart ==
  ASSUME IInv, op = NoOp, Ready(device)
  PROVE  device.connection # "disconnected" /\ ~device.teardownAcknowledged
BY NoOpIs, Zenon DEF Ready, IInv, Silence

\* Every operation of a session begins as Begins says.
LEMMA OperationKeeps ==
  ASSUME IInv,
         NEW kind \in Modes \cup {"acquire", "on", "off", "inspect", "touch"},
         NEW s \in Seq(Items), s # << >>, Given(kind, s), Restored(s), Sheltered(s),
         Operation(kind, s),
         bound' \in {bound, "none"},
         kind \in Modes \cup {"touch"} => bound' = "none",
         kind = "acquire" => bound' # "none" /\ device.mode = bound'
  PROVE  IInv'
<1>1. /\ op = NoOp /\ session # "none" /\ Ready(device)
      /\ op' = Run(kind, s)
      /\ device' = IF kind \in Modes
                   THEN [device EXCEPT !.mode = "idle", !.output = "unknown"]
                   ELSE IF kind = "touch"
                   THEN [device EXCEPT !.offAcknowledged = FALSE, !.teardownAcknowledged = FALSE]
                   ELSE device
      /\ UNCHANGED <<port, stale, firmware, session, ghosts, mishaps>>
  BY DEF Operation, Start, Called
<1>2. device.connection # "disconnected" /\ ~device.teardownAcknowledged
  BY <1>1, ReadyToStart
<1> QED BY <1>1, <1>2, Begins

\* An operation that is refused only revokes the binding.
LEMMA RefusesKeeps ==
  ASSUME IInv, Refuses, ClearConfiguration
  PROVE  IInv'
<1>1. /\ device' = device /\ op' = op /\ op = NoOp /\ bound' = "none"
      /\ session' = session /\ panel' = panel /\ live' = live /\ port' = port
      /\ stale' = stale /\ firmware' = firmware /\ mishaps' = mishaps
  BY DEF Refuses, ClearConfiguration, Called, ghosts
<1>2. Always' /\ AtRest'
  BY <1>1, NoOpIs, Zenon DEF Always, AtRest, IInv, Channel, Silence, Owned, Bound, InFlight
<1>3. Settled'
  BY <1>1, <1>2, Rests
<1>4. DeviceTypeOK'
  BY <1>1, SMT DEF IInv, DeviceTypeOK
<1> QED BY <1>3, <1>4 DEF IInv, Settled

\* A script without dangerous moments.
LEMMA PlainScript ==
  ASSUME NEW kind, NEW s \in Seq(Items),
         \A i \in 1..Len(s) : s[i] \notin {"scan", "close", "probe"} /\ Fits(kind, s[i])
  PROVE  Given(kind, s) /\ Restored(s) /\ Sheltered(s)
BY Zenon DEF Given, Restored, Sheltered

\* The scripts of the three configurations.
LEMMA SettingScripts ==
  ASSUME NEW kind \in Modes, NEW s \in {AnalyzerSettings, ZeroSpanSettings, GeneratorSettings}
  PROVE  s \in Seq(Items) /\ s # << >> /\ Given(kind, s) /\ Restored(s) /\ Sheltered(s)
<1>1. s \in Seq(Items) /\ s # << >>
      /\ \A i \in 1..Len(s) : s[i] \in {"off", "mode", "readback"}
  <2>1. CASE s = <<"off", "mode", "readback">>
    BY <2>1, Recall
  <2>2. CASE s = <<"off", "mode", "off", "mode">>
    <3>1. Len(s) = 4 /\ s[1] = "off" /\ s[2] = "mode" /\ s[3] = "off" /\ s[4] = "mode"
          /\ s \in Seq(Items) /\ s # << >>
      BY <2>2, SMT DEF Items, Commands, PortCalls
    <3>2. \A i \in 1..4 : i = 1 \/ i = 2 \/ i = 3 \/ i = 4
      BY SMT
    <3> QED BY <3>1, <3>2, Zenon
  <2> QED BY <2>1, <2>2 DEF AnalyzerSettings, ZeroSpanSettings, GeneratorSettings
<1>2. \A item \in {"off", "mode", "readback"} :
        item \notin {"scan", "close", "probe"} /\ Fits(kind, item)
  BY Zenon DEF Fits, Modes, Measurements
<1>3. \A i \in 1..Len(s) : s[i] \notin {"scan", "close", "probe"} /\ Fits(kind, s[i])
  BY <1>1, <1>2, Zenon
<1> QED BY <1>1, <1>3, PlainScript

\* configure: analyzer, zero span and generator.
LEMMA ConfigureKeeps ==
  ASSUME IInv, ConfigureAnalyzer \/ ConfigureZeroSpan \/ ConfigureGenerator
  PROVE  IInv'
<1>1. PICK kind \in Modes, s \in {AnalyzerSettings, ZeroSpanSettings, GeneratorSettings} :
         Operation(kind, s) \/ Refuses
  BY Zenon DEF ConfigureAnalyzer, ConfigureZeroSpan, ConfigureGenerator, Modes, Measurements
<1>2. ClearConfiguration /\ bound' = "none"
  BY DEF ConfigureAnalyzer, ConfigureZeroSpan, ConfigureGenerator, ClearConfiguration
<1>3. kind # "acquire"
  BY DEF Modes, Measurements
<1>4. s \in Seq(Items) /\ s # << >> /\ Given(kind, s) /\ Restored(s) /\ Sheltered(s)
  BY SettingScripts
<1>5. CASE Operation(kind, s)
  BY <1>2, <1>3, <1>4, <1>5, OperationKeeps
<1> QED BY <1>1, <1>2, <1>5, RefusesKeeps

\* The scripts of one command.
LEMMA ShortScripts ==
  /\ \A kind \in {"off", "silence"} :
       /\ Given(kind, <<"off">>) /\ Restored(<<"off">>) /\ Sheltered(<<"off">>)
       /\ <<"off">> \in Seq(Items) /\ <<"off">> # << >>
  /\ Given("on", <<"on">>) /\ Restored(<<"on">>) /\ Sheltered(<<"on">>)
  /\ <<"on">> \in Seq(Items) /\ <<"on">> # << >>
  /\ Given("inspect", <<"identify">>) /\ Restored(<<"identify">>) /\ Sheltered(<<"identify">>)
  /\ <<"identify">> \in Seq(Items) /\ <<"identify">> # << >>
<1>1. /\ "off" \in Items /\ "on" \in Items /\ "identify" \in Items
      /\ "off" \in Kinds /\ "silence" \in Kinds /\ "on" \in Kinds /\ "inspect" \in Kinds
  BY DEF Items, Commands, PortCalls, Kinds
<1>2. \A kind \in {"off", "silence"} : Fits(kind, "off")
  BY Zenon DEF Fits
<1>3. Fits("on", "on") /\ Fits("inspect", "identify")
  BY Zenon DEF Fits
<1> QED BY <1>1, <1>2, <1>3, OneItem

\* The scripts of the same command twice.
LEMMA PairScripts ==
  ASSUME NEW kind, NEW item, <<kind, item>> \in {<<"inspect", "readback">>, <<"touch", "touch">>}
  PROVE  LET s == <<item, item>>
         IN s \in Seq(Items) /\ s # << >> /\ Given(kind, s) /\ Restored(s) /\ Sheltered(s)
<1> DEFINE s == <<item, item>>
<1>1. (kind = "inspect" /\ item = "readback") \/ (kind = "touch" /\ item = "touch")
  BY SMT
<1>2. item \in Items
  BY <1>1 DEF Items, Commands, PortCalls
<1>3. s \in Seq(Items) /\ s # << >> /\ \A i \in 1..Len(s) : s[i] = item
  BY <1>2, SMT
<1> HIDE DEF s
<1>4. item \notin {"scan", "close", "probe"} /\ Fits(kind, item)
  BY <1>1, Zenon DEF Fits
<1>5. Given(kind, s) /\ Restored(s) /\ Sheltered(s)
  BY <1>3, <1>4, PlainScript
<1> QED BY <1>3, <1>5 DEF s

\* setGeneratorOutput, readDiagnostics and captureScreen.
LEMMA OperateKeeps ==
  ASSUME IInv, OutputOn \/ OutputOff \/ ReadDiagnostics \/ CaptureScreen
  PROVE  IInv'
<1>1. bound' = bound
  BY DEF OutputOn, OutputOff, ReadDiagnostics, CaptureScreen
<1>2. ASSUME NEW kind \in {"on", "off", "inspect"}, NEW s, Operation(kind, s),
             s \in Seq(Items), s # << >>, Given(kind, s), Restored(s), Sheltered(s)
      PROVE  IInv'
  <2>1. kind \notin Modes \cup {"touch", "acquire"}
    BY DEF Modes, Measurements
  <2> QED BY <1>1, <1>2, <2>1, OperationKeeps
<1>3. CASE OutputOn
  BY <1>2, <1>3, ShortScripts DEF OutputOn
<1>4. CASE OutputOff
  BY <1>2, <1>4, ShortScripts DEF OutputOff
<1>5. CASE ReadDiagnostics
  <2> DEFINE s == <<"readback", "readback">>
  <2>1. s \in Seq(Items) /\ s # << >> /\ Given("inspect", s) /\ Restored(s) /\ Sheltered(s)
    BY PairScripts
  <2>2. Operation("inspect", s)
    BY <1>5 DEF ReadDiagnostics
  <2> HIDE DEF s
  <2> QED BY <1>2, <2>1, <2>2
<1>6. CASE CaptureScreen
  BY <1>2, <1>6, ShortScripts DEF CaptureScreen
<1> QED BY <1>3, <1>4, <1>5, <1>6

\* touch and releaseTouch.
LEMMA TouchKeeps ==
  ASSUME IInv, Touch
  PROVE  IInv'
<1>1. bound' = "none" /\ ClearConfiguration
  BY DEF Touch, ClearConfiguration
<1>2. LET s == <<"touch", "touch">>
      IN s \in Seq(Items) /\ s # << >> /\ Given("touch", s) /\ Restored(s) /\ Sheltered(s)
  BY PairScripts
<1>3. CASE Operation("touch", <<"touch", "touch">>)
  BY <1>1, <1>2, <1>3, OperationKeeps
<1>4. CASE Refuses
  BY <1>1, <1>4, RefusesKeeps
<1> QED BY <1>3, <1>4 DEF Touch

\* The script of an acquisition up to some point: an output-off comes first.
Opening(s) ==
    /\ s \in Seq(Items) /\ s # << >>
    /\ Given("acquire", s) /\ Restored(s)
    /\ Sheltered(s) /\ HasOff(s)

\* What follows the first output-off of an acquisition may be anything that
\* an acquisition sends.
LEMMA Prolongs ==
  ASSUME NEW a, Opening(a), NEW b \in Seq(Items), Given("acquire", b), Restored(b)
  PROVE  Opening(a \o b)
BY Concatenation, Zenon DEF Opening

\* acquireSweep and acquireZeroSpan send an output-off before their scan.
LEMMA AcquisitionScripts ==
  /\ Opening(Capture)
  /\ \A zero \in {<< >>, <<"identify">>}, traces \in StoredTraces :
       Opening(Sweep(zero, traces))
<1>1. /\ "off" \in Items /\ "scan" \in Items /\ "identify" \in Items /\ "readback" \in Items
      /\ "acquire" \in Kinds
      /\ \A item \in {"off", "identify", "readback", "scan"} : Fits("acquire", item)
  <2>1. /\ "off" \in Items /\ "scan" \in Items /\ "identify" \in Items /\ "readback" \in Items
        /\ "acquire" \in Kinds
    BY DEF Items, Commands, PortCalls, Kinds
  <2>2. \A item \in {"off", "identify", "readback", "scan"} : Fits("acquire", item)
    BY Zenon DEF Fits, Modes, Measurements
  <2> QED BY <2>1, <2>2
<1>2. Opening(<<"off">>)
  BY <1>1, OneItem DEF Opening
<1>3. /\ <<"off">> \in Seq(Items) /\ Given("acquire", <<"off">>) /\ Restored(<<"off">>)
      /\ <<"identify">> \in Seq(Items) /\ Given("acquire", <<"identify">>) /\ Restored(<<"identify">>)
      /\ <<"readback">> \in Seq(Items) /\ Given("acquire", <<"readback">>) /\ Restored(<<"readback">>)
      /\ << >> \in Seq(Items) /\ Given("acquire", << >>) /\ Restored(<< >>)
  BY <1>1, OneItem, EmptyScript
<1>4. <<"scan">> \in Seq(Items) /\ Given("acquire", <<"scan">>) /\ Restored(<<"scan">>)
  <2> DEFINE t == <<"scan">>
  <2>1. t \in Seq(Items) /\ Len(t) = 1 /\ \A i \in 1..Len(t) : t[i] = "scan"
    BY <1>1, SMT
  <2> HIDE DEF t
  <2>2. Given("acquire", t) /\ Restored(t)
    BY <1>1, <2>1, Zenon DEF Given, Restored
  <2> QED BY <2>1, <2>2 DEF t
<1>5. Opening(Precaution \o <<"off">>)
  <2>1. Opening(<<"off">> \o <<"off">>)
    BY <1>2, <1>3, Prolongs
  <2>2. << >> \o <<"off">> = <<"off">>
    BY SMT
  <2> QED BY <1>2, <2>1, <2>2 DEF Precaution
<1>6. ASSUME NEW zero \in {<< >>, <<"identify">>}, NEW traces \in StoredTraces
      PROVE  Opening(Sweep(zero, traces))
  <2>1. traces = << >> \/ traces = <<"readback">>
    BY DEF StoredTraces
  <2>2. Opening(Precaution \o <<"off">> \o zero)
    BY <1>3, <1>5, Prolongs
  <2>3. Opening(Precaution \o <<"off">> \o zero \o <<"scan">>)
    BY <1>4, <2>2, Prolongs
  <2>4. Opening(Precaution \o <<"off">> \o zero \o <<"scan">> \o traces)
    BY <1>3, <2>1, <2>3, Prolongs
  <2> QED BY <2>4 DEF Sweep
<1>7. Opening(Capture)
  BY <1>4, <1>5, Prolongs DEF Capture
<1> QED BY <1>6, <1>7

\* acquireSweep and acquireZeroSpan.
LEMMA AcquireKeeps ==
  ASSUME IInv, AcquireSweep \/ AcquireZeroSpan
  PROVE  IInv'
<1>1. bound' = bound /\ bound # "none" /\ device.mode = bound
  BY DEF AcquireSweep, AcquireZeroSpan
<1>2. PICK s : Operation("acquire", s) /\ Opening(s)
  BY AcquisitionScripts, Zenon DEF AcquireSweep, AcquireZeroSpan
<1>3. s \in Seq(Items) /\ s # << >> /\ Given("acquire", s) /\ Restored(s) /\ Sheltered(s)
  BY <1>2 DEF Opening
<1>4. "acquire" \notin Modes \cup {"touch"}
  BY DEF Modes, Measurements
<1> QED BY <1>1, <1>2, <1>3, <1>4, OperationKeeps

\* connect opens the port first and sends an output-off before it is done.
LEMMA ConnectionScripts ==
  ASSUME NEW p \in {<<"probe", "off", "mode", "readback">>, << >>}, NEW s,
         s = Identification \o p \o <<"readback">>
  PROVE  /\ s \in Seq(Items) /\ s # << >> /\ Head(s) = "open"
         /\ Given("connect", s) /\ Restored(s) /\ OpensFirst(s)
         /\ Preceded(s, Len(s))
<1> DEFINE a == Identification
           b == <<"readback">>
<1>1. /\ "readback" \in Items /\ "connect" \in Kinds
      /\ \A item \in {"open", "off", "identify", "mode", "readback", "probe"} :
           Fits("connect", item)
  <2>1. "readback" \in Items /\ "connect" \in Kinds
    BY DEF Items, Commands, PortCalls, Kinds
  <2>2. \A item \in {"open", "off", "identify", "mode", "readback", "probe"} :
          Fits("connect", item)
    BY Zenon DEF Fits
  <2> QED BY <2>1, <2>2
<1>2. /\ a \in Seq(Items) /\ a # << >> /\ Head(a) = "open" /\ HasOff(a)
      /\ Given("connect", a) /\ Restored(a) /\ OpensFirst(a)
  <2>1. /\ a \in Seq(Items) /\ Len(a) = 6 /\ a # << >> /\ a[1] = "open" /\ a[2] = "off"
        /\ a[3] = "identify" /\ a[4] = "off" /\ a[5] = "mode" /\ a[6] = "readback"
    BY SMT DEF Identification, Items, Commands, PortCalls
  <2> HIDE DEF a
  <2>2. \A i \in 1..Len(a) : i = 1 \/ i = 2 \/ i = 3 \/ i = 4 \/ i = 5 \/ i = 6
    BY <2>1, SMT
  <2>3. \A i \in 2..Len(a) : i = 2 \/ i = 3 \/ i = 4 \/ i = 5 \/ i = 6
    BY <2>1, SMT
  <2>4. Given("connect", a)
    BY <1>1, <2>1, <2>2, Zenon DEF Given
  <2>5. Restored(a)
    BY <2>1, <2>2, Zenon DEF Restored
  <2>6. OpensFirst(a)
    BY <2>1, <2>3, Zenon DEF OpensFirst
  <2>7. 2 \in 1..Len(a)
    BY <2>1, SMT
  <2>8. HasOff(a)
    BY <2>1, <2>7, Zenon DEF HasOff
  <2>9. Head(a) = a[1]
    BY <2>1, Heads
  <2> QED BY <2>1, <2>4, <2>5, <2>6, <2>8, <2>9
<1>3. p \in Seq(Items) /\ Given("connect", p) /\ Restored(p) /\ ~Opens(p)
  <2>1. CASE p = << >>
    BY <1>1, <2>1, EmptyScript
  <2>2. CASE p = <<"probe", "off", "mode", "readback">>
    <3>1. /\ p \in Seq(Items) /\ Len(p) = 4 /\ p[1] = "probe" /\ p[2] = "off"
          /\ p[3] = "mode" /\ p[4] = "readback"
      BY <2>2, SMT DEF Items, Commands, PortCalls
    <3>2. \A i \in 1..Len(p) : i = 1 \/ i = 2 \/ i = 3 \/ i = 4
      BY <3>1, SMT
    <3>3. Given("connect", p) /\ ~Opens(p)
      BY <1>1, <3>1, <3>2, Zenon DEF Given, Opens
    <3>4. Restored(p)
      BY <3>1, <3>2, SMT DEF Restored
    <3> QED BY <3>1, <3>3, <3>4
  <2> QED BY <2>1, <2>2
<1>4. b \in Seq(Items) /\ b # << >> /\ Given("connect", b) /\ Restored(b) /\ ~Opens(b)
  BY <1>1, OneItem
<1> HIDE DEF a, b
<1>5. /\ a \o p \in Seq(Items) /\ a \o p # << >> /\ Head(a \o p) = "open"
      /\ Given("connect", a \o p) /\ Restored(a \o p) /\ OpensFirst(a \o p)
  BY <1>2, <1>3, Concatenation
<1>6. HasOff(a \o p)
  <2>1. PICK j \in 1..Len(a) : a[j] = "off"
    BY <1>2 DEF HasOff
  <2>2. Len(a \o p) = Len(a) + Len(p) /\ (a \o p)[j] = a[j] /\ j \in 1..Len(a \o p)
    <3>1. /\ Len(a \o p) = Len(a) + Len(p)
          /\ \A i \in 1..(Len(a) + Len(p)) :
               (a \o p)[i] = IF i <= Len(a) THEN a[i] ELSE p[i - Len(a)]
      BY <1>2, <1>3, ConcatProperties
    <3>2. Len(a) \in Nat /\ Len(p) \in Nat
      BY <1>2, <1>3, LenProperties
    <3> QED BY <3>1, <3>2, SMT
  <2> QED BY <2>1, <2>2 DEF HasOff
<1>7. /\ a \o p \o b \in Seq(Items) /\ a \o p \o b # << >> /\ Head(a \o p \o b) = "open"
      /\ Given("connect", a \o p \o b) /\ Restored(a \o p \o b) /\ OpensFirst(a \o p \o b)
      /\ Preceded(a \o p \o b, Len(a \o p \o b))
  BY <1>4, <1>5, <1>6, Concatenation
<1> QED BY <1>7 DEF a, b

\* connect.
LEMMA ConnectKeeps ==
  ASSUME IInv, Connect
  PROVE  IInv'
<1> DEFINE s == Identification \o Probes' \o <<"readback">>
<1>1. /\ device' = [Disconnected EXCEPT !.connection = "connecting"]
      /\ op' = Run("connect", s)
      /\ firmware' \in Firmwares
      /\ session' = session /\ bound' = bound /\ panel' = panel /\ live' = live
      /\ port' = port /\ stale' = stale /\ mishaps' = mishaps
      /\ session = "none" /\ device.connection = "disconnected"
  BY DEF Connect, Start, ghosts
<1>2. /\ s \in Seq(Items) /\ s # << >> /\ Head(s) = "open"
      /\ Given("connect", s) /\ Restored(s) /\ OpensFirst(s)
      /\ Preceded(s, Len(s))
  <2>1. Probes' \in {<<"probe", "off", "mode", "readback">>, << >>}
    BY DEF Probes
  <2> QED BY <2>1, ConnectionScripts
<1> HIDE DEF s
<1>3. /\ op'.kind = "connect" /\ op'.script = s /\ ~op'.sent /\ op' \in Operations
  BY <1>1, <1>2 DEF Run, Operations, Kinds
<1>4. ~live /\ bound = "none"
  BY <1>1, Zenon DEF IInv, Owned
<1>5. /\ device' \in Devices /\ device'.connection = "connecting"
      /\ device'.scheduler = "none"
      /\ ~device'.offAcknowledged /\ ~device'.teardownAcknowledged
      /\ device'.mode = "idle"
  BY <1>1, Zenon DEF Disconnected, Devices, Modes, Measurements, Receipts
<1>6. DeviceTypeOK'
  <2>1. /\ port' \in BOOLEAN /\ live' \in BOOLEAN /\ stale' \in BOOLEAN
        /\ session' \in {"none", "receiveOnly", "rf"}
        /\ bound' \in Measurements \cup {"none"}
        /\ panel' \in Modes \cup {"unknown"} /\ mishaps' \in 0..MaxMishaps
    BY <1>1, Zenon DEF IInv, DeviceTypeOK
  <2>2. op' \in [kind : Kinds, script : Seq(Commands \cup PortCalls), sent : BOOLEAN, attested : BOOLEAN]
    BY <1>3 DEF Operations, Items
  <2> QED BY <1>1, <1>5, <2>1, <2>2, Zenon DEF DeviceTypeOK
<1>7. ScriptOK'
  BY <1>2, <1>3, Zenon DEF ScriptOK, Given, OpensFirst
<1>8. Channel'
  BY <1>3, <1>5, Zenon DEF Channel, InFlight
<1>9. Silence'
  BY <1>1, <1>3, <1>4, <1>5, Zenon DEF Silence
<1>10. Owned'
  BY <1>1, <1>3, <1>4, <1>5, Zenon DEF Owned, Modes, Measurements
<1>11. Bound'
  BY <1>1, <1>2, <1>3, <1>4, Zenon DEF Bound, Modes, Measurements
<1> QED BY <1>6, <1>7, <1>8, <1>9, <1>10, <1>11 DEF IInv

\* A teardown that starts while nothing runs.
LEMMA TeardownKeeps ==
  ASSUME IInv, op = NoOp, device.connection # "disconnected", BeginTeardown(device),
         UNCHANGED <<port, stale, firmware, session, bound, ghosts, mishaps>>
  PROVE  IInv'
<1> DEFINE e == [device EXCEPT !.connection = "disconnecting"]
<1>1. /\ session' = session /\ bound' = bound /\ panel' = panel /\ live' = live
      /\ port' = port /\ stale' = stale /\ firmware' = firmware /\ mishaps' = mishaps
  BY DEF ghosts
<1>2. device \in Devices
  BY DEF IInv, DeviceTypeOK
<1>3. /\ e \in Devices /\ e.connection = "disconnecting"
      /\ e.scheduler = device.scheduler /\ e.receipt = device.receipt
      /\ e.offAcknowledged <=> device.offAcknowledged
      /\ e.teardownAcknowledged <=> device.teardownAcknowledged
  BY <1>2, Zenon DEF Devices
<1>4. PICK s \in Teardowns :
        /\ device' = e /\ op' = Run("disconnect", s)
        /\ device.teardownAcknowledged <=> s = <<"close">>
        /\ ~device.teardownAcknowledged /\ device.scheduler = "ok" => s = <<"off", "close">>
  <2>1. CASE device.teardownAcknowledged
    <3>1. device' = e /\ op' = Run("disconnect", <<"close">>)
      BY <2>1, Zenon DEF BeginTeardown, Start
    <3>2. <<"close">> \in Teardowns
      BY DEF Teardowns
    <3> QED BY <2>1, <3>1, <3>2
  <2>2. CASE ~device.teardownAcknowledged /\ device.scheduler = "ok"
    <3> DEFINE t == <<"off", "close">>
    <3>1. device' = e /\ op' = Run("disconnect", t)
      BY <2>2, Zenon DEF BeginTeardown, Start
    <3>2. t \in Teardowns /\ t # <<"close">>
      BY SMT DEF Teardowns
    <3> QED BY <2>2, <3>1, <3>2
  <2>3. CASE ~device.teardownAcknowledged /\ device.scheduler # "ok"
    <3> DEFINE t == <<"shut", "open", "off", "close">>
    <3>1. device' = e /\ op' = Run("disconnect", t)
      BY <2>3, Zenon DEF BeginTeardown, Start
    <3>2. t \in Teardowns /\ t # <<"close">>
      BY SMT DEF Teardowns
    <3> QED BY <2>3, <3>1, <3>2
  <2> QED BY <2>1, <2>2, <2>3
<1> HIDE DEF e
<1>5. device.offAcknowledged => ~live
  BY NoOpIs, Zenon DEF IInv, Silence, InFlight
<1>6. s = <<"close">> => ~live
  BY <1>4, <1>5, Zenon DEF IInv, Silence
<1>7. device.offAcknowledged => Len(s) < 3
  <2>1. s \in {<<"close">>, <<"off", "close">>} => Len(s) < 3
    <3>1. s \in {<<"close">>, <<"off", "close">>} => Len(s) = 1 \/ Len(s) = 2
      BY TeardownScripts
    <3>2. \A n \in {1, 2} : n < 3
      BY SMT
    <3> QED BY <3>1, <3>2, Zenon
  <2>2. device.offAcknowledged => s \in {<<"close">>, <<"off", "close">>}
    BY <1>4, Zenon DEF IInv, Channel
  <2> QED BY <2>1, <2>2
<1>8. Always'
  BY <1>1, <1>3, <1>4, NoOpIs, Zenon DEF Always, IInv, Channel, Silence, Owned, Bound
<1>9. Settled'
  BY <1>1, <1>3, <1>4, <1>5, <1>6, <1>7, <1>8, TearsDown
<1>10. DeviceTypeOK'
  <2>1. /\ port' \in BOOLEAN /\ live' \in BOOLEAN /\ stale' \in BOOLEAN
        /\ firmware' \in Firmwares /\ session' \in {"none", "receiveOnly", "rf"}
        /\ bound' \in Measurements \cup {"none"}
        /\ panel' \in Modes \cup {"unknown"} /\ mishaps' \in 0..MaxMishaps
    BY <1>1, Zenon DEF IInv, DeviceTypeOK
  <2>2. op' \in [kind : Kinds, script : Seq(Commands \cup PortCalls), sent : BOOLEAN, attested : BOOLEAN]
    BY <1>4, TeardownScripts DEF Run, Kinds, Items
  <2>3. device'.scheduler # "none" => port'
    BY <1>1, <1>3, <1>4, PortStays DEF IInv
  <2> QED BY <1>3, <1>4, <2>1, <2>2, <2>3, Zenon DEF DeviceTypeOK
<1> QED BY <1>9, <1>10 DEF IInv, Settled

\* disconnect, for a session and for a device without one.
LEMMA ReleaseKeeps ==
  ASSUME IInv, Cleanup \/ Disconnect
  PROVE  IInv'
<1>1. /\ op = NoOp
      /\ UNCHANGED <<port, stale, firmware, session, bound, ghosts, mishaps>>
  BY DEF Cleanup, Disconnect, Called
<1>2. ASSUME BeginTeardown(device), device.connection # "disconnected"
      PROVE  IInv'
  BY <1>1, <1>2, TeardownKeeps
<1>3. session # "none" => device.connection # "disconnected"
  BY Zenon DEF IInv, Owned
<1>4. ASSUME session = "rf", Ready(device), Start(device, Run("silence", <<"off">>))
      PROVE  IInv'
  <2>1. device.connection # "disconnected" /\ ~device.teardownAcknowledged
    BY <1>1, <1>4, ReadyToStart
  <2>2. /\ <<"off">> \in Seq(Items) /\ <<"off">> # << >> /\ Given("silence", <<"off">>)
        /\ Restored(<<"off">>) /\ Sheltered(<<"off">>)
    BY ShortScripts
  <2>3. "silence" \notin Modes \cup {"touch", "acquire"}
    BY DEF Modes, Measurements
  <2>4. op' = Run("silence", <<"off">>) /\ device' = device
    BY <1>4 DEF Start
  <2>5. bound' \in {bound, "none"}
    BY <1>1
  <2>6. session # "none"
    BY <1>4
  <2> QED BY <1>1, <2>1, <2>2, <2>3, <2>4, <2>5, <2>6, Begins
<1>5. CASE Cleanup
  BY <1>2, <1>5 DEF Cleanup
<1>6. CASE Disconnect
  <2>1. CASE BeginTeardown(device) /\ session \in {"receiveOnly", "rf"}
    BY <1>2, <1>3, <2>1
  <2>2. CASE session = "rf" /\ Ready(device) /\ Start(device, Run("silence", <<"off">>))
    BY <1>4, <2>2
  <2> QED BY <1>6, <2>1, <2>2, Zenon DEF Disconnect
<1> QED BY <1>5, <1>6

-----------------------------------------------------------------------------
(* The theorems *)

\* The service starts disconnected.
LEMMA InitSettles ==
  ASSUME Init
  PROVE  IInv
<1>1. DeviceTypeOK
  <2>1. NoOp \in [kind : Kinds, script : Seq(Commands \cup PortCalls), sent : BOOLEAN, attested : BOOLEAN]
    BY EmptySeq DEF NoOp, Kinds
  <2>2. mishaps \in 0..MaxMishaps
    BY MishapAssumption, SMT DEF Init
  <2> QED BY <2>1, <2>2, DisconnectedIs, Zenon DEF Init, DeviceTypeOK
<1>2. op.kind = "none" /\ op.script = << >> /\ ~op.sent /\ Len(op.script) = 0
  BY NoOpIs, EmptySeq DEF Init
<1>3. ScriptOK
  BY <1>2, SMT DEF Init, ScriptOK, Restored
<1>4. Channel
  BY <1>2, DisconnectedIs, Zenon DEF Init, Channel, InFlight
<1>5. Silence
  BY <1>2, DisconnectedIs, Zenon DEF Init, Silence
<1>6. Owned /\ Bound
  BY <1>2, DisconnectedIs, Zenon DEF Init, Owned, Bound, Modes, Measurements
<1> QED BY <1>1, <1>3, <1>4, <1>5, <1>6 DEF IInv

\* Every step keeps the invariant.
LEMMA StepKeeps ==
  ASSUME IInv, Next
  PROVE  IInv'
<1>1. CASE Connect
  BY <1>1, ConnectKeeps
<1>2. CASE Cleanup \/ Disconnect
  BY <1>2, ReleaseKeeps
<1>3. CASE ConfigureAnalyzer \/ ConfigureZeroSpan \/ ConfigureGenerator
  BY <1>3, ConfigureKeeps
<1>4. CASE AcquireSweep \/ AcquireZeroSpan
  BY <1>4, AcquireKeeps
<1>5. CASE OutputOn \/ OutputOff \/ ReadDiagnostics \/ CaptureScreen
  BY <1>5, OperateKeeps
<1>6. CASE Touch
  BY <1>6, TouchKeeps
<1>7. CASE Transmit
  BY <1>7, TransmitKeeps
<1>8. CASE Answer
  BY <1>8, Continues, Finishes
<1>9. CASE \/ SettingRefused \/ IdentityRejected \/ ReadbackRejected \/ ProbeRejected
           \/ ScanRejected \/ PortCallRejects
  BY <1>9, RefusedKeeps DEF SettingRefused, IdentityRejected, ReadbackRejected,
     ProbeRejected, ScanRejected, PortCallRejects
<1>10. CASE SchedulerFaults
  BY <1>10, SchedulerFaultsKeeps
<1>11. CASE PortEvent
  BY <1>11, PortEventKeeps
<1>12. CASE LateWriteFails
  BY <1>12, LateWriteFailsKeeps
<1> QED BY <1>1, <1>2, <1>3, <1>4, <1>5, <1>6, <1>7, <1>8, <1>9, <1>10, <1>11, <1>12 DEF Next

\* So does a step of nobody.
LEMMA StutterKeeps ==
  ASSUME IInv, UNCHANGED vars
  PROVE  IInv'
<1>1. /\ device' = device /\ port' = port /\ stale' = stale /\ firmware' = firmware
      /\ session' = session /\ bound' = bound /\ op' = op /\ panel' = panel /\ live' = live
      /\ mishaps' = mishaps
  BY DEF vars, driver, ghosts
<1>2. DeviceTypeOK'
  BY <1>1, SMT DEF IInv, DeviceTypeOK
<1>3. ScriptOK' /\ Channel'
  BY <1>1, SMT DEF IInv, ScriptOK, Channel, InFlight
<1>4. Silence'
  BY <1>1, SMT DEF IInv, Silence, InFlight
<1>5. Owned' /\ Bound'
  BY <1>1, SMT DEF IInv, Owned, Bound
<1> QED BY <1>2, <1>3, <1>4, <1>5 DEF IInv

\* Whatever fails, times out or is lost in whatever order, for any number of
\* mishaps.
THEOREM Invariance == Spec => []IInv
<1>1. IInv /\ [Next]_vars => IInv'
  BY StepKeeps, StutterKeeps
<1> QED BY <1>1, InitSettles, PTL DEF Spec, SafetySpec

\* The invariant says what the two dangerous moments need.
LEMMA ActsOnWhatHoldsNow ==
  ASSUME IInv
  PROVE  ActsOnWhatHolds
<1>1. InFlight({"scan", "close"}) => Head(op.script) = op.script[1] /\ 1 \in 1..Len(op.script)
  <2>1. op.script # << >> => Head(op.script) = op.script[1] /\ Len(op.script) \in Nat /\ Len(op.script) >= 1
    BY Starts DEF IInv
  <2>2. \A n \in Nat : n >= 1 => 1 \in 1..n
    BY SMT
  <2> QED BY <2>1, <2>2, Zenon DEF InFlight
<1>2. InFlight({"scan", "close"}) => ~Sheltered(op.script)
  <2>1. ~Preceded(op.script, 1)
    BY SMT DEF Preceded
  <2> QED BY <1>1, <2>1, Zenon DEF Sheltered, InFlight
<1>3. InFlight({"scan"}) \/ InFlight({"close"}) => InFlight({"scan", "close"})
  BY Zenon DEF InFlight
<1>4. InFlight({"scan"}) \/ InFlight({"close"}) => ~live
  BY <1>2, <1>3, Zenon DEF IInv, Silence
<1>5. InFlight({"scan"}) => op.kind = "acquire"
  <2>1. InFlight({"scan"}) => Fits(op.kind, "scan")
    BY <1>1, <1>3, Zenon DEF IInv, ScriptOK, InFlight
  <2> QED BY <2>1, Zenon DEF Fits
<1>6. ActsInSilence
  BY <1>4, Zenon DEF ActsInSilence, ScansInSilence, ReleasesInSilence, IInv, Owned
<1>7. MeasuresAsBound
  <2>1. bound # "none" => bound \in Measurements
    BY IdleIsUnbound DEF IInv
  <2> QED BY <1>2, <1>3, <1>5, <2>1, Zenon DEF MeasuresAsBound, IInv, Bound
<1> QED BY <1>6, <1>7 DEF ActsOnWhatHolds

\* What the device does at its dangerous moments, it does on what holds.
THEOREM ActsAlwaysOnWhatHolds == Spec => []ActsOnWhatHolds
BY Invariance, ActsOnWhatHoldsNow, PTL
=============================================================================
