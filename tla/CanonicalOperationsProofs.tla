---------------------- MODULE CanonicalOperationsProofs ----------------------
(***************************************************************************)
(* Proofs about the canonical operations, for every instrument one may     *)
(* connect to and any number of commands.                                  *)
(***************************************************************************)
EXTENDS CanonicalOperations, SequenceTheorems, TLAPS

-----------------------------------------------------------------------------
(* The inductive invariant *)

\* What each driver's session is made of
SessionShape ==
    /\ driver \in {"tinysa", "neptune", "signallab"}
    /\ driver = "tinysa" =>
          /\ DOMAIN session = {"configuration", "source", "sourceIntents", "output", "outputIntent", "pending", "epoch"}
          /\ session.epoch \in Nat /\ session.output \in BOOLEAN
    /\ driver = "neptune" => DOMAIN session = {"configuration", "revision"} /\ session.revision \in Nat
    /\ driver = "signallab" =>
          /\ DOMAIN session = {"status", "configuration", "revision", "intents", "pending"}
          /\ DOMAIN session.status = {"profile", "channel", "pinned", "epoch"}
          /\ session.status.epoch \in Nat /\ session.revision \in Nat
          /\ session.status.profile \in DOMAIN caps.profiles

\* A session that cannot transmit is one of another driver, or of a receiver.
ManagerShape ==
    /\ DOMAIN manager = {"configuration", "overlay", "rf", "fault", "revision", "catalog"}
    /\ manager.rf \in {"none", "off", "on", "unknown"} /\ manager.fault \in BOOLEAN /\ manager.revision \in Nat
    /\ manager.rf = "none" <=> ~(driver = "tinysa" /\ caps.rf)

\* Only a TinySA is told of features, and of the output alone in between.
CommandShape ==
    command = NoCommand \/
    /\ DOMAIN command = {"target", "operation", "intents", "caller", "stage"}
    /\ driver # "signallab" /\ command.stage \in {"device", "off", "reassert"}
    /\ IsFeature(command.target) =>
          /\ driver = "tinysa" /\ command.target.action \in {"configure", "set-output", "touch"}
          /\ command.target.action # "touch" => manager.rf # "none"
          /\ IsOutput(command.target) => command.target.enabled \in BOOLEAN
    /\ command.stage = "off" => manager.rf # "none" /\ (~IsFeature(command.target) \/ Generates(command.target))
    /\ command.stage = "reassert" => manager.rf # "none" /\ command.target = OutputOff

\* The settings of each operation: they do not depend on the state.
Names(op) ==
    CASE driver = "tinysa" /\ op = SweepOp -> {"start", "stop", "trigger"} \cup (IF caps.level = None THEN {} ELSE {"level"})
      [] driver = "tinysa" /\ op = PowerOp -> {"center", "trigger"} \cup (IF caps.level = None THEN {} ELSE {"level"})
      [] driver = "tinysa" /\ op = SourceOp -> SourceNames(caps)
      [] driver = "tinysa" /\ op = OutputOp -> {"output"}
      [] driver = "neptune" -> Neptune!CaptureNames
      [] driver = "signallab" /\ op = Lab!SpectrumOp -> {"start", "stop"}
      [] driver = "signallab" /\ op = Lab!ObserveOp -> {"center"}
      [] driver = "signallab" /\ op = Lab!CaptureIqOp -> {"rate", "bandwidth", "samples"}
      [] driver = "signallab" /\ op = Lab!ProfileOp -> {"profile"}
      [] driver = "signallab" /\ op = Lab!ChannelOp -> {"channel"}
      [] driver = "signallab" /\ op = Lab!WaveformOp -> {"width"}

Operations ==
    CASE driver = "tinysa" -> TinySaOperations(caps)
      [] driver = "neptune" -> {Neptune!CaptureOp}
      [] driver = "signallab" -> {Lab!SpectrumOp, Lab!ObserveOp, Lab!CaptureIqOp, Lab!ProfileOp, Lab!ChannelOp, Lab!WaveformOp}

WellFormed(surface) ==
    /\ DOMAIN surface.parameters \subseteq Operations
    /\ \A op \in DOMAIN surface.parameters : DOMAIN surface.parameters[op] = Names(op)

Kinds == {"read", "applied", "refused"}

\* What the panel asks for are the settings of one operation.
PanelShape ==
    /\ DOMAIN panel = {"surface", "edits"}
    /\ panel.surface # None => WellFormed(panel.surface)
    /\ panel.edits # None => panel.edits.operation \in Operations /\ DOMAIN panel.edits.intents = Names(panel.edits.operation)
    /\ \/ request = NoRequest
       \/ /\ DOMAIN request = {"stage", "revision", "operation", "intents"} /\ request.stage \in {"sent", "admitted"}
          /\ request.operation \in Operations /\ DOMAIN request.intents = Names(request.operation)

IsList(q) == Len(q) \in Nat /\ q = [i \in 1 .. Len(q) |-> q[i]]

AnswerShape ==
    /\ IsList(answers)
    /\ \A i \in DOMAIN answers :
          /\ answers[i].kind \in Kinds
          /\ answers[i].kind # "refused" => WellFormed(answers[i].surface)

\* Until the output is off too, the configuration accepted is the driver's only.
Halfway == command.stage = "off" /\ ~IsFeature(command.target)

ConfigurationInv ==
    IF Halfway THEN session.configuration = command.target ELSE manager.configuration = session.configuration

Touching == command.stage = "device" /\ IsFeature(command.target) /\ command.target.action = "touch"

OutputInv == driver = "tinysa" =>
    /\ command = NoCommand => (session.output <=> manager.rf = "on")
    /\ manager.rf = "none" \/ Touching => ~session.output /\ manager.rf # "on"

CatalogInv == driver = "signallab" => manager.catalog = Lab!Catalog(caps, session.status)

RevisionInv ==
    /\ driver = "neptune" =>
          /\ session.revision \in {0, manager.revision}
          /\ session.revision = 0 => session.configuration = NoConfiguration /\ manager.overlay = NoOverlay
    /\ driver = "signallab" => session.revision <= manager.revision

\* A surface the panel has, or will have, is the current one or of an earlier
\* revision: an earlier epoch or, in this one, an earlier configuration.  Neptune
\* alone returns to the revision of a session nobody has configured.
Named(surface) ==
    LET e == surface.revision[1]
        r == surface.revision[2]
    IN  /\ e \in Nat /\ r \in Nat
        /\ driver = "tinysa" => e <= session.epoch /\ (e = session.epoch => surface = Surface)
        /\ driver = "neptune" =>
              /\ r <= manager.revision
              /\ r = 0 => surface = Neptune!NeptuneSurface(caps, Neptune!NoCapture)
              /\ r = session.revision => surface = Surface
        /\ driver = "signallab" =>
              /\ e <= session.status.epoch
              /\ e = session.status.epoch => r <= session.revision /\ (r = session.revision => surface = Surface)

ShownInv ==
    /\ panel.surface # None => Named(panel.surface)
    /\ \A i \in DOMAIN answers : answers[i].kind # "refused" => Named(answers[i].surface)

SoundInv == ConfigurationInv /\ OutputInv /\ CatalogInv /\ RevisionInv /\ ShownInv

SurfaceInv == SessionShape /\ ManagerShape /\ CommandShape /\ PanelShape /\ AnswerShape /\ (~manager.fault => SoundInv)
-----------------------------------------------------------------------------
(* Surfaces *)

\* Only what is staged does not show.
LEMMA TinySaSurfaceOf ==
    ASSUME NEW c, NEW s, NEW t,
           s.configuration = t.configuration, s.source = t.source, s.sourceIntents = t.sourceIntents,
           s.output = t.output, s.outputIntent = t.outputIntent, s.epoch = t.epoch
    PROVE  TinySaSurface(c, s) = TinySaSurface(c, t)
<1>1. \A k : CurrentReceiver(s, k) = CurrentReceiver(t, k)
  BY DEF CurrentReceiver
<1>2. SourceParameters(c, s) = SourceParameters(c, t)
  BY DEF SourceParameters
<1>3. OutputParameters(s) = OutputParameters(t)
  BY DEF OutputParameters
<1>4. \A op \in TinySaOperations(c) : TinySaParameters(c, s, op) = TinySaParameters(c, t, op)
  <2> TAKE op \in TinySaOperations(c)
  <2> USE DEF SweepOp, PowerOp, SourceOp, OutputOp
  <2>1. CASE op = SweepOp
    <3>1. \A x : TinySaParameters(c, x, op) =
              Joined(SweepParameters(c, CurrentReceiver(x, "sweep")), TriggerParameters(c, CurrentReceiver(x, "sweep")))
      BY <2>1 DEF TinySaParameters
    <3> QED
      BY <3>1, <1>1
  <2>2. CASE op = PowerOp
    <3>1. \A x : TinySaParameters(c, x, op) =
              Joined(PowerParameters(c, CurrentReceiver(x, "power")), TriggerParameters(c, CurrentReceiver(x, "power")))
      BY <2>2 DEF TinySaParameters
    <3> QED
      BY <3>1, <1>1
  <2>3. CASE op = SourceOp
    <3>1. \A x : TinySaParameters(c, x, op) = SourceParameters(c, x)
      BY <2>3 DEF TinySaParameters
    <3> QED
      BY <3>1, <1>2
  <2>4. CASE op = OutputOp
    <3>1. \A x : TinySaParameters(c, x, op) = OutputParameters(x)
      BY <2>4 DEF TinySaParameters
    <3> QED
      BY <3>1, <1>3
  <2> QED
    BY <2>1, <2>2, <2>3, <2>4 DEF TinySaOperations
<1> QED
  BY <1>4 DEF TinySaSurface

LEMMA LabSurfaceOf ==
    ASSUME NEW c, NEW s, NEW t, s.status = t.status, s.configuration = t.configuration,
           s.revision = t.revision, s.intents = t.intents
    PROVE  Lab!SignalLabSurface(c, s) = Lab!SignalLabSurface(c, t)
<1>1. \A k : Lab!CurrentLab(s, k) = Lab!CurrentLab(t, k)
  BY DEF Lab!CurrentLab
<1>2. Lab!LabOperations(s) = Lab!LabOperations(t)
  BY DEF Lab!LabOperations
<1>3. Lab!AutomaticSpectrum(c, s) = Lab!AutomaticSpectrum(c, t)
  BY DEF Lab!AutomaticSpectrum
<1>4. Lab!AutomaticCenter(c, s) = Lab!AutomaticCenter(c, t)
  BY DEF Lab!AutomaticCenter
<1>5. Lab!Iq(c, s) = Lab!Iq(c, t)
  BY DEF Lab!Iq
<1>6. \A d, n, e, f : Lab!LabSource(d, s, n, e, f) = Lab!LabSource(d, t, n, e, f)
  BY DEF Lab!LabSource
<1>7. \A op \in Lab!LabOperations(s) : Lab!LabParameters(c, s, op) = Lab!LabParameters(c, t, op)
  <2> TAKE op \in Lab!LabOperations(s)
  <2> USE DEF Lab!SpectrumOp, Lab!ObserveOp, Lab!CaptureIqOp, Lab!ProfileOp, Lab!ChannelOp, Lab!WaveformOp
  <2>1. CASE op = Lab!SpectrumOp
    BY <2>1, <1>1, <1>3 DEF Lab!LabParameters
  <2>2. CASE op = Lab!ObserveOp
    BY <2>2, <1>1, <1>4 DEF Lab!LabParameters
  <2>3. CASE op = Lab!CaptureIqOp
    BY <2>3, <1>1, <1>5 DEF Lab!LabParameters
  <2>4. CASE op = Lab!ProfileOp
    BY <2>4, <1>6 DEF Lab!LabParameters
  <2>5. CASE op = Lab!ChannelOp
    BY <2>5, <1>6 DEF Lab!LabParameters
  <2>6. CASE op = Lab!WaveformOp
    BY <2>6, <1>6 DEF Lab!LabParameters
  <2> QED
    BY <2>1, <2>2, <2>3, <2>4, <2>5, <2>6 DEF Lab!LabOperations
<1> QED
  BY <1>2, <1>7 DEF Lab!SignalLabSurface

\* The settings shown are those of the driver's operations.
LEMMA TinySaWellFormed ==
    ASSUME driver = "tinysa"
    PROVE  WellFormed(TinySaSurface(caps, session))
<1> USE DEF SweepOp, PowerOp, SourceOp, OutputOp
<1>1. ASSUME NEW op \in TinySaOperations(caps)
      PROVE  DOMAIN TinySaParameters(caps, session, op) = Names(op)
  <2>1. CASE op = SweepOp
    <3>1. TinySaParameters(caps, session, op) = Joined(SweepParameters(caps, CurrentReceiver(session, "sweep")),
                                                       TriggerParameters(caps, CurrentReceiver(session, "sweep")))
      BY <2>1 DEF TinySaParameters
    <3>2. Names(op) = {"start", "stop", "trigger"} \cup (IF caps.level = None THEN {} ELSE {"level"})
      BY <2>1 DEF Names
    <3> QED
      BY <3>1, <3>2 DEF Joined, SweepParameters, TriggerParameters
  <2>2. CASE op = PowerOp
    <3>1. TinySaParameters(caps, session, op) = Joined(PowerParameters(caps, CurrentReceiver(session, "power")),
                                                       TriggerParameters(caps, CurrentReceiver(session, "power")))
      BY <2>2 DEF TinySaParameters
    <3>2. Names(op) = {"center", "trigger"} \cup (IF caps.level = None THEN {} ELSE {"level"})
      BY <2>2 DEF Names
    <3> QED
      BY <3>1, <3>2 DEF Joined, PowerParameters, TriggerParameters
  <2>3. CASE op = SourceOp
    <3>1. TinySaParameters(caps, session, op) = SourceParameters(caps, session)
      BY <2>3 DEF TinySaParameters
    <3>2. Names(op) = SourceNames(caps)
      BY <2>3 DEF Names
    <3> QED
      BY <3>1, <3>2 DEF SourceParameters
  <2>4. CASE op = OutputOp
    BY <2>4 DEF TinySaParameters, OutputParameters, Names
  <2> QED
    BY <2>1, <2>2, <2>3, <2>4 DEF TinySaOperations
<1>2. Operations = TinySaOperations(caps)
  BY DEF Operations
<1> QED
  BY <1>1, <1>2 DEF TinySaSurface, WellFormed

LEMMA NeptuneWellFormed ==
    ASSUME NEW s, driver = "neptune"
    PROVE  WellFormed(Neptune!NeptuneSurface(caps, s))
<1>1. Operations = {Neptune!CaptureOp} /\ Names(Neptune!CaptureOp) = Neptune!CaptureNames
  BY DEF Operations, Names
<1> QED
  BY <1>1 DEF WellFormed, Neptune!NeptuneSurface

LEMMA LabWellFormed ==
    ASSUME driver = "signallab"
    PROVE  WellFormed(Lab!SignalLabSurface(caps, session))
<1> USE DEF Lab!SpectrumOp, Lab!ObserveOp, Lab!CaptureIqOp, Lab!ProfileOp, Lab!ChannelOp, Lab!WaveformOp
<1>1. ASSUME NEW op \in Operations
      PROVE  DOMAIN Lab!LabParameters(caps, session, op) = Names(op)
  <2>1. CASE op = Lab!SpectrumOp
    BY <2>1 DEF Lab!LabParameters, Names
  <2>2. CASE op = Lab!ObserveOp
    BY <2>2 DEF Lab!LabParameters, Names
  <2>3. CASE op = Lab!CaptureIqOp
    BY <2>3 DEF Lab!LabParameters, Names
  <2>4. CASE op = Lab!ProfileOp
    BY <2>4 DEF Lab!LabParameters, Names
  <2>5. CASE op = Lab!ChannelOp
    BY <2>5 DEF Lab!LabParameters, Names
  <2>6. CASE op = Lab!WaveformOp
    BY <2>6 DEF Lab!LabParameters, Names
  <2> QED
    BY <2>1, <2>2, <2>3, <2>4, <2>5, <2>6 DEF Operations
<1>2. Lab!LabOperations(session) \subseteq Operations
  BY DEF Operations, Lab!LabOperations
<1> QED
  BY <1>1, <1>2 DEF Lab!SignalLabSurface, WellFormed

\* The revision of the surface shown, whatever the manager lays over it.
RevisionOf ==
    CASE driver = "tinysa" -> <<session.epoch, 0>>
      [] driver = "neptune" -> <<0, session.revision>>
      [] driver = "signallab" -> <<session.status.epoch, session.revision>>

LEMMA SurfaceIs ==
    ASSUME SessionShape
    PROVE  Surface.revision = RevisionOf /\ WellFormed(Surface)
<1>1. DriverSurface.revision = RevisionOf
  BY DEF SessionShape, DriverSurface, RevisionOf, TinySaSurface, Lab!SignalLabSurface, Neptune!NeptuneSurface
<1>2. WellFormed(DriverSurface)
  BY TinySaWellFormed, NeptuneWellFormed, LabWellFormed DEF SessionShape, DriverSurface
<1>3. DOMAIN DriverSurface = {"revision", "parameters"}
  BY DEF SessionShape, DriverSurface, TinySaSurface, Lab!SignalLabSurface, Neptune!NeptuneSurface
<1> HIDE DEF DriverSurface
<1>4. Surface.revision = DriverSurface.revision /\ DOMAIN Surface.parameters = DOMAIN DriverSurface.parameters
  BY <1>3 DEF Surface
<1>5. \A op \in DOMAIN Surface.parameters : DOMAIN Surface.parameters[op] = DOMAIN DriverSurface.parameters[op]
  BY <1>3 DEF Surface
<1> QED
  BY <1>1, <1>2, <1>4, <1>5 DEF WellFormed

-----------------------------------------------------------------------------
(* Surfaces that follow one another *)

Blank == Neptune!NeptuneSurface(caps, Neptune!NoCapture)

\* The same surface under the same revision, or another under a new one.
Advances ==
    \/ Surface' = Surface /\ RevisionOf' = RevisionOf /\ manager'.revision = manager.revision
    \/ driver = "tinysa" /\ session.epoch < session'.epoch
    \/ driver = "neptune" /\ session'.revision = 0 /\ Surface' = Blank /\ manager'.revision = manager.revision
    \/ driver = "neptune" /\ session'.revision = manager.revision + 1 /\ manager'.revision = manager.revision + 1
    \/ driver = "signallab" /\ session.status.epoch < session'.status.epoch
    \/ /\ driver = "signallab" /\ session'.status.epoch = session.status.epoch
       /\ session.revision < session'.revision

LEMMA NamedStays ==
    ASSUME SessionShape, SessionShape', ManagerShape, unit' = unit, Advances, NEW x, Named(x)
    PROVE  Named(x)'
<1> DEFINE e == x.revision[1]
           r == x.revision[2]
<1>0. driver' = driver /\ caps' = caps /\ Blank' = Blank
  BY DEF driver, caps, Blank
<1>1. e \in Nat /\ r \in Nat
  BY DEF Named
<1>2. CASE driver = "tinysa"
  <2>1. session.epoch \in Nat /\ session'.epoch \in Nat
    BY <1>0, <1>2 DEF SessionShape
  <2>2. \/ Surface' = Surface /\ session'.epoch = session.epoch
        \/ session.epoch < session'.epoch
    BY <1>0, <1>2 DEF Advances, RevisionOf
  <2>3. e <= session.epoch /\ (e = session.epoch => x = Surface)
    BY <1>2 DEF Named
  <2> HIDE DEF e, r
  <2>4. e <= session'.epoch /\ (e = session'.epoch => x = Surface')
    BY <2>1, <2>2, <2>3, <1>1
  <2> QED
    BY <2>4, <1>0, <1>1, <1>2 DEF Named, e, r
<1>3. CASE driver = "neptune"
  <2>1. session.revision \in Nat /\ session'.revision \in Nat /\ manager.revision \in Nat
    BY <1>0, <1>3 DEF SessionShape, ManagerShape
  <2>2. \/ Surface' = Surface /\ session'.revision = session.revision /\ manager'.revision = manager.revision
        \/ session'.revision = 0 /\ Surface' = Blank /\ manager'.revision = manager.revision
        \/ session'.revision = manager.revision + 1 /\ manager'.revision = manager.revision + 1
    BY <1>0, <1>3 DEF Advances, RevisionOf
  <2>3. /\ r <= manager.revision
        /\ r = 0 => x = Blank
        /\ r = session.revision => x = Surface
    BY <1>3 DEF Named, Blank
  <2> HIDE DEF e, r
  <2>4. /\ r <= manager'.revision
        /\ r = 0 => x = Blank'
        /\ r = session'.revision => x = Surface'
    BY <2>1, <2>2, <2>3, <1>0, <1>1
  <2> QED
    BY <2>4, <1>0, <1>1, <1>3 DEF Named, e, r, Blank
<1>4. CASE driver = "signallab"
  <2>1. /\ session.revision \in Nat /\ session'.revision \in Nat
        /\ session.status.epoch \in Nat /\ session'.status.epoch \in Nat
    BY <1>0, <1>4 DEF SessionShape
  <2>2. \/ Surface' = Surface /\ session'.revision = session.revision /\ session'.status.epoch = session.status.epoch
        \/ session.status.epoch < session'.status.epoch
        \/ session'.status.epoch = session.status.epoch /\ session.revision < session'.revision
    BY <1>0, <1>4 DEF Advances, RevisionOf
  <2>3. /\ e <= session.status.epoch
        /\ e = session.status.epoch => r <= session.revision /\ (r = session.revision => x = Surface)
    BY <1>4 DEF Named
  <2> HIDE DEF e, r
  <2>4. /\ e <= session'.status.epoch
        /\ e = session'.status.epoch => r <= session'.revision /\ (r = session'.revision => x = Surface')
    BY <2>1, <2>2, <2>3, <1>1
  <2> QED
    BY <2>4, <1>0, <1>1, <1>4 DEF Named, e, r
<1> QED
  BY <1>2, <1>3, <1>4 DEF SessionShape

\* What the panel is told is the surface of the moment.
LEMMA CurrentNamed ==
    ASSUME SessionShape, ManagerShape, RevisionInv
    PROVE  Named(Surface)
<1>1. Surface.revision = RevisionOf
  BY SurfaceIs
<1>2. CASE driver = "tinysa"
  BY <1>1, <1>2 DEF Named, RevisionOf, SessionShape
<1>3. CASE driver = "signallab"
  BY <1>1, <1>3 DEF Named, RevisionOf, SessionShape
<1>4. CASE driver = "neptune"
  <2>1. session.revision \in Nat /\ session.revision <= manager.revision
    BY <1>4 DEF SessionShape, ManagerShape, RevisionInv
  <2>2. ASSUME session.revision = 0
        PROVE  Surface = Neptune!NeptuneSurface(caps, Neptune!NoCapture)
    <3>1. session.configuration = NoConfiguration /\ manager.overlay = NoOverlay
      BY <1>4, <2>2 DEF RevisionInv
    <3>2. Surface = Neptune!NeptuneSurface(caps, session)
      BY <1>4, <3>1 DEF Surface, DriverSurface
    <3> QED
      BY <2>2, <3>1, <3>2 DEF Neptune!NeptuneSurface, Neptune!NoCapture, NoConfiguration, Neptune!NoConfiguration
  <2> QED
    BY <1>1, <1>4, <2>1, <2>2 DEF Named, RevisionOf
<1> QED
  BY <1>2, <1>3, <1>4 DEF SessionShape

\* What a step tells the panel: nothing, a refusal, or the surface it leaves.
Tells ==
    \/ answers' = answers
    \/ \E a : /\ answers' = Append(answers, a) /\ a.kind \in Kinds
              /\ a.kind # "refused" => a.surface = Surface'

LEMMA Appended ==
    ASSUME NEW q, NEW a, IsList(q)
    PROVE  LET p == Append(q, a)
           IN  /\ Len(p) = Len(q) + 1 /\ IsList(p)
               /\ \A i \in 1 .. Len(q) : p[i] = q[i]
               /\ p[Len(q) + 1] = a
<1> DEFINE S == {q[i] : i \in 1 .. Len(q)} \cup {a}
           n == Len(q)
<1>1. q \in [1 .. n -> S] /\ n \in Nat
  BY DEF IsList
<1>2. q \in Seq(S)
  BY <1>1
<1>3. a \in S
  OBVIOUS
<1> HIDE DEF S, n
<1>4. Append(q, a) \in Seq(S) /\ Len(Append(q, a)) = Len(q) + 1
  BY <1>2, <1>3
<1>5. \A i \in 1 .. Len(q) : Append(q, a)[i] = q[i]
  BY <1>2, <1>3
<1>6. Append(q, a)[Len(q) + 1] = a
  BY <1>2, <1>3
<1>7. Append(q, a) = [i \in 1 .. Len(Append(q, a)) |-> Append(q, a)[i]]
  <2>1. \A t \in Seq(S) : t = [i \in 1 .. Len(t) |-> t[i]]
    OBVIOUS
  <2> QED
    BY <1>4, <2>1
<1> QED
  BY <1>1, <1>4, <1>5, <1>6, <1>7 DEF IsList, n

LEMMA Taken ==
    ASSUME NEW q, IsList(q), q # <<>>
    PROVE  LET p == Tail(q)
           IN  /\ Len(q) >= 1 /\ Head(q) = q[1]
               /\ Len(p) = Len(q) - 1 /\ IsList(p)
               /\ \A i \in 1 .. Len(p) : p[i] = q[i + 1]
<1> DEFINE S == {q[i] : i \in 1 .. Len(q)}
           n == Len(q)
<1>1. q \in [1 .. n -> S] /\ n \in Nat
  BY DEF IsList
<1>2. q \in Seq(S)
  BY <1>1
<1> HIDE DEF S, n
<1>3. Tail(q) \in Seq(S) /\ Len(q) >= 1 /\ Len(Tail(q)) = Len(q) - 1
  BY <1>2
<1>4. \A i \in 1 .. Len(Tail(q)) : Tail(q)[i] = q[i + 1]
  BY <1>2, <1>3
<1>5. Head(q) = q[1]
  BY <1>2
<1>6. Tail(q) = [i \in 1 .. Len(Tail(q)) |-> Tail(q)[i]]
  <2>1. \A t \in Seq(S) : t = [i \in 1 .. Len(t) |-> t[i]]
    OBVIOUS
  <2> QED
    BY <1>3, <2>1
<1> QED
  BY <1>1, <1>3, <1>4, <1>5, <1>6 DEF IsList, n

LEMMA AnswersStay ==
    ASSUME AnswerShape, SessionShape', unit' = unit, Tells
    PROVE  AnswerShape'
<1>1. \A x : WellFormed(x)' <=> WellFormed(x)
  BY DEF WellFormed, Operations, Names, driver, caps
<1>2. WellFormed(Surface)'
  BY SurfaceIs, PTL
<1>3. CASE answers' = answers
  BY <1>1, <1>3 DEF AnswerShape
<1>4. ASSUME NEW a, answers' = Append(answers, a), a.kind \in Kinds, a.kind # "refused" => a.surface = Surface'
      PROVE  AnswerShape'
  <2>1. /\ Len(answers') = Len(answers) + 1 /\ IsList(answers')
        /\ \A i \in 1 .. Len(answers) : answers'[i] = answers[i]
        /\ answers'[Len(answers) + 1] = a
    BY <1>4, Appended DEF AnswerShape
  <2>2. DOMAIN answers = 1 .. Len(answers) /\ DOMAIN answers' = 1 .. Len(answers') /\ Len(answers) \in Nat
    BY <2>1 DEF AnswerShape, IsList
  <2>3. \A i \in DOMAIN answers' : i \in DOMAIN answers \/ answers'[i] = a
    BY <2>1, <2>2
  <2>4. a.kind # "refused" => WellFormed(a.surface)'
    BY <1>2, <1>4
  <2> QED
    BY <1>1, <1>4, <2>1, <2>2, <2>3, <2>4 DEF AnswerShape, IsList
<1> QED
  BY <1>3, <1>4 DEF Tells

LEMMA ShownStays ==
    ASSUME SessionShape, SessionShape', ManagerShape, ManagerShape', RevisionInv', AnswerShape, ShownInv,
           unit' = unit, panel'.surface = panel.surface, Advances, Tells
    PROVE  ShownInv'
<1>1. \A x : Named(x) => Named(x)'
  BY NamedStays
<1>2. Named(Surface)'
  BY CurrentNamed, PTL
<1>3. CASE answers' = answers
  BY <1>1, <1>3 DEF ShownInv
<1>4. ASSUME NEW a, answers' = Append(answers, a), a.kind \in Kinds, a.kind # "refused" => a.surface = Surface'
      PROVE  ShownInv'
  <2>1. /\ Len(answers') = Len(answers) + 1 /\ IsList(answers')
        /\ \A i \in 1 .. Len(answers) : answers'[i] = answers[i]
        /\ answers'[Len(answers) + 1] = a
    BY <1>4, Appended DEF AnswerShape
  <2>2. DOMAIN answers = 1 .. Len(answers) /\ DOMAIN answers' = 1 .. Len(answers') /\ Len(answers) \in Nat
    BY <2>1 DEF AnswerShape, IsList
  <2>3. \A i \in DOMAIN answers' : i \in DOMAIN answers \/ answers'[i] = a
    BY <2>1, <2>2
  <2>4. a.kind # "refused" => Named(a.surface)'
    BY <1>2, <1>4
  <2> QED
    BY <1>1, <1>4, <2>1, <2>2, <2>3, <2>4 DEF ShownInv
<1> QED
  BY <1>3, <1>4 DEF Tells

-----------------------------------------------------------------------------
(* What an operation may resolve to *)

LabActions == {"select-profile", "configure-channel", "configure-custom-waveform"}

TargetShape(target) ==
    /\ IsFeature(target) => driver # "neptune"
    /\ IsFeature(target) /\ driver = "tinysa" =>
          /\ target.action \in {"configure", "set-output", "touch"}
          /\ target.action = "set-output" => target.enabled \in BOOLEAN
    /\ IsFeature(target) /\ driver = "signallab" =>
          /\ target.action \in LabActions
          /\ target.action = "select-profile" => target.value \in DOMAIN caps.profiles
    /\ ~IsFeature(target) /\ driver = "signallab" => target.kind \in {"spectrum", "power", "capture"}

LEMMA TinySaResolves ==
    ASSUME driver = "tinysa", NEW op \in Operations, NEW intents, NEW target \in Resolved(op, intents)
    PROVE  TargetShape(target)
<1> USE DEF SweepOp, PowerOp, SourceOp, OutputOp
<1>0. op \in TinySaOperations(caps) /\ target \in TinySaResolved(caps, session, op, intents)
  BY DEF Operations, Resolved
<1>1. CASE op = SweepOp
  <2>1. target \in ResolvedSweep(caps, session, intents)
    BY <1>0, <1>1 DEF TinySaResolved
  <2> QED
    BY <2>1 DEF ResolvedSweep, TargetShape, IsFeature
<1>2. CASE op = PowerOp
  <2>1. target \in ResolvedPower(caps, session, intents)
    BY <1>0, <1>2 DEF TinySaResolved
  <2> QED
    BY <2>1 DEF ResolvedPower, TargetShape, IsFeature
<1>3. CASE op = SourceOp
  <2>1. target \in ResolvedSource(caps, session, intents)
    BY <1>0, <1>3 DEF TinySaResolved
  <2>2. target.action = "configure" /\ IsFeature(target)
    BY <2>1 DEF ResolvedSource, IsFeature
  <2> QED
    BY <2>2 DEF TargetShape
<1>4. CASE op = OutputOp
  <2>1. target \in ResolvedOutput(intents)
    BY <1>0, <1>4 DEF TinySaResolved
  <2>2. target.action = "set-output" /\ target.enabled \in BOOLEAN /\ IsFeature(target)
    <3> DEFINE on == IsManual(intents["output"]) /\ intents["output"].value
    <3>1. on \in BOOLEAN
      BY Zenon
    <3>2. target \in {[action |-> "set-output", enabled |-> on]}
      BY <2>1 DEF ResolvedOutput
    <3> HIDE DEF on
    <3> QED
      BY <3>1, <3>2 DEF IsFeature
  <2> QED
    BY <2>2 DEF TargetShape
<1> QED
  BY <1>0, <1>1, <1>2, <1>3, <1>4 DEF TinySaOperations

LEMMA LabResolves ==
    ASSUME driver = "signallab", SessionShape, NEW op \in Operations, NEW intents, DOMAIN intents = Names(op),
           NEW target \in Resolved(op, intents)
    PROVE  TargetShape(target)
<1> USE DEF Lab!SpectrumOp, Lab!ObserveOp, Lab!CaptureIqOp, Lab!ProfileOp, Lab!ChannelOp, Lab!WaveformOp
<1>0. target \in Lab!ResolvedLab(caps, session, op, intents)
  BY DEF Resolved
<1>1. CASE op \in {Lab!SpectrumOp, Lab!ObserveOp, Lab!CaptureIqOp}
  <2>1. "action" \notin DOMAIN target /\ target.kind \in {"spectrum", "power", "capture"}
    BY <1>0, <1>1 DEF Lab!ResolvedLab
  <2> QED
    BY <2>1 DEF TargetShape, IsFeature
<1>2. CASE op = Lab!ProfileOp
  <2>1. target.action = "select-profile" /\ target.value = Resolve(intents["profile"], session.status.profile) /\ IsFeature(target)
    BY <1>0, <1>2 DEF Lab!ResolvedLab, Lab!Resolve, Resolve, Lab!IsManual, IsManual, IsFeature
  <2>2. IsManual(intents["profile"]) => intents["profile"].value \in DOMAIN caps.profiles
    <3>1. "profile" \in DOMAIN intents
      BY <1>2 DEF Names
    <3>2. Lab!IsManual(intents["profile"]) => intents["profile"].value \in Lab!Offered(Lab!LabDomain(caps, op, "profile"))
      BY <1>0, <3>1 DEF Lab!ResolvedLab
    <3>3. Lab!LabDomain(caps, op, "profile") = Lab!OneOf(DOMAIN caps.profiles)
      BY <1>2 DEF Lab!LabDomain
    <3> QED
      BY <3>2, <3>3 DEF Lab!Offered, Lab!OneOf, Lab!IsManual, IsManual
  <2> QED
    BY <2>1, <2>2 DEF TargetShape, LabActions, Resolve, SessionShape
<1>3. CASE op = Lab!ChannelOp
  <2>1. target.action = "configure-channel" /\ IsFeature(target)
    BY <1>0, <1>3 DEF Lab!ResolvedLab, IsFeature
  <2> QED
    BY <2>1 DEF TargetShape, LabActions
<1>4. CASE op = Lab!WaveformOp
  <2>1. target.action = "configure-custom-waveform" /\ IsFeature(target)
    BY <1>0, <1>4 DEF Lab!ResolvedLab, IsFeature
  <2> QED
    BY <2>1 DEF TargetShape, LabActions
<1> QED
  BY <1>1, <1>2, <1>3, <1>4 DEF Operations

LEMMA Resolves ==
    ASSUME SessionShape, NEW op \in Operations, NEW intents, DOMAIN intents = Names(op),
           NEW target \in Resolved(op, intents)
    PROVE  TargetShape(target)
<1>1. CASE driver = "neptune"
  <2>1. target \in Neptune!ResolvedCapture(caps, intents)
    BY <1>1 DEF Resolved
  <2>2. "action" \notin DOMAIN target
    BY <2>1 DEF Neptune!ResolvedCapture
  <2> QED
    BY <1>1, <2>2 DEF TargetShape, IsFeature
<1> QED
  BY <1>1, TinySaResolves, LabResolves DEF SessionShape

-----------------------------------------------------------------------------
(* The panel *)

LEMMA SurfaceInvInit == Init => SurfaceInv
<1> SUFFICES ASSUME Init PROVE SurfaceInv
  OBVIOUS
<1>1. SessionShape
  <2>1. CASE driver = "tinysa"
    <3>1. DOMAIN session = {"configuration", "source", "sourceIntents", "output", "outputIntent", "pending", "epoch"}
      BY <2>1 DEF Init, NoTinySa
    <3>2. session.output = FALSE /\ session.epoch = 0
      BY <2>1 DEF Init, NoTinySa
    <3>3. session.output \in BOOLEAN
      BY <3>2
    <3>4. session.epoch \in Nat
      BY <3>2
    <3> QED
      BY <2>1, <3>1, <3>3, <3>4 DEF SessionShape
  <2>2. CASE driver = "neptune"
    <3>1. DOMAIN session = {"configuration", "revision"} /\ session.revision \in Nat
      BY <2>2 DEF Init, Neptune!NoCapture
    <3> QED
      BY <2>2, <3>1 DEF SessionShape
  <2>3. CASE driver = "signallab"
    <3>1. PICK status \in LabStatuses : session = Lab!NoSignalLab(status)
      BY <2>3 DEF Init
    <3>2. DOMAIN status = {"profile", "channel", "pinned", "epoch"} /\ status.epoch \in Nat
          /\ status.profile \in DOMAIN caps.profiles
      BY <2>3, UnitsAssumption DEF Init, driver, caps
    <3>3. DOMAIN session = {"status", "configuration", "revision", "intents", "pending"}
          /\ session.status = status /\ session.revision \in Nat
      BY <3>1 DEF Lab!NoSignalLab
    <3> QED
      BY <2>3, <3>2, <3>3 DEF SessionShape
  <2> QED
    BY <2>1, <2>2, <2>3 DEF Init
<1>11. ManagerShape
  <2>1. PICK rf, catalog : manager = FreshManager(rf, catalog) /\ rf = IF driver = "tinysa" /\ caps.rf THEN "off" ELSE "none"
    BY DEF Init
  <2>2. DOMAIN manager = {"configuration", "overlay", "rf", "fault", "revision", "catalog"}
        /\ manager.rf = rf /\ manager.fault = FALSE /\ manager.revision = 0
    BY <2>1 DEF FreshManager
  <2>3. manager.fault \in BOOLEAN
    BY <2>2
  <2>4. manager.revision \in Nat
    BY <2>2
  <2>5. manager.rf \in {"none", "off", "on", "unknown"} /\ (manager.rf = "none" <=> ~(driver = "tinysa" /\ caps.rf))
    BY <2>1, <2>2
  <2> QED
    BY <2>2, <2>3, <2>4, <2>5 DEF ManagerShape
<1>2. CommandShape /\ PanelShape
  BY DEF Init, CommandShape, PanelShape, NoCommand, NoRequest
<1>3. AnswerShape
  BY DEF Init, AnswerShape, IsList
<1>4. ConfigurationInv
  BY DEF Init, ConfigurationInv, Halfway, NoCommand, NoTinySa, Neptune!NoCapture, Lab!NoSignalLab, FreshManager,
         NoConfiguration, Neptune!NoConfiguration, Lab!NoConfiguration
<1>5. OutputInv
  BY DEF Init, OutputInv, Touching, NoCommand, NoTinySa, FreshManager
<1>6. CatalogInv /\ RevisionInv
  BY DEF Init, CatalogInv, RevisionInv, Neptune!NoCapture, Lab!NoSignalLab, FreshManager,
         NoConfiguration, Neptune!NoConfiguration
<1>7. ShownInv
  BY DEF Init, ShownInv
<1> QED
  BY <1>1, <1>11, <1>2, <1>3, <1>4, <1>5, <1>6, <1>7 DEF SurfaceInv, SoundInv

\* While session, manager and command stay, what the panel does or is told
\* leaves everything else as it was.
LEMMA PanelStepKeepsInv ==
    ASSUME SurfaceInv, UNCHANGED <<unit, session, manager, command>>, PanelShape', AnswerShape',
           ~manager.fault /\ SoundInv => ShownInv'
    PROVE  SurfaceInv'
<1>1. driver' = driver /\ caps' = caps
  BY DEF driver, caps
<1>2. SessionShape' /\ ManagerShape'
  BY <1>1 DEF SurfaceInv, SessionShape, ManagerShape
<1>3. CommandShape'
  BY <1>1 DEF SurfaceInv, CommandShape, IsOutput, IsFeature, Generates
<1>4. ConfigurationInv => ConfigurationInv'
  BY DEF ConfigurationInv, Halfway, IsFeature
<1>5. OutputInv => OutputInv'
  BY <1>1 DEF OutputInv, Touching, IsFeature
<1>6. CatalogInv /\ RevisionInv => CatalogInv' /\ RevisionInv'
  BY <1>1 DEF CatalogInv, RevisionInv
<1> QED
  BY <1>2, <1>3, <1>4, <1>5, <1>6 DEF SurfaceInv, SoundInv

LEMMA QuietSurface ==
    ASSUME UNCHANGED <<unit, session, manager>>
    PROVE  Surface' = Surface /\ Advances
<1>1. Surface' = Surface
  BY DEF Surface, DriverSurface, driver, caps
<1>2. RevisionOf' = RevisionOf
  BY DEF RevisionOf, driver
<1> QED
  BY <1>1, <1>2 DEF Advances

LEMMA NamesStay ==
    ASSUME unit' = unit
    PROVE  Operations' = Operations /\ \A op : Names(op)' = Names(op)
<1>1. driver' = driver /\ caps' = caps
  BY DEF driver, caps
<1>2. Operations' = Operations
  BY <1>1 DEF Operations
<1>3. \A op : Names(op)' = Names(op)
  BY <1>1 DEF Names
<1> QED
  BY <1>2, <1>3

LEMMA WellFormedStays ==
    ASSUME unit' = unit
    PROVE  \A x : WellFormed(x)' <=> WellFormed(x)
BY NamesStay DEF WellFormed

LEMMA AskKeepsInv ==
    ASSUME SurfaceInv, UNCHANGED <<unit, session, manager, command, answers>>, panel'.surface = panel.surface, PanelShape'
    PROVE  SurfaceInv'
<1>1. AnswerShape'
  BY WellFormedStays DEF SurfaceInv, AnswerShape
<1>2. SessionShape' /\ ManagerShape'
  BY DEF SurfaceInv, SessionShape, ManagerShape, driver, caps
<1>3. ~manager.fault /\ SoundInv => ShownInv'
  <2> HAVE ~manager.fault /\ SoundInv
  <2>1. RevisionInv'
    BY DEF SoundInv, RevisionInv, driver
  <2>2. Tells
    BY DEF Tells
  <2> QED
    BY <1>2, <2>1, <2>2, ShownStays, QuietSurface DEF SurfaceInv, SoundInv
<1> QED
  BY <1>1, <1>3, PanelStepKeepsInv

LEMMA EditKeepsInv == SurfaceInv /\ Edit => SurfaceInv'
<1> SUFFICES ASSUME SurfaceInv, Edit PROVE SurfaceInv'
  OBVIOUS
<1>1. WellFormed(panel.surface) /\ DOMAIN panel = {"surface", "edits"}
  BY DEF SurfaceInv, PanelShape, Edit
<1>2. PICK op \in DOMAIN panel.surface.parameters : \E n \in DOMAIN panel.surface.parameters[op] :
         \E choice \in Intents(panel.surface.parameters[op][n].domain) :
            LET intents == [Shown(op) EXCEPT ![n] = choice]
            IN  /\ Asks(panel.surface, op, intents)
                /\ panel' = [panel EXCEPT !.edits = [operation |-> op, intents |-> intents]]
  BY DEF Edit
<1>3. op \in Operations /\ DOMAIN panel.surface.parameters[op] = Names(op)
  BY <1>1 DEF WellFormed
<1>4. DOMAIN Shown(op) = Names(op)
  BY <1>3 DEF Shown, SurfaceInv, PanelShape
<1>5. PICK intents : /\ DOMAIN intents = Names(op) /\ Asks(panel.surface, op, intents)
                     /\ panel' = [panel EXCEPT !.edits = [operation |-> op, intents |-> intents]]
  BY <1>2, <1>4
<1>6. panel'.surface = panel.surface /\ DOMAIN panel' = {"surface", "edits"}
      /\ panel'.edits.operation = op /\ DOMAIN panel'.edits.intents = Names(op)
  BY <1>1, <1>5
<1>7. /\ DOMAIN request' = {"stage", "revision", "operation", "intents"} /\ request'.stage \in {"sent", "admitted"}
      /\ request'.operation = op /\ request'.intents = intents
  BY <1>5 DEF Asks
<1>8. Operations' = Operations /\ Names(op)' = Names(op)
  BY NamesStay DEF Edit
<1>10. WellFormed(panel.surface)'
  <2>1. ASSUME NEW x, WellFormed(x), panel'.surface = x PROVE WellFormed(panel.surface)'
    BY <2>1, WellFormedStays DEF Edit, WellFormed
  <2> QED
    BY <1>1, <1>6, <2>1
<1>9. PanelShape'
  BY <1>1, <1>3, <1>5, <1>6, <1>7, <1>8, <1>10 DEF PanelShape, Edit
<1> QED
  BY <1>6, <1>9, AskKeepsInv DEF Edit

\* The panel's part does not depend on the session or the manager.
LEMMA PanelShapeShows ==
    ASSUME PanelShape, unit' = unit, DOMAIN panel' = {"surface", "edits"},
           panel'.surface # None => WellFormed(panel'.surface),
           panel'.edits \in {None, panel.edits},
           \/ request' \in {request, NoRequest}
           \/ request.stage # "none" /\ request' = [request EXCEPT !.stage = "admitted"]
    PROVE  PanelShape'
<1>1. Operations' = Operations /\ \A o : Names(o)' = Names(o)
  BY NamesStay
<1>2. panel'.surface # None => WellFormed(panel.surface)'
  <2>1. ASSUME NEW x, WellFormed(x), panel'.surface = x PROVE WellFormed(panel.surface)'
    BY <2>1, WellFormedStays DEF WellFormed
  <2> QED
    BY <2>1
<1>3. ASSUME panel'.edits # None
      PROVE  panel'.edits.operation \in Operations' /\ DOMAIN panel'.edits.intents = Names(panel.edits.operation)'
  <2>1. ASSUME NEW o, o = panel'.edits.operation
        PROVE  Names(panel.edits.operation)' = Names(o)
    BY <2>1 DEF Names, driver, caps
  <2>2. panel'.edits = panel.edits
    BY <1>3
  <2> QED
    BY <1>1, <1>3, <2>1, <2>2 DEF PanelShape
<1>4. ASSUME request' # NoRequest
      PROVE  /\ DOMAIN request' = {"stage", "revision", "operation", "intents"} /\ request'.stage \in {"sent", "admitted"}
             /\ request'.operation \in Operations' /\ DOMAIN request'.intents = Names(request.operation)'
  <2>1. ASSUME NEW o, o = request'.operation
        PROVE  Names(request.operation)' = Names(o)
    BY <2>1 DEF Names, driver, caps
  <2>2. /\ DOMAIN request' = {"stage", "revision", "operation", "intents"} /\ request'.stage \in {"sent", "admitted"}
        /\ request'.operation = request.operation /\ request'.intents = request.intents
        /\ request # NoRequest
    BY <1>4 DEF PanelShape, NoRequest
  <2> QED
    BY <1>1, <2>1, <2>2 DEF PanelShape
<1> QED
  BY <1>2, <1>3, <1>4 DEF PanelShape, NoRequest

LEMMA PanelShapeStays ==
    ASSUME PanelShape, unit' = unit, panel' = panel,
           \/ request' \in {request, NoRequest}
           \/ request.stage # "none" /\ request' = [request EXCEPT !.stage = "admitted"]
    PROVE  PanelShape'
BY PanelShapeShows DEF PanelShape

LEMMA AskAutomaticKeepsInv == SurfaceInv /\ AskAutomatic => SurfaceInv'
<1> SUFFICES ASSUME SurfaceInv, AskAutomatic PROVE SurfaceInv'
  OBVIOUS
<1>1. PICK surface \in {panel.surface, Surface} \ {None} : \E op \in DOMAIN surface.parameters :
         Asks(surface, op, AllAuto(surface.parameters[op]))
  BY DEF AskAutomatic
<1>2. WellFormed(surface)
  BY <1>1, SurfaceIs DEF SurfaceInv, PanelShape
<1>3. PICK op \in DOMAIN surface.parameters : Asks(surface, op, AllAuto(surface.parameters[op]))
  BY <1>1
<1>4. op \in Operations /\ DOMAIN AllAuto(surface.parameters[op]) = Names(op)
  BY <1>2 DEF WellFormed, AllAuto
<1>5. /\ DOMAIN request' = {"stage", "revision", "operation", "intents"} /\ request'.stage \in {"sent", "admitted"}
      /\ request'.operation = op /\ DOMAIN request'.intents = Names(op)
  BY <1>3, <1>4 DEF Asks
<1>6. Operations' = Operations /\ \A o : Names(o)' = Names(o)
  BY NamesStay DEF AskAutomatic
<1>7. panel.surface # None => WellFormed(panel.surface)'
  <2>1. ASSUME NEW x, WellFormed(x), panel'.surface = x PROVE WellFormed(panel.surface)'
    BY <2>1, WellFormedStays DEF AskAutomatic, WellFormed
  <2> QED
    BY <2>1 DEF AskAutomatic, SurfaceInv, PanelShape
<1>8. panel' = panel
  BY DEF AskAutomatic
<1>9. Names(op)' = Names(op) /\ op \in Operations'
  BY <1>4, <1>6
<1>10. ASSUME panel.edits # None
       PROVE  panel.edits.operation \in Operations' /\ DOMAIN panel.edits.intents = Names(panel.edits.operation)'
  <2>1. ASSUME NEW o, o = panel.edits.operation
        PROVE  Names(panel.edits.operation)' = Names(o)
    BY <1>8, <2>1 DEF Names, driver, caps, AskAutomatic
  <2> QED
    BY <1>6, <1>10, <2>1 DEF SurfaceInv, PanelShape
<1>11. PanelShape'
  BY <1>5, <1>7, <1>8, <1>9, <1>10 DEF PanelShape, SurfaceInv
<1> QED
  BY <1>8, <1>11, AskKeepsInv DEF AskAutomatic

LEMMA ReadSurfaceKeepsInv == SurfaceInv /\ ReadSurface => SurfaceInv'
<1> SUFFICES ASSUME SurfaceInv, ReadSurface PROVE SurfaceInv'
  OBVIOUS
<1>1. SessionShape' /\ ManagerShape'
  BY DEF ReadSurface, SurfaceInv, SessionShape, ManagerShape, driver, caps
<1>2. Surface' = Surface /\ Advances
  BY QuietSurface DEF ReadSurface
<1>3. Tells
  <2> DEFINE a == [kind |-> "read", surface |-> Surface]
  <2>1. answers' = Append(answers, a) /\ a.kind = "read" /\ a.surface = Surface
    BY DEF ReadSurface
  <2> HIDE DEF a
  <2> QED
    BY <1>2, <2>1 DEF Tells, Kinds
<1>4. AnswerShape'
  BY <1>1, <1>3, AnswersStay DEF SurfaceInv, ReadSurface
<1>5. PanelShape'
  <2>1. panel' = panel /\ request' = request
    BY DEF ReadSurface
  <2>2. Operations' = Operations /\ (\A o : Names(o)' = Names(o)) /\ \A x : WellFormed(x)' <=> WellFormed(x)
    BY NamesStay, WellFormedStays DEF ReadSurface
  <2> QED
    BY <2>1, <2>2, PanelShapeStays DEF SurfaceInv, ReadSurface
<1>6. ~manager.fault /\ SoundInv => ShownInv'
  <2> HAVE ~manager.fault /\ SoundInv
  <2>1. RevisionInv'
    BY DEF SoundInv, RevisionInv, driver, ReadSurface
  <2> QED
    BY <1>1, <1>2, <1>3, <2>1, ShownStays DEF SurfaceInv, SoundInv, ReadSurface
<1> QED
  BY <1>4, <1>5, <1>6, PanelStepKeepsInv DEF ReadSurface

LEMMA TakeAnswerKeepsInv == SurfaceInv /\ TakeAnswer => SurfaceInv'
<1> SUFFICES ASSUME SurfaceInv, TakeAnswer PROVE SurfaceInv'
  OBVIOUS
<1>1. /\ Len(answers) >= 1 /\ Head(answers) = answers[1]
      /\ Len(answers') = Len(answers) - 1 /\ IsList(answers')
      /\ \A i \in 1 .. Len(answers') : answers'[i] = answers[i + 1]
  BY Taken DEF TakeAnswer, SurfaceInv, AnswerShape
<1>2. DOMAIN answers = 1 .. Len(answers) /\ DOMAIN answers' = 1 .. Len(answers') /\ Len(answers) \in Nat /\ Len(answers') \in Nat
  BY <1>1 DEF SurfaceInv, AnswerShape, IsList
<1>3. 1 \in DOMAIN answers /\ \A i \in DOMAIN answers' : i + 1 \in DOMAIN answers
  BY <1>1, <1>2
<1>4. AnswerShape'
  BY <1>1, <1>2, <1>3, WellFormedStays DEF SurfaceInv, AnswerShape, TakeAnswer, IsList
<1>5. SessionShape' /\ ManagerShape'
  BY DEF TakeAnswer, SurfaceInv, SessionShape, ManagerShape, driver, caps
<1>31. /\ answers[1].kind \in Kinds
       /\ answers[1].kind # "refused" => WellFormed(answers[1].surface)
  <2>1. \A i \in DOMAIN answers : answers[i].kind \in Kinds /\ (answers[i].kind # "refused" => WellFormed(answers[i].surface))
    <3>1. AnswerShape
      BY DEF SurfaceInv
    <3> QED
      BY <3>1 DEF AnswerShape
  <2> QED
    BY <1>3, <2>1, Zenon
<1>6. \/ answers[1].kind # "refused" /\ Show(answers[1].surface) /\ request' \in {request, NoRequest}
      \/ panel' = panel /\ request' = NoRequest
  <2>1. CASE Head(answers).kind = "read"
    BY <1>1, <2>1 DEF TakeAnswer
  <2>2. CASE Head(answers).kind = "applied"
    BY <1>1, <2>2 DEF TakeAnswer
  <2>3. CASE Head(answers).kind = "refused"
    BY <1>1, <2>3 DEF TakeAnswer
  <2> QED
    BY <1>1, <1>31, <2>1, <2>2, <2>3 DEF Kinds
<1>7. PanelShape'
  <2>1. CASE panel' = panel /\ request' = NoRequest
    BY <2>1, PanelShapeStays DEF SurfaceInv, TakeAnswer
  <2>2. CASE answers[1].kind # "refused" /\ Show(answers[1].surface) /\ request' \in {request, NoRequest}
    <3>1. panel'.surface = answers[1].surface /\ DOMAIN panel' = {"surface", "edits"} /\ panel'.edits \in {None, panel.edits}
      BY <2>2 DEF Show
    <3>2. WellFormed(answers[1].surface)
      BY <2>2, <1>31
    <3> QED
      BY <2>2, <3>1, <3>2, PanelShapeShows DEF SurfaceInv, TakeAnswer
  <2> QED
    BY <1>6, <2>1, <2>2
<1>8. ~manager.fault /\ SoundInv => ShownInv'
  <2> HAVE ~manager.fault /\ SoundInv
  <2>1. \A x : Named(x) => Named(x)'
    BY <1>5, NamedStays, QuietSurface DEF SurfaceInv, TakeAnswer
  <2>2. panel'.surface = panel.surface \/ (answers[1].kind # "refused" /\ panel'.surface = answers[1].surface)
    BY <1>6 DEF Show
  <2>3. panel'.surface # None => Named(panel'.surface)
    BY <2>2, <1>3 DEF SoundInv, ShownInv
  <2>4. \A i \in DOMAIN answers' : answers'[i].kind # "refused" => Named(answers'[i].surface)
    BY <1>1, <1>2, <1>3 DEF SoundInv, ShownInv
  <2>5. ASSUME NEW x, x = panel'.surface, x # None PROVE Named(x)'
    BY <2>1, <2>3, <2>5
  <2>6. ASSUME NEW i \in DOMAIN answers', NEW x, x = answers'[i].surface, answers'[i].kind # "refused" PROVE Named(x)'
    BY <2>1, <2>4, <2>6
  <2> QED
    BY <2>5, <2>6 DEF ShownInv
<1> QED
  BY <1>4, <1>7, <1>8, PanelStepKeepsInv DEF TakeAnswer

-----------------------------------------------------------------------------
(* The manager *)

\* The session, but for what is staged.
Like(s) ==
    /\ driver = "tinysa" =>
          /\ DOMAIN s = DOMAIN session
          /\ s.configuration = session.configuration /\ s.source = session.source
          /\ s.sourceIntents = session.sourceIntents /\ s.output = session.output
          /\ s.outputIntent = session.outputIntent /\ s.epoch = session.epoch
    /\ driver = "neptune" => s = session
    /\ driver = "signallab" =>
          /\ DOMAIN s = DOMAIN session /\ s.status = session.status /\ s.configuration = session.configuration
          /\ s.revision = session.revision /\ s.intents = session.intents

LEMMA StagedIsLike ==
    ASSUME SessionShape, NEW op, NEW intents, NEW target
    PROVE  Like(Staged(op, intents, target)) /\ Like(session)
<1>1. CASE driver = "tinysa"
  BY <1>1 DEF Like, Staged, Stage, SessionShape
<1>2. CASE driver = "neptune"
  BY <1>2 DEF Like, Staged
<1>3. CASE driver = "signallab"
  BY <1>3 DEF Like, Staged, Lab!LabStage, SessionShape
<1> QED
  BY <1>1, <1>2, <1>3 DEF SessionShape

LEMMA LikeShape ==
    ASSUME SessionShape, unit' = unit, Like(session')
    PROVE  SessionShape'
<1>0. driver' = driver /\ caps' = caps
  BY DEF driver, caps
<1> QED
  BY <1>0 DEF SessionShape, Like

LEMMA LikeIsQuiet ==
    ASSUME SessionShape, unit' = unit, Like(session'), manager'.overlay = manager.overlay,
           manager'.revision = manager.revision
    PROVE  /\ SessionShape' /\ Advances
           /\ session'.configuration = session.configuration
           /\ driver = "tinysa" => session'.output = session.output
           /\ RevisionInv => RevisionInv'
           /\ driver = "signallab" => session'.status = session.status
<1>0. driver' = driver /\ caps' = caps
  BY DEF driver, caps
<1>1. CASE driver = "tinysa"
  <2>1. DriverSurface' = DriverSurface
    <3>1. TinySaSurface(caps, session') = TinySaSurface(caps, session)
      BY <1>1, TinySaSurfaceOf DEF Like
    <3> QED
      BY <1>0, <1>1, <3>1 DEF DriverSurface
  <2>2. SessionShape'
    BY <1>0, <1>1 DEF SessionShape, Like
  <2>3. RevisionOf' = RevisionOf
    BY <1>0, <1>1 DEF RevisionOf, Like
  <2> QED
    BY <1>0, <1>1, <2>1, <2>2, <2>3 DEF Advances, Surface, Like, RevisionInv
<1>2. CASE driver = "neptune"
  <2>1. session' = session
    BY <1>2 DEF Like
  <2>2. DriverSurface' = DriverSurface /\ RevisionOf' = RevisionOf
    BY <1>0, <1>2, <2>1 DEF DriverSurface, RevisionOf
  <2> QED
    BY <1>0, <1>2, <2>1, <2>2 DEF Advances, Surface, RevisionInv, SessionShape
<1>3. CASE driver = "signallab"
  <2>1. DriverSurface' = DriverSurface
    <3>1. Lab!SignalLabSurface(caps, session') = Lab!SignalLabSurface(caps, session)
      BY <1>3, LabSurfaceOf DEF Like
    <3> QED
      BY <1>0, <1>3, <3>1 DEF DriverSurface
  <2>2. SessionShape'
    BY <1>0, <1>3 DEF SessionShape, Like
  <2>3. RevisionOf' = RevisionOf
    BY <1>0, <1>3 DEF RevisionOf, Like
  <2> QED
    BY <1>0, <1>3, <2>1, <2>2, <2>3 DEF Advances, Surface, Like, RevisionInv
<1> QED
  BY <1>1, <1>2, <1>3 DEF SessionShape

LEMMA EitherTells ==
    ASSUME \/ answers' = answers
           \/ answers' = Append(answers, [kind |-> "applied", surface |-> Surface'])
           \/ answers' = Append(answers, [kind |-> "refused"])
    PROVE  Tells
<1> DEFINE a == [kind |-> "applied", surface |-> Surface']
           r == [kind |-> "refused"]
<1>1. a.kind = "applied" /\ a.surface = Surface' /\ r.kind = "refused"
  OBVIOUS
<1>2. answers' = answers \/ answers' = Append(answers, a) \/ answers' = Append(answers, r)
  OBVIOUS
<1> HIDE DEF a, r
<1> QED
  BY <1>1, <1>2 DEF Tells, Kinds

LEMMA RefusedTells ==
    ASSUME NEW who, Answer(who, FALSE)
    PROVE  Tells
BY EitherTells DEF Answer

LEMMA AppliedTells ==
    ASSUME NEW who, Answer(who, TRUE)
    PROVE  Tells
BY EitherTells DEF Answer

LEMMA RefuseKeepsInv ==
    ASSUME SurfaceInv, command = NoCommand, NEW s, Like(s), Refuse(s), unit' = unit, panel' = panel, PanelShape'
    PROVE  SurfaceInv'
<1>0. driver' = driver /\ caps' = caps
  BY DEF driver, caps
<1>1. /\ session' = s /\ manager' = manager /\ command' = NoCommand /\ Tells
  BY RefusedTells DEF Refuse
<1>2. /\ SessionShape' /\ Advances /\ (RevisionInv => RevisionInv')
      /\ session'.configuration = session.configuration
      /\ driver = "tinysa" => session'.output = session.output
      /\ driver = "signallab" => session'.status = session.status
  BY <1>1, LikeIsQuiet DEF SurfaceInv
<1>3. ManagerShape' /\ CommandShape'
  BY <1>0, <1>1 DEF SurfaceInv, ManagerShape, CommandShape
<1>4. AnswerShape'
  BY <1>1, <1>2, AnswersStay DEF SurfaceInv
<1>5. ~manager'.fault => SoundInv'
  <2> SUFFICES ASSUME ~manager.fault PROVE SoundInv'
    BY <1>1
  <2>0. SoundInv
    BY DEF SurfaceInv
  <2>1. ConfigurationInv'
    BY <1>1, <1>2, <2>0 DEF SoundInv, ConfigurationInv, Halfway, NoCommand
  <2>2. OutputInv'
    BY <1>0, <1>1, <1>2, <2>0 DEF SoundInv, OutputInv, Touching, NoCommand
  <2>3. CatalogInv'
    BY <1>0, <1>1, <1>2, <2>0 DEF SoundInv, CatalogInv
  <2>4. RevisionInv'
    BY <1>2, <2>0 DEF SoundInv
  <2>5. ShownInv'
    BY <1>1, <1>2, <1>3, <2>0, <2>4, ShownStays DEF SurfaceInv, SoundInv
  <2> QED
    BY <2>1, <2>2, <2>3, <2>4, <2>5 DEF SoundInv
<1> QED
  BY <1>2, <1>3, <1>4, <1>5 DEF SurfaceInv

\* A command on its way: the output alone leaves the configuration bound.
LEMMA DispatchedIs ==
    ASSUME ManagerShape, NEW target
    PROVE  LET m == Dispatched(target)
           IN  /\ DOMAIN m = DOMAIN manager /\ m.fault = manager.fault /\ m.revision = manager.revision
               /\ m.catalog = manager.catalog /\ m.rf = (IF manager.rf = "none" THEN "none" ELSE "unknown")
               /\ IsOutput(target) => m.configuration = manager.configuration /\ m.overlay = manager.overlay
               /\ ~IsOutput(target) => m.configuration = NoConfiguration /\ m.overlay = NoOverlay
<1>1. CASE IsOutput(target)
  <2>1. Dispatched(target) = [manager EXCEPT !.rf = Uncertain(@)]
    BY <1>1 DEF Dispatched
  <2> QED
    BY <1>1, <2>1 DEF ManagerShape, Uncertain
<1>2. CASE ~IsOutput(target)
  <2>1. Dispatched(target) = [Invalidated(manager) EXCEPT !.rf = Uncertain(@)]
    BY <1>2 DEF Dispatched
  <2> QED
    BY <1>2, <2>1 DEF ManagerShape, Uncertain, Invalidated
<1> QED
  BY <1>1, <1>2

LEMMA FaultedIs ==
    ASSUME ManagerShape
    PROVE  LET m == Faulted(manager)
           IN  /\ DOMAIN m = DOMAIN manager /\ m.fault = TRUE /\ m.revision = manager.revision
               /\ m.catalog = manager.catalog /\ m.rf = (IF manager.rf = "none" THEN "none" ELSE "unknown")
BY DEF ManagerShape, Uncertain, Invalidated, Faulted

LEMMA AdmittedIs ==
    ASSUME NEW m, DOMAIN m = {"configuration", "overlay", "rf", "fault", "revision", "catalog"}, NEW c
    PROVE  LET a == Admitted(m, c)
           IN  /\ DOMAIN a = DOMAIN m /\ a.fault = m.fault /\ a.revision = m.revision + 1 /\ a.catalog = m.catalog
               /\ a.rf = (IF m.rf = "none" THEN "none" ELSE "off") /\ a.configuration = c.target
BY DEF Admitted

IsCommand(c) ==
    /\ DOMAIN c = {"target", "operation", "intents", "caller", "stage"} /\ c.stage = "device"
    /\ TargetShape(c.target)

\* A command on its way to a TinySA or a Neptune.
LEMMA SentKeepsInv ==
    ASSUME SurfaceInv, command = NoCommand, NEW s, Like(s), NEW c, IsCommand(c), MayDispatch(c.target),
           driver # "signallab", session' = Begun(s, c.target), manager' = Dispatched(c.target), command' = c,
           answers' = answers, unit' = unit, panel' = panel, PanelShape'
    PROVE  SurfaceInv'
<1>0. driver' = driver /\ caps' = caps /\ SessionShape /\ ManagerShape /\ AnswerShape
  BY DEF driver, caps, SurfaceInv
<1> DEFINE target == c.target
<1>1. /\ DOMAIN manager' = DOMAIN manager /\ manager'.fault = manager.fault /\ manager'.revision = manager.revision
      /\ manager'.catalog = manager.catalog /\ manager'.rf = (IF manager.rf = "none" THEN "none" ELSE "unknown")
      /\ IsOutput(target) => manager'.configuration = manager.configuration /\ manager'.overlay = manager.overlay
      /\ ~IsOutput(target) => manager'.configuration = NoConfiguration /\ manager'.overlay = NoOverlay
  BY <1>0, DispatchedIs
<1>2. ManagerShape'
  BY <1>0, <1>1 DEF ManagerShape
<1>3. IsFeature(target) => /\ driver = "tinysa" /\ target.action \in {"configure", "set-output", "touch"}
                           /\ target.action # "touch" => manager'.rf # "none"
                           /\ IsOutput(target) => target.enabled \in BOOLEAN
  <2>1. IsFeature(target) => /\ driver = "tinysa" /\ target.action \in {"configure", "set-output", "touch"}
                             /\ IsOutput(target) => target.enabled \in BOOLEAN
    BY <1>0 DEF IsCommand, TargetShape, SessionShape, IsOutput
  <2>2. IsFeature(target) /\ driver = "tinysa" /\ target.action # "touch" => caps.rf
    BY DEF MayDispatch, Binds
  <2> QED
    BY <1>0, <1>1, <2>1, <2>2 DEF ManagerShape
<1>4. CommandShape'
  BY <1>0, <1>3 DEF IsCommand, CommandShape, IsOutput, IsFeature
<1>5. IsOutput(target) => IsFeature(target)
  BY DEF IsOutput
<1>6. /\ SessionShape' /\ Advances /\ (RevisionInv => RevisionInv')
      /\ session'.configuration = IF IsOutput(target) THEN session.configuration ELSE NoConfiguration
      /\ driver = "tinysa" => session'.output = session.output
  <2>1. CASE IsOutput(target)
    <3>1. session' = s /\ driver = "tinysa"
      BY <1>0, <1>3, <1>5, <2>1 DEF Begun, SessionShape
    <3> QED
      BY <1>0, <1>1, <2>1, <3>1, LikeIsQuiet
  <2>2. CASE ~IsOutput(target) /\ driver = "tinysa"
    <3>1. session' = ClearConfiguration(s)
      BY <2>2 DEF Begun
    <3>2. /\ DOMAIN session' = DOMAIN session /\ session'.configuration = NoConfiguration
          /\ session'.output = session.output /\ session'.epoch = session.epoch + 1
      BY <1>0, <2>2, <3>1 DEF Like, ClearConfiguration, Bump, SessionShape
    <3>3. session.epoch \in Nat
      BY <1>0, <2>2 DEF SessionShape
    <3>4. SessionShape'
      BY <1>0, <2>2, <3>2, <3>3 DEF SessionShape
    <3>5. Advances
      BY <2>2, <3>2, <3>3 DEF Advances
    <3> QED
      BY <1>0, <2>2, <3>2, <3>4, <3>5 DEF RevisionInv
  <2>3. CASE driver = "neptune"
    <3>1. session' = Neptune!NoCapture /\ ~IsOutput(target)
      BY <1>3, <1>5, <2>3 DEF Begun
    <3>2. SessionShape' /\ session'.configuration = NoConfiguration /\ session'.revision = 0
      BY <1>0, <2>3, <3>1 DEF SessionShape, Neptune!NoCapture, NoConfiguration, Neptune!NoConfiguration
    <3>3. Surface' = Blank
      BY <1>0, <1>1, <2>3, <3>1 DEF Surface, DriverSurface, Blank
    <3> QED
      BY <1>0, <1>1, <2>3, <3>1, <3>2, <3>3 DEF Advances, RevisionInv
  <2> QED
    BY <1>0, <2>1, <2>2, <2>3 DEF SessionShape
<1>7. Tells
  BY DEF Tells
<1>8. AnswerShape'
  BY <1>0, <1>6, <1>7, AnswersStay
<1>9. ~manager'.fault => SoundInv'
  <2> SUFFICES ASSUME ~manager.fault PROVE SoundInv'
    BY <1>1
  <2>0. SoundInv /\ command'.stage = "device"
    BY DEF SurfaceInv, IsCommand
  <2>1. ConfigurationInv'
    BY <1>1, <1>6, <2>0 DEF SoundInv, ConfigurationInv, Halfway, NoCommand
  <2>2. OutputInv'
    <3> SUFFICES ASSUME driver = "tinysa" PROVE OutputInv'
      BY <1>0 DEF OutputInv
    <3>1. session.output <=> manager.rf = "on"
      BY <2>0 DEF SoundInv, OutputInv
    <3>2. manager'.rf # "on" /\ (manager'.rf = "none" => manager.rf = "none") /\ command' # NoCommand
      BY <1>1, <2>0 DEF NoCommand
    <3>3. Touching' => ~session.output
      <4>1. Touching' => IsFeature(target) /\ target.action = "touch"
        BY DEF Touching, IsFeature
      <4>2. IsFeature(target) /\ target.action = "touch" => manager.rf \notin {"on", "unknown"}
        BY DEF MayDispatch, IsBlocked, IsSafe, IsOutput
      <4> QED
        BY <3>1, <4>1, <4>2
    <3> QED
      BY <1>0, <1>6, <3>1, <3>2, <3>3 DEF OutputInv
  <2>3. CatalogInv'
    BY <1>0 DEF CatalogInv
  <2>4. RevisionInv'
    BY <1>6, <2>0 DEF SoundInv
  <2>5. ShownInv'
    BY <1>0, <1>2, <1>6, <1>7, <2>0, <2>4, ShownStays DEF SoundInv
  <2> QED
    BY <2>1, <2>2, <2>3, <2>4, <2>5 DEF SoundInv
<1> QED
  BY <1>2, <1>4, <1>6, <1>8, <1>9 DEF SurfaceInv

\* What the manager lets through, SignalLab accepts.
LEMMA LabBindsAccepted ==
    ASSUME NEW s, NEW conf, conf.kind \in {"spectrum", "power", "capture"}, s.status.profile \in DOMAIN caps.profiles,
           Lab!LabBinds(caps, Lab!Catalog(caps, s.status), conf)
    PROVE  Lab!LabAccepts(caps, s, conf)
<1> DEFINE catalog == Lab!Catalog(caps, s.status)
<1>1. \A r, v : Lab!Admits(r, v) => Lab!Within(r, v)
  BY DEF Lab!Admits, Lab!Within
<1>2. Lab!Selected(catalog) = Lab!Waveform(caps, s.status, s.status.profile)
  BY DEF Lab!Catalog, Lab!Selected
<1> HIDE DEF catalog
<1>3. Lab!LabBinds(caps, catalog, conf)
  BY DEF catalog
<1>4. CASE conf.kind = "spectrum"
  <2>1. Lab!Admits(caps.frequency, conf.start) /\ Lab!Admits(caps.frequency, conf.stop) /\ conf.start < conf.stop
    BY <1>3, <1>4 DEF Lab!LabBinds
  <2> QED
    BY <1>1, <1>4, <2>1 DEF Lab!LabAccepts
<1>5. CASE conf.kind = "power"
  <2>1. Lab!Admits(caps.frequency, conf.center)
    BY <1>3, <1>5 DEF Lab!LabBinds
  <2> QED
    BY <1>1, <1>5, <2>1 DEF Lab!LabAccepts
<1>6. CASE conf.kind = "capture"
  <2>1. /\ \A n \in {"rate", "bandwidth", "samples"} : Lab!Admits(caps[n], conf[n])
        /\ conf.bandwidth <= conf.rate
        /\ Lab!IqRules(Lab!Waveform(caps, s.status, s.status.profile), conf)
    BY <1>2, <1>3, <1>6 DEF Lab!LabBinds
  <2> QED
    BY <1>1, <1>6, <2>1 DEF Lab!LabAccepts
<1> QED
  BY <1>4, <1>5, <1>6

LEMMA LabConfiguresKeepsInv ==
    ASSUME SurfaceInv, command = NoCommand, NEW s, Like(s), NEW c, IsCommand(c), MayDispatch(c.target),
           driver = "signallab", ~IsFeature(c.target), LabConfigures(s, c), command' = command,
           unit' = unit, panel' = panel, PanelShape'
    PROVE  SurfaceInv'
<1>0. driver' = driver /\ caps' = caps /\ SessionShape /\ ManagerShape /\ AnswerShape
  BY DEF driver, caps, SurfaceInv
<1> DEFINE target == c.target
           m == Dispatched(target)
<1>1. /\ DOMAIN m = DOMAIN manager /\ m.fault = manager.fault /\ m.revision = manager.revision
      /\ m.catalog = manager.catalog /\ m.rf = (IF manager.rf = "none" THEN "none" ELSE "unknown")
      /\ m.configuration = NoConfiguration /\ m.overlay = NoOverlay
  BY <1>0, DispatchedIs DEF IsOutput
<1>2. manager.rf = "none"
  BY <1>0 DEF ManagerShape
<1>3. DOMAIN s = DOMAIN session /\ s.status = session.status /\ s.revision = session.revision /\ s.intents = session.intents
  BY DEF Like
<1>4. /\ session' \in {s, Bound(s, target)}
      /\ manager' \in {m, Admitted(m, c)}
  BY DEF LabConfigures
<1>41. /\ DOMAIN Bound(s, target) = DOMAIN session /\ Bound(s, target).status = session.status
       /\ Bound(s, target).revision = manager.revision + 1 /\ Bound(s, target).configuration = target
       /\ Bound(s, target).intents = session.intents
  BY <1>0, <1>3 DEF Bound, SessionShape
<1>42. /\ DOMAIN Admitted(m, c) = DOMAIN manager /\ Admitted(m, c).fault = manager.fault
       /\ Admitted(m, c).revision = manager.revision + 1 /\ Admitted(m, c).catalog = manager.catalog
       /\ Admitted(m, c).rf = "none" /\ Admitted(m, c).configuration = target
  BY <1>0, <1>1, <1>2, AdmittedIs DEF ManagerShape
<1> HIDE DEF m
<1>43. manager.revision \in Nat
  BY <1>0 DEF ManagerShape
<1>5. SessionShape'
  <2>1. /\ DOMAIN session' = DOMAIN session /\ session'.status = session.status
        /\ session'.revision \in {session.revision, manager.revision + 1}
    BY <1>3, <1>4, <1>41
  <2> QED
    BY <1>0, <1>43, <2>1 DEF SessionShape
<1>6. ManagerShape' /\ manager'.fault = manager.fault
  BY <1>0, <1>1, <1>2, <1>4, <1>42, <1>43 DEF ManagerShape
<1>7. CommandShape'
  BY DEF CommandShape
<1>8. Tells
  <2>1. \/ answers' = answers
        \/ answers' = Append(answers, [kind |-> "applied", surface |-> Surface'])
        \/ answers' = Append(answers, [kind |-> "refused"])
    BY DEF LabConfigures, Answer
  <2> QED
    BY <2>1, EitherTells
<1>9. AnswerShape'
  BY <1>0, <1>5, <1>8, AnswersStay
<1>10. ~manager'.fault => SoundInv'
  <2> SUFFICES ASSUME ~manager.fault PROVE SoundInv'
    BY <1>6
  <2>0. SoundInv
    BY DEF SurfaceInv
  <2>1. Lab!LabAccepts(caps, s, target)
    <3>1. target.kind \in {"spectrum", "power", "capture"}
      BY DEF IsCommand, TargetShape
    <3>2. manager.catalog = Lab!Catalog(caps, s.status)
      BY <1>3, <2>0 DEF SoundInv, CatalogInv
    <3>3. Lab!LabBinds(caps, Lab!Catalog(caps, s.status), target)
      BY <3>2 DEF MayDispatch, Binds
    <3>4. s.status.profile \in DOMAIN caps.profiles
      BY <1>0, <1>3 DEF SessionShape
    <3> QED
      BY <3>1, <3>3, <3>4, LabBindsAccepted
  <2>2. session' = Bound(s, target) /\ manager' = Admitted(m, c)
    BY <2>1 DEF LabConfigures, m
  <2>3. ConfigurationInv'
    BY <1>41, <1>42, <2>2 DEF ConfigurationInv, Halfway, NoCommand
  <2>4. OutputInv'
    BY <1>0 DEF OutputInv
  <2>5. CatalogInv'
    BY <1>0, <1>41, <1>42, <2>0, <2>2 DEF SoundInv, CatalogInv
  <2>6. RevisionInv'
    BY <1>0, <1>41, <1>42, <1>43, <2>2 DEF RevisionInv
  <2>7. Advances
    <3>1. session.revision <= manager.revision /\ session.revision \in Nat
      BY <1>0, <2>0 DEF SoundInv, RevisionInv, SessionShape
    <3>2. session.revision < session'.revision
      BY <1>41, <1>43, <2>2, <3>1
    <3> QED
      BY <1>41, <2>2, <3>2 DEF Advances
  <2>8. ShownInv'
    BY <1>0, <1>5, <1>6, <1>8, <2>0, <2>6, <2>7, ShownStays DEF SoundInv
  <2> QED
    BY <2>3, <2>4, <2>5, <2>6, <2>8 DEF SoundInv
<1> QED
  BY <1>5, <1>6, <1>7, <1>9, <1>10 DEF SurfaceInv

\* The service does what it is told, and nothing else changes in its status.
LEMMA ServedIs ==
    ASSUME NEW status, DOMAIN status = {"profile", "channel", "pinned", "epoch"}, status.epoch \in Nat,
           status.profile \in DOMAIN caps.profiles, NEW target, target.action \in LabActions,
           target.action = "select-profile" => target.value \in DOMAIN caps.profiles
    PROVE  LET next == Lab!Served(status, target)
           IN  /\ DOMAIN next = {"profile", "channel", "pinned", "epoch"} /\ next.epoch = status.epoch + 1
               /\ next.profile \in DOMAIN caps.profiles
               /\ target.action = "select-profile" =>
                     next.profile = target.value /\ next.channel = status.channel /\ next.pinned = status.pinned
               /\ target.action = "configure-channel" =>
                     next.profile = status.profile /\ next.channel = target.value /\ next.pinned = status.pinned
               /\ target.action = "configure-custom-waveform" =>
                     next.profile = status.profile /\ next.channel = status.channel /\ next.pinned = target.value
<1>1. CASE target.action = "select-profile"
  BY <1>1 DEF Lab!Served
<1>2. CASE target.action = "configure-channel"
  BY <1>2 DEF Lab!Served
<1>3. CASE target.action = "configure-custom-waveform"
  BY <1>3 DEF Lab!Served
<1> QED
  BY <1>1, <1>2, <1>3 DEF LabActions

\* The capability record the manager makes of it is the service's own.
LEMMA AdmittedCatalogIs ==
    ASSUME NEW status, DOMAIN status = {"profile", "channel", "pinned", "epoch"}, status.epoch \in Nat,
           status.profile \in DOMAIN caps.profiles, NEW target, target.action \in LabActions,
           target.action = "select-profile" => target.value \in DOMAIN caps.profiles,
           Lab!CatalogIsAdmissible(Lab!Catalog(caps, status), Lab!Catalog(caps, Lab!Served(status, target)), target)
    PROVE  Lab!AdmittedCatalog(Lab!Catalog(caps, status), Lab!Catalog(caps, Lab!Served(status, target)), target)
               = Lab!Catalog(caps, Lab!Served(status, target))
<1> DEFINE next == Lab!Served(status, target)
           old == Lab!Catalog(caps, status)
           new == Lab!Catalog(caps, next)
<1>0. /\ target.action = "select-profile" =>
            next.profile = target.value /\ next.channel = status.channel /\ next.pinned = status.pinned
      /\ target.action = "configure-channel" =>
            next.profile = status.profile /\ next.channel = target.value /\ next.pinned = status.pinned
      /\ target.action = "configure-custom-waveform" =>
            next.profile = status.profile /\ next.channel = status.channel /\ next.pinned = target.value
  BY ServedIs
<1> HIDE DEF next
<1>1. /\ old = [selected |-> status.profile, channel |-> status.channel, transports |-> old.transports]
      /\ new = [selected |-> next.profile, channel |-> next.channel, transports |-> new.transports]
      /\ old.transports = [p \in DOMAIN caps.profiles |-> Lab!Waveform(caps, status, p)]
      /\ new.transports = [p \in DOMAIN caps.profiles |-> Lab!Waveform(caps, next, p)]
  BY DEF Lab!Catalog
<1>2. next.pinned = status.pinned => new.transports = old.transports
  BY DEF Lab!Catalog, Lab!Waveform, Lab!WidthOf
<1>3. Lab!CatalogIsAdmissible(old, new, target)
  BY DEF next
<1> HIDE DEF old, new
<1>4. CASE target.action = "select-profile"
  <2>1. Lab!AdmittedCatalog(old, new, target) = [old EXCEPT !.selected = target.value]
    BY <1>4 DEF Lab!AdmittedCatalog
  <2> QED
    BY <1>0, <1>1, <1>2, <1>4, <2>1 DEF old, new, next
<1>5. CASE target.action = "configure-channel"
  <2>1. Lab!AdmittedCatalog(old, new, target) = [old EXCEPT !.channel = target.value]
    BY <1>5 DEF Lab!AdmittedCatalog
  <2> QED
    BY <1>0, <1>1, <1>2, <1>5, <2>1 DEF old, new, next
<1>6. CASE target.action = "configure-custom-waveform"
  <2>1. Lab!AdmittedCatalog(old, new, target) =
           [old EXCEPT !.transports[Lab!CustomProfile] = new.transports[Lab!CustomProfile]]
    BY <1>6 DEF Lab!AdmittedCatalog
  <2>2. \A p \in DOMAIN old.transports \ {Lab!CustomProfile} : new.transports[p] = old.transports[p]
    BY <1>3, <1>6 DEF Lab!CatalogIsAdmissible
  <2>3. [old.transports EXCEPT ![Lab!CustomProfile] = new.transports[Lab!CustomProfile]] = new.transports
    BY <1>1, <2>2
  <2>4. Lab!AdmittedCatalog(old, new, target) = [old EXCEPT !.transports = new.transports]
    BY <2>1, <2>3
  <2>5. Lab!AdmittedCatalog(old, new, target) = new
    BY <1>0, <1>1, <1>6, <2>4
  <2> QED
    BY <2>5 DEF old, new, next
<1> QED
  BY <1>4, <1>5, <1>6 DEF LabActions

LEMMA LabFeatureKeepsInv ==
    ASSUME SurfaceInv, command = NoCommand, NEW s, Like(s), NEW c, IsCommand(c),
           driver = "signallab", IsFeature(c.target), LabExecutes(s, c) \/ LabRefuses(s, c), command' = command,
           unit' = unit, panel' = panel, PanelShape'
    PROVE  SurfaceInv'
<1>0. driver' = driver /\ caps' = caps /\ SessionShape /\ ManagerShape /\ AnswerShape
  BY DEF driver, caps, SurfaceInv
<1> DEFINE target == c.target
           m == Dispatched(target)
           next == Lab!LabFeatureAccepted(s, target)
           refused == Lab!LabFeatureRefused(s, target)
           catalog == Lab!Catalog(caps, next.status)
           admitted == [m EXCEPT !.catalog = Lab!AdmittedCatalog(@, catalog, target)]
<1>1. target.action \in LabActions /\ (target.action = "select-profile" => target.value \in DOMAIN caps.profiles)
  BY DEF IsCommand, TargetShape
<1>2. ~IsOutput(target)
  BY <1>1 DEF IsOutput, LabActions
<1>3. /\ DOMAIN m = DOMAIN manager /\ m.fault = manager.fault /\ m.revision = manager.revision
      /\ m.catalog = manager.catalog /\ m.rf = "none" /\ m.configuration = NoConfiguration /\ m.overlay = NoOverlay
  BY <1>0, <1>2, DispatchedIs DEF ManagerShape
<1>4. /\ DOMAIN Faulted(manager) = DOMAIN manager /\ Faulted(manager).fault = TRUE
      /\ Faulted(manager).revision = manager.revision /\ Faulted(manager).rf = "none"
  BY <1>0, FaultedIs DEF ManagerShape
<1>5. DOMAIN s = DOMAIN session /\ s.status = session.status
  BY DEF Like
<1>6. /\ DOMAIN next = DOMAIN session /\ next.status = Lab!Served(session.status, target)
      /\ next.configuration = NoConfiguration /\ next.revision = 0
  BY <1>0, <1>5 DEF SessionShape, Lab!LabFeatureAccepted, NoConfiguration, Lab!NoConfiguration
<1>7. /\ DOMAIN refused = DOMAIN session /\ refused.status = session.status /\ refused.revision = 0
  BY <1>0, <1>5 DEF SessionShape, Lab!LabFeatureRefused
<1>8. /\ DOMAIN session.status = {"profile", "channel", "pinned", "epoch"} /\ session.status.epoch \in Nat
      /\ session.status.profile \in DOMAIN caps.profiles
  BY <1>0 DEF SessionShape
<1>9. /\ DOMAIN next.status = {"profile", "channel", "pinned", "epoch"} /\ next.status.epoch = session.status.epoch + 1
      /\ next.status.profile \in DOMAIN caps.profiles
  <2> DEFINE served == Lab!Served(session.status, target)
  <2>1. /\ DOMAIN served = {"profile", "channel", "pinned", "epoch"} /\ served.epoch = session.status.epoch + 1
        /\ served.profile \in DOMAIN caps.profiles
    BY <1>1, <1>8, ServedIs
  <2> QED
    BY <1>6, <2>1
<1>10. /\ DOMAIN admitted = DOMAIN manager /\ admitted.fault = manager.fault /\ admitted.revision = manager.revision
       /\ admitted.rf = "none" /\ admitted.configuration = NoConfiguration
       /\ admitted.catalog = Lab!AdmittedCatalog(manager.catalog, catalog, target)
  BY <1>0, <1>3 DEF ManagerShape
<1>11. /\ \/ session' = next /\ manager' = admitted /\ Lab!CatalogIsAdmissible(manager.catalog, catalog, target)
          \/ session' \in {next, refused} /\ manager' = Faulted(manager)
  BY DEF LabExecutes, LabRefuses
<1>12. Tells
  <2>1. \/ answers' = answers
        \/ answers' = Append(answers, [kind |-> "applied", surface |-> Surface'])
        \/ answers' = Append(answers, [kind |-> "refused"])
    BY DEF LabExecutes, LabRefuses, Answer
  <2> QED
    BY <2>1, EitherTells
<1> HIDE DEF m, next, refused, admitted
<1>13. SessionShape'
  <2>1. /\ DOMAIN session' = DOMAIN session /\ session'.revision = 0
        /\ session'.status \in {next.status, session.status}
    BY <1>6, <1>7, <1>11
  <2> QED
    BY <1>0, <1>8, <1>9, <2>1 DEF SessionShape
<1>14. ManagerShape' /\ (~manager'.fault => manager' = admitted /\ session' = next /\ ~manager.fault
                                             /\ Lab!CatalogIsAdmissible(manager.catalog, catalog, target))
  BY <1>0, <1>4, <1>10, <1>11 DEF ManagerShape
<1>15. CommandShape'
  BY DEF CommandShape
<1>16. AnswerShape'
  BY <1>0, <1>12, <1>13, AnswersStay
<1>17. ~manager'.fault => SoundInv'
  <2> SUFFICES ASSUME ~manager.fault, manager' = admitted, session' = next,
                      Lab!CatalogIsAdmissible(manager.catalog, catalog, target)
               PROVE  SoundInv'
    BY <1>14
  <2>0. SoundInv
    BY DEF SurfaceInv
  <2>1. ConfigurationInv'
    BY <1>6, <1>10 DEF ConfigurationInv, Halfway, NoCommand
  <2>2. OutputInv'
    BY <1>0 DEF OutputInv
  <2>3. CatalogInv'
    <3>1. manager.catalog = Lab!Catalog(caps, session.status)
      BY <2>0 DEF SoundInv, CatalogInv
    <3>2. Lab!AdmittedCatalog(manager.catalog, catalog, target) = catalog
      BY <1>1, <1>6, <1>8, <3>1, AdmittedCatalogIs
    <3> QED
      BY <1>0, <1>10, <3>2 DEF CatalogInv
  <2>4. RevisionInv'
    BY <1>0, <1>6, <1>14 DEF RevisionInv, ManagerShape
  <2>5. Advances
    BY <1>8, <1>9 DEF Advances
  <2>6. ShownInv'
    BY <1>0, <1>12, <1>13, <1>14, <2>0, <2>4, <2>5, ShownStays DEF SoundInv
  <2> QED
    BY <2>1, <2>2, <2>3, <2>4, <2>6 DEF SoundInv
<1> QED
  BY <1>13, <1>14, <1>15, <1>16, <1>17 DEF SurfaceInv

LEMMA DispatchKeepsInv ==
    ASSUME SurfaceInv, command = NoCommand, NEW s, Like(s), NEW c, IsCommand(c), MayDispatch(c.target), Dispatch(s, c),
           unit' = unit, panel' = panel, PanelShape'
    PROVE  SurfaceInv'
<1>1. CASE driver = "signallab"
  BY <1>1, LabConfiguresKeepsInv, LabFeatureKeepsInv DEF Dispatch
<1>2. CASE driver # "signallab"
  BY <1>2, SentKeepsInv DEF Dispatch
<1> QED
  BY <1>1, <1>2

LEMMA CommandIs ==
    ASSUME NEW target, TargetShape(target), NEW operation, NEW intents, NEW caller
    PROVE  IsCommand(Command(target, operation, intents, caller)) /\ Command(target, operation, intents, caller).target = target
BY DEF IsCommand, Command

LEMMA AdmitKeepsInv == SurfaceInv /\ Admit => SurfaceInv'
<1> SUFFICES ASSUME SurfaceInv, Admit PROVE SurfaceInv'
  OBVIOUS
<1>0. command = NoCommand /\ unit' = unit /\ panel' = panel /\ SessionShape /\ PanelShape
  BY DEF Admit, SurfaceInv
<1>1. PanelShape'
  BY <1>0, PanelShapeStays DEF Admit
<1>2. Like(session)
  BY <1>0, StagedIsLike
<1> DEFINE op == request.operation
           intents == request.intents
           stale == \/ manager.fault
                    \/ request.revision # Surface.revision
                    \/ op \notin DOMAIN Surface.parameters
           resolved == IF stale THEN {} ELSE Resolved(op, intents)
<1>3. CASE Refuse(session)
  BY <1>0, <1>1, <1>2, <1>3, RefuseKeepsInv
<1>4. ASSUME NEW target \in resolved,
             LET staged == Staged(op, intents, target)
             IN  IF MayDispatch(target)
                 THEN Dispatch(staged, Command(target, IF IsFeature(target) THEN None ELSE op, intents, "panel"))
                 ELSE Refuse(staged)
      PROVE  SurfaceInv'
  <2>1. target \in Resolved(op, intents) /\ op \in DOMAIN Surface.parameters
    BY <1>4
  <2>2. op \in Operations /\ DOMAIN intents = Names(op)
    BY <1>0 DEF PanelShape, Admit, NoRequest
  <2>3. TargetShape(target)
    BY <1>0, <2>1, <2>2, Resolves
  <2> DEFINE operation == IF IsFeature(target) THEN None ELSE op
             c == Command(target, operation, intents, "panel")
  <2>4. IsCommand(c) /\ c.target = target
    BY <2>3, CommandIs
  <2>5. Like(Staged(op, intents, target))
    BY <1>0, StagedIsLike
  <2>6. CASE MayDispatch(target)
    <3>1. Dispatch(Staged(op, intents, target), c)
      BY <1>4, <2>6
    <3> HIDE DEF c
    <3> QED
      BY <1>0, <1>1, <2>4, <2>5, <2>6, <3>1, DispatchKeepsInv
  <2>7. CASE ~MayDispatch(target)
    <3>1. Refuse(Staged(op, intents, target))
      BY <1>4, <2>7
    <3> QED
      BY <1>0, <1>1, <2>5, <3>1, RefuseKeepsInv
  <2> QED
    BY <2>6, <2>7
<1> QED
  BY <1>3, <1>4 DEF Admit

\* What the other callers ask for: a touch, or what an operation yields.
LEMMA OthersAre ==
    ASSUME NEW target \in OtherTargets
    PROVE  \/ driver = "tinysa" /\ target = [action |-> "touch"]
           \/ \E op \in DOMAIN Surface.parameters : \E intents \in OtherIntents(Surface.parameters[op]) : target \in Resolved(op, intents)
<1> DEFINE OfOperation(op) == UNION {Resolved(op, intents) : intents \in OtherIntents(Surface.parameters[op])}
           touch == IF driver = "tinysa" THEN {[action |-> "touch"]} ELSE {}
<1>1. target \in touch => driver = "tinysa" /\ target = [action |-> "touch"]
  OBVIOUS
<1>2. \A op : target \in OfOperation(op) =>
          \E intents \in OtherIntents(Surface.parameters[op]) : target \in Resolved(op, intents)
  BY Zenon
<1>3. target \in (UNION {OfOperation(op) : op \in DOMAIN Surface.parameters}) \cup touch
  BY Zenon DEF OtherTargets
<1>4. ASSUME target \notin touch
      PROVE  \E op \in DOMAIN Surface.parameters : target \in OfOperation(op)
  <2> DEFINE All == {OfOperation(op) : op \in DOMAIN Surface.parameters}
  <2>1. \A X \in All : \E op \in DOMAIN Surface.parameters : X = OfOperation(op)
    BY Zenon
  <2>2. target \in (UNION All) \cup touch
    BY <1>3
  <2> HIDE DEF OfOperation, All, touch
  <2>3. PICK X \in All : target \in X
    BY <1>4, <2>2
  <2> QED
    BY <2>1, <2>3
<1> HIDE DEF OfOperation, touch
<1> QED
  BY <1>1, <1>2, <1>4

\* What another caller asks for is what the operations resolve to.
LEMMA OthersAreShaped ==
    ASSUME SessionShape, NEW target \in OtherTargets
    PROVE  TargetShape(target)
<1>0. WellFormed(Surface)
  BY SurfaceIs
<1>1. CASE target = [action |-> "touch"] /\ driver = "tinysa"
  BY <1>1 DEF TargetShape
<1>2. ASSUME NEW op \in DOMAIN Surface.parameters, NEW intents, DOMAIN intents = DOMAIN Surface.parameters[op],
             target \in Resolved(op, intents)
      PROVE  TargetShape(target)
  BY <1>0, <1>2, Resolves DEF WellFormed
<1>3. \/ driver = "tinysa" /\ target = [action |-> "touch"]
      \/ \E op \in DOMAIN Surface.parameters : \E intents :
            DOMAIN intents = DOMAIN Surface.parameters[op] /\ target \in Resolved(op, intents)
  <2>1. \A settings : \A intents \in OtherIntents(settings) : DOMAIN intents = DOMAIN settings
    BY DEF OtherIntents, AllAuto
  <2> QED
    BY <2>1, OthersAre
<1> QED
  BY <1>1, <1>2, <1>3

LEMMA OtherKeepsInv == SurfaceInv /\ Other => SurfaceInv'
<1> SUFFICES ASSUME SurfaceInv, Other PROVE SurfaceInv'
  OBVIOUS
<1>0. command = NoCommand /\ unit' = unit /\ panel' = panel /\ SessionShape /\ PanelShape
  BY DEF Other, SurfaceInv
<1>1. PanelShape'
  BY <1>0, PanelShapeStays DEF Other
<1>2. Like(session)
  BY <1>0, StagedIsLike
<1>3. PICK target \in OtherTargets : MayDispatch(target) /\ Dispatch(session, Command(target, None, None, "other"))
  BY DEF Other
<1>5. TargetShape(target)
  BY <1>0, <1>3, OthersAreShaped
<1> DEFINE c == Command(target, None, None, "other")
<1>6. IsCommand(c) /\ c.target = target
  BY <1>5, CommandIs
<1>7. Dispatch(session, c)
  BY <1>3
<1> HIDE DEF c
<1> QED
  BY <1>0, <1>1, <1>2, <1>3, <1>6, <1>7, DispatchKeepsInv

LEMMA AcquireKeepsInv == SurfaceInv /\ Acquire => SurfaceInv'
<1> SUFFICES ASSUME SurfaceInv, Acquire PROVE SurfaceInv'
  OBVIOUS
<1>0. /\ command = NoCommand /\ unit' = unit /\ panel' = panel /\ session' = session /\ manager.rf = "off"
      /\ answers' = answers /\ SessionShape /\ ManagerShape /\ PanelShape /\ AnswerShape
      /\ driver' = driver /\ caps' = caps
  BY DEF Acquire, SurfaceInv, driver, caps
<1>1. PanelShape'
  BY <1>0, PanelShapeStays DEF Acquire
<1>2. /\ DOMAIN manager' = DOMAIN manager /\ manager'.rf = "unknown" /\ manager'.fault = manager.fault
      /\ manager'.revision = manager.revision /\ manager'.overlay = manager.overlay
      /\ manager'.configuration = manager.configuration /\ manager'.catalog = manager.catalog
  BY <1>0 DEF Acquire, ManagerShape
<1>3. /\ DOMAIN command' = {"target", "operation", "intents", "caller", "stage"}
      /\ command'.stage = "reassert" /\ command'.target = OutputOff
  BY DEF Acquire, Command
<1>4. driver = "tinysa" /\ ManagerShape'
  BY <1>0, <1>2 DEF ManagerShape, SessionShape
<1>5. IsFeature(OutputOff) /\ OutputOff.action = "set-output" /\ OutputOff.enabled = FALSE
  BY DEF OutputOff, IsFeature
<1>6. CommandShape'
  BY <1>0, <1>2, <1>3, <1>4, <1>5 DEF CommandShape, IsFeature
<1>7. Tells
  BY <1>0 DEF Tells
<1>8. Like(session')
  BY <1>0, StagedIsLike
<1>9. SessionShape' /\ Advances /\ (RevisionInv => RevisionInv')
  BY <1>0, <1>2, <1>8, LikeIsQuiet
<1>10. AnswerShape'
  BY <1>0, <1>7, <1>9, AnswersStay
<1>11. ~manager'.fault => SoundInv'
  <2> SUFFICES ASSUME ~manager.fault PROVE SoundInv'
    BY <1>2
  <2>0. SoundInv
    BY DEF SurfaceInv
  <2>1. ConfigurationInv'
    BY <1>0, <1>2, <1>3, <2>0 DEF SoundInv, ConfigurationInv, Halfway, NoCommand
  <2>2. OutputInv'
    BY <1>0, <1>2, <1>3 DEF OutputInv, Touching, NoCommand
  <2>3. CatalogInv'
    BY <1>0, <1>4 DEF CatalogInv
  <2>4. RevisionInv'
    BY <1>9, <2>0 DEF SoundInv
  <2>5. ShownInv'
    BY <1>0, <1>4, <1>7, <1>9, <2>0, <2>4, ShownStays DEF SoundInv
  <2> QED
    BY <2>1, <2>2, <2>3, <2>4, <2>5 DEF SoundInv
<1> QED
  BY <1>1, <1>4, <1>6, <1>9, <1>10, <1>11 DEF SurfaceInv

-----------------------------------------------------------------------------
(* The device answers *)

LEMMA FeatureAcceptedIs ==
    ASSUME driver = "tinysa", SessionShape, NEW target, target.action \in {"configure", "set-output"},
           target.action = "set-output" => target.enabled \in BOOLEAN
    PROVE  LET s == FeatureAccepted(session, target)
           IN  /\ DOMAIN s = DOMAIN session /\ s.configuration = session.configuration /\ s.epoch = session.epoch + 1
               /\ s.output = (IF target.action = "set-output" THEN target.enabled ELSE session.output)
<1> DEFINE ours == session.pending.feature = target
           fed == IF ours THEN [session EXCEPT !.pending = NoFeature] ELSE session
           s == CommitSource(session, target)
<1>1. /\ DOMAIN fed = DOMAIN session /\ fed.configuration = session.configuration /\ fed.epoch = session.epoch
      /\ fed.output = session.output
  BY DEF SessionShape
<1>2. DOMAIN session = {"configuration", "source", "sourceIntents", "output", "outputIntent", "pending", "epoch"}
      /\ session.epoch \in Nat
  BY DEF SessionShape
<1>3. CASE target.action = "configure"
  <2>1. PICK intents : s = [fed EXCEPT !.source = GeneratorConfiguration(target), !.sourceIntents = intents]
    BY <1>3 DEF CommitSource
  <2> HIDE DEF fed, s
  <2>2. /\ DOMAIN s = DOMAIN session /\ s.configuration = session.configuration /\ s.epoch = session.epoch
        /\ s.output = session.output
    BY <1>1, <1>2, <2>1
  <2> QED
    BY <1>2, <1>3, <2>2 DEF FeatureAccepted, Bump, s
<1>4. CASE target.action = "set-output"
  <2>1. PICK intent : s = [fed EXCEPT !.output = target.enabled, !.outputIntent = intent]
    BY <1>4 DEF CommitSource
  <2> HIDE DEF fed, s
  <2>2. /\ DOMAIN s = DOMAIN session /\ s.configuration = session.configuration /\ s.epoch = session.epoch
        /\ s.output = target.enabled
    BY <1>1, <1>2, <2>1
  <2> QED
    BY <1>2, <1>4, <2>2 DEF FeatureAccepted, Bump, s
<1> QED
  BY <1>3, <1>4

LEMMA FeatureRefusedIsLike ==
    ASSUME driver = "tinysa", SessionShape, NEW target
    PROVE  Like(FeatureRefused(session, target))
BY DEF FeatureRefused, Like, SessionShape

\* A command that is over, or goes on, while the session moves on.
LEMMA AnsweredKeepsInv ==
    ASSUME SurfaceInv, unit' = unit, panel' = panel, request' = request, SessionShape', ManagerShape', CommandShape',
           manager'.fault = FALSE => manager.fault = FALSE, Tells,
           ~manager'.fault => Advances /\ ConfigurationInv' /\ OutputInv' /\ CatalogInv' /\ RevisionInv'
    PROVE  SurfaceInv'
<1>1. PanelShape' /\ AnswerShape'
  BY PanelShapeStays, AnswersStay DEF SurfaceInv
<1>2. ASSUME ~manager'.fault
      PROVE  SoundInv'
  <2>1. ~manager.fault
    BY <1>2 DEF SurfaceInv, ManagerShape
  <2>2. ShownInv'
    BY <1>2, <2>1, ShownStays DEF SurfaceInv, SoundInv
  <2> QED
    BY <1>2, <2>2 DEF SoundInv
<1> QED
  BY <1>1, <1>2 DEF SurfaceInv

LEMMA DriverFaultsKeepsInv == SurfaceInv /\ DriverFaults => SurfaceInv'
<1> SUFFICES ASSUME SurfaceInv, DriverFaults PROVE SurfaceInv'
  OBVIOUS
<1>0. /\ unit' = unit /\ panel' = panel /\ request' = request /\ session' = session /\ command' = command
      /\ driver' = driver /\ caps' = caps /\ answers' = answers
  BY DEF DriverFaults, panelVars, driver, caps
<1>1. /\ DOMAIN manager' = DOMAIN manager /\ manager'.fault = TRUE /\ manager'.revision = manager.revision
      /\ manager'.rf = (IF manager.rf = "none" THEN "none" ELSE "unknown")
  BY FaultedIs DEF DriverFaults, SurfaceInv
<1>2. SessionShape'
  BY <1>0 DEF SurfaceInv, SessionShape
<1>3. ManagerShape'
  BY <1>0, <1>1 DEF SurfaceInv, ManagerShape
<1>4. CommandShape'
  BY <1>0, <1>1 DEF SurfaceInv, CommandShape, IsOutput, IsFeature, Generates
<1> QED
  BY <1>0, <1>1, <1>2, <1>3, <1>4, AnsweredKeepsInv DEF Tells

LEMMA DeviceRefusesKeepsInv == SurfaceInv /\ DeviceRefuses => SurfaceInv'
<1> SUFFICES ASSUME SurfaceInv, DeviceRefuses PROVE SurfaceInv'
  OBVIOUS
<1>0. /\ unit' = unit /\ panel' = panel /\ request' = request /\ driver' = driver /\ caps' = caps
      /\ SessionShape /\ ManagerShape /\ CommandShape /\ command # NoCommand
  BY DEF DeviceRefuses, driver, caps, SurfaceInv
<1>1. /\ command' = NoCommand /\ Tells
      /\ manager' = IF IsFeature(command.target) \/ manager.rf # "none" THEN Faulted(manager) ELSE manager
  BY RefusedTells DEF DeviceRefuses, Fails
<1>2. ManagerShape' /\ CommandShape'
  BY <1>0, <1>1, FaultedIs DEF ManagerShape, CommandShape
<1>3. Like(session') /\ (driver # "tinysa" => session' = session)
  <2>1. CASE command.stage # "device"
    <3>1. driver = "tinysa" /\ session' = FeatureRefused(session, OutputOff)
      BY <1>0, <2>1 DEF DeviceRefuses, CommandShape, ManagerShape
    <3> QED
      BY <1>0, <3>1, FeatureRefusedIsLike
  <2>2. CASE command.stage = "device" /\ IsFeature(command.target)
    <3>1. driver = "tinysa" /\ session' = FeatureRefused(session, command.target)
      BY <1>0, <2>2 DEF DeviceRefuses, CommandShape
    <3> QED
      BY <1>0, <3>1, FeatureRefusedIsLike
  <2>3. CASE command.stage = "device" /\ ~IsFeature(command.target)
    <3>1. session' = session
      BY <2>3 DEF DeviceRefuses
    <3> QED
      BY <1>0, <3>1, StagedIsLike
  <2> QED
    BY <2>1, <2>2, <2>3
<1>4. SessionShape'
  BY <1>0, <1>3, LikeShape
<1>5. ASSUME ~manager'.fault
      PROVE  Advances /\ ConfigurationInv' /\ OutputInv' /\ CatalogInv' /\ RevisionInv' /\ manager.fault = FALSE
  <2>1. manager' = manager /\ ~IsFeature(command.target) /\ manager.rf = "none" /\ manager.fault = FALSE
    BY <1>0, <1>1, <1>5, FaultedIs DEF ManagerShape
  <2>2. SoundInv
    BY <2>1 DEF SurfaceInv
  <2>3. /\ Advances /\ (RevisionInv => RevisionInv') /\ session'.configuration = session.configuration
        /\ driver = "tinysa" => session'.output = session.output
    BY <1>0, <1>3, <2>1, LikeIsQuiet
  <2>4. ~Halfway /\ ~Halfway'
    BY <1>0, <1>1, <2>1 DEF Halfway, CommandShape, NoCommand
  <2>5. ConfigurationInv'
    BY <2>1, <2>2, <2>3, <2>4 DEF SoundInv, ConfigurationInv
  <2>6. OutputInv'
    BY <1>0, <2>1, <2>2, <2>3 DEF SoundInv, OutputInv
  <2>7. CatalogInv'
    BY <1>0, <1>3, <2>1, <2>2 DEF SoundInv, CatalogInv
  <2> QED
    BY <2>1, <2>2, <2>3, <2>5, <2>6, <2>7 DEF SoundInv
<1> QED
  BY <1>0, <1>1, <1>2, <1>4, <1>5, AnsweredKeepsInv DEF ManagerShape

\* What the session is after the device did what it was told.
LEMMA AcceptedIs ==
    ASSUME SurfaceInv, DeviceAccepts
    PROVE  /\ SessionShape'
           /\ driver = "tinysa" /\ ~Touching => session.epoch < session'.epoch
           /\ Touching => session' = session
           /\ driver = "neptune" => session'.revision = manager.revision + 1
           /\ session'.configuration = IF IsFeature(command.target) THEN session.configuration ELSE command.target
           /\ driver = "tinysa" => session'.output = IF IsOutput(command.target) THEN command.target.enabled ELSE session.output
<1>0. /\ driver' = driver /\ caps' = caps /\ command.stage = "device" /\ command # NoCommand
      /\ SessionShape /\ ManagerShape /\ CommandShape
  BY DEF DeviceAccepts, driver, caps, SurfaceInv, NoCommand
<1>1. /\ driver # "signallab"
      /\ IsFeature(command.target) => driver = "tinysa" /\ command.target.action \in {"configure", "set-output", "touch"}
      /\ IsOutput(command.target) => IsFeature(command.target) /\ command.target.enabled \in BOOLEAN
  BY <1>0 DEF CommandShape, IsOutput
<1>2. CASE ~IsFeature(command.target) /\ driver = "tinysa"
  <2>1. session' = ConfigurationAccepted(session, command.target)
    <3>1. session' = Bound(session, command.target)
      BY <1>2 DEF DeviceAccepts, Generates, IsOutput
    <3> QED
      BY <1>2, <3>1 DEF Bound
  <2>2. DOMAIN session = {"configuration", "source", "sourceIntents", "output", "outputIntent", "pending", "epoch"}
        /\ session.epoch \in Nat /\ session.output \in BOOLEAN
    BY <1>0, <1>2 DEF SessionShape
  <2>3. /\ DOMAIN session' = DOMAIN session /\ session'.configuration = command.target
        /\ session'.output = session.output /\ session'.epoch = session.epoch + 1
    BY <2>1, <2>2 DEF ConfigurationAccepted, Bump
  <2>4. session.epoch < session'.epoch /\ session'.epoch \in Nat
    BY <2>2, <2>3
  <2>5. SessionShape'
    BY <1>0, <1>2, <2>2, <2>3, <2>4 DEF SessionShape
  <2> QED
    BY <1>2, <2>3, <2>4, <2>5 DEF Touching, IsOutput
<1>3. CASE ~IsFeature(command.target) /\ driver = "neptune"
  <2>1. session' = [session EXCEPT !.configuration = command.target, !.revision = manager.revision + 1]
    BY <1>3 DEF DeviceAccepts, Bound, Generates, IsOutput
  <2>2. DOMAIN session' = DOMAIN session /\ session'.configuration = command.target /\ session'.revision = manager.revision + 1
    BY <1>0, <1>3, <2>1 DEF SessionShape
  <2>3. SessionShape'
    BY <1>0, <1>3, <2>2 DEF SessionShape, ManagerShape
  <2> QED
    BY <1>3, <2>2, <2>3 DEF Touching
<1>4. CASE IsFeature(command.target) /\ command.target.action = "touch"
  <2>1. session' = session /\ ~IsOutput(command.target)
    BY <1>4 DEF DeviceAccepts, Generates, IsOutput
  <2>2. SessionShape'
    BY <1>0, <2>1 DEF SessionShape
  <2> QED
    BY <1>0, <1>1, <1>4, <2>1, <2>2 DEF Touching
<1>5. CASE IsFeature(command.target) /\ command.target.action # "touch"
  <2>1. driver = "tinysa" /\ command.target.action \in {"configure", "set-output"}
    BY <1>1, <1>5
  <2>2. session' = FeatureAccepted(session, command.target)
    BY <1>5, <2>1 DEF DeviceAccepts, Generates, IsOutput
  <2>3. command.target.action = "set-output" => command.target.enabled \in BOOLEAN
    BY <1>1, <1>5 DEF IsOutput
  <2>4. /\ DOMAIN session' = DOMAIN session /\ session'.configuration = session.configuration
        /\ session'.epoch = session.epoch + 1
        /\ session'.output = IF command.target.action = "set-output" THEN command.target.enabled ELSE session.output
    BY <1>0, <2>1, <2>2, <2>3, FeatureAcceptedIs
  <2>5. session.epoch \in Nat /\ session.output \in BOOLEAN
    BY <1>0, <2>1 DEF SessionShape
  <2>6. session.epoch < session'.epoch /\ session'.epoch \in Nat /\ session'.output \in BOOLEAN
    BY <2>3, <2>4, <2>5
  <2>7. SessionShape'
    BY <1>0, <2>1, <2>4, <2>6 DEF SessionShape
  <2>8. IsOutput(command.target) <=> command.target.action = "set-output"
    BY <1>5 DEF IsOutput
  <2>9. ~Touching
    BY <1>5 DEF Touching
  <2> QED
    BY <1>5, <2>1, <2>4, <2>6, <2>7, <2>8, <2>9
<1> QED
  BY <1>0, <1>1, <1>2, <1>3, <1>4, <1>5 DEF SessionShape

LEMMA FaultyAnswerKeepsInv ==
    ASSUME SurfaceInv, unit' = unit, panel' = panel, request' = request, SessionShape', Tells,
           manager'.fault = TRUE, ManagerShape', CommandShape'
    PROVE  SurfaceInv'
BY AnsweredKeepsInv

LEMMA DeviceAcceptsKeepsInv == SurfaceInv /\ DeviceAccepts => SurfaceInv'
<1> SUFFICES ASSUME SurfaceInv, DeviceAccepts PROVE SurfaceInv'
  OBVIOUS
<1> DEFINE target == command.target
<1>0. /\ unit' = unit /\ panel' = panel /\ request' = request /\ driver' = driver /\ caps' = caps
      /\ command.stage = "device" /\ command # NoCommand /\ ~Halfway
      /\ SessionShape /\ ManagerShape /\ CommandShape
  BY DEF DeviceAccepts, driver, caps, SurfaceInv, NoCommand, Halfway
<1>1. /\ driver # "signallab"
      /\ IsFeature(target) => driver = "tinysa" /\ target.action \in {"configure", "set-output", "touch"}
      /\ IsFeature(target) /\ target.action # "touch" => manager.rf # "none"
      /\ IsOutput(target) => IsFeature(target) /\ target.action = "set-output" /\ target.enabled \in BOOLEAN
  BY <1>0 DEF CommandShape, IsOutput
<1>2. /\ SessionShape'
      /\ driver = "tinysa" /\ ~Touching => session.epoch < session'.epoch
      /\ Touching => session' = session
      /\ driver = "neptune" => session'.revision = manager.revision + 1
      /\ session'.configuration = IF IsFeature(target) THEN session.configuration ELSE target
      /\ driver = "tinysa" => session'.output = IF IsOutput(target) THEN target.enabled ELSE session.output
  BY AcceptedIs
<1>3. Touching <=> IsFeature(target) /\ target.action = "touch"
  BY <1>0 DEF Touching
<1>4. ~manager.fault => SoundInv
  BY DEF SurfaceInv
<1>5. CatalogInv'
  BY <1>0, <1>1 DEF CatalogInv
<1>6. CASE manager.fault /\ ~IsSafe(target)
  <2>1. manager' = manager /\ command' = NoCommand /\ Tells
    BY <1>6, RefusedTells DEF DeviceAccepts, AcceptedAnswer, Fails
  <2>2. ManagerShape' /\ CommandShape' /\ manager'.fault = TRUE
    BY <1>0, <1>6, <2>1 DEF ManagerShape, CommandShape
  <2> QED
    BY <1>0, <1>2, <2>1, <2>2, FaultyAnswerKeepsInv
<1>7. CASE IsOutput(target) /\ ~(manager.fault /\ ~IsSafe(target))
  <2>1. /\ manager' = [manager EXCEPT !.rf = IF target.enabled THEN "on" ELSE "off"]
        /\ command' = NoCommand /\ Tells
    BY <1>7, AppliedTells DEF DeviceAccepts, AcceptedAnswer, Finishes, IsOutput
  <2>2. /\ DOMAIN manager' = DOMAIN manager /\ manager'.rf = (IF target.enabled THEN "on" ELSE "off")
        /\ manager'.fault = manager.fault /\ manager'.configuration = manager.configuration
        /\ manager'.overlay = manager.overlay /\ manager'.revision = manager.revision
    BY <1>0, <2>1 DEF ManagerShape
  <2>3. driver = "tinysa" /\ manager.rf # "none" /\ ~Touching
    BY <1>1, <1>3, <1>7
  <2>4. ManagerShape' /\ CommandShape'
    BY <1>0, <2>1, <2>2, <2>3 DEF ManagerShape, CommandShape
  <2>5. ASSUME ~manager'.fault
        PROVE  Advances /\ ConfigurationInv' /\ OutputInv' /\ RevisionInv'
    <3>1. ~Halfway' /\ ~Touching'
      BY <2>1 DEF Halfway, Touching, NoCommand
    <3>2. ConfigurationInv'
      BY <1>0, <1>1, <1>2, <1>4, <1>7, <2>2, <2>5, <3>1 DEF SoundInv, ConfigurationInv
    <3>3. OutputInv'
      BY <1>1, <1>2, <1>7, <2>2, <2>3, <3>1 DEF OutputInv
    <3>4. Advances /\ RevisionInv'
      BY <1>0, <1>2, <2>3 DEF Advances, RevisionInv
    <3> QED
      BY <3>2, <3>3, <3>4
  <2> QED
    BY <1>0, <1>2, <1>5, <2>1, <2>2, <2>4, <2>5, AnsweredKeepsInv
<1>8. CASE IsFeature(target) /\ target.action = "touch" /\ ~(manager.fault /\ ~IsSafe(target))
  <2>1. ~IsOutput(target) /\ ~IsSafe(target) /\ manager.fault = FALSE
    BY <1>0, <1>8 DEF IsOutput, IsSafe, ManagerShape
  <2>2. manager' = manager /\ command' = NoCommand /\ Tells /\ session' = session
    BY <1>2, <1>3, <1>8, <2>1, AppliedTells DEF DeviceAccepts, AcceptedAnswer, Finishes, IsOutput
  <2>3. ManagerShape' /\ CommandShape'
    BY <1>0, <2>2 DEF ManagerShape, CommandShape
  <2>4. SoundInv /\ ~Halfway' /\ ~Touching' /\ Touching
    BY <1>3, <1>4, <1>8, <2>1, <2>2 DEF Halfway, Touching, NoCommand
  <2>5. ConfigurationInv' /\ RevisionInv'
    BY <1>0, <2>2, <2>4 DEF SoundInv, ConfigurationInv, RevisionInv
  <2>6. OutputInv'
    BY <1>0, <2>2, <2>4 DEF SoundInv, OutputInv
  <2>7. Advances
    BY <1>0, <2>2, QuietSurface
  <2> QED
    BY <1>0, <1>2, <1>5, <2>1, <2>2, <2>3, <2>5, <2>6, <2>7, AnsweredKeepsInv
<1>9. CASE ~IsFeature(target) /\ manager.rf = "none" /\ ~(manager.fault /\ ~IsSafe(target))
  <2>1. ~IsOutput(target) /\ ~IsSafe(target) /\ manager.fault = FALSE
    BY <1>0, <1>9 DEF IsOutput, IsSafe, ManagerShape
  <2>2. manager' = Admitted(manager, command) /\ command' = NoCommand /\ Tells
    BY <1>9, <2>1, AppliedTells DEF DeviceAccepts, AcceptedAnswer, Finishes, IsOutput
  <2>3. /\ DOMAIN manager' = DOMAIN manager /\ manager'.fault = manager.fault /\ manager'.revision = manager.revision + 1
        /\ manager'.rf = "none" /\ manager'.configuration = target /\ manager.revision \in Nat
    BY <1>0, <1>9, <2>2, AdmittedIs DEF ManagerShape
  <2>4. ManagerShape' /\ CommandShape' /\ manager'.revision \in Nat
    BY <1>0, <1>9, <2>2, <2>3 DEF ManagerShape, CommandShape
  <2>5. SoundInv /\ ~Halfway' /\ ~Touching' /\ ~Touching
    BY <1>3, <1>4, <1>9, <2>1, <2>2 DEF Halfway, Touching, NoCommand
  <2>6. ConfigurationInv'
    BY <1>2, <1>9, <2>3, <2>5 DEF ConfigurationInv
  <2>7. OutputInv'
    BY <1>0, <1>2, <1>9, <2>1, <2>3, <2>5 DEF SoundInv, OutputInv
  <2>8. RevisionInv'
    BY <1>0, <1>1, <1>2, <2>3 DEF RevisionInv
  <2>9. Advances
    BY <1>0, <1>1, <1>2, <2>3, <2>5 DEF Advances, SessionShape
  <2> QED
    BY <1>0, <1>2, <1>5, <2>1, <2>2, <2>4, <2>6, <2>7, <2>8, <2>9, AnsweredKeepsInv
<1>10. CASE /\ ~(manager.fault /\ ~IsSafe(target)) /\ ~IsOutput(target)
            /\ ~(IsFeature(target) /\ target.action = "touch") /\ ~(~IsFeature(target) /\ manager.rf = "none")
  <2>1. ~IsSafe(target) /\ manager.fault = FALSE
    BY <1>0, <1>10 DEF IsSafe, ManagerShape
  <2>2. manager' = manager /\ command' = [command EXCEPT !.stage = "off"] /\ answers' = answers
    BY <1>10, <2>1 DEF DeviceAccepts, AcceptedAnswer, Waits
  <2>3. /\ DOMAIN command' = DOMAIN command /\ command'.stage = "off" /\ command'.target = target
    BY <1>0, <2>2 DEF CommandShape
  <2>4. manager.rf # "none" /\ driver = "tinysa" /\ (~IsFeature(target) \/ Generates(target))
    BY <1>0, <1>1, <1>10 DEF Generates, IsOutput, ManagerShape
  <2>5. ManagerShape'
    BY <1>0, <2>2 DEF ManagerShape
  <2>6. CommandShape'
    BY <1>0, <1>1, <2>2, <2>3, <2>4 DEF CommandShape, IsFeature, IsOutput, Generates
  <2>7. SoundInv /\ ~Touching' /\ (Halfway' <=> ~IsFeature(target)) /\ ~Touching /\ Tells
    BY <1>3, <1>4, <1>10, <2>1, <2>2, <2>3 DEF Halfway, Touching, IsFeature, Tells
  <2>8. ConfigurationInv'
    BY <1>0, <1>2, <2>2, <2>3, <2>7 DEF SoundInv, ConfigurationInv
  <2>9. OutputInv'
    BY <1>0, <2>2, <2>3, <2>4, <2>7 DEF SoundInv, OutputInv, NoCommand
  <2>10. RevisionInv' /\ Advances
    BY <1>0, <1>2, <2>4, <2>7 DEF RevisionInv, Advances
  <2> QED
    BY <1>0, <1>2, <1>5, <2>1, <2>2, <2>5, <2>6, <2>7, <2>8, <2>9, <2>10, AnsweredKeepsInv
<1> QED
  BY <1>6, <1>7, <1>8, <1>9, <1>10

LEMMA OffIsAcknowledgedKeepsInv == SurfaceInv /\ OffIsAcknowledged => SurfaceInv'
<1> SUFFICES ASSUME SurfaceInv, OffIsAcknowledged PROVE SurfaceInv'
  OBVIOUS
<1> DEFINE target == command.target
<1>0. /\ unit' = unit /\ panel' = panel /\ request' = request /\ driver' = driver /\ caps' = caps
      /\ command.stage \in {"off", "reassert"} /\ command # NoCommand
      /\ SessionShape /\ ManagerShape /\ CommandShape
  BY DEF OffIsAcknowledged, driver, caps, SurfaceInv, NoCommand
<1>1. /\ manager.rf # "none" /\ driver = "tinysa"
      /\ command.stage = "off" => ~IsFeature(target) \/ Generates(target)
  BY <1>0 DEF CommandShape, ManagerShape
<1>2. OutputOff.action = "set-output" /\ ~OutputOff.enabled /\ OutputOff.enabled \in BOOLEAN
  BY DEF OutputOff
<1>3. session' = FeatureAccepted(session, OutputOff)
  BY DEF OffIsAcknowledged
<1>4. /\ DOMAIN session' = DOMAIN session /\ session'.configuration = session.configuration
      /\ session'.epoch = session.epoch + 1 /\ ~session'.output /\ session'.output \in BOOLEAN
  BY <1>0, <1>1, <1>2, <1>3, FeatureAcceptedIs
<1>5. session.epoch \in Nat
  BY <1>0, <1>1 DEF SessionShape
<1>6. session.epoch < session'.epoch /\ session'.epoch \in Nat
  BY <1>4, <1>5
<1>7. SessionShape'
  BY <1>0, <1>1, <1>4, <1>6 DEF SessionShape
<1>8. Advances /\ RevisionInv' /\ CatalogInv'
  BY <1>0, <1>1, <1>6 DEF Advances, RevisionInv, CatalogInv
<1>9. CASE manager.fault
  <2>1. manager' = manager /\ command' = NoCommand /\ Tells
    BY <1>9, RefusedTells DEF OffIsAcknowledged, Fails
  <2>2. ManagerShape' /\ CommandShape' /\ manager'.fault = TRUE
    BY <1>0, <1>9, <2>1 DEF ManagerShape, CommandShape
  <2> QED
    BY <1>0, <1>7, <2>1, <2>2, FaultyAnswerKeepsInv
<1>10. CASE ~manager.fault /\ (command.stage = "reassert" \/ Generates(target))
  <2>1. manager' = [manager EXCEPT !.rf = "off"] /\ command' = NoCommand /\ Tells
    BY <1>10, AppliedTells DEF OffIsAcknowledged, Finishes, Generates
  <2>2. /\ DOMAIN manager' = DOMAIN manager /\ manager'.rf = "off" /\ manager'.fault = manager.fault
        /\ manager'.configuration = manager.configuration /\ manager'.revision = manager.revision
    BY <1>0, <2>1 DEF ManagerShape
  <2>3. ManagerShape' /\ CommandShape'
    BY <1>0, <1>1, <2>1, <2>2 DEF ManagerShape, CommandShape
  <2>4. SoundInv /\ ~Halfway /\ ~Halfway' /\ ~Touching'
    <3>1. ~Halfway
      BY <1>10 DEF Halfway, Generates
    <3> QED
      BY <1>10, <2>1, <3>1 DEF SurfaceInv, Halfway, Touching, NoCommand
  <2>5. ConfigurationInv'
    BY <1>4, <2>2, <2>4 DEF SoundInv, ConfigurationInv
  <2>6. OutputInv'
    BY <1>4, <2>2, <2>4 DEF OutputInv
  <2> QED
    BY <1>0, <1>7, <1>8, <1>10, <2>1, <2>3, <2>5, <2>6, AnsweredKeepsInv DEF ManagerShape
<1>11. CASE ~manager.fault /\ command.stage = "off" /\ ~Generates(target)
  <2>1. ~IsFeature(target) /\ Halfway
    BY <1>1, <1>11 DEF Halfway
  <2>2. manager' = Admitted(manager, command) /\ command' = NoCommand /\ Tells
    BY <1>11, <2>1, AppliedTells DEF OffIsAcknowledged, Finishes, Generates
  <2>3. /\ DOMAIN manager' = DOMAIN manager /\ manager'.rf = "off" /\ manager'.fault = manager.fault
        /\ manager'.configuration = target /\ manager'.revision = manager.revision + 1 /\ manager.revision \in Nat
    BY <1>0, <1>1, <2>2, AdmittedIs DEF ManagerShape
  <2>4. ManagerShape' /\ CommandShape'
    BY <1>0, <1>1, <2>2, <2>3 DEF ManagerShape, CommandShape
  <2>5. SoundInv /\ ~Halfway' /\ ~Touching'
    BY <1>11, <2>2 DEF SurfaceInv, Halfway, Touching, NoCommand
  <2>6. ConfigurationInv'
    BY <1>4, <2>1, <2>3, <2>5 DEF SoundInv, ConfigurationInv
  <2>7. OutputInv'
    BY <1>4, <2>3, <2>5 DEF OutputInv
  <2> QED
    BY <1>0, <1>7, <1>8, <1>11, <2>2, <2>4, <2>6, <2>7, AnsweredKeepsInv DEF ManagerShape
<1> QED
  BY <1>0, <1>9, <1>10, <1>11

-----------------------------------------------------------------------------
(* The theorems *)

LEMMA SurfaceInvNext == SurfaceInv /\ [Next]_vars => SurfaceInv'
<1> SUFFICES ASSUME SurfaceInv, [Next]_vars PROVE SurfaceInv'
  OBVIOUS
<1>1. CASE UNCHANGED vars
  <2>1. UNCHANGED <<unit, session, manager, command, panel, request, answers>>
    BY <1>1 DEF vars
  <2>2. PanelShape'
    BY <2>1, PanelShapeStays DEF SurfaceInv
  <2>3. Tells /\ Surface' = Surface /\ Advances
    BY <2>1, QuietSurface DEF Tells
  <2>4. SessionShape' /\ ManagerShape'
    BY <2>1 DEF SurfaceInv, SessionShape, ManagerShape, driver, caps
  <2>5. AnswerShape'
    BY <2>1, <2>3, <2>4, AnswersStay DEF SurfaceInv
  <2>6. ~manager.fault /\ SoundInv => ShownInv'
    <3> HAVE ~manager.fault /\ SoundInv
    <3>1. RevisionInv'
      BY <2>1 DEF SoundInv, RevisionInv, driver
    <3> QED
      BY <2>1, <2>3, <2>4, <3>1, ShownStays DEF SurfaceInv, SoundInv
  <2> QED
    BY <2>1, <2>2, <2>5, <2>6, PanelStepKeepsInv
<1>2. CASE Next
  BY <1>2, EditKeepsInv, AskAutomaticKeepsInv, TakeAnswerKeepsInv, ReadSurfaceKeepsInv, AdmitKeepsInv, OtherKeepsInv,
     AcquireKeepsInv, DeviceAcceptsKeepsInv, OffIsAcknowledgedKeepsInv, DeviceRefusesKeepsInv, DriverFaultsKeepsInv DEF Next
<1> QED
  BY <1>1, <1>2

\* Whatever one does to any of the instruments, in any order, the inductive
\* invariant holds (CanonicalOperations, all of it).
THEOREM SurfaceInvHolds == Spec => []SurfaceInv
<1>1. Init => SurfaceInv
  BY SurfaceInvInit
<1>2. SurfaceInv /\ [Next]_vars => SurfaceInv'
  BY SurfaceInvNext
<1> QED
  BY <1>1, <1>2, PTL DEF Spec

\* Between commands the manager's account of the session is the driver's:
\* configuration, output and catalog (#configure, #executeFeature and the RF
\* evidence of instrument-manager.ts against the three drivers).
THEOREM ManagerMirrors == Spec => []ManagerMirrorsDriver
<1>1. SurfaceInv => ManagerMirrorsDriver
  <2> SUFFICES ASSUME SurfaceInv, Idle PROVE ManagerMirrorsDriver
    BY DEF ManagerMirrorsDriver
  <2>1. SoundInv /\ ~Halfway /\ command = NoCommand
    BY DEF SurfaceInv, Idle, Halfway, NoCommand
  <2> QED
    BY <2>1 DEF ManagerMirrorsDriver, SoundInv, ConfigurationInv, OutputInv, CatalogInv
<1> QED
  BY <1>1, SurfaceInvHolds, PTL

\* A revision names one surface: what the panel shows or is about to show
\* under the current revision is the current surface (canonicalSurfaceRevision
\* in instrument-manager.ts and the epochs of the drivers).
THEOREM RevisionsNameSurfaces == Spec => []RevisionNamesSurface
<1>1. SurfaceInv => RevisionNamesSurface
  <2> SUFFICES ASSUME SurfaceInv, ~manager.fault, NEW surface, Named(surface), surface.revision = Surface.revision
               PROVE  surface = Surface
    <3>1. ASSUME ~manager.fault, SurfaceInv
          PROVE  /\ panel.surface # None => Named(panel.surface)
                 /\ \A i \in DOMAIN answers : answers[i].kind # "refused" => Named(answers[i].surface)
      BY <3>1 DEF SurfaceInv, SoundInv, ShownInv
    <3> QED
      BY <3>1 DEF RevisionNamesSurface
  <2>1. SessionShape /\ Surface.revision = RevisionOf
    BY SurfaceIs DEF SurfaceInv
  <2>2. CASE driver = "tinysa"
    BY <2>1, <2>2 DEF RevisionOf, Named
  <2>3. CASE driver = "neptune"
    BY <2>1, <2>3 DEF RevisionOf, Named
  <2>4. CASE driver = "signallab"
    BY <2>1, <2>4 DEF RevisionOf, Named
  <2> QED
    BY <2>1, <2>2, <2>3, <2>4 DEF SessionShape
<1> QED
  BY <1>1, SurfaceInvHolds, PTL
-----------------------------------------------------------------------------
(* The invariant of the conversation with the panel *)

\* What may be asked of a setting: nothing, or a value that is there.
IsIntent(intent) == intent = AutoIntent \/ intent = Manual(intent.value)

Fit(op, intent) ==
    /\ IsIntent(intent)
    /\ driver = "tinysa" /\ IsManual(intent) =>
          /\ op = OutputOp => intent.value \in BOOLEAN
          /\ op \in {SweepOp, PowerOp} => intent.value # None

Fits(op, intents) == \A n \in DOMAIN intents : Fit(op, intents[n])

\* Whatever the panel makes of the surface is fit to be asked.
Frank(surface) ==
    \A op \in DOMAIN surface.parameters : \A n \in DOMAIN surface.parameters[op] :
        \A intent \in {surface.parameters[op][n].requested} \cup Intents(surface.parameters[op][n].domain) : Fit(op, intent)

LedgerFits(s) ==
    /\ driver = "tinysa" =>
          /\ Fits(SourceOp, s.sourceIntents) /\ Fit(OutputOp, s.outputIntent)
          /\ s.pending.feature.action = "configure" => Fits(SourceOp, s.pending.intents)
          /\ s.pending.feature.action = "set-output" => Fit(OutputOp, s.pending.intents["output"])
    /\ driver = "signallab" =>
          /\ \A n \in DOMAIN s.intents : IsIntent(s.intents[n])
          /\ s.pending.action \in LabActions =>
                \A n \in DOMAIN s.pending.intents : IsIntent(s.pending.intents[n])

\* A source operation is not laid over the surface.
Overlays(overlay) ==
    overlay = NoOverlay \/
    /\ overlay.operation \in Operations /\ (driver = "tinysa" => overlay.operation \in {SweepOp, PowerOp})
    /\ DOMAIN overlay.intents = Names(overlay.operation) /\ Fits(overlay.operation, overlay.intents)

FitInv ==
    /\ panel.surface # None => Frank(panel.surface)
    /\ panel.edits # None => Fits(panel.edits.operation, panel.edits.intents)
    /\ request # NoRequest => Fits(request.operation, request.intents)
    /\ \A i \in DOMAIN answers : answers[i].kind # "refused" => Frank(answers[i].surface)
    /\ LedgerFits(session) /\ Overlays(manager.overlay)

\* One request at a time: it is on its way, executed, or answered.
Asked == command # NoCommand /\ command.caller = "panel"

Conversation ==
    /\ \A i, j \in DOMAIN answers : answers[i].kind # "read" /\ answers[j].kind # "read" => i = j
    /\ \A i \in DOMAIN answers : answers[i].kind # "read" => request.stage = "admitted" /\ ~Asked
    /\ Asked => request.stage = "admitted"

\* Every explicit setting is in effect; a rate needs a modulation.
Inert(settings) ==
    IF "modulation" \in DOMAIN settings /\ settings["modulation"].effective = "off" THEN {"rate"} ELSE {}

Achieves(settings, intents) ==
    \A n \in DOMAIN settings \ Inert(settings) :
        IsManual(intents[n]) => settings[n].effective = intents[n].value

Honours(settings, intents) ==
    (\A n \in DOMAIN settings : settings[n].requested = intents[n]) /\ Achieves(settings, intents)

\* What a driver shows of a configuration, or of a source.
ShownOf(conf, op) ==
    IF driver = "neptune" THEN Neptune!NeptuneSurface(caps, [configuration |-> conf, revision |-> 0]).parameters[op]
                          ELSE TinySaParameters(caps, [configuration |-> conf], op)

SourceShown(feature, intents) ==
    SourceParameters(caps, [source |-> GeneratorConfiguration(feature), sourceIntents |-> intents])

\* The target does what the intents of the operation ask.
Keeps(target, op, intents) ==
    IF ~IsFeature(target)
    THEN (driver = "tinysa" => op \in {SweepOp, PowerOp}) /\ Achieves(ShownOf(target, op), intents)
    ELSE \/ target.action = "configure" /\ op = SourceOp /\ Achieves(SourceShown(target, intents), intents)
         \/ /\ target.action = "set-output" /\ op = OutputOp
            /\ IsManual(intents["output"]) => target.enabled = intents["output"].value

\* The driver remembers the intents of a source operation until it is done.
Remembers ==
    IsFeature(command.target) =>
        /\ command.stage = "device" => session.pending.feature = command.target /\ session.pending.intents = request.intents
        /\ command.stage # "device" => /\ session.source = GeneratorConfiguration(command.target)
                                       /\ session.sourceIntents = request.intents

CommandKeeps ==
    command # NoCommand =>
        /\ command.caller \in {"panel", "other"}
        /\ command.caller = "other" => command.operation = None
        /\ Asked => /\ Keeps(command.target, request.operation, request.intents) /\ Remembers
                    /\ command.stage # "reassert"
                    /\ ~IsFeature(command.target) => command.operation = request.operation /\ command.intents = request.intents

HonestInv == unit \in DOMAIN Units /\ FitInv /\ Conversation /\ CommandKeeps /\ ReplyHonoursRequest

-----------------------------------------------------------------------------
(* What the panel may make of a surface *)

LEMMA AutoFits == \A op : Fit(op, AutoIntent)
BY DEF Fit, IsIntent, AutoIntent, IsManual

\* An explicit value is one, and is the value it was made of.
LEMMA ManualIs == \A v : IsManual(Manual(v)) /\ Manual(v).value = v /\ IsIntent(Manual(v))
BY DEF Manual, IsManual, IsIntent

\* Only two operations ask more of an explicit value than that it is one.
LEMMA ManualFits ==
    ASSUME NEW op, NEW v, driver = "tinysa" /\ op = OutputOp => v \in BOOLEAN,
           driver = "tinysa" /\ op \in {SweepOp, PowerOp} => v # None
    PROVE  Fit(op, Manual(v))
<1>1. IsIntent(Manual(v)) /\ Manual(v).value = v
  BY ManualIs
<1> QED
  BY <1>1 DEF Fit

\* The last value a range reaches is a number.
LEMMA ReachableIsInt ==
    ASSUME NEW r, IsRange(r)
    PROVE  MaximumReachable(r) \in Int
<1>1. r.min \in Int /\ r.max \in Int /\ r.step \in Int /\ r.step > 0
  BY DEF IsRange
<1>2. ((r.max - r.min) \div r.step) \in Int
  BY <1>1
<1>3. ((r.max - r.min) \div r.step) * r.step \in Int
  BY <1>1, <1>2
<1> QED
  BY <1>1, <1>3 DEF MaximumReachable

\* A number the panel can choose fits every setting that takes numbers.
LEMMA NumericChoices ==
    ASSUME NEW r, IsRange(r), NEW op, op # OutputOp, NEW intent \in Intents(Numeric(r))
    PROVE  Fit(op, intent)
<1>1. CASE intent = AutoIntent
  BY <1>1, AutoFits
<1>2. ASSUME NEW v \in Values(Numeric(r)), intent = Manual(v)
      PROVE  Fit(op, intent)
  <2>1. r.min \in Int /\ r.max \in Int /\ MaximumReachable(r) \in Int
    BY ReachableIsInt DEF IsRange
  <2>2. v \in {r.min - 1, r.min, r.min + 1, MaximumReachable(r), r.max}
    BY <1>2 DEF Values, Numeric
  <2>3. v \in Int
    BY <2>1, <2>2
  <2>4. v # None
    BY <2>3, NoneAssumption
  <2> QED
    BY <1>2, <2>4, ManualFits
<1> QED
  BY <1>1, <1>2 DEF Intents

\* So does a choice among options that hold a value.
LEMMA OptionChoices ==
    ASSUME NEW options, NEW op, driver = "tinysa" /\ op = OutputOp => options = BOOLEAN,
           driver = "tinysa" /\ op \in {SweepOp, PowerOp} => None \notin options,
           NEW intent \in Intents(OneOf(options))
    PROVE  Fit(op, intent)
<1>1. CASE intent = AutoIntent
  BY <1>1, AutoFits
<1>2. ASSUME NEW v \in Values(OneOf(options)), intent = Manual(v)
      PROVE  Fit(op, intent)
  <2>1. v \in options
    BY <1>2 DEF Values, OneOf
  <2> QED
    BY <1>2, <2>1, ManualFits
<1> QED
  BY <1>1, <1>2 DEF Intents

\* Everything else is asked for by a value alone.
LEMMA OtherChoices ==
    ASSUME NEW op, driver = "tinysa" => op = SourceOp, NEW domain, NEW intent \in Intents(domain)
    PROVE  Fit(op, intent)
<1>1. CASE intent = AutoIntent
  BY <1>1, AutoFits
<1>2. ASSUME NEW v \in Values(domain), intent = Manual(v)
      PROVE  Fit(op, intent)
  BY <1>2, ManualFits DEF SourceOp, OutputOp, SweepOp, PowerOp
<1> QED
  BY <1>1, <1>2 DEF Intents

Frankly(op, p) == \A intent \in {p.requested} \cup Intents(p.domain) : Fit(op, intent)

\* The settings of TinySA's two receiver operations are fit to be asked.
LEMMA ReceiverFrank ==
    ASSUME driver = "tinysa", unit \in DOMAIN Units, NEW op \in {SweepOp, PowerOp}, op \in TinySaOperations(caps), NEW s,
           NEW n \in DOMAIN TinySaParameters(caps, s, op)
    PROVE  Frankly(op, TinySaParameters(caps, s, op)[n])
<1> USE DEF SweepOp, PowerOp, SourceOp, OutputOp
<1> DEFINE sweep == CurrentReceiver(s, "sweep")
           power == CurrentReceiver(s, "power")
           p == TinySaParameters(caps, s, op)
<1>1. IsRange(caps.frequency) /\ (caps.level # None => IsRange(caps.level)) /\ None \notin caps.triggers
  BY UnitsAssumption DEF driver, caps, AdvertisesTinySa, IsSpan
<1>2. CASE op = SweepOp
  <2>1. p = Joined(SweepParameters(caps, sweep), TriggerParameters(caps, sweep))
    BY <1>2 DEF TinySaParameters
  <2>2. /\ n \in {"start", "stop"} \/ n = "trigger" \/ (n = "level" /\ caps.level # None)
        /\ n \in {"start", "stop"} => p[n].domain = Numeric(caps.frequency)
        /\ n = "trigger" => p[n].domain = OneOf(caps.triggers)
        /\ n = "level" => p[n].domain = Numeric(caps.level)
        /\ p[n].requested = AutoIntent
    BY <2>1 DEF Joined, SweepParameters, TriggerParameters, Parameter
  <2> QED
    BY <1>1, <1>2, <2>2, AutoFits, NumericChoices, OptionChoices DEF Frankly
<1>3. CASE op = PowerOp
  <2>1. p = Joined(PowerParameters(caps, power), TriggerParameters(caps, power))
    BY <1>3 DEF TinySaParameters
  <2>2. /\ n = "center" \/ n = "trigger" \/ (n = "level" /\ caps.level # None)
        /\ n = "center" => p[n].domain = Numeric(caps.frequency)
        /\ n = "trigger" => p[n].domain = OneOf(caps.triggers)
        /\ n = "level" => p[n].domain = Numeric(caps.level)
        /\ p[n].requested = AutoIntent
    BY <2>1 DEF Joined, PowerParameters, TriggerParameters, Parameter
  <2> QED
    BY <1>1, <1>3, <2>2, AutoFits, NumericChoices, OptionChoices DEF Frankly
<1> QED
  BY <1>2, <1>3

\* Every setting a driver shows is fit to be asked,
LEMMA DriverFrank ==
    ASSUME SessionShape, unit \in DOMAIN Units, LedgerFits(session), NEW op \in DOMAIN DriverSurface.parameters,
           NEW n \in DOMAIN DriverSurface.parameters[op]
    PROVE  Frankly(op, DriverSurface.parameters[op][n])
<1> DEFINE p == DriverSurface.parameters[op][n]
<1>1. CASE driver = "tinysa"
  <2> USE DEF SweepOp, PowerOp, SourceOp, OutputOp
  <2>1. op \in TinySaOperations(caps) /\ DriverSurface.parameters[op] = TinySaParameters(caps, session, op)
    BY <1>1 DEF DriverSurface, TinySaSurface
  <2>2. CASE op \in {SweepOp, PowerOp}
    BY <1>1, <2>1, <2>2, ReceiverFrank
  <2>3. CASE op = SourceOp
    <3>1. TinySaParameters(caps, session, op) = SourceParameters(caps, session)
      BY <2>3 DEF TinySaParameters
    <3>2. p.requested = Kept(session.sourceIntents, n, AutoIntent)
      BY <2>1, <3>1 DEF SourceParameters, Parameter
    <3>3. Fit(op, p.requested)
      BY <1>1, <2>3, <3>2, AutoFits DEF LedgerFits, Fits, Kept
    <3> QED
      BY <1>1, <2>3, <3>3, OtherChoices DEF Frankly
  <2>4. CASE op = OutputOp
    <3>1. TinySaParameters(caps, session, op) = OutputParameters(session)
      BY <2>4 DEF TinySaParameters
    <3>2. p.requested = session.outputIntent /\ p.domain = OneOf(BOOLEAN)
      BY <2>1, <3>1 DEF OutputParameters, Parameter
    <3> QED
      BY <1>1, <2>4, <3>2, OptionChoices DEF Frankly, LedgerFits
  <2> QED
    BY <2>1, <2>2, <2>3, <2>4 DEF TinySaOperations
<1>2. CASE driver = "neptune"
  <2>1. p.requested \in {Neptune!AutoIntent, Neptune!Manual(session.configuration[n])}
    BY <1>2 DEF DriverSurface, Neptune!NeptuneSurface
  <2>2. Fit(op, p.requested)
    BY <1>2, <2>1, AutoFits, ManualFits DEF Neptune!AutoIntent, Neptune!Manual, AutoIntent, Manual
  <2> QED
    BY <1>2, <2>2, OtherChoices DEF Frankly
<1>3. CASE driver = "signallab"
  <2>1. op \in Lab!LabOperations(session) /\ DriverSurface.parameters[op] = Lab!LabParameters(caps, session, op)
    BY <1>3 DEF DriverSurface, Lab!SignalLabSurface
  <2>2. \/ \E v : p.requested = Lab!Manual(v)
        \/ p.requested = Lab!AutoIntent
        \/ n \in DOMAIN session.intents /\ p.requested = session.intents[n]
    <3> USE DEF Lab!SpectrumOp, Lab!ObserveOp, Lab!CaptureIqOp, Lab!ProfileOp, Lab!ChannelOp, Lab!WaveformOp
    <3>1. CASE op = Lab!SpectrumOp
      BY <2>1, <3>1 DEF Lab!LabParameters, Lab!LabAcquisition
    <3>2. CASE op = Lab!ObserveOp
      BY <2>1, <3>2 DEF Lab!LabParameters, Lab!LabAcquisition
    <3>3. CASE op = Lab!CaptureIqOp
      BY <2>1, <3>3 DEF Lab!LabParameters, Lab!LabAcquisition
    <3>4. CASE op = Lab!ProfileOp
      BY <2>1, <3>4 DEF Lab!LabParameters, Lab!LabSource
    <3>5. CASE op = Lab!ChannelOp
      BY <2>1, <3>5 DEF Lab!LabParameters, Lab!LabSource
    <3>6. CASE op = Lab!WaveformOp
      BY <2>1, <3>6 DEF Lab!LabParameters, Lab!LabSource, Lab!WaveformIntent
    <3> QED
      BY <2>1, <3>1, <3>2, <3>3, <3>4, <3>5, <3>6 DEF Lab!LabOperations
  <2>3. IsIntent(p.requested)
    BY <1>3, <2>2, ManualIs, AutoFits DEF LedgerFits, IsIntent, Lab!Manual, Lab!AutoIntent, AutoIntent, Manual
  <2>4. Fit(op, p.requested)
    BY <1>3, <2>3 DEF Fit
  <2> QED
    BY <1>3, <2>4, OtherChoices DEF Frankly
<1> QED
  BY <1>1, <1>2, <1>3 DEF SessionShape

\* and so is every setting of the surface with the manager's overlay on it.
LEMMA SurfaceFrank ==
    ASSUME SessionShape, unit \in DOMAIN Units, LedgerFits(session), Overlays(manager.overlay)
    PROVE  Frank(Surface)
<1> DEFINE driverSurface == DriverSurface
           over == manager.overlay
<1>1. DOMAIN driverSurface = {"revision", "parameters"}
  BY DEF SessionShape, DriverSurface, TinySaSurface, Lab!SignalLabSurface, Neptune!NeptuneSurface
<1>2. \A op \in DOMAIN driverSurface.parameters : \A n \in DOMAIN driverSurface.parameters[op] :
         Frankly(op, driverSurface.parameters[op][n])
  BY DriverFrank
<1>3. WellFormed(driverSurface)
  BY TinySaWellFormed, NeptuneWellFormed, LabWellFormed DEF SessionShape, DriverSurface
<1> HIDE DEF driverSurface
<1>4. CASE over = NoOverlay
  BY <1>2, <1>4 DEF Surface, driverSurface, Frank, Frankly
<1>5. CASE over # NoOverlay
  <2>1. Surface = [driverSurface EXCEPT !.parameters[over.operation] =
                      [n \in DOMAIN @ |-> [@[n] EXCEPT !.requested = over.intents[n]]]]
    BY <1>5 DEF Surface, driverSurface
  <2>2. DOMAIN Surface.parameters = DOMAIN driverSurface.parameters
    BY <1>1, <2>1
  <2>3. ASSUME NEW op \in DOMAIN Surface.parameters, NEW n \in DOMAIN Surface.parameters[op]
        PROVE  Frankly(op, Surface.parameters[op][n])
    <3>1. CASE op # over.operation
      <4>1. Surface.parameters[op] = driverSurface.parameters[op]
        BY <1>1, <2>1, <2>2, <3>1
      <4> QED
        BY <1>2, <2>2, <2>3, <4>1
    <3>2. CASE op = over.operation
      <4>1. Surface.parameters[op] = [m \in DOMAIN driverSurface.parameters[op] |->
                                        [driverSurface.parameters[op][m] EXCEPT !.requested = over.intents[m]]]
        BY <1>1, <2>1, <2>2, <3>2
      <4>2. n \in DOMAIN driverSurface.parameters[op] /\ n \in Names(op)
        BY <1>3, <2>2, <2>3, <4>1 DEF WellFormed
      <4>3. Fit(op, over.intents[n])
        BY <1>5, <3>2, <4>2 DEF Overlays, Fits
      <4>4. Frankly(op, driverSurface.parameters[op][n])
        BY <1>2, <2>2, <4>2
      <4>5. Surface.parameters[op][n] = [driverSurface.parameters[op][n] EXCEPT !.requested = over.intents[n]]
        BY <4>1, <4>2
      <4>6. /\ Surface.parameters[op][n].domain = driverSurface.parameters[op][n].domain
            /\ Surface.parameters[op][n].requested \in {over.intents[n], driverSurface.parameters[op][n].requested}
        BY <4>5
      <4> QED
        BY <4>3, <4>4, <4>6 DEF Frankly
    <3> QED
      BY <3>1, <3>2
  <2> QED
    BY <2>3 DEF Frank, Frankly
<1> QED
  BY <1>4, <1>5

-----------------------------------------------------------------------------
(* An operation resolves to what its explicit settings ask *)

LEMMA TriggerKept ==
    ASSUME NEW c, NEW current, NEW intents, NEW t \in ResolvedTrigger(c, current, intents)
    PROVE  /\ IsManual(intents["trigger"]) => t.trigger = intents["trigger"].value
           /\ c.level # None /\ IsManual(intents["level"]) => t.trigger # "auto" /\ t.level = intents["level"].value
<1> DEFINE chosen == Resolve(intents["trigger"], EffectiveTrigger(c, current))
<1>1. CASE chosen # "auto"
  <2>1. t = [trigger |-> chosen, level |-> Resolve(intents["level"], EffectiveLevel(c, current))]
    BY <1>1 DEF ResolvedTrigger
  <2> QED
    BY <1>1, <2>1 DEF Resolve
<1>2. CASE chosen = "auto"
  <2>1. t = [trigger |-> "auto", level |-> None] /\ ~(c.level # None /\ IsManual(intents["level"]))
    BY <1>2 DEF ResolvedTrigger
  <2> QED
    BY <1>2, <2>1 DEF Resolve
<1> QED
  BY <1>1, <1>2

\* A configuration in effect is shown as it is, where it is admitted.
LEMMA TriggerShown ==
    ASSUME NEW c, NEW conf, {"trigger", "level"} \subseteq DOMAIN conf, TriggerBinds(c, conf),
           NEW n \in DOMAIN TriggerParameters(c, conf), NEW v, v # None,
           n = "trigger" => conf.trigger = v, n = "level" => conf.level = v /\ conf.trigger # "auto"
    PROVE  TriggerParameters(c, conf)[n].effective = v
<1>1. CASE n = "trigger"
  <2>1. TriggerParameters(c, conf)[n].effective = EffectiveTrigger(c, conf)
    BY <1>1 DEF TriggerParameters, Parameter
  <2>2. EffectiveTrigger(c, conf) = v
    BY <1>1 DEF EffectiveTrigger, Field, Kept, TriggerBinds, EffectiveOption
  <2> QED
    BY <2>1, <2>2
<1>2. CASE n = "level"
  <2>1. TriggerParameters(c, conf)[n].effective = EffectiveLevel(c, conf)
    BY <1>2 DEF TriggerParameters, Parameter
  <2>2. EffectiveLevel(c, conf) = v
    BY <1>2 DEF EffectiveLevel, Field, Kept, TriggerBinds, EffectiveNumber
  <2> QED
    BY <2>1, <2>2
<1> QED
  BY <1>1, <1>2 DEF TriggerParameters

\* A resolved sweep does what was asked of it,
LEMMA SweepKeeps ==
    ASSUME driver = "tinysa", NEW intents, DOMAIN intents = Names(SweepOp), Fits(SweepOp, intents),
           NEW target \in ResolvedSweep(caps, session, intents)
    PROVE  Keeps(target, SweepOp, intents)
<1> DEFINE current == CurrentReceiver(session, "sweep")
           effective == EffectiveSweep(caps, current)
           settings == ShownOf(target, SweepOp)
<1>1. PICK t \in ResolvedTrigger(caps, current, intents) :
         target = [kind |-> "sweep", start |-> Resolve(intents["start"], effective.start),
                   stop |-> Resolve(intents["stop"], effective.stop), trigger |-> t.trigger, level |-> t.level]
  BY DEF ResolvedSweep
<1> HIDE DEF current, effective
<1>2. TriggerBinds(caps, target) /\ Admits(caps.frequency, target.start) /\ Admits(caps.frequency, target.stop)
  BY <1>1 DEF ResolvedSweep, ReceiverBinds
<1>3. /\ DOMAIN target = {"kind", "start", "stop", "trigger", "level"} /\ target.kind = "sweep"
      /\ target.trigger = t.trigger /\ target.level = t.level
      /\ IsManual(intents["start"]) => target.start = intents["start"].value
      /\ IsManual(intents["stop"]) => target.stop = intents["stop"].value
  BY <1>1 DEF Resolve
<1>4. CurrentReceiver([configuration |-> target], "sweep") = target
  BY <1>3 DEF CurrentReceiver
<1>5. settings = Joined(SweepParameters(caps, target), TriggerParameters(caps, target))
  BY <1>4 DEF ShownOf, TinySaParameters, SweepOp, PowerOp, SourceOp, OutputOp
<1>6. ASSUME NEW n \in DOMAIN settings, IsManual(intents[n])
      PROVE  settings[n].effective = intents[n].value
  <2>1. n \in DOMAIN intents
    BY <1>5, <1>6 DEF Joined, SweepParameters, TriggerParameters, Names, SweepOp, PowerOp, SourceOp, OutputOp
  <2>2. intents[n].value # None
    BY <1>6, <2>1 DEF Fits, Fit
  <2>3. CASE n \in {"start", "stop"}
    <3>1. settings[n].effective = EffectiveNumber(Field(target, n), caps.frequency,
                                    IF n = "start" THEN caps.frequency.min ELSE MaximumReachable(caps.frequency))
      BY <1>5, <2>3 DEF Joined, SweepParameters, Parameter, EffectiveSweep
    <3>2. Field(target, n) = intents[n].value /\ Admits(caps.frequency, intents[n].value)
      BY <1>2, <1>3, <1>6, <2>3 DEF Field, Kept
    <3> QED
      BY <2>2, <3>1, <3>2 DEF EffectiveNumber
  <2>4. CASE n \notin {"start", "stop"}
    <3>1. n \in DOMAIN TriggerParameters(caps, target) /\ settings[n] = TriggerParameters(caps, target)[n]
      BY <1>5, <1>6, <2>4 DEF Joined, SweepParameters
    <3>2. n = "trigger" \/ (n = "level" /\ caps.level # None)
      BY <3>1 DEF TriggerParameters
    <3>3. /\ n = "trigger" => target.trigger = intents[n].value
          /\ n = "level" => target.level = intents[n].value /\ target.trigger # "auto"
      BY <1>1, <1>3, <1>6, <3>2, TriggerKept
    <3> QED
      BY <1>2, <1>3, <2>2, <3>1, <3>3, TriggerShown
  <2> QED
    BY <2>3, <2>4
<1> HIDE DEF settings
<1>7. Achieves(settings, intents)
  BY <1>6 DEF Achieves
<1> QED
  BY <1>3, <1>7 DEF Keeps, IsFeature, settings

\* and so do a resolved zero-span acquisition,
LEMMA PowerKeeps ==
    ASSUME driver = "tinysa", NEW intents, DOMAIN intents = Names(PowerOp), Fits(PowerOp, intents),
           NEW target \in ResolvedPower(caps, session, intents)
    PROVE  Keeps(target, PowerOp, intents)
<1> DEFINE current == CurrentReceiver(session, "power")
           center == EffectiveCenter(caps, current)
           settings == ShownOf(target, PowerOp)
<1>1. PICK t \in ResolvedTrigger(caps, current, intents) :
         target = [kind |-> "power", center |-> Resolve(intents["center"], center), trigger |-> t.trigger, level |-> t.level]
  BY DEF ResolvedPower
<1> HIDE DEF current, center
<1>2. TriggerBinds(caps, target) /\ Admits(caps.frequency, target.center)
  BY <1>1 DEF ResolvedPower, ReceiverBinds
<1>3. /\ DOMAIN target = {"kind", "center", "trigger", "level"} /\ target.kind = "power"
      /\ target.trigger = t.trigger /\ target.level = t.level
      /\ IsManual(intents["center"]) => target.center = intents["center"].value
  BY <1>1 DEF Resolve
<1>4. CurrentReceiver([configuration |-> target], "power") = target
  BY <1>3 DEF CurrentReceiver
<1>5. settings = Joined(PowerParameters(caps, target), TriggerParameters(caps, target))
  BY <1>4 DEF ShownOf, TinySaParameters, SweepOp, PowerOp, SourceOp, OutputOp
<1>6. ASSUME NEW n \in DOMAIN settings, IsManual(intents[n])
      PROVE  settings[n].effective = intents[n].value
  <2>1. n \in DOMAIN intents
    BY <1>5, <1>6 DEF Joined, PowerParameters, TriggerParameters, Names, SweepOp, PowerOp, SourceOp, OutputOp
  <2>2. intents[n].value # None
    BY <1>6, <2>1 DEF Fits, Fit
  <2>3. CASE n = "center"
    <3>1. settings[n].effective = EffectiveNumber(Field(target, n), caps.frequency, caps.frequency.min)
      BY <1>5, <2>3 DEF Joined, PowerParameters, Parameter, EffectiveCenter
    <3>2. Field(target, n) = intents[n].value /\ Admits(caps.frequency, intents[n].value)
      BY <1>2, <1>3, <1>6, <2>3 DEF Field, Kept
    <3> QED
      BY <2>2, <3>1, <3>2 DEF EffectiveNumber
  <2>4. CASE n # "center"
    <3>1. n \in DOMAIN TriggerParameters(caps, target) /\ settings[n] = TriggerParameters(caps, target)[n]
      BY <1>5, <1>6, <2>4 DEF Joined, PowerParameters
    <3>2. n = "trigger" \/ (n = "level" /\ caps.level # None)
      BY <3>1 DEF TriggerParameters
    <3>3. /\ n = "trigger" => target.trigger = intents[n].value
          /\ n = "level" => target.level = intents[n].value /\ target.trigger # "auto"
      BY <1>1, <1>3, <1>6, <3>2, TriggerKept
    <3> QED
      BY <1>2, <1>3, <2>2, <3>1, <3>3, TriggerShown
  <2> QED
    BY <2>3, <2>4
<1> HIDE DEF settings
<1>7. Achieves(settings, intents)
  BY <1>6 DEF Achieves
<1> QED
  BY <1>3, <1>7 DEF Keeps, IsFeature, settings

\* a resolved generator configuration, where a rate counts only with a modulation,
LEMMA SourceKeeps ==
    ASSUME driver = "tinysa", NEW intents, DOMAIN intents = Names(SourceOp),
           NEW target \in ResolvedSource(caps, session, intents)
    PROVE  Keeps(target, SourceOp, intents)
<1> DEFINE settings == SourceShown(target, intents)
<1>1. /\ DOMAIN target = {"action", "path", "frequency", "modulation", "rate"} /\ target.action = "configure"
      /\ IsManual(intents["path"]) => target.path = intents["path"].value
      /\ IsManual(intents["modulation"]) => target.modulation = intents["modulation"].value
      /\ IsManual(intents["frequency"]) => target.frequency = intents["frequency"].value
      /\ "rate" \in SourceNames(caps) /\ IsManual(intents["rate"]) /\ target.modulation # "off" =>
             target.rate = intents["rate"].value
  BY DEF ResolvedSource, Resolve
<1>2. /\ DOMAIN settings = SourceNames(caps)
      /\ \A n \in SourceNames(caps) : settings[n].effective = GeneratorConfiguration(target)[n]
  BY DEF SourceShown, SourceParameters, Parameter, Kept, GeneratorConfiguration, SourceNames
<1>3. {"frequency", "path", "modulation"} \subseteq SourceNames(caps)
      /\ SourceNames(caps) \subseteq {"frequency", "path", "modulation", "rate"}
  BY DEF SourceNames
<1> HIDE DEF settings
<1>4. settings["modulation"].effective = target.modulation
  BY <1>2, <1>3 DEF GeneratorConfiguration
<1>5. ASSUME NEW n \in DOMAIN settings \ Inert(settings), IsManual(intents[n])
      PROVE  settings[n].effective = intents[n].value
  <2>1. n # "rate" \/ target.modulation # "off"
    BY <1>2, <1>3, <1>4, <1>5 DEF Inert
  <2>2. n \in SourceNames(caps) /\ settings[n].effective = GeneratorConfiguration(target)[n]
    BY <1>2, <1>5
  <2> QED
    BY <1>1, <1>3, <1>5, <2>1, <2>2 DEF GeneratorConfiguration
<1>6. Achieves(settings, intents)
  BY <1>5 DEF Achieves
<1> QED
  BY <1>1, <1>6 DEF Keeps, IsFeature, settings

\* a resolved output,
LEMMA OutputKeeps ==
    ASSUME driver = "tinysa", NEW intents, DOMAIN intents = Names(OutputOp), Fits(OutputOp, intents),
           NEW target \in ResolvedOutput(intents)
    PROVE  Keeps(target, OutputOp, intents)
<1> DEFINE on == IsManual(intents["output"]) /\ intents["output"].value
<1>1. target = [action |-> "set-output", enabled |-> on]
  BY DEF ResolvedOutput
<1>2. "output" \in DOMAIN intents
  BY DEF Names, SweepOp, PowerOp, SourceOp, OutputOp
<1>3. IsManual(intents["output"]) => intents["output"].value \in BOOLEAN
  BY <1>2 DEF Fits, Fit
<1>4. IsManual(intents["output"]) => on = intents["output"].value
  <2> SUFFICES ASSUME IsManual(intents["output"]) PROVE on = intents["output"].value
    OBVIOUS
  <2>1. intents["output"].value \in BOOLEAN
    BY <1>3
  <2> QED
    BY <2>1
<1> HIDE DEF on
<1>5. target.action = "set-output" /\ target.enabled = on /\ IsFeature(target)
  BY <1>1 DEF IsFeature
<1> QED
  BY <1>4, <1>5 DEF Keeps

\* and a resolved capture.
LEMMA CaptureKeeps ==
    ASSUME driver = "neptune", NEW intents, NEW target \in Neptune!ResolvedCapture(caps, intents)
    PROVE  Keeps(target, Neptune!CaptureOp, intents)
<1> DEFINE settings == ShownOf(target, Neptune!CaptureOp)
<1>1. /\ DOMAIN target = {"kind", "tune", "rate", "bandwidth"} /\ target.kind = "capture"
      /\ \A n \in Neptune!CaptureNames : IsManual(intents[n]) => target[n] = intents[n].value
  BY DEF Neptune!ResolvedCapture, Neptune!Resolve, Neptune!IsManual, IsManual, Neptune!CaptureNames
<1>2. target # Neptune!NoConfiguration
  BY <1>1 DEF Neptune!NoConfiguration
<1>3. DOMAIN settings = Neptune!CaptureNames /\ \A n \in Neptune!CaptureNames : settings[n].effective = target[n]
  BY <1>2 DEF ShownOf, Neptune!NeptuneSurface
<1> HIDE DEF settings
<1>4. Achieves(settings, intents)
  BY <1>1, <1>3 DEF Achieves
<1> QED
  BY <1>1, <1>4 DEF Keeps, IsFeature, settings

\* What TinySA and Neptune resolve does what was asked.
LEMMA ResolutionKeeps ==
    ASSUME driver \in {"tinysa", "neptune"}, NEW op \in Operations, NEW intents,
           DOMAIN intents = Names(op), Fits(op, intents), NEW target \in Resolved(op, intents)
    PROVE  Keeps(target, op, intents)
<1>1. CASE driver = "tinysa"
  <2> USE DEF SweepOp, PowerOp, SourceOp, OutputOp
  <2>1. op \in TinySaOperations(caps) /\ target \in TinySaResolved(caps, session, op, intents)
    BY <1>1 DEF Operations, Resolved
  <2>2. CASE op = SweepOp
    BY <1>1, <2>1, <2>2, SweepKeeps DEF TinySaResolved
  <2>3. CASE op = PowerOp
    BY <1>1, <2>1, <2>3, PowerKeeps DEF TinySaResolved
  <2>4. CASE op = SourceOp
    BY <1>1, <2>1, <2>4, SourceKeeps DEF TinySaResolved
  <2>5. CASE op = OutputOp
    BY <1>1, <2>1, <2>5, OutputKeeps DEF TinySaResolved
  <2> QED
    BY <2>1, <2>2, <2>3, <2>4, <2>5 DEF TinySaOperations
<1>2. CASE driver = "neptune"
  BY <1>2, CaptureKeeps DEF Operations, Resolved
<1> QED
  BY <1>1, <1>2

-----------------------------------------------------------------------------
(* The conversation *)

LEMMA FitStays ==
    ASSUME unit' = unit
    PROVE  /\ \A op, i : Fit(op, i)' <=> Fit(op, i)
           /\ \A op, x : Fits(op, x)' <=> Fits(op, x)
           /\ \A x : Frank(x)' <=> Frank(x)
           /\ \A x : LedgerFits(x)' <=> LedgerFits(x)
           /\ \A x : Overlays(x)' <=> Overlays(x)
<1>1. driver' = driver
  BY DEF driver
<1>2. \A op, i : Fit(op, i)' <=> Fit(op, i)
  BY <1>1 DEF Fit
<1>3. \A op, x : Fits(op, x)' <=> Fits(op, x)
  BY <1>2 DEF Fits
<1>4. \A x : Frank(x)' <=> Frank(x)
  BY <1>2 DEF Frank
<1>5. \A x : LedgerFits(x)' <=> LedgerFits(x)
  BY <1>1, <1>2, <1>3 DEF LedgerFits
<1>6. \A x : Overlays(x)' <=> Overlays(x)
  BY <1>1, <1>3, NamesStay DEF Overlays
<1> QED
  BY <1>2, <1>3, <1>4, <1>5, <1>6

\* What the panel will make of the answers stays fit, whatever it is told.
LEMMA ToldFits ==
    ASSUME AnswerShape, FitInv, SessionShape', unit \in DOMAIN Units, unit' = unit, Tells,
           LedgerFits(session'), Overlays(manager'.overlay)
    PROVE  \A i \in DOMAIN answers' : answers'[i].kind # "refused" => Frank(answers'[i].surface)
<1>1. LedgerFits(session)' /\ Overlays(manager.overlay)'
  <2>1. ASSUME NEW s, NEW o, s = session', o = manager'.overlay, LedgerFits(s)', Overlays(o)'
        PROVE  LedgerFits(session)' /\ Overlays(manager.overlay)'
    BY <2>1 DEF LedgerFits, Overlays
  <2> QED
    BY <2>1, FitStays
<1>2. (unit \in DOMAIN Units)'
  OBVIOUS
<1>3. Frank(Surface)'
  BY <1>1, <1>2, SurfaceFrank, PTL
<1>4. Frank(Surface')
  BY <1>3, FitStays DEF Frank
<1>5. \A i \in DOMAIN answers : answers[i].kind # "refused" => Frank(answers[i].surface)
  BY DEF FitInv
<1>6. ASSUME NEW a, answers' = Append(answers, a), a.kind \in Kinds, a.kind # "refused" => a.surface = Surface'
      PROVE  \A i \in DOMAIN answers' : answers'[i].kind # "refused" => Frank(answers'[i].surface)
  <2>1. /\ Len(answers') = Len(answers) + 1 /\ IsList(answers')
        /\ \A i \in 1 .. Len(answers) : answers'[i] = answers[i]
        /\ answers'[Len(answers) + 1] = a
    BY <1>6, Appended DEF AnswerShape
  <2>2. DOMAIN answers = 1 .. Len(answers) /\ DOMAIN answers' = 1 .. Len(answers') /\ Len(answers) \in Nat
    BY <2>1 DEF AnswerShape, IsList
  <2>3. \A i \in DOMAIN answers' : answers'[i] = a \/ (i \in DOMAIN answers /\ answers'[i] = answers[i])
    BY <2>1, <2>2
  <2>4. a.kind # "refused" => Frank(a.surface)
    BY <1>4, <1>6
  <2> QED
    BY <1>5, <2>3, <2>4
<1> QED
  BY <1>5, <1>6 DEF Tells

\* FitInv, of the state after a step, in terms of the one before.
LEMMA FitNext ==
    ASSUME unit' = unit, panel'.surface # None => Frank(panel'.surface),
           panel'.edits # None => Fits(panel'.edits.operation, panel'.edits.intents),
           request' # NoRequest => Fits(request'.operation, request'.intents),
           \A i \in DOMAIN answers' : answers'[i].kind # "refused" => Frank(answers'[i].surface),
           LedgerFits(session'), Overlays(manager'.overlay)
    PROVE  FitInv'
<1>1. \A x : x = panel'.surface /\ Frank(x) => Frank(panel.surface)'
  BY FitStays DEF Frank
<1>2. \A i, x : x = answers'[i].surface /\ Frank(x) => Frank(answers[i].surface)'
  BY FitStays DEF Frank
<1>3. \A op, x : op = panel'.edits.operation /\ x = panel'.edits.intents /\ Fits(op, x) =>
         Fits(panel.edits.operation, panel.edits.intents)'
  BY FitStays DEF Fits
<1>4. \A op, x : op = request'.operation /\ x = request'.intents /\ Fits(op, x) =>
         Fits(request.operation, request.intents)'
  BY FitStays DEF Fits
<1>5. LedgerFits(session)' /\ Overlays(manager.overlay)'
  <2>1. ASSUME NEW s, NEW o, s = session', o = manager'.overlay, LedgerFits(s)', Overlays(o)'
        PROVE  LedgerFits(session)' /\ Overlays(manager.overlay)'
    BY <2>1 DEF LedgerFits, Overlays
  <2> QED
    BY <2>1, FitStays
<1>6. panel'.surface # None => Frank(panel.surface)'
  BY <1>1
<1>7. \A i \in DOMAIN answers' : answers'[i].kind # "refused" => Frank(answers[i].surface)'
  BY <1>2
<1>8. panel'.edits # None => Fits(panel.edits.operation, panel.edits.intents)'
  BY <1>3
<1>9. request' # NoRequest' => Fits(request.operation, request.intents)'
  BY <1>4 DEF NoRequest
<1> QED
  BY <1>5, <1>6, <1>7, <1>8, <1>9 DEF FitInv

\* What fits stays fit while the request is the same and the panel is only told.
LEMMA FitFrame ==
    ASSUME AnswerShape, FitInv, SessionShape', unit \in DOMAIN Units, unit' = unit, Tells, panel' = panel,
           request' = request \/ (request # NoRequest /\ request'.operation = request.operation /\ request'.intents = request.intents),
           LedgerFits(session'), Overlays(manager'.overlay)
    PROVE  FitInv'
<1>1. \A i \in DOMAIN answers' : answers'[i].kind # "refused" => Frank(answers'[i].surface)
  BY ToldFits
<1>2. request' # NoRequest => Fits(request'.operation, request'.intents)
  <2>1. request # NoRequest => Fits(request.operation, request.intents)
    BY DEF FitInv
  <2> QED
    BY <2>1
<1>3. /\ panel'.surface # None => Frank(panel'.surface)
      /\ panel'.edits # None => Fits(panel'.edits.operation, panel'.edits.intents)
  BY DEF FitInv
<1> QED
  BY <1>1, <1>2, <1>3, FitNext

Open == request.stage = "admitted" /\ \A i \in DOMAIN answers : answers[i].kind = "read"

\* Nothing is answered in this step.
LEMMA Silent ==
    ASSUME Conversation, ReplyHonoursRequest, answers' = answers, request' = request, Asked' => Asked
    PROVE  Conversation' /\ ReplyHonoursRequest'
<1>1. Conversation'
  BY DEF Conversation
<1>2. ReplyHonoursRequest'
  BY DEF ReplyHonoursRequest
<1> QED
  BY <1>1, <1>2

\* While the panel's command is under way its request is open.
LEMMA AskedIsOpen == Conversation /\ Asked => Open
BY DEF Conversation, Open

\* The request is answered, and what it asked for was done.
LEMMA Concluded ==
    ASSUME AnswerShape, \A i \in DOMAIN answers : answers[i].kind = "read", request'.stage = "admitted", ~Asked',
           NEW a, answers' = Append(answers, a), a.kind \in {"applied", "refused"},
           a.kind = "applied" => Honours(a.surface.parameters[request'.operation], request'.intents)
    PROVE  Conversation' /\ ReplyHonoursRequest'
<1>1. /\ Len(answers') = Len(answers) + 1 /\ IsList(answers')
      /\ \A i \in 1 .. Len(answers) : answers'[i] = answers[i]
      /\ answers'[Len(answers) + 1] = a
  BY Appended DEF AnswerShape
<1>2. DOMAIN answers = 1 .. Len(answers) /\ DOMAIN answers' = 1 .. Len(answers') /\ Len(answers) \in Nat
  BY <1>1 DEF AnswerShape, IsList
<1>3. \A i \in DOMAIN answers' : i = Len(answers) + 1 \/ answers'[i].kind = "read"
  BY <1>1, <1>2
<1>4. Conversation'
  BY <1>3 DEF Conversation
<1>5. \A i \in DOMAIN answers' : answers'[i].kind = "applied" => answers'[i] = a
  BY <1>1, <1>3
<1>6. ReplyHonoursRequest'
  BY <1>5 DEF ReplyHonoursRequest, Honours, Achieves, Inert
<1> QED
  BY <1>4, <1>6

\* A surface the panel reads answers nothing.
LEMMA ReadIsSilent ==
    ASSUME AnswerShape, Conversation, ReplyHonoursRequest, request' = request, command' = command,
           NEW a, answers' = Append(answers, a), a.kind = "read"
    PROVE  Conversation' /\ ReplyHonoursRequest'
<1>1. /\ Len(answers') = Len(answers) + 1 /\ IsList(answers')
      /\ \A i \in 1 .. Len(answers) : answers'[i] = answers[i]
      /\ answers'[Len(answers) + 1] = a
  BY Appended DEF AnswerShape
<1>2. DOMAIN answers = 1 .. Len(answers) /\ DOMAIN answers' = 1 .. Len(answers') /\ Len(answers) \in Nat
  BY <1>1 DEF AnswerShape, IsList
<1>3. \A i \in DOMAIN answers' : answers'[i].kind # "read" => i \in DOMAIN answers /\ answers'[i] = answers[i]
  BY <1>1, <1>2
<1>4. Asked' <=> Asked
  BY DEF Asked
<1>5. Conversation'
  BY <1>3, <1>4 DEF Conversation
<1>6. ReplyHonoursRequest'
  BY <1>3 DEF ReplyHonoursRequest
<1> QED
  BY <1>5, <1>6

\* Whether a target does what was asked depends on the instrument alone,
LEMMA KeepsStays ==
    ASSUME unit' = unit
    PROVE  \A t, op, i : Keeps(t, op, i)' <=> Keeps(t, op, i)
<1>1. driver' = driver /\ caps' = caps
  BY DEF driver, caps
<1>2. \A t, op : ShownOf(t, op)' = ShownOf(t, op)
  BY <1>1 DEF ShownOf
<1>3. \A t, i : SourceShown(t, i)' = SourceShown(t, i)
  BY <1>1 DEF SourceShown
<1> QED
  BY <1>1, <1>2, <1>3 DEF Keeps

\* and a command that no step touches keeps what it has to do.
LEMMA CommandStays ==
    ASSUME CommandKeeps, unit' = unit, session' = session, command' = command, Asked => request' = request
    PROVE  CommandKeeps'
<1>1. Asked' <=> Asked
  BY DEF Asked
<1>2. Asked => Remembers'
  BY DEF Asked, Remembers, CommandKeeps, IsFeature
<1>3. ASSUME NEW t, NEW op, NEW i, t = command'.target, op = request'.operation, i = request'.intents, Keeps(t, op, i)
      PROVE  Keeps(command.target, request.operation, request.intents)'
  BY <1>3, KeepsStays DEF Keeps
<1>4. Asked => Keeps(command'.target, request'.operation, request'.intents)
  BY DEF CommandKeeps, Asked
<1>5. Asked => Keeps(command.target, request.operation, request.intents)'
  BY <1>3, <1>4
<1> QED
  BY <1>1, <1>2, <1>5 DEF CommandKeeps, IsFeature

\* The panel asks when it is not waiting for an answer.
LEMMA AskingIsSilent ==
    ASSUME Conversation, ReplyHonoursRequest, CommandKeeps, request = NoRequest,
           UNCHANGED <<unit, session, command, answers>>
    PROVE  Conversation' /\ ReplyHonoursRequest' /\ CommandKeeps'
<1>1. ~Asked /\ \A i \in DOMAIN answers : answers[i].kind = "read"
  BY DEF Conversation, NoRequest
<1>2. ~Asked'
  BY <1>1 DEF Asked
<1>3. Conversation'
  BY <1>1, <1>2 DEF Conversation
<1>4. ReplyHonoursRequest'
  BY <1>1 DEF ReplyHonoursRequest
<1> QED
  BY <1>1, <1>3, <1>4, CommandStays

LEMMA EditIsHonest == SurfaceInv /\ HonestInv /\ Edit => HonestInv'
<1> SUFFICES ASSUME SurfaceInv, HonestInv, Edit PROVE HonestInv'
  OBVIOUS
<1>0. /\ unit' = unit /\ session' = session /\ manager' = manager /\ answers' = answers /\ command' = command
      /\ panel.surface # None /\ request = NoRequest
  BY DEF Edit, MayAsk
<1>1. /\ WellFormed(panel.surface) /\ DOMAIN panel = {"surface", "edits"} /\ Frank(panel.surface)
      /\ panel.edits # None => Fits(panel.edits.operation, panel.edits.intents) /\ DOMAIN panel.edits.intents = Names(panel.edits.operation)
  BY <1>0 DEF SurfaceInv, PanelShape, HonestInv, FitInv
<1>2. PICK op \in DOMAIN panel.surface.parameters : \E n \in DOMAIN panel.surface.parameters[op] :
         \E choice \in Intents(panel.surface.parameters[op][n].domain) :
            LET intents == [Shown(op) EXCEPT ![n] = choice]
            IN  /\ Asks(panel.surface, op, intents)
                /\ panel' = [panel EXCEPT !.edits = [operation |-> op, intents |-> intents]]
  BY DEF Edit
<1>3. PICK n \in DOMAIN panel.surface.parameters[op] : \E choice \in Intents(panel.surface.parameters[op][n].domain) :
            LET intents == [Shown(op) EXCEPT ![n] = choice]
            IN  /\ Asks(panel.surface, op, intents)
                /\ panel' = [panel EXCEPT !.edits = [operation |-> op, intents |-> intents]]
  BY <1>2
<1>4. PICK choice \in Intents(panel.surface.parameters[op][n].domain) :
            /\ Asks(panel.surface, op, [Shown(op) EXCEPT ![n] = choice])
            /\ panel' = [panel EXCEPT !.edits = [operation |-> op, intents |-> [Shown(op) EXCEPT ![n] = choice]]]
  BY <1>3
<1>5. Fit(op, choice)
  BY <1>1, <1>3, <1>4 DEF Frank
<1>6. Fits(op, Shown(op))
  BY <1>1, <1>2 DEF Shown, Frank, Fits
<1>7. Fits(op, [Shown(op) EXCEPT ![n] = choice])
  BY <1>5, <1>6 DEF Fits
<1>8. /\ panel'.surface = panel.surface /\ panel'.edits.operation = op
      /\ Fits(panel'.edits.operation, panel'.edits.intents) /\ Fits(request'.operation, request'.intents)
  BY <1>1, <1>4, <1>7 DEF Asks
<1>9. /\ \A i \in DOMAIN answers' : answers'[i].kind # "refused" => Frank(answers'[i].surface)
      /\ LedgerFits(session') /\ Overlays(manager'.overlay) /\ Frank(panel'.surface)
  BY <1>0, <1>1, <1>8 DEF HonestInv, FitInv
<1>10. FitInv'
  BY <1>0, <1>8, <1>9, FitNext
<1> QED
  BY <1>0, <1>10, AskingIsSilent DEF HonestInv

LEMMA AskAutomaticIsHonest == SurfaceInv /\ HonestInv /\ AskAutomatic => HonestInv'
<1> SUFFICES ASSUME SurfaceInv, HonestInv, AskAutomatic PROVE HonestInv'
  OBVIOUS
<1>0. /\ unit' = unit /\ session' = session /\ manager' = manager /\ answers' = answers /\ command' = command
      /\ panel' = panel /\ request = NoRequest
  BY DEF AskAutomatic, MayAsk
<1>1. PICK surface, op : Asks(surface, op, AllAuto(surface.parameters[op]))
  BY DEF AskAutomatic
<1>2. Fits(request'.operation, request'.intents)
  BY <1>1, AutoFits DEF Asks, AllAuto, Fits
<1>3. /\ \A i \in DOMAIN answers' : answers'[i].kind # "refused" => Frank(answers'[i].surface)
      /\ LedgerFits(session') /\ Overlays(manager'.overlay)
      /\ panel'.surface # None => Frank(panel'.surface)
      /\ panel'.edits # None => Fits(panel'.edits.operation, panel'.edits.intents)
  BY <1>0 DEF HonestInv, FitInv
<1>4. FitInv'
  BY <1>0, <1>2, <1>3, FitNext
<1> QED
  BY <1>0, <1>4, AskingIsSilent DEF HonestInv

LEMMA ReadSurfaceIsHonest == SurfaceInv /\ HonestInv /\ ReadSurface => HonestInv'
<1> SUFFICES ASSUME SurfaceInv, HonestInv, ReadSurface PROVE HonestInv'
  OBVIOUS
<1>0. /\ unit' = unit /\ session' = session /\ manager' = manager /\ command' = command
      /\ panel' = panel /\ request' = request
  BY DEF ReadSurface
<1>1. SessionShape' /\ AnswerShape
  BY DEF ReadSurface, SurfaceInv, SessionShape, driver, caps
<1> DEFINE a == [kind |-> "read", surface |-> Surface]
<1>2. answers' = Append(answers, a) /\ a.kind = "read" /\ a.surface = Surface
  BY DEF ReadSurface
<1> HIDE DEF a
<1>3. Tells
  BY <1>0, <1>2, QuietSurface DEF Tells, Kinds
<1>4. LedgerFits(session') /\ Overlays(manager'.overlay)
  BY <1>0 DEF HonestInv, FitInv
<1>5. FitInv'
  BY <1>0, <1>1, <1>3, <1>4, FitFrame DEF HonestInv
<1>6. Conversation' /\ ReplyHonoursRequest'
  BY <1>0, <1>1, <1>2, ReadIsSilent DEF HonestInv
<1> QED
  BY <1>0, <1>5, <1>6, CommandStays DEF HonestInv

LEMMA TakeAnswerIsHonest == SurfaceInv /\ HonestInv /\ TakeAnswer => HonestInv'
<1> SUFFICES ASSUME SurfaceInv, HonestInv, TakeAnswer PROVE HonestInv'
  OBVIOUS
<1>0. unit' = unit /\ session' = session /\ manager' = manager /\ command' = command
  BY DEF TakeAnswer
<1>1. /\ Len(answers) >= 1 /\ Head(answers) = answers[1]
      /\ Len(answers') = Len(answers) - 1 /\ IsList(answers')
      /\ \A i \in 1 .. Len(answers') : answers'[i] = answers[i + 1]
  BY Taken DEF TakeAnswer, SurfaceInv, AnswerShape
<1>2. DOMAIN answers = 1 .. Len(answers) /\ DOMAIN answers' = 1 .. Len(answers') /\ Len(answers) \in Nat /\ Len(answers') \in Nat
  BY <1>1 DEF SurfaceInv, AnswerShape, IsList
<1>3. 1 \in DOMAIN answers /\ \A i \in DOMAIN answers' : i + 1 \in DOMAIN answers /\ i + 1 # 1 /\ answers'[i] = answers[i + 1]
  BY <1>1, <1>2
<1>4. answers[1].kind \in Kinds
  <2>1. AnswerShape
    BY DEF SurfaceInv
  <2> QED
    BY <1>3, <2>1 DEF AnswerShape
<1>5. \/ answers[1].kind = "read" /\ Show(answers[1].surface) /\ request' = request
      \/ answers[1].kind = "applied" /\ Show(answers[1].surface) /\ request' = NoRequest
      \/ answers[1].kind = "refused" /\ panel' = panel /\ request' = NoRequest
  <2>1. CASE Head(answers).kind = "read"
    BY <1>1, <2>1 DEF TakeAnswer
  <2>2. CASE Head(answers).kind = "applied"
    BY <1>1, <2>2 DEF TakeAnswer
  <2>3. CASE Head(answers).kind = "refused"
    BY <1>1, <2>3 DEF TakeAnswer
  <2> QED
    BY <1>1, <1>4, <2>1, <2>2, <2>3 DEF Kinds
<1>6. FitInv'
  <2>0. FitInv
    BY DEF HonestInv
  <2>1. \A i \in DOMAIN answers' : answers'[i].kind # "refused" => Frank(answers'[i].surface)
    BY <1>3, <2>0 DEF FitInv
  <2>2. /\ panel'.surface # None => Frank(panel'.surface)
        /\ panel'.edits # None => Fits(panel'.edits.operation, panel'.edits.intents)
    BY <1>3, <1>5, <2>0 DEF FitInv, Show
  <2>3. request' # NoRequest => Fits(request'.operation, request'.intents)
    BY <1>5, <2>0 DEF FitInv
  <2>4. LedgerFits(session') /\ Overlays(manager'.overlay)
    BY <1>0, <2>0 DEF FitInv
  <2> QED
    BY <1>0, <2>1, <2>2, <2>3, <2>4, FitNext
<1>7. Asked' <=> Asked
  BY <1>0 DEF Asked
<1>8. Conversation /\ ReplyHonoursRequest /\ CommandKeeps
  BY DEF HonestInv
<1>9. CASE answers[1].kind = "read"
  <2>1. request' = request
    BY <1>5, <1>9
  <2>2. \A i \in DOMAIN answers' : answers'[i].kind # "read" => request.stage = "admitted" /\ ~Asked
    BY <1>3, <1>8 DEF Conversation
  <2>3. \A i, j \in DOMAIN answers' : answers'[i].kind # "read" /\ answers'[j].kind # "read" => i = j
    <3> SUFFICES ASSUME NEW i \in DOMAIN answers', NEW j \in DOMAIN answers', answers'[i].kind # "read", answers'[j].kind # "read"
                 PROVE  i = j
      OBVIOUS
    <3>1. i + 1 = j + 1
      BY <1>3, <1>8 DEF Conversation
    <3> QED
      BY <1>2, <3>1
  <2>4. Conversation'
    BY <1>7, <1>8, <2>1, <2>2, <2>3 DEF Conversation
  <2>5. ReplyHonoursRequest'
    BY <1>3, <1>8, <2>1 DEF ReplyHonoursRequest
  <2> QED
    BY <1>0, <1>6, <1>8, <2>1, <2>4, <2>5, CommandStays DEF HonestInv
<1>10. CASE answers[1].kind # "read"
  <2>1. ~Asked /\ \A i \in DOMAIN answers' : answers'[i].kind = "read"
    <3>1. ~Asked /\ \A i \in DOMAIN answers : answers[i].kind # "read" => i = 1
      BY <1>3, <1>8, <1>10 DEF Conversation
    <3> QED
      BY <1>3, <3>1
  <2>2. Conversation'
    BY <1>7, <2>1 DEF Conversation
  <2>3. ReplyHonoursRequest'
    BY <2>1 DEF ReplyHonoursRequest
  <2> QED
    BY <1>0, <1>6, <1>8, <2>1, <2>2, <2>3, CommandStays DEF HonestInv
<1> QED
  BY <1>9, <1>10

-----------------------------------------------------------------------------
(* Commands on their way *)

SameAsked == request' = request \/ (request # NoRequest /\ request'.operation = request.operation /\ request'.intents = request.intents)

\* A command is over: the panel is answered if it was the panel's.
LEMMA AnsweredIsHonest ==
    ASSUME SurfaceInv, SessionShape', HonestInv, unit' = unit, panel' = panel, SameAsked, command' = NoCommand,
           LedgerFits(session'), Overlays(manager'.overlay),
           \/ answers' = answers /\ request' = request
           \/ /\ request'.stage = "admitted" /\ (\A i \in DOMAIN answers : answers[i].kind = "read")
              /\ \/ answers' = Append(answers, [kind |-> "refused"])
                 \/ /\ answers' = Append(answers, [kind |-> "applied", surface |-> Surface'])
                    /\ Honours(Surface'.parameters[request'.operation], request'.intents)
    PROVE  HonestInv'
<1> DEFINE a == [kind |-> "applied", surface |-> Surface']
           r == [kind |-> "refused"]
<1>1. a.kind = "applied" /\ a.surface = Surface' /\ r.kind = "refused"
  OBVIOUS
<1>2. \/ answers' = answers /\ request' = request
      \/ /\ request'.stage = "admitted" /\ (\A i \in DOMAIN answers : answers[i].kind = "read")
         /\ \/ answers' = Append(answers, r)
            \/ answers' = Append(answers, a) /\ Honours(Surface'.parameters[request'.operation], request'.intents)
  OBVIOUS
<1> HIDE DEF a, r
<1>3. Tells
  BY <1>1, <1>2 DEF Tells, Kinds
<1>4. AnswerShape /\ FitInv /\ Conversation /\ ReplyHonoursRequest /\ unit \in DOMAIN Units
  BY DEF SurfaceInv, HonestInv
<1>5. FitInv'
  BY <1>3, <1>4, FitFrame DEF SameAsked
<1>6. ~Asked' /\ CommandKeeps'
  BY DEF Asked, CommandKeeps
<1>7. Conversation' /\ ReplyHonoursRequest'
  <2>1. CASE answers' = answers /\ request' = request
    BY <1>4, <1>6, <2>1, Silent
  <2>2. CASE request'.stage = "admitted" /\ (\A i \in DOMAIN answers : answers[i].kind = "read") /\ answers' = Append(answers, r)
    BY <1>1, <1>4, <1>6, <2>2, Concluded
  <2>3. CASE /\ request'.stage = "admitted" /\ (\A i \in DOMAIN answers : answers[i].kind = "read")
             /\ answers' = Append(answers, a) /\ Honours(Surface'.parameters[request'.operation], request'.intents)
    BY <1>1, <1>4, <1>6, <2>3, Concluded
  <2> QED
    BY <1>2, <2>1, <2>2, <2>3
<1>8. (unit \in DOMAIN Units)'
  BY <1>4
<1> QED
  BY <1>5, <1>6, <1>7, <1>8 DEF HonestInv

\* What a driver keeps of a source operation that is on its way.
Awaits(s, op, intents, target) ==
    IsFeature(target) =>
        /\ driver = "tinysa" => s.pending.feature = target /\ s.pending.intents = intents
        /\ driver = "signallab" =>
              /\ s.pending.action = target.action
              /\ s.pending.intents = IF op = Lab!WaveformOp
                                     THEN [n \in {"width"} |-> Lab!WaveformIntent(target.value)] ELSE intents

\* What a driver notes of a source operation before the device is asked fits, and is what was asked.
LEMMA StagedFits ==
    ASSUME SessionShape, LedgerFits(session), NEW op \in Operations, NEW intents, DOMAIN intents = Names(op),
           Fits(op, intents), NEW target \in Resolved(op, intents)
    PROVE  LedgerFits(Staged(op, intents, target)) /\ Awaits(Staged(op, intents, target), op, intents, target)
<1> DEFINE s == Staged(op, intents, target)
<1>1. CASE driver = "tinysa" /\ IsFeature(target)
  <2>1. s = [session EXCEPT !.pending = [operation |-> op, feature |-> target, intents |-> intents]]
    BY <1>1 DEF Staged, Stage
  <2>2. /\ s.pending.feature = target /\ s.pending.intents = intents
        /\ s.sourceIntents = session.sourceIntents /\ s.outputIntent = session.outputIntent
    BY <1>1, <2>1 DEF SessionShape
  <2>3. Keeps(target, op, intents)
    BY <1>1, ResolutionKeeps
  <2>4. \/ target.action = "configure" /\ op = SourceOp
        \/ target.action = "set-output" /\ op = OutputOp
    BY <1>1, <2>3 DEF Keeps
  <2>5. op = OutputOp => Fit(OutputOp, intents["output"])
    BY <1>1 DEF Fits, Names, SweepOp, PowerOp, SourceOp, OutputOp
  <2> HIDE DEF s
  <2>6. LedgerFits(s)
    BY <1>1, <2>2, <2>4, <2>5 DEF LedgerFits
  <2> QED
    BY <1>1, <2>2, <2>6 DEF s, Awaits
<1>2. CASE driver = "signallab" /\ IsFeature(target)
  <2>1. s = Lab!LabStage(session, op, intents, target)
    BY <1>2 DEF Staged
  <2>2. /\ s.pending.action = target.action /\ s.intents = session.intents
        /\ s.pending.intents = IF op = Lab!WaveformOp THEN [n \in {"width"} |-> Lab!WaveformIntent(target.value)] ELSE intents
    BY <1>2, <2>1 DEF Lab!LabStage, SessionShape
  <2>3. IsIntent(Lab!WaveformIntent(target.value))
    BY ManualIs, AutoFits DEF Lab!WaveformIntent, Lab!Manual, Lab!AutoIntent, Manual, AutoIntent, IsIntent
  <2>4. \A n \in DOMAIN intents : IsIntent(intents[n])
    BY DEF Fits, Fit
  <2>5. \A n \in DOMAIN s.pending.intents : IsIntent(s.pending.intents[n])
    BY <2>2, <2>3, <2>4
  <2> HIDE DEF s
  <2>6. LedgerFits(s)
    BY <1>2, <2>2, <2>5 DEF LedgerFits
  <2> QED
    BY <1>2, <2>2, <2>6 DEF s, Awaits
<1>3. CASE driver = "neptune" \/ ~IsFeature(target)
  BY <1>3 DEF Staged, Awaits, SessionShape
<1> QED
  BY <1>1, <1>2, <1>3 DEF SessionShape

\* The ledgers alone matter.
LEMMA SameLedger ==
    ASSUME NEW s, NEW t, LedgerFits(s),
           driver = "tinysa" => t.sourceIntents = s.sourceIntents /\ t.outputIntent = s.outputIntent /\ t.pending = s.pending,
           driver = "signallab" => t.intents = s.intents /\ t.pending = s.pending
    PROVE  LedgerFits(t)
BY DEF LedgerFits

\* Handing the target to the device leaves the noted intents alone.
LEMMA BegunFits ==
    ASSUME SessionShape, NEW s, Like(s), LedgerFits(s), NEW target, driver # "signallab"
    PROVE  /\ LedgerFits(Begun(s, target))
           /\ driver = "tinysa" => Begun(s, target).pending = s.pending
<1>1. CASE driver = "tinysa"
  <2>1. \/ Begun(s, target) = s
        \/ Begun(s, target) = ClearConfiguration(s)
    BY <1>1 DEF Begun
  <2>2. DOMAIN s = {"configuration", "source", "sourceIntents", "output", "outputIntent", "pending", "epoch"}
    BY <1>1 DEF Like, SessionShape
  <2> DEFINE t == Begun(s, target)
  <2>3. t.sourceIntents = s.sourceIntents /\ t.outputIntent = s.outputIntent /\ t.pending = s.pending
    BY <2>1, <2>2 DEF ClearConfiguration, Bump
  <2> HIDE DEF t
  <2>4. LedgerFits(t)
    BY <1>1, <2>3, SameLedger
  <2> QED
    BY <2>3, <2>4 DEF t
<1>2. CASE driver = "neptune"
  BY <1>2 DEF LedgerFits
<1> QED
  BY <1>1, <1>2 DEF SessionShape

\* What the panel's command is, seen from the request.
IsAsked(s, c) ==
    /\ request'.stage = "admitted" /\ (\A i \in DOMAIN answers : answers[i].kind = "read")
    /\ Keeps(c.target, request'.operation, request'.intents)
    /\ driver = "tinysa" /\ IsFeature(c.target) => s.pending.feature = c.target /\ s.pending.intents = request'.intents
    /\ ~IsFeature(c.target) => c.operation = request'.operation /\ c.intents = request'.intents

\* TinySA or Neptune hands the command to its device.
LEMMA SentIsHonest ==
    ASSUME SurfaceInv, SurfaceInv', HonestInv, NEW s, Like(s), LedgerFits(s), NEW c, command' = c, c.stage = "device",
           session' = Begun(s, c.target), manager' = Dispatched(c.target), answers' = answers, driver # "signallab",
           unit' = unit, panel' = panel, SameAsked, command = NoCommand,
           \/ c.caller = "panel" /\ IsAsked(s, c)
           \/ c.caller = "other" /\ c.operation = None /\ request' = request
    PROVE  HonestInv'
<1>1. SessionShape /\ ManagerShape /\ AnswerShape /\ SessionShape' /\ CommandShape'
  BY DEF SurfaceInv
<1>2. FitInv /\ Conversation /\ ReplyHonoursRequest /\ unit \in DOMAIN Units
  BY DEF HonestInv
<1>3. /\ LedgerFits(session') /\ (driver = "tinysa" => session'.pending = s.pending)
      /\ Overlays(manager'.overlay)
  BY <1>1, <1>2, BegunFits, DispatchedIs DEF FitInv, Overlays
<1>4. FitInv'
  BY <1>1, <1>2, <1>3, FitFrame DEF SameAsked, Tells
<1>5. (unit \in DOMAIN Units)'
  BY <1>2
<1>6. CASE c.caller = "other" /\ c.operation = None /\ request' = request
  <2>1. ~Asked'
    BY <1>6 DEF Asked
  <2>2. CommandKeeps'
    BY <1>6, <2>1 DEF CommandKeeps
  <2>3. Conversation' /\ ReplyHonoursRequest'
    BY <1>2, <1>6, <2>1, Silent
  <2> QED
    BY <1>4, <1>5, <2>2, <2>3 DEF HonestInv
<1>7. CASE c.caller = "panel" /\ IsAsked(s, c)
  <2>1. request'.stage = "admitted" /\ (\A i \in DOMAIN answers : answers[i].kind = "read")
    BY <1>7 DEF IsAsked
  <2>2. Conversation' /\ ReplyHonoursRequest'
    BY <2>1 DEF Conversation, ReplyHonoursRequest
  <2>3. Remembers'
    <3>1. IsFeature(c.target) => driver = "tinysa"
      <4>1. c # NoCommand
        BY DEF NoCommand
      <4>2. IsFeature(c.target) => driver' = "tinysa"
        BY <1>1, <4>1 DEF CommandShape, IsFeature
      <4> QED
        BY <4>2 DEF driver
    <3> QED
      BY <1>3, <1>7, <3>1 DEF Remembers, IsAsked, IsFeature
  <2>4. Keeps(command.target, request.operation, request.intents)'
    <3>1. ASSUME NEW t, NEW op, NEW i, t = command'.target, op = request'.operation, i = request'.intents, Keeps(t, op, i)
          PROVE  Keeps(command.target, request.operation, request.intents)'
      BY <3>1, KeepsStays DEF Keeps
    <3>2. Keeps(command'.target, request'.operation, request'.intents)
      BY <1>7 DEF IsAsked
    <3> QED
      BY <3>1, <3>2
  <2>5. CommandKeeps'
    BY <1>7, <2>3, <2>4 DEF CommandKeeps, IsAsked, IsFeature
  <2> QED
    BY <1>4, <1>5, <2>2, <2>5 DEF HonestInv
<1> QED
  BY <1>6, <1>7

-----------------------------------------------------------------------------
(* The session after an answer of the device *)

\* What is committed is what was remembered, or what another caller said.
LEMMA CommitFits ==
    ASSUME driver = "tinysa", SessionShape, LedgerFits(session), NEW target, target.action \in {"configure", "set-output"}
    PROVE  LET s == FeatureAccepted(session, target)
           IN  /\ LedgerFits(s)
               /\ target.action = "configure" => s.source = GeneratorConfiguration(target)
               /\ target.action = "set-output" => /\ s.source = session.source /\ s.sourceIntents = session.sourceIntents
                                                  /\ s.output = target.enabled
               /\ session.pending.feature = target =>
                     /\ target.action = "configure" => s.sourceIntents = session.pending.intents
                     /\ target.action = "set-output" => s.outputIntent = session.pending.intents["output"]
<1> DEFINE ours == session.pending.feature = target
           fed == IF ours THEN [session EXCEPT !.pending = NoFeature] ELSE session
           s == CommitSource(session, target)
           t == FeatureAccepted(session, target)
<1>1. DOMAIN session = {"configuration", "source", "sourceIntents", "output", "outputIntent", "pending", "epoch"}
  BY DEF SessionShape
<1>2. /\ DOMAIN fed = DOMAIN session /\ fed.pending \in {NoFeature, session.pending} /\ fed.source = session.source
      /\ fed.sourceIntents = session.sourceIntents /\ fed.output = session.output /\ fed.outputIntent = session.outputIntent
  BY <1>1
<1>3. NoFeature.feature.action = "none"
  BY DEF NoFeature
<1>4. /\ Fits(SourceOp, session.sourceIntents) /\ Fit(OutputOp, session.outputIntent)
      /\ session.pending.feature.action = "configure" => Fits(SourceOp, session.pending.intents)
      /\ session.pending.feature.action = "set-output" => Fit(OutputOp, session.pending.intents["output"])
  BY DEF LedgerFits
<1>5. ASSUME NEW u, u.pending \in {NoFeature, session.pending}, Fits(SourceOp, u.sourceIntents), Fit(OutputOp, u.outputIntent)
      PROVE  LedgerFits(u)
  BY <1>3, <1>4, <1>5 DEF LedgerFits
<1>6. t = [s EXCEPT !.epoch = @ + 1]
  BY DEF FeatureAccepted, Bump
<1>7. CASE target.action = "configure"
  <2> DEFINE intents == IF ours THEN session.pending.intents ELSE IntentsOf(GeneratorConfiguration(target))
  <2>1. s = [fed EXCEPT !.source = GeneratorConfiguration(target), !.sourceIntents = intents]
    BY <1>7 DEF CommitSource
  <2>2. Fits(SourceOp, intents)
    <3>1. CASE ours
      BY <1>4, <1>7, <3>1
    <3>2. CASE ~ours
      BY <3>2, ManualFits DEF IntentsOf, Fits, SourceOp, OutputOp, SweepOp, PowerOp
    <3> QED
      BY <3>1, <3>2
  <2> HIDE DEF fed, s, t, intents
  <2>3. /\ t.pending = fed.pending /\ t.source = GeneratorConfiguration(target) /\ t.sourceIntents = intents
        /\ t.outputIntent = fed.outputIntent
    BY <1>1, <1>2, <1>6, <2>1
  <2>4. LedgerFits(t)
    BY <1>2, <1>4, <1>5, <2>2, <2>3
  <2> QED
    BY <1>7, <2>3, <2>4 DEF t, intents
<1>8. CASE target.action = "set-output"
  <2> DEFINE intent == CASE ours -> session.pending.intents["output"]
                         [] ~ours /\ target.enabled -> Manual(TRUE)
                         [] OTHER -> AutoIntent
  <2>1. s = [fed EXCEPT !.output = target.enabled, !.outputIntent = intent]
    BY <1>8 DEF CommitSource
  <2>2. ours => intent = session.pending.intents["output"]
    OBVIOUS
  <2>3. Fit(OutputOp, intent)
    <3>1. CASE ours
      BY <1>4, <1>8, <2>2, <3>1
    <3>2. CASE ~ours
      <4>1. intent = Manual(TRUE) \/ intent = AutoIntent
        BY <3>2
      <4>2. Fit(OutputOp, Manual(TRUE))
        BY ManualIs DEF Fit, SweepOp, PowerOp, OutputOp
      <4> QED
        BY <4>1, <4>2, AutoFits
    <3> QED
      BY <3>1, <3>2
  <2> HIDE DEF fed, s, t, intent
  <2>4. /\ t.pending = fed.pending /\ t.source = session.source /\ t.sourceIntents = session.sourceIntents
        /\ t.outputIntent = intent /\ t.output = target.enabled
    BY <1>1, <1>2, <1>6, <2>1
  <2>5. LedgerFits(t)
    BY <1>2, <1>4, <1>5, <2>3, <2>4
  <2> QED
    BY <1>8, <2>2, <2>4, <2>5 DEF t
<1> QED
  BY <1>7, <1>8

\* A refusal of the device leaves fitting intents behind.
LEMMA RefusalFits ==
    ASSUME driver = "tinysa", SessionShape, LedgerFits(session), NEW target
    PROVE  LedgerFits(FeatureRefused(session, target))
<1> DEFINE t == FeatureRefused(session, target)
<1>1. /\ t.pending \in {NoFeature, session.pending} /\ t.sourceIntents = session.sourceIntents
      /\ t.outputIntent = session.outputIntent
  BY DEF FeatureRefused, SessionShape
<1> HIDE DEF t
<1>2. NoFeature.feature.action = "none"
  BY DEF NoFeature
<1>3. LedgerFits(t)
  BY <1>1, <1>2 DEF LedgerFits
<1> QED
  BY <1>3 DEF t

\* A configuration bound touches no ledger.
LEMMA BoundFits ==
    ASSUME SessionShape, NEW s, Like(s), LedgerFits(s), NEW target
    PROVE  /\ LedgerFits(Bound(s, target)) /\ Bound(s, target).configuration = target
<1> DEFINE t == Bound(s, target)
<1>1. CASE driver = "tinysa"
  <2>1. t = ConfigurationAccepted(s, target)
    BY <1>1 DEF Bound
  <2>2. DOMAIN s = {"configuration", "source", "sourceIntents", "output", "outputIntent", "pending", "epoch"}
    BY <1>1 DEF Like, SessionShape
  <2>3. /\ t.sourceIntents = s.sourceIntents /\ t.outputIntent = s.outputIntent /\ t.pending = s.pending
        /\ t.configuration = target
    BY <2>1, <2>2 DEF ConfigurationAccepted, Bump
  <2> HIDE DEF t
  <2>4. LedgerFits(t)
    BY <1>1, <2>3, SameLedger
  <2> QED
    BY <2>3, <2>4 DEF t
<1>2. CASE driver # "tinysa"
  <2>1. t = [s EXCEPT !.configuration = target, !.revision = manager.revision + 1]
    BY <1>2 DEF Bound
  <2>2. DOMAIN s = DOMAIN session /\ {"configuration", "revision"} \subseteq DOMAIN session
    BY <1>2 DEF Like, SessionShape
  <2>3. t.configuration = target /\ (driver = "signallab" => t.intents = s.intents /\ t.pending = s.pending)
    BY <1>2, <2>1, <2>2 DEF SessionShape
  <2> HIDE DEF t
  <2>4. LedgerFits(t)
    BY <1>2, <2>3, SameLedger
  <2> QED
    BY <2>3, <2>4 DEF t
<1> QED
  BY <1>1, <1>2

\* The ledger of a source operation of SignalLab.
LEMMA LabLedgerFits ==
    ASSUME driver = "signallab", SessionShape, NEW s, Like(s), LedgerFits(s), NEW target, target.action \in LabActions
    PROVE  LET t == Lab!LabFeatureAccepted(s, target)
           IN  /\ LedgerFits(t) /\ LedgerFits(Lab!LabFeatureRefused(s, target))
               /\ t.status = Lab!Served(session.status, target) /\ t.intents = Lab!Ledger(s, target)
               /\ DOMAIN t = DOMAIN session
<1> DEFINE t == Lab!LabFeatureAccepted(s, target)
           r == Lab!LabFeatureRefused(s, target)
<1>1. DOMAIN s = {"status", "configuration", "revision", "intents", "pending"} /\ s.status = session.status
  BY DEF Like, SessionShape
<1>2. /\ t.pending = Lab!NoLedger /\ t.status = Lab!Served(s.status, target) /\ t.intents = Lab!Ledger(s, target)
      /\ DOMAIN t = DOMAIN s
  BY <1>1 DEF Lab!LabFeatureAccepted
<1>3. r.pending \in {Lab!NoLedger, s.pending} /\ r.intents = s.intents
  BY <1>1 DEF Lab!LabFeatureRefused
<1>4. Lab!NoLedger.action \notin LabActions
  BY DEF Lab!NoLedger, LabActions
<1>5. \A v : IsIntent(Lab!Manual(v)) /\ IsIntent(Lab!WaveformIntent(v))
  BY ManualIs, AutoFits DEF Lab!WaveformIntent, Lab!Manual, Lab!AutoIntent, Manual, AutoIntent, IsIntent
<1>6. \A n \in DOMAIN Lab!Ledger(s, target) : IsIntent(Lab!Ledger(s, target)[n])
  <2>1. CASE s.pending.action = target.action
    BY <2>1 DEF Lab!Ledger, LedgerFits
  <2>2. CASE s.pending.action # target.action
    <3>1. Lab!Ledger(s, target) = [n \in {Lab!NameOf(target.action)} |->
              IF target.action = "configure-custom-waveform" THEN Lab!WaveformIntent(target.value) ELSE Lab!Manual(target.value)]
      BY <2>2 DEF Lab!Ledger
    <3> QED
      BY <1>5, <3>1
  <2> QED
    BY <2>1, <2>2
<1> HIDE DEF t, r
<1>7. LedgerFits(t)
  BY <1>2, <1>4, <1>6 DEF LedgerFits
<1>8. LedgerFits(r)
  BY <1>3, <1>4 DEF LedgerFits
<1> QED
  BY <1>1, <1>2, <1>7, <1>8 DEF t, r, Like

-----------------------------------------------------------------------------
(* The surface after a command *)

\* A setting is a domain, what was requested and what is in effect.
Settings ==
    /\ DOMAIN DriverSurface = {"revision", "parameters"}
    /\ \A op \in DOMAIN DriverSurface.parameters : \A n \in DOMAIN DriverSurface.parameters[op] :
          DOMAIN DriverSurface.parameters[op][n] = {"domain", "requested", "effective"}

\* What a surface of settings looks like.
LEMMA SettingsAre == SessionShape => Settings
<1> SUFFICES ASSUME SessionShape PROVE Settings
  OBVIOUS
<1>1. DOMAIN DriverSurface = {"revision", "parameters"}
  BY DEF SessionShape, DriverSurface, TinySaSurface, Lab!SignalLabSurface, Neptune!NeptuneSurface
<1>2. ASSUME NEW op \in DOMAIN DriverSurface.parameters, NEW n \in DOMAIN DriverSurface.parameters[op]
      PROVE  DOMAIN DriverSurface.parameters[op][n] = {"domain", "requested", "effective"}
  <2>1. CASE driver = "tinysa"
    <3> USE DEF SweepOp, PowerOp, SourceOp, OutputOp
    <3>1. op \in TinySaOperations(caps) /\ DriverSurface.parameters[op] = TinySaParameters(caps, session, op)
      BY <1>2, <2>1 DEF DriverSurface, TinySaSurface
    <3>2. CASE op = SweepOp
      BY <1>2, <3>1, <3>2 DEF TinySaParameters, Joined, SweepParameters, TriggerParameters, Parameter
    <3>3. CASE op = PowerOp
      BY <1>2, <3>1, <3>3 DEF TinySaParameters, Joined, PowerParameters, TriggerParameters, Parameter
    <3>4. CASE op = SourceOp
      BY <1>2, <3>1, <3>4 DEF TinySaParameters, SourceParameters, Parameter
    <3>5. CASE op = OutputOp
      BY <1>2, <3>1, <3>5 DEF TinySaParameters, OutputParameters, Parameter
    <3> QED
      BY <3>1, <3>2, <3>3, <3>4, <3>5 DEF TinySaOperations
  <2>2. CASE driver = "neptune"
    BY <1>2, <2>2 DEF DriverSurface, Neptune!NeptuneSurface
  <2>3. CASE driver = "signallab"
    <3> USE DEF Lab!SpectrumOp, Lab!ObserveOp, Lab!CaptureIqOp, Lab!ProfileOp, Lab!ChannelOp, Lab!WaveformOp
    <3>1. op \in Lab!LabOperations(session) /\ DriverSurface.parameters[op] = Lab!LabParameters(caps, session, op)
      BY <1>2, <2>3 DEF DriverSurface, Lab!SignalLabSurface
    <3>2. CASE op = Lab!SpectrumOp
      BY <1>2, <3>1, <3>2 DEF Lab!LabParameters, Lab!LabAcquisition
    <3>3. CASE op = Lab!ObserveOp
      BY <1>2, <3>1, <3>3 DEF Lab!LabParameters, Lab!LabAcquisition
    <3>4. CASE op = Lab!CaptureIqOp
      BY <1>2, <3>1, <3>4 DEF Lab!LabParameters, Lab!LabAcquisition
    <3>5. CASE op = Lab!ProfileOp
      BY <1>2, <3>1, <3>5 DEF Lab!LabParameters, Lab!LabSource
    <3>6. CASE op = Lab!ChannelOp
      BY <1>2, <3>1, <3>6 DEF Lab!LabParameters, Lab!LabSource
    <3>7. CASE op = Lab!WaveformOp
      BY <1>2, <3>1, <3>7 DEF Lab!LabParameters, Lab!LabSource
    <3> QED
      BY <3>1, <3>2, <3>3, <3>4, <3>5, <3>6, <3>7 DEF Lab!LabOperations
  <2> QED
    BY <2>1, <2>2, <2>3 DEF SessionShape
<1> QED
  BY <1>1, <1>2 DEF Settings

\* The manager shows the intents of the configuration it admitted.
LEMMA OverlayHonours ==
    ASSUME SessionShape', NEW op, op # None, NEW intents, manager'.overlay = [operation |-> op, intents |-> intents],
           op \in DOMAIN DriverSurface'.parameters, Achieves(DriverSurface'.parameters[op], intents)
    PROVE  Honours(Surface'.parameters[op], intents)
<1> DEFINE before == DriverSurface'
           shown == Surface'
<1>1. /\ DOMAIN before = {"revision", "parameters"}
      /\ \A n \in DOMAIN before.parameters[op] : DOMAIN before.parameters[op][n] = {"domain", "requested", "effective"}
  <2>1. Settings'
    BY SettingsAre, PTL
  <2> QED
    BY <2>1 DEF Settings
<1>2. manager'.overlay # NoOverlay' /\ manager'.overlay.operation = op /\ manager'.overlay.intents = intents
  BY DEF NoOverlay
<1>3. shown = [before EXCEPT !.parameters[op] = [n \in DOMAIN @ |-> [@[n] EXCEPT !.requested = intents[n]]]]
  BY <1>2 DEF Surface
<1> HIDE DEF before, shown
<1>4. op \in DOMAIN before.parameters /\ Achieves(before.parameters[op], intents)
  BY DEF before
<1> DEFINE old == before.parameters[op]
           new == shown.parameters[op]
<1>5. new = [n \in DOMAIN old |-> [old[n] EXCEPT !.requested = intents[n]]]
  BY <1>1, <1>3, <1>4
<1>6. DOMAIN new = DOMAIN old /\ \A n \in DOMAIN old : new[n].requested = intents[n] /\ new[n].effective = old[n].effective
  BY <1>1, <1>5
<1>7. Achieves(old, intents)
  BY <1>4
<1> HIDE DEF old, new
<1>8. Inert(new) = Inert(old)
  BY <1>6 DEF Inert
<1>9. Honours(new, intents)
  BY <1>6, <1>7, <1>8 DEF Honours, Achieves
<1> QED
  BY <1>9 DEF new, shown

\* An operation without an overlay is shown as its driver has it.
LEMMA NotOverlaid ==
    ASSUME SessionShape', NEW op, manager'.overlay = NoOverlay \/ manager'.overlay.operation # op
    PROVE  Surface'.parameters[op] = DriverSurface'.parameters[op]
<1> DEFINE before == DriverSurface'
           shown == Surface'
           o == manager'.overlay
<1>1. DOMAIN before = {"revision", "parameters"}
  <2>1. Settings'
    BY SettingsAre, PTL
  <2> QED
    BY <2>1 DEF Settings
<1>2. shown = IF o = NoOverlay THEN before
              ELSE [before EXCEPT !.parameters[o.operation] = [n \in DOMAIN @ |-> [@[n] EXCEPT !.requested = o.intents[n]]]]
  BY DEF Surface, NoOverlay
<1>3. o = NoOverlay \/ o.operation # op
  OBVIOUS
<1> HIDE DEF before, shown, o
<1>4. CASE o = NoOverlay
  BY <1>2, <1>4 DEF before, shown
<1>5. CASE o # NoOverlay /\ o.operation # op
  <2>1. shown.parameters = [before.parameters EXCEPT ![o.operation] = [n \in DOMAIN @ |-> [@[n] EXCEPT !.requested = o.intents[n]]]]
    BY <1>1, <1>2, <1>5
  <2>2. shown.parameters[op] = before.parameters[op]
    BY <1>5, <2>1
  <2> QED
    BY <2>2 DEF before, shown
<1> QED
  BY <1>3, <1>4, <1>5

\* A receiver operation shows the configuration, whatever else there is.
LEMMA ConfigurationShows ==
    ASSUME SessionShape', unit' = unit, driver \in {"tinysa", "neptune"}, NEW op \in Operations,
           driver = "tinysa" => op \in {SweepOp, PowerOp}
    PROVE  /\ op \in DOMAIN DriverSurface'.parameters
           /\ DriverSurface'.parameters[op] = ShownOf(session'.configuration, op)
<1>0. driver' = driver /\ caps' = caps
  BY DEF driver, caps
<1>1. CASE driver = "tinysa"
  <2> USE DEF SweepOp, PowerOp, SourceOp, OutputOp
  <2>1. DriverSurface' = TinySaSurface(caps, session')
    BY <1>0, <1>1 DEF DriverSurface
  <2>2. op \in DOMAIN DriverSurface'.parameters /\ DriverSurface'.parameters[op] = TinySaParameters(caps, session', op)
    BY <1>1, <2>1 DEF TinySaSurface, Operations
  <2>3. ASSUME NEW s, NEW t, s.configuration = t.configuration
        PROVE  TinySaParameters(caps, s, op) = TinySaParameters(caps, t, op)
    <3>1. \A k : CurrentReceiver(s, k) = CurrentReceiver(t, k)
      BY <2>3 DEF CurrentReceiver
    <3>2. CASE op = SweepOp
      <4>1. \A x : TinySaParameters(caps, x, op) =
                Joined(SweepParameters(caps, CurrentReceiver(x, "sweep")), TriggerParameters(caps, CurrentReceiver(x, "sweep")))
        BY <3>2 DEF TinySaParameters
      <4> QED
        BY <3>1, <4>1
    <3>3. CASE op = PowerOp
      <4>1. \A x : TinySaParameters(caps, x, op) =
                Joined(PowerParameters(caps, CurrentReceiver(x, "power")), TriggerParameters(caps, CurrentReceiver(x, "power")))
        BY <3>3 DEF TinySaParameters
      <4> QED
        BY <3>1, <4>1
    <3> QED
      BY <1>1, <3>2, <3>3
  <2>4. TinySaParameters(caps, session', op) = TinySaParameters(caps, [configuration |-> session'.configuration], op)
    BY <2>3
  <2> QED
    BY <1>1, <2>2, <2>4 DEF ShownOf
<1>2. CASE driver = "neptune"
  <2>1. DriverSurface' = Neptune!NeptuneSurface(caps, session')
    BY <1>0, <1>2 DEF DriverSurface
  <2>2. op = Neptune!CaptureOp
    BY <1>2 DEF Operations
  <2> QED
    BY <1>2, <2>1, <2>2 DEF ShownOf, Neptune!NeptuneSurface
<1> QED
  BY <1>1, <1>2

-----------------------------------------------------------------------------
(* What SignalLab does for the panel *)

\* A configuration is of the operation's kind; a source operation has one setting.
LabKeeps(target, op, intents) ==
    IF ~IsFeature(target)
    THEN /\ op \in {Lab!SpectrumOp, Lab!ObserveOp, Lab!CaptureIqOp} /\ target.kind = op
         /\ \A n \in Names(op) : IsManual(intents[n]) => target[n] = intents[n].value
    ELSE \/ /\ op = Lab!ProfileOp /\ target.action = "select-profile"
            /\ IsManual(intents["profile"]) => target.value = intents["profile"].value
         \/ /\ op = Lab!ChannelOp /\ target.action = "configure-channel"
            /\ IsManual(intents["channel"]) => target.value = intents["channel"].value
         \/ /\ op = Lab!WaveformOp /\ target.action = "configure-custom-waveform"
            /\ Lab!WaveformIntent(target.value) = intents["width"]

\* What SignalLab resolves does what was asked.
LEMMA LabResolutionKeeps ==
    ASSUME driver = "signallab", NEW op \in Operations, NEW intents, DOMAIN intents = Names(op), Fits(op, intents),
           NEW target \in Resolved(op, intents)
    PROVE  LabKeeps(target, op, intents)
<1> USE DEF Lab!SpectrumOp, Lab!ObserveOp, Lab!CaptureIqOp, Lab!ProfileOp, Lab!ChannelOp, Lab!WaveformOp
<1>0. target \in Lab!ResolvedLab(caps, session, op, intents)
  BY DEF Resolved
<1>1. \A i, a : Lab!IsManual(i) = IsManual(i) /\ Lab!Resolve(i, a) = IF IsManual(i) THEN i.value ELSE a
  BY DEF Lab!IsManual, IsManual, Lab!Resolve
<1>2. CASE op = Lab!SpectrumOp
  <2>1. /\ DOMAIN target = {"kind", "start", "stop"} /\ target.kind = "spectrum"
        /\ \A n \in {"start", "stop"} : IsManual(intents[n]) => target[n] = intents[n].value
    BY <1>0, <1>1, <1>2 DEF Lab!ResolvedLab
  <2>2. Names(op) = {"start", "stop"}
    BY <1>2 DEF Names
  <2> QED
    BY <1>2, <2>1, <2>2 DEF LabKeeps, IsFeature
<1>3. CASE op = Lab!ObserveOp
  <2>1. /\ DOMAIN target = {"kind", "center"} /\ target.kind = "power"
        /\ IsManual(intents["center"]) => target["center"] = intents["center"].value
    BY <1>0, <1>1, <1>3 DEF Lab!ResolvedLab
  <2>2. Names(op) = {"center"}
    BY <1>3 DEF Names
  <2> QED
    BY <1>3, <2>1, <2>2 DEF LabKeeps, IsFeature
<1>4. CASE op = Lab!CaptureIqOp
  <2>1. /\ DOMAIN target = {"kind", "rate", "bandwidth", "samples"} /\ target.kind = "capture"
        /\ \A n \in {"rate", "bandwidth", "samples"} : IsManual(intents[n]) => target[n] = intents[n].value
    BY <1>0, <1>1, <1>4 DEF Lab!ResolvedLab
  <2>2. Names(op) = {"rate", "bandwidth", "samples"}
    BY <1>4 DEF Names
  <2> QED
    BY <1>4, <2>1, <2>2 DEF LabKeeps, IsFeature
<1>5. CASE op = Lab!ProfileOp
  <2>1. /\ DOMAIN target = {"action", "value"} /\ target.action = "select-profile"
        /\ IsManual(intents["profile"]) => target.value = intents["profile"].value
    BY <1>0, <1>1, <1>5 DEF Lab!ResolvedLab
  <2> QED
    BY <1>5, <2>1 DEF LabKeeps, IsFeature
<1>6. CASE op = Lab!ChannelOp
  <2>1. /\ DOMAIN target = {"action", "value"} /\ target.action = "configure-channel"
        /\ IsManual(intents["channel"]) => target.value = intents["channel"].value
    BY <1>0, <1>1, <1>6 DEF Lab!ResolvedLab
  <2> QED
    BY <1>6, <2>1 DEF LabKeeps, IsFeature
<1>7. CASE op = Lab!WaveformOp
  <2>0. "width" \in DOMAIN intents
    BY <1>7 DEF Names
  <2>1. /\ DOMAIN target = {"action", "value"} /\ target.action = "configure-custom-waveform"
        /\ target.value = IF IsManual(intents["width"]) THEN intents["width"].value ELSE None
        /\ IsManual(intents["width"]) => intents["width"].value \in Lab!Offered(Lab!LabDomain(caps, op, "width"))
    BY <1>0, <1>1, <1>7, <2>0 DEF Lab!ResolvedLab
  <2>2. Lab!Offered(Lab!LabDomain(caps, op, "width")) = {"narrow", "wide"}
    BY <1>7 DEF Lab!LabDomain, Lab!OneOf, Lab!Offered, Lab!Widths
  <2>3. IsManual(intents["width"]) => target.value # None
    <3>1. "narrow" # None /\ "wide" # None
      BY UndefinedAssumption DEF Lab!Widths
    <3> QED
      BY <2>1, <2>2, <3>1
  <2>4. intents["width"] = AutoIntent \/ intents["width"] = Manual(intents["width"].value)
    BY <2>0 DEF Fits, Fit, IsIntent
  <2>5. Lab!WaveformIntent(target.value) = intents["width"]
    <3>1. CASE intents["width"] = AutoIntent
      <4>1. ~IsManual(intents["width"])
        BY <3>1 DEF AutoIntent, IsManual
      <4> QED
        BY <2>1, <3>1, <4>1 DEF Lab!WaveformIntent, Lab!AutoIntent, AutoIntent
    <3>2. CASE intents["width"] = Manual(intents["width"].value)
      <4>1. IsManual(intents["width"])
        BY <3>2, ManualIs
      <4> QED
        BY <2>1, <2>3, <3>2, <4>1 DEF Lab!WaveformIntent, Lab!Manual, Manual
    <3> QED
      BY <2>4, <3>1, <3>2
  <2> QED
    BY <1>7, <2>1, <2>5 DEF LabKeeps, IsFeature
<1> QED
  BY <1>2, <1>3, <1>4, <1>5, <1>6, <1>7 DEF Operations

\* A configuration SignalLab accepted is what its operation shows.
LEMMA LabShows ==
    ASSUME driver = "signallab", unit' = unit, NEW target, ~IsFeature(target), NEW op, NEW intents,
           LabKeeps(target, op, intents), session'.configuration = target
    PROVE  op \in DOMAIN DriverSurface'.parameters /\ Achieves(DriverSurface'.parameters[op], intents)
<1> USE DEF Lab!SpectrumOp, Lab!ObserveOp, Lab!CaptureIqOp, Lab!ProfileOp, Lab!ChannelOp, Lab!WaveformOp
<1>0. driver' = driver /\ caps' = caps
  BY DEF driver, caps
<1>1. DriverSurface' = Lab!SignalLabSurface(caps, session')
  BY <1>0 DEF DriverSurface
<1>2. /\ op \in {Lab!SpectrumOp, Lab!ObserveOp, Lab!CaptureIqOp} /\ target.kind = op
      /\ \A n \in Names(op) : IsManual(intents[n]) => target[n] = intents[n].value
  BY DEF LabKeeps
<1>3. op \in DOMAIN DriverSurface'.parameters /\ DriverSurface'.parameters[op] = Lab!LabParameters(caps, session', op)
  BY <1>1, <1>2 DEF Lab!SignalLabSurface, Lab!LabOperations
<1>4. Lab!CurrentLab(session', op) = target /\ target # Lab!NoConfiguration
  BY <1>2 DEF Lab!CurrentLab, Lab!NoConfiguration
<1> DEFINE p == Lab!LabParameters(caps, session', op)
<1>5. DOMAIN p = Names(op) /\ \A n \in Names(op) : p[n].effective = target[n]
  <2>1. CASE op = Lab!SpectrumOp
    BY <1>4, <2>1 DEF Lab!LabParameters, Lab!LabAcquisition, Names
  <2>2. CASE op = Lab!ObserveOp
    BY <1>4, <2>2 DEF Lab!LabParameters, Lab!LabAcquisition, Names
  <2>3. CASE op = Lab!CaptureIqOp
    BY <1>4, <2>3 DEF Lab!LabParameters, Lab!LabAcquisition, Names
  <2> QED
    BY <1>2, <2>1, <2>2, <2>3
<1> HIDE DEF p
<1>6. Achieves(p, intents)
  BY <1>2, <1>5 DEF Achieves
<1> QED
  BY <1>3, <1>6 DEF p

\* What the manager lays over the surface when a command is admitted.
LEMMA AdmittedOverlay ==
    ASSUME NEW m, DOMAIN m = {"configuration", "overlay", "rf", "fault", "revision", "catalog"}, NEW c
    PROVE  Admitted(m, c).overlay = IF c.operation = None THEN NoOverlay ELSE [operation |-> c.operation, intents |-> c.intents]
BY DEF Admitted

\* No receiver operation is the absent one.
LEMMA ReceiversAreNamed ==
    /\ SweepOp # None /\ PowerOp # None /\ Neptune!CaptureOp # None
    /\ Lab!SpectrumOp # None /\ Lab!ObserveOp # None /\ Lab!CaptureIqOp # None
BY UndefinedAssumption

\* The panel's request is being executed, or something of another caller.
IsFor(c, op, intents) ==
    \/ c.caller = "other" /\ c.operation = None /\ request' = request
    \/ /\ c.caller = "panel" /\ request'.stage = "admitted" /\ (\A i \in DOMAIN answers : answers[i].kind = "read")
       /\ request'.operation = op /\ request'.intents = intents
       /\ op \in Operations /\ DOMAIN intents = Names(op) /\ Fits(op, intents)
       /\ ~IsFeature(c.target) => c.operation = op /\ c.intents = intents

\* SignalLab configures a receiver, for the panel or for another caller.
LEMMA LabConfiguresIsHonest ==
    ASSUME SurfaceInv, SurfaceInv', HonestInv, driver = "signallab", NEW s, Like(s), LedgerFits(s),
           NEW c, ~IsFeature(c.target), LabConfigures(s, c), command' = command, command = NoCommand, unit' = unit,
           panel' = panel, SameAsked, NEW op, NEW intents, IsFor(c, op, intents),
           c.caller = "panel" => LabKeeps(c.target, op, intents)
    PROVE  HonestInv'
<1>0. SessionShape /\ ManagerShape /\ SessionShape' /\ driver' = driver
  BY DEF SurfaceInv, driver
<1> DEFINE accepted == Lab!LabAccepts(caps, s, c.target)
           m == Dispatched(c.target)
<1>1. /\ DOMAIN m = {"configuration", "overlay", "rf", "fault", "revision", "catalog"} /\ m.overlay = NoOverlay
  BY <1>0, DispatchedIs DEF ManagerShape, IsOutput
<1>2. /\ session' = IF accepted THEN Bound(s, c.target) ELSE s
      /\ manager' = IF accepted THEN Admitted(m, c) ELSE m
      /\ Answer(c.caller, accepted)
  BY DEF LabConfigures
<1>3. NoCommand = command' /\ (c.caller = "panel" \/ c.caller = "other")
  BY DEF IsFor
<1>4. c.caller = "panel" => op \in Operations /\ op # None /\ c.operation = op /\ c.intents = intents
                            /\ DOMAIN intents = Names(op) /\ Fits(op, intents)
  BY ReceiversAreNamed DEF IsFor, LabKeeps
<1>5. c.caller = "other" => answers' = answers /\ request' = request /\ c.operation = None
  BY <1>2 DEF IsFor, Answer
<1> HIDE DEF m, accepted
<1>6. CASE ~accepted
  <2>1. session' = s /\ manager' = m
    BY <1>2, <1>6
  <2>2. LedgerFits(session') /\ Overlays(manager'.overlay)
    BY <1>1, <2>1 DEF Overlays
  <2>3. c.caller = "panel" => answers' = Append(answers, [kind |-> "refused"])
    BY <1>2, <1>6 DEF Answer
  <2>4. \/ answers' = answers /\ request' = request
        \/ /\ request'.stage = "admitted" /\ (\A i \in DOMAIN answers : answers[i].kind = "read")
           /\ answers' = Append(answers, [kind |-> "refused"])
    BY <1>3, <1>5, <2>3 DEF IsFor
  <2> QED
    BY <1>0, <1>3, <2>2, <2>4, AnsweredIsHonest
<1>7. CASE accepted
  <2>1. session' = Bound(s, c.target) /\ manager' = Admitted(m, c)
    BY <1>2, <1>7
  <2>2. LedgerFits(session') /\ session'.configuration = c.target
    BY <1>0, <2>1, BoundFits
  <2>3. manager'.overlay = IF c.operation = None THEN NoOverlay ELSE [operation |-> c.operation, intents |-> c.intents]
    BY <1>1, <2>1, AdmittedOverlay
  <2>4. CASE c.caller = "other"
    <3>1. Overlays(manager'.overlay)
      BY <1>5, <2>3, <2>4 DEF Overlays
    <3> QED
      BY <1>0, <1>3, <1>5, <2>2, <2>4, <3>1, AnsweredIsHonest
  <2>5. CASE c.caller = "panel"
    <3>1. manager'.overlay = [operation |-> op, intents |-> intents]
      BY <1>4, <2>3, <2>5
    <3>2. Overlays(manager'.overlay)
      BY <1>0, <1>4, <2>5, <3>1 DEF Overlays
    <3>3. op \in DOMAIN DriverSurface'.parameters /\ Achieves(DriverSurface'.parameters[op], intents)
      BY <2>2, <2>5, LabShows
    <3>4. Honours(Surface'.parameters[op], intents)
      BY <1>0, <1>4, <2>5, <3>1, <3>3, OverlayHonours
    <3>5. answers' = Append(answers, [kind |-> "applied", surface |-> Surface'])
      BY <1>2, <1>7, <2>5 DEF Answer
    <3>6. /\ request'.stage = "admitted" /\ (\A i \in DOMAIN answers : answers[i].kind = "read")
          /\ request'.operation = op /\ request'.intents = intents
      BY <2>5 DEF IsFor
    <3> QED
      BY <1>0, <1>3, <2>2, <3>2, <3>4, <3>5, <3>6, AnsweredIsHonest
  <2> QED
    BY <1>3, <2>4, <2>5
<1> QED
  BY <1>6, <1>7

\* A source operation SignalLab served is what its operation shows.
LEMMA LabServes ==
    ASSUME driver = "signallab", SessionShape, unit' = unit, NEW s, Like(s), LedgerFits(s), NEW target, IsFeature(target),
           TargetShape(target), NEW op \in Lab!LabOperations(session), NEW intents, DOMAIN intents = Names(op),
           LabKeeps(target, op, intents), s.pending.action = target.action,
           s.pending.intents = IF op = Lab!WaveformOp THEN [n \in {"width"} |-> Lab!WaveformIntent(target.value)] ELSE intents,
           session' = Lab!LabFeatureAccepted(s, target)
    PROVE  Honours(DriverSurface'.parameters[op], intents)
<1> USE DEF Lab!SpectrumOp, Lab!ObserveOp, Lab!CaptureIqOp, Lab!ProfileOp, Lab!ChannelOp, Lab!WaveformOp
<1>0. driver' = driver /\ caps' = caps
  BY DEF driver, caps
<1>1. DriverSurface' = Lab!SignalLabSurface(caps, session')
  BY <1>0 DEF DriverSurface
<1>2. target.action \in LabActions /\ (target.action = "select-profile" => target.value \in DOMAIN caps.profiles)
  BY DEF TargetShape
<1>3. session'.status = Lab!Served(session.status, target) /\ session'.intents = Lab!Ledger(s, target)
  BY <1>2, LabLedgerFits
<1>4. Lab!Ledger(s, target) = s.pending.intents
  BY DEF Lab!Ledger
<1> DEFINE next == Lab!Served(session.status, target)
<1>5. /\ target.action = "select-profile" => next.profile = target.value
      /\ target.action = "configure-channel" => next.channel = target.value
      /\ target.action = "configure-custom-waveform" => next.profile = session.status.profile /\ next.pinned = target.value
  <2>1. /\ DOMAIN session.status = {"profile", "channel", "pinned", "epoch"} /\ session.status.epoch \in Nat
        /\ session.status.profile \in DOMAIN caps.profiles
    BY DEF SessionShape
  <2>2. /\ target.action = "select-profile" => next.profile = target.value
        /\ target.action = "configure-channel" => next.channel = target.value
        /\ target.action = "configure-custom-waveform" => next.profile = session.status.profile
        /\ target.action = "configure-custom-waveform" => next.pinned = target.value
    BY <1>2, <2>1, SMTT(30) DEF Lab!Served, LabActions
  <2> QED
    BY <2>2
<1> HIDE DEF next
<1>6. op \in Lab!LabOperations(session') =>
          DriverSurface'.parameters[op] = Lab!LabParameters(caps, session', op)
  BY <1>1 DEF Lab!SignalLabSurface
<1> DEFINE p == Lab!LabParameters(caps, session', op)
<1>7. CASE op = Lab!ProfileOp
  <2>1. /\ target.action = "select-profile" /\ DOMAIN intents = {"profile"}
        /\ IsManual(intents["profile"]) => target.value = intents["profile"].value
    BY <1>7 DEF LabKeeps, Names
  <2>2. session'.intents = intents /\ session'.status.profile = target.value
    BY <1>3, <1>4, <1>5, <1>7, <2>1 DEF next
  <2>3. /\ DOMAIN p = {"profile"} /\ p["profile"].effective = session'.status.profile
        /\ p["profile"].requested = session'.intents["profile"]
    BY <1>7, <2>1, <2>2 DEF Lab!LabParameters, Lab!LabSource
  <2> HIDE DEF p
  <2>4. Honours(p, intents)
    BY <2>1, <2>2, <2>3 DEF Honours, Achieves
  <2> QED
    BY <1>6, <1>7, <2>4 DEF p, Lab!LabOperations
<1>8. CASE op = Lab!ChannelOp
  <2>1. /\ target.action = "configure-channel" /\ DOMAIN intents = {"channel"}
        /\ IsManual(intents["channel"]) => target.value = intents["channel"].value
    BY <1>8 DEF LabKeeps, Names
  <2>2. session'.intents = intents /\ session'.status.channel = target.value
    BY <1>3, <1>4, <1>5, <1>8, <2>1 DEF next
  <2>3. /\ DOMAIN p = {"channel"} /\ p["channel"].effective = session'.status.channel
        /\ p["channel"].requested = session'.intents["channel"]
    BY <1>8, <2>1, <2>2 DEF Lab!LabParameters, Lab!LabSource
  <2> HIDE DEF p
  <2>4. Honours(p, intents)
    BY <2>1, <2>2, <2>3 DEF Honours, Achieves
  <2> QED
    BY <1>6, <1>8, <2>4 DEF p, Lab!LabOperations
<1>9. CASE op = Lab!WaveformOp
  <2>1. /\ target.action = "configure-custom-waveform" /\ DOMAIN intents = {"width"}
        /\ Lab!WaveformIntent(target.value) = intents["width"]
    BY <1>9 DEF LabKeeps, Names
  <2>2. /\ DOMAIN session'.intents = {"width"} /\ session'.intents["width"] = intents["width"]
        /\ session'.status.pinned = target.value /\ session'.status.profile = session.status.profile
    BY <1>3, <1>4, <1>5, <1>9, <2>1 DEF next
  <2>3. /\ DOMAIN p = {"width"} /\ p["width"].effective = Lab!WidthOf(session'.status)
        /\ p["width"].requested = session'.intents["width"]
    BY <1>9, <2>1, <2>2 DEF Lab!LabParameters, Lab!LabSource
  <2>4. IsManual(intents["width"]) => Lab!WidthOf(session'.status) = intents["width"].value
    BY <2>1, <2>2 DEF Lab!WaveformIntent, Lab!AutoIntent, Lab!Manual, IsManual, Lab!WidthOf
  <2> HIDE DEF p
  <2>5. Honours(p, intents)
    BY <2>1, <2>2, <2>3, <2>4 DEF Honours, Achieves
  <2>6. op \in Lab!LabOperations(session')
    BY <1>9, <2>2 DEF Lab!LabOperations
  <2> QED
    BY <1>6, <2>5, <2>6 DEF p
<1> QED
  BY <1>7, <1>8, <1>9 DEF LabKeeps

\* SignalLab executes a feature or refuses it.
LEMMA LabFeatureIsHonest ==
    ASSUME SurfaceInv, SurfaceInv', HonestInv, driver = "signallab", NEW s, Like(s), LedgerFits(s),
           NEW c, IsFeature(c.target), TargetShape(c.target), LabExecutes(s, c) \/ LabRefuses(s, c),
           command' = command, command = NoCommand, unit' = unit, panel' = panel, SameAsked,
           NEW op, NEW intents, IsFor(c, op, intents),
           c.caller = "panel" =>
              /\ LabKeeps(c.target, op, intents) /\ op \in Lab!LabOperations(session)
              /\ s.pending.action = c.target.action
              /\ s.pending.intents = IF op = Lab!WaveformOp
                                     THEN [n \in {"width"} |-> Lab!WaveformIntent(c.target.value)] ELSE intents
    PROVE  HonestInv'
<1> DEFINE target == c.target
           next == Lab!LabFeatureAccepted(s, target)
           m == Dispatched(target)
           catalog == Lab!Catalog(caps, next.status)
           admitted == [m EXCEPT !.catalog = Lab!AdmittedCatalog(@, catalog, target)]
<1>0. SessionShape /\ ManagerShape /\ SessionShape' /\ driver' = driver /\ NoCommand = command'
  BY DEF SurfaceInv, driver
<1>1. target.action \in LabActions
  BY DEF TargetShape
<1>2. LedgerFits(next) /\ LedgerFits(Lab!LabFeatureRefused(s, target))
  BY <1>0, <1>1, LabLedgerFits
<1>3. ~IsOutput(target)
  BY <1>1 DEF IsOutput, LabActions
<1>4. DOMAIN m = {"configuration", "overlay", "rf", "fault", "revision", "catalog"} /\ m.overlay = NoOverlay
  BY <1>0, <1>3, DispatchedIs DEF ManagerShape
<1>5. admitted.overlay = NoOverlay
  BY <1>4
<1>6. Faulted(manager).overlay = NoOverlay
  BY <1>0 DEF Faulted, Invalidated, ManagerShape
<1>7. c.caller = "panel" \/ (c.caller = "other" /\ request' = request)
  BY DEF IsFor
<1>8. \/ session' = next /\ manager' = admitted /\ Answer(c.caller, TRUE)
      \/ session' \in {next, Lab!LabFeatureRefused(s, target)} /\ manager' = Faulted(manager) /\ Answer(c.caller, FALSE)
  <2>1. CASE LabRefuses(s, c)
    BY <2>1 DEF LabRefuses
  <2>2. CASE LabExecutes(s, c)
    <3> DEFINE accepted == Lab!CatalogIsAdmissible(manager.catalog, catalog, target)
    <3>1. /\ session' = next /\ manager' = (IF accepted THEN admitted ELSE Faulted(manager)) /\ Answer(c.caller, accepted)
      BY <2>2 DEF LabExecutes
    <3> HIDE DEF next, admitted, accepted
    <3>2. CASE accepted
      <4>1. Answer(c.caller, TRUE)
        BY <3>1, <3>2 DEF Answer
      <4> QED
        BY <3>1, <3>2, <4>1
    <3>3. CASE ~accepted
      <4>1. Answer(c.caller, FALSE)
        BY <3>1, <3>3 DEF Answer
      <4> QED
        BY <3>1, <3>3, <4>1
    <3> QED
      BY <3>2, <3>3
  <2> QED
    BY <2>1, <2>2
<1> HIDE DEF next, admitted, m
<1>9. LedgerFits(session') /\ manager'.overlay = NoOverlay /\ Overlays(manager'.overlay)
  BY <1>2, <1>5, <1>6, <1>8 DEF Overlays
<1>10. c.caller = "other" => answers' = answers
  BY <1>8 DEF Answer
<1>11. c.caller = "panel" => /\ request'.stage = "admitted" /\ (\A i \in DOMAIN answers : answers[i].kind = "read")
                             /\ request'.operation = op /\ request'.intents = intents /\ DOMAIN intents = Names(op)
  BY DEF IsFor
<1>12. CASE c.caller = "other" /\ request' = request
  BY <1>0, <1>9, <1>10, <1>12, AnsweredIsHonest
<1>13. CASE c.caller = "panel" /\ Answer(c.caller, FALSE)
  <2>1. answers' = Append(answers, [kind |-> "refused"])
    BY <1>13 DEF Answer
  <2> QED
    BY <1>0, <1>9, <1>11, <1>13, <2>1, AnsweredIsHonest
<1>14. CASE c.caller = "panel" /\ session' = next /\ Answer(c.caller, TRUE)
  <2>1. answers' = Append(answers, [kind |-> "applied", surface |-> Surface'])
    BY <1>14 DEF Answer
  <2>2. Honours(DriverSurface'.parameters[op], intents)
    BY <1>0, <1>11, <1>14, LabServes DEF next
  <2>3. Surface'.parameters[op] = DriverSurface'.parameters[op]
    BY <1>0, <1>9, NotOverlaid
  <2> QED
    BY <1>0, <1>9, <1>11, <1>14, <2>1, <2>2, <2>3, AnsweredIsHonest
<1> QED
  BY <1>7, <1>8, <1>12, <1>13, <1>14

\* A command is on its way, or SignalLab has executed it.
LEMMA DispatchIsHonest ==
    ASSUME SurfaceInv, SurfaceInv', HonestInv, NEW s, Like(s), LedgerFits(s),
           NEW c, IsCommand(c), Dispatch(s, c), command = NoCommand, unit' = unit, panel' = panel, SameAsked,
           NEW op, NEW intents, IsFor(c, op, intents),
           c.caller = "panel" =>
              /\ driver # "signallab" => Keeps(c.target, op, intents)
              /\ driver = "tinysa" /\ IsFeature(c.target) => s.pending.feature = c.target /\ s.pending.intents = intents
              /\ driver = "signallab" => LabKeeps(c.target, op, intents) /\ op \in Lab!LabOperations(session)
              /\ driver = "signallab" /\ IsFeature(c.target) =>
                    /\ s.pending.action = c.target.action
                    /\ s.pending.intents = IF op = Lab!WaveformOp
                                           THEN [n \in {"width"} |-> Lab!WaveformIntent(c.target.value)] ELSE intents
    PROVE  HonestInv'
<1>1. TargetShape(c.target) /\ c.stage = "device"
  BY DEF IsCommand
<1>2. CASE driver = "signallab" /\ ~IsFeature(c.target)
  <2>1. LabConfigures(s, c) /\ command' = command
    BY <1>2 DEF Dispatch
  <2> QED
    BY <1>2, <2>1, LabConfiguresIsHonest
<1>3. CASE driver = "signallab" /\ IsFeature(c.target)
  <2>1. (LabExecutes(s, c) \/ LabRefuses(s, c)) /\ command' = command
    BY <1>3 DEF Dispatch
  <2> QED
    BY <1>1, <1>3, <2>1, LabFeatureIsHonest
<1>4. CASE driver # "signallab"
  <2>1. session' = Begun(s, c.target) /\ manager' = Dispatched(c.target) /\ command' = c /\ answers' = answers
    BY <1>4 DEF Dispatch
  <2>2. c.caller = "panel" => IsAsked(s, c)
    BY <1>4 DEF IsFor, IsAsked
  <2>3. c.caller = "panel" \/ (c.caller = "other" /\ c.operation = None /\ request' = request)
    BY DEF IsFor
  <2> QED
    BY <1>1, <1>4, <2>1, <2>2, <2>3, SentIsHonest
<1> QED
  BY <1>2, <1>3, <1>4

-----------------------------------------------------------------------------
(* The manager's steps *)

LEMMA LabOperationsShown ==
    ASSUME SessionShape, driver = "signallab"
    PROVE  DOMAIN Surface.parameters = Lab!LabOperations(session)
<1> DEFINE before == DriverSurface
           o == manager.overlay
<1>1. before = Lab!SignalLabSurface(caps, session)
  BY DEF DriverSurface
<1>2. DOMAIN before = {"revision", "parameters"} /\ DOMAIN before.parameters = Lab!LabOperations(session)
  BY <1>1 DEF Lab!SignalLabSurface
<1>3. Surface = IF o = NoOverlay THEN before
                ELSE [before EXCEPT !.parameters[o.operation] = [n \in DOMAIN @ |-> [@[n] EXCEPT !.requested = o.intents[n]]]]
  BY DEF Surface
<1> HIDE DEF before, o
<1>4. CASE o = NoOverlay
  BY <1>2, <1>3, <1>4
<1>5. CASE o # NoOverlay
  BY <1>2, <1>3, <1>5
<1> QED
  BY <1>4, <1>5

LEMMA AdmitIsHonest == SurfaceInv /\ HonestInv /\ Admit => HonestInv'
<1> SUFFICES ASSUME SurfaceInv, HonestInv, Admit PROVE HonestInv'
  OBVIOUS
<1>0. /\ command = NoCommand /\ unit' = unit /\ panel' = panel /\ request.stage = "sent"
      /\ SessionShape /\ PanelShape /\ AnswerShape /\ FitInv /\ Conversation
  BY DEF Admit, SurfaceInv, HonestInv
<1>1. SurfaceInv'
  BY AdmitKeepsInv
<1> DEFINE op == request.operation
           intents == request.intents
<1>2. /\ request # NoRequest /\ op \in Operations /\ DOMAIN intents = Names(op)
      /\ request'.stage = "admitted" /\ request'.operation = op /\ request'.intents = intents
  BY <1>0 DEF PanelShape, Admit, NoRequest
<1>3. SameAsked /\ Fits(op, intents) /\ (\A i \in DOMAIN answers : answers[i].kind = "read")
  BY <1>0, <1>2 DEF SameAsked, FitInv, Conversation
<1>4. LedgerFits(session) /\ Overlays(manager.overlay)
  BY <1>0 DEF FitInv
<1>5. ASSUME NEW s, LedgerFits(s), Refuse(s)
      PROVE  HonestInv'
  <2>1. /\ session' = s /\ manager' = manager /\ command' = NoCommand
        /\ answers' = Append(answers, [kind |-> "refused"])
    BY <1>0, <1>5 DEF Refuse, Answer
  <2>2. LedgerFits(session') /\ Overlays(manager'.overlay) /\ SessionShape'
    BY <1>1, <1>4, <1>5, <2>1 DEF SurfaceInv
  <2> QED
    BY <1>0, <1>2, <1>3, <2>1, <2>2, AnsweredIsHonest
<1> DEFINE stale == \/ manager.fault
                    \/ request.revision # Surface.revision
                    \/ op \notin DOMAIN Surface.parameters
           resolved == IF stale THEN {} ELSE Resolved(op, intents)
<1>6. CASE Refuse(session)
  BY <1>4, <1>5, <1>6
<1>7. ASSUME NEW target \in resolved,
             LET staged == Staged(op, intents, target)
             IN  IF MayDispatch(target)
                 THEN Dispatch(staged, Command(target, IF IsFeature(target) THEN None ELSE op, intents, "panel"))
                 ELSE Refuse(staged)
      PROVE  HonestInv'
  <2>1. target \in Resolved(op, intents) /\ op \in DOMAIN Surface.parameters
    BY <1>7
  <2>2. TargetShape(target)
    BY <1>0, <1>2, <2>1, Resolves
  <2> DEFINE operation == IF IsFeature(target) THEN None ELSE op
             c == Command(target, operation, intents, "panel")
             s == Staged(op, intents, target)
  <2>3. IsCommand(c) /\ c.target = target
    BY <2>2, CommandIs
  <2>4. c.caller = "panel" /\ c.operation = operation /\ c.intents = intents
    BY DEF Command
  <2>5. Like(s)
    BY <1>0, StagedIsLike
  <2>6. LedgerFits(s) /\ Awaits(s, op, intents, target)
    BY <1>0, <1>2, <1>3, <1>4, <2>1, StagedFits
  <2>7. MayDispatch(target) => Dispatch(s, c)
    BY <1>7
  <2>8. ~MayDispatch(target) => Refuse(s)
    BY <1>7
  <2>9. driver # "signallab" => Keeps(target, op, intents)
    BY <1>0, <1>2, <1>3, <2>1, ResolutionKeeps DEF SessionShape
  <2>10. driver = "signallab" => LabKeeps(target, op, intents) /\ op \in Lab!LabOperations(session)
    BY <1>0, <1>2, <1>3, <2>1, LabResolutionKeeps, LabOperationsShown
  <2>11. ~IsFeature(target) => operation = op
    OBVIOUS
  <2> HIDE DEF c, s, operation, op, intents
  <2>12. IsFor(c, op, intents)
    BY <1>2, <1>3, <2>3, <2>4, <2>11 DEF IsFor
  <2>13. CASE MayDispatch(target)
    BY <1>0, <1>1, <1>3, <2>3, <2>5, <2>6, <2>7, <2>9, <2>10, <2>12, <2>13, DispatchIsHonest DEF Awaits
  <2>14. CASE ~MayDispatch(target)
    BY <1>5, <2>6, <2>8, <2>14
  <2> QED
    BY <2>13, <2>14
<1> QED
  BY <1>6, <1>7 DEF Admit

LEMMA OtherIsHonest == SurfaceInv /\ HonestInv /\ Other => HonestInv'
<1> SUFFICES ASSUME SurfaceInv, HonestInv, Other PROVE HonestInv'
  OBVIOUS
<1>0. command = NoCommand /\ unit' = unit /\ panel' = panel /\ request' = request /\ SessionShape
  BY DEF Other, SurfaceInv
<1>1. SurfaceInv'
  BY OtherKeepsInv
<1>2. PICK target \in OtherTargets : Dispatch(session, Command(target, None, None, "other"))
  BY DEF Other
<1>3. TargetShape(target)
  BY <1>0, <1>2, OthersAreShaped DEF SurfaceInv
<1> DEFINE c == Command(target, None, None, "other")
<1>4. IsCommand(c) /\ c.target = target
  BY <1>3, CommandIs
<1>5. Dispatch(session, c) /\ c.caller = "other" /\ c.operation = None
  BY <1>2 DEF Command
<1>6. Like(session) /\ LedgerFits(session) /\ SameAsked
  BY <1>0, StagedIsLike DEF HonestInv, FitInv, SameAsked
<1> HIDE DEF c
<1>7. IsFor(c, None, None)
  BY <1>0, <1>5 DEF IsFor
<1> QED
  BY <1>0, <1>1, <1>4, <1>5, <1>6, <1>7, DispatchIsHonest

LEMMA AcquireIsHonest == SurfaceInv /\ HonestInv /\ Acquire => HonestInv'
<1> SUFFICES ASSUME SurfaceInv, HonestInv, Acquire PROVE HonestInv'
  OBVIOUS
<1>0. /\ unit' = unit /\ panel' = panel /\ request' = request /\ session' = session /\ answers' = answers
      /\ command = NoCommand
  BY DEF Acquire
<1> DEFINE c == [Command(OutputOff, None, None, "other") EXCEPT !.stage = "reassert"]
<1>1. command' = c /\ c.caller = "other" /\ c.operation = None
  BY DEF Acquire, Command
<1>2. manager'.overlay = manager.overlay
  BY DEF Acquire, SurfaceInv, ManagerShape
<1> HIDE DEF c
<1>3. ~Asked'
  BY <1>1 DEF Asked
<1>4. CommandKeeps'
  BY <1>1, <1>3 DEF CommandKeeps
<1>5. Conversation' /\ ReplyHonoursRequest'
  BY <1>0, <1>3, Silent DEF HonestInv
<1>6. SurfaceInv'
  BY AcquireKeepsInv
<1>7. FitInv'
  <2>1. LedgerFits(session') /\ Overlays(manager'.overlay) /\ SessionShape' /\ AnswerShape
    BY <1>0, <1>2, <1>6 DEF HonestInv, FitInv, SurfaceInv
  <2>2. Tells
    BY <1>0 DEF Tells
  <2> QED
    BY <1>0, <2>1, <2>2, FitFrame DEF HonestInv
<1>8. (unit \in DOMAIN Units)'
  BY <1>0 DEF HonestInv
<1> QED
  BY <1>4, <1>5, <1>7, <1>8 DEF HonestInv

-----------------------------------------------------------------------------
(* The device's answers *)

\* The command is over, and what the panel asked for was done if it was applied.
LEMMA DeviceAnswered ==
    ASSUME SurfaceInv, SurfaceInv', HonestInv, command # NoCommand, command' = NoCommand, unit' = unit, panel' = panel,
           request' = request, LedgerFits(session'), Overlays(manager'.overlay),
           \/ Answer(command.caller, FALSE)
           \/ Answer(command.caller, TRUE) /\ (Asked => Honours(Surface'.parameters[request.operation], request.intents))
    PROVE  HonestInv'
<1>1. SessionShape' /\ SameAsked /\ CommandKeeps /\ Conversation
  BY DEF SurfaceInv, HonestInv, SameAsked
<1>2. command.caller \in {"panel", "other"} /\ (Asked <=> command.caller = "panel")
  BY <1>1 DEF CommandKeeps, Asked
<1>3. CASE command.caller = "other"
  <2>1. answers' = answers
    BY <1>3 DEF Answer
  <2> QED
    BY <1>1, <2>1, AnsweredIsHonest
<1>4. CASE command.caller = "panel"
  <2>1. Open
    BY <1>1, <1>2, <1>4, AskedIsOpen
  <2>2. request'.stage = "admitted" /\ \A i \in DOMAIN answers : answers[i].kind = "read"
    BY <2>1 DEF Open
  <2>3. CASE Answer(command.caller, FALSE)
    <3>1. answers' = Append(answers, [kind |-> "refused"])
      BY <1>4, <2>3 DEF Answer
    <3> QED
      BY <1>1, <2>2, <3>1, AnsweredIsHonest
  <2>4. CASE Answer(command.caller, TRUE) /\ Honours(Surface'.parameters[request.operation], request.intents)
    <3>1. answers' = Append(answers, [kind |-> "applied", surface |-> Surface'])
      BY <1>4, <2>4 DEF Answer
    <3> QED
      BY <1>1, <2>2, <2>4, <3>1, AnsweredIsHonest
  <2> QED
    BY <1>2, <1>4, <2>3, <2>4
<1> QED
  BY <1>2, <1>3, <1>4

\* A configuration admitted for the panel is what its operation shows.
LEMMA ConfigurationHonours ==
    ASSUME SurfaceInv, SurfaceInv', HonestInv, command # NoCommand, unit' = unit, driver # "signallab",
           ~IsFeature(command.target), session'.configuration = command.target,
           manager' = Admitted(manager, command)
    PROVE  /\ Overlays(manager'.overlay)
           /\ Asked => Honours(Surface'.parameters[request.operation], request.intents)
<1> DEFINE op == request.operation
           intents == request.intents
<1>1. /\ SessionShape /\ ManagerShape /\ PanelShape /\ SessionShape' /\ CommandKeeps /\ FitInv /\ Conversation
  BY DEF SurfaceInv, HonestInv
<1>2. manager'.overlay = IF command.operation = None THEN NoOverlay
                         ELSE [operation |-> command.operation, intents |-> command.intents]
  BY <1>1, AdmittedOverlay DEF ManagerShape
<1>3. CASE command.caller = "other"
  BY <1>1, <1>2, <1>3 DEF CommandKeeps, Overlays, Asked
<1>4. CASE command.caller = "panel"
  <2>1. Asked /\ request # NoRequest
    BY <1>1, <1>4 DEF Asked, Conversation, NoRequest
  <2>2. /\ Keeps(command.target, op, intents) /\ command.operation = op /\ command.intents = intents
        /\ op \in Operations /\ DOMAIN intents = Names(op) /\ Fits(op, intents)
    BY <1>1, <2>1 DEF CommandKeeps, PanelShape, FitInv
  <2>3. (driver = "tinysa" => op \in {SweepOp, PowerOp}) /\ Achieves(ShownOf(command.target, op), intents)
    BY <2>2 DEF Keeps
  <2>4. op # None
    <3>1. driver = "neptune" => op = Neptune!CaptureOp
      BY <2>2 DEF Operations
    <3> QED
      BY <1>1, <2>3, <3>1, ReceiversAreNamed DEF SessionShape
  <2>5. manager'.overlay = [operation |-> op, intents |-> intents]
    BY <1>2, <2>2, <2>4
  <2>6. Overlays(manager'.overlay)
    BY <2>2, <2>3, <2>5 DEF Overlays
  <2>7. op \in DOMAIN DriverSurface'.parameters /\ DriverSurface'.parameters[op] = ShownOf(command.target, op)
    BY <1>1, <2>2, <2>3, ConfigurationShows DEF SessionShape
  <2>8. Honours(Surface'.parameters[op], intents)
    BY <1>1, <2>3, <2>4, <2>5, <2>7, OverlayHonours
  <2> QED
    BY <2>6, <2>8
<1> QED
  BY <1>1, <1>3, <1>4 DEF CommandKeeps

\* A source operation shows the session alone.
LEMMA SourceShows ==
    ASSUME SessionShape', unit' = unit, driver = "tinysa", manager'.overlay = manager.overlay, Overlays(manager.overlay),
           NEW op \in Operations, op \in {SourceOp, OutputOp}
    PROVE  Surface'.parameters[op] = IF op = SourceOp THEN SourceParameters(caps, session') ELSE OutputParameters(session')
<1> USE DEF SweepOp, PowerOp, SourceOp, OutputOp
<1>0. driver' = driver /\ caps' = caps
  BY DEF driver, caps
<1>1. manager'.overlay = NoOverlay \/ manager'.overlay.operation # op
  BY DEF Overlays
<1>2. Surface'.parameters[op] = DriverSurface'.parameters[op]
  BY <1>1, NotOverlaid
<1>3. DriverSurface' = TinySaSurface(caps, session')
  BY <1>0 DEF DriverSurface
<1>4. DriverSurface'.parameters[op] = TinySaParameters(caps, session', op)
  BY <1>3 DEF TinySaSurface, Operations
<1>5. TinySaParameters(caps, session', op) = IF op = SourceOp THEN SourceParameters(caps, session') ELSE OutputParameters(session')
  BY DEF TinySaParameters
<1> QED
  BY <1>2, <1>4, <1>5

\* The output that was asked for is shown,
LEMMA OutputHonours ==
    ASSUME SessionShape', unit' = unit, driver = "tinysa", manager'.overlay = manager.overlay, Overlays(manager.overlay),
           NEW intents, OutputOp \in Operations, session'.outputIntent = intents["output"],
           IsManual(intents["output"]) => session'.output = intents["output"].value
    PROVE  Honours(Surface'.parameters[OutputOp], intents)
<1> DEFINE p == Surface'.parameters[OutputOp]
<1>1. p = OutputParameters(session')
  BY SourceShows DEF SourceOp, OutputOp
<1> HIDE DEF p
<1>2. DOMAIN p = {"output"} /\ p["output"].requested = session'.outputIntent /\ p["output"].effective = session'.output
  BY <1>1 DEF OutputParameters, Parameter
<1>3. Honours(p, intents)
  BY <1>2 DEF Honours, Achieves
<1> QED
  BY <1>3 DEF p

\* and so are the generator's settings.
LEMMA SourceHonours ==
    ASSUME SessionShape', unit' = unit, driver = "tinysa", manager'.overlay = manager.overlay, Overlays(manager.overlay),
           NEW intents, SourceOp \in Operations, DOMAIN intents = Names(SourceOp), NEW feature,
           session'.source = GeneratorConfiguration(feature), session'.sourceIntents = intents,
           Achieves(SourceShown(feature, intents), intents)
    PROVE  Honours(Surface'.parameters[SourceOp], intents)
<1> DEFINE p == Surface'.parameters[SourceOp]
<1>1. p = SourceParameters(caps, session')
  BY SourceShows
<1>2. SourceParameters(caps, session') = SourceShown(feature, intents)
  BY DEF SourceParameters, SourceShown
<1>3. DOMAIN intents = SourceNames(caps)
  BY DEF Names, SweepOp, PowerOp, SourceOp, OutputOp
<1>4. \A n \in DOMAIN p : p[n].requested = intents[n]
  BY <1>1, <1>3 DEF SourceParameters, Parameter, Kept
<1> HIDE DEF p
<1>5. Honours(p, intents)
  BY <1>1, <1>2, <1>4 DEF Honours
<1> QED
  BY <1>5 DEF p

\* What the device accepts leaves fitting intents behind.
LEMMA AcceptedFits ==
    ASSUME SurfaceInv, HonestInv, DeviceAccepts
    PROVE  LedgerFits(session')
<1>0. SessionShape /\ CommandShape /\ LedgerFits(session) /\ command # NoCommand /\ Like(session)
  BY StagedIsLike DEF SurfaceInv, HonestInv, FitInv, DeviceAccepts, NoCommand
<1>1. CASE ~IsFeature(command.target)
  <2>1. session' = Bound(session, command.target)
    BY <1>1 DEF DeviceAccepts, Generates, IsOutput
  <2> QED
    BY <1>0, <2>1, BoundFits
<1>2. CASE IsFeature(command.target) /\ command.target.action = "touch"
  <2>1. session' = session
    BY <1>2 DEF DeviceAccepts, Generates, IsOutput
  <2> QED
    BY <1>0, <2>1
<1>3. CASE IsFeature(command.target) /\ command.target.action # "touch"
  <2>1. driver = "tinysa" /\ command.target.action \in {"configure", "set-output"}
    BY <1>0, <1>3 DEF CommandShape
  <2>2. session' = FeatureAccepted(session, command.target)
    BY <1>3, <2>1 DEF DeviceAccepts, Generates, IsOutput
  <2>3. LedgerFits(FeatureAccepted(session, command.target))
    BY <1>0, <2>1, CommitFits
  <2> QED
    BY <2>2, <2>3
<1> QED
  BY <1>1, <1>2, <1>3

\* A source command of the panel's was staged by the driver with its intents.
LEMMA AcceptedRemembers ==
    ASSUME SurfaceInv, HonestInv, DeviceAccepts, Asked, IsFeature(command.target)
    PROVE  /\ driver = "tinysa" /\ Keeps(command.target, request.operation, request.intents)
           /\ command.target.action = "configure" =>
                 session'.source = GeneratorConfiguration(command.target) /\ session'.sourceIntents = request.intents
           /\ command.target.action = "set-output" =>
                 session'.output = command.target.enabled /\ session'.outputIntent = request.intents["output"]
           /\ command.target.action # "touch"
<1>0. /\ SessionShape /\ CommandShape /\ LedgerFits(session) /\ command # NoCommand /\ CommandKeeps
      /\ command.stage = "device"
  BY DEF SurfaceInv, HonestInv, FitInv, DeviceAccepts, NoCommand
<1>1. /\ Keeps(command.target, request.operation, request.intents)
      /\ session.pending.feature = command.target /\ session.pending.intents = request.intents
  BY <1>0 DEF CommandKeeps, Remembers
<1>2. command.target.action \in {"configure", "set-output"} /\ driver = "tinysa"
  BY <1>0, <1>1 DEF Keeps, CommandShape
<1>3. session' = FeatureAccepted(session, command.target)
  BY <1>2 DEF DeviceAccepts, Generates, IsOutput
<1> DEFINE t == FeatureAccepted(session, command.target)
<1>4. /\ command.target.action = "configure" => t.source = GeneratorConfiguration(command.target)
      /\ command.target.action = "set-output" => t.output = command.target.enabled
      /\ command.target.action = "configure" => t.sourceIntents = session.pending.intents
      /\ command.target.action = "set-output" => t.outputIntent = session.pending.intents["output"]
  BY <1>0, <1>1, <1>2, CommitFits
<1> HIDE DEF t
<1>5. session' = t
  BY <1>3 DEF t
<1> QED
  BY <1>1, <1>2, <1>4, <1>5

LEMMA DeviceAcceptsIsHonest == SurfaceInv /\ HonestInv /\ DeviceAccepts => HonestInv'
<1> SUFFICES ASSUME SurfaceInv, HonestInv, DeviceAccepts PROVE HonestInv'
  OBVIOUS
<1> DEFINE target == command.target
<1>0. /\ unit' = unit /\ panel' = panel /\ request' = request /\ command # NoCommand
      /\ SessionShape /\ ManagerShape /\ CommandShape /\ PanelShape /\ AnswerShape
      /\ FitInv /\ Conversation /\ ReplyHonoursRequest /\ CommandKeeps
  BY DEF DeviceAccepts, SurfaceInv, NoCommand, HonestInv
<1>1. SurfaceInv' /\ SessionShape' /\ LedgerFits(session') /\ Overlays(manager.overlay)
  <2>1. SurfaceInv'
    BY DeviceAcceptsKeepsInv
  <2> QED
    BY <1>0, <2>1, AcceptedFits DEF FitInv, SurfaceInv
<1>2. /\ driver # "signallab"
      /\ IsFeature(target) => driver = "tinysa" /\ target.action \in {"configure", "set-output", "touch"}
      /\ IsOutput(target) <=> IsFeature(target) /\ target.action = "set-output"
  BY <1>0 DEF CommandShape, IsOutput
<1>3. ~IsFeature(target) => session'.configuration = target
  BY AcceptedIs
<1>4. Asked => request # NoRequest /\ request.operation \in Operations /\ DOMAIN request.intents = Names(request.operation)
  BY <1>0 DEF Conversation, PanelShape, NoRequest
<1>5. CASE manager.fault /\ ~IsSafe(target)
  <2>1. manager' = manager /\ command' = NoCommand /\ Answer(command.caller, FALSE)
    BY <1>5 DEF DeviceAccepts, AcceptedAnswer, Fails
  <2> QED
    BY <1>0, <1>1, <2>1, DeviceAnswered
<1>6. CASE IsOutput(target) /\ ~(manager.fault /\ ~IsSafe(target))
  <2>1. /\ manager' = [manager EXCEPT !.rf = IF target.enabled THEN "on" ELSE "off"]
        /\ command' = NoCommand /\ Answer(command.caller, TRUE)
    BY <1>6 DEF DeviceAccepts, AcceptedAnswer, Finishes, IsOutput
  <2>2. manager'.overlay = manager.overlay /\ driver = "tinysa"
    BY <1>0, <1>2, <1>6, <2>1 DEF ManagerShape
  <2>3. ASSUME Asked
        PROVE  Honours(Surface'.parameters[request.operation], request.intents)
    <3>1. Keeps(target, request.operation, request.intents) /\ session'.output = target.enabled
          /\ session'.outputIntent = request.intents["output"]
      BY <1>2, <1>6, <2>3, AcceptedRemembers
    <3>2. request.operation = OutputOp
          /\ (IsManual(request.intents["output"]) => target.enabled = request.intents["output"].value)
      BY <1>2, <1>6, <3>1 DEF Keeps
    <3> QED
      BY <1>0, <1>1, <1>4, <2>2, <2>3, <3>1, <3>2, OutputHonours
  <2> QED
    BY <1>0, <1>1, <2>1, <2>2, <2>3, DeviceAnswered
<1>7. CASE IsFeature(target) /\ target.action = "touch" /\ ~(manager.fault /\ ~IsSafe(target))
  <2>1. manager' = manager /\ command' = NoCommand /\ Answer(command.caller, TRUE)
    BY <1>7 DEF DeviceAccepts, AcceptedAnswer, Finishes, IsOutput
  <2>2. ~Asked
    BY <1>7, AcceptedRemembers
  <2> QED
    BY <1>0, <1>1, <2>1, <2>2, DeviceAnswered
<1>8. CASE ~IsFeature(target) /\ manager.rf = "none" /\ ~(manager.fault /\ ~IsSafe(target))
  <2>1. manager' = Admitted(manager, command) /\ command' = NoCommand /\ Answer(command.caller, TRUE)
    BY <1>8 DEF DeviceAccepts, AcceptedAnswer, Finishes, IsOutput
  <2>2. Overlays(manager'.overlay) /\ (Asked => Honours(Surface'.parameters[request.operation], request.intents))
    BY <1>0, <1>1, <1>2, <1>3, <1>8, <2>1, ConfigurationHonours
  <2> QED
    BY <1>0, <1>1, <2>1, <2>2, DeviceAnswered
<1>9. CASE /\ ~(manager.fault /\ ~IsSafe(target)) /\ ~IsOutput(target)
           /\ ~(IsFeature(target) /\ target.action = "touch") /\ ~(~IsFeature(target) /\ manager.rf = "none")
  <2>1. manager' = manager /\ command' = [command EXCEPT !.stage = "off"] /\ answers' = answers
    BY <1>9 DEF DeviceAccepts, AcceptedAnswer, Waits
  <2>2. /\ command'.stage = "off" /\ command'.target = target /\ command'.caller = command.caller
        /\ command'.operation = command.operation /\ command'.intents = command.intents /\ command' # NoCommand
    BY <1>0, <2>1 DEF CommandShape, NoCommand
  <2>3. Asked' <=> Asked
    BY <1>0, <2>2 DEF Asked
  <2>4. Conversation' /\ ReplyHonoursRequest'
    BY <1>0, <2>1, <2>3, Silent
  <2>5. FitInv'
    <3>1. Tells
      BY <2>1 DEF Tells
    <3> QED
      BY <1>0, <1>1, <2>1, <3>1, FitFrame DEF HonestInv
  <2>6. ASSUME Asked
        PROVE  Remembers'
    <3>1. IsFeature(target) => session'.source = GeneratorConfiguration(target) /\ session'.sourceIntents = request.intents
      BY <1>2, <1>9, <2>6, AcceptedRemembers
    <3> QED
      BY <1>0, <2>2, <3>1 DEF Remembers, IsFeature
  <2>7. ASSUME Asked
        PROVE  Keeps(command.target, request.operation, request.intents)'
    <3>1. ASSUME NEW t, NEW op, NEW i, t = command'.target, op = request'.operation, i = request'.intents, Keeps(t, op, i)
          PROVE  Keeps(command.target, request.operation, request.intents)'
      BY <1>0, <3>1, KeepsStays DEF Keeps
    <3>2. Keeps(target, request.operation, request.intents)
      BY <1>0, <2>7 DEF CommandKeeps, Asked
    <3> QED
      BY <1>0, <2>2, <3>1, <3>2
  <2>8. CommandKeeps'
    BY <1>0, <2>2, <2>3, <2>6, <2>7 DEF CommandKeeps, IsFeature
  <2>9. (unit \in DOMAIN Units)'
    BY <1>0 DEF HonestInv
  <2> QED
    BY <2>4, <2>5, <2>8, <2>9 DEF HonestInv
<1> QED
  BY <1>5, <1>6, <1>7, <1>8, <1>9

LEMMA OffIsAcknowledgedIsHonest == SurfaceInv /\ HonestInv /\ OffIsAcknowledged => HonestInv'
<1> SUFFICES ASSUME SurfaceInv, HonestInv, OffIsAcknowledged PROVE HonestInv'
  OBVIOUS
<1> DEFINE target == command.target
<1>0. /\ unit' = unit /\ panel' = panel /\ request' = request /\ command # NoCommand
      /\ command.stage \in {"off", "reassert"}
      /\ SessionShape /\ ManagerShape /\ CommandShape /\ PanelShape /\ LedgerFits(session) /\ Overlays(manager.overlay)
      /\ FitInv /\ Conversation /\ CommandKeeps
  BY DEF OffIsAcknowledged, SurfaceInv, NoCommand, HonestInv, FitInv
<1>1. SurfaceInv' /\ SessionShape'
  <2>1. SurfaceInv'
    BY OffIsAcknowledgedKeepsInv
  <2> QED
    BY <2>1 DEF SurfaceInv
<1>2. /\ manager.rf # "none" /\ driver = "tinysa"
      /\ command.stage = "off" => ~IsFeature(target) \/ Generates(target)
  BY <1>0 DEF CommandShape, ManagerShape
<1>3. /\ LedgerFits(session') /\ session'.source = session.source /\ session'.sourceIntents = session.sourceIntents
      /\ session'.configuration = session.configuration
  <2>1. OutputOff.action = "set-output" /\ OutputOff.enabled \in BOOLEAN
    BY DEF OutputOff
  <2>2. session' = FeatureAccepted(session, OutputOff)
    BY DEF OffIsAcknowledged
  <2> DEFINE t == FeatureAccepted(session, OutputOff)
  <2>3. LedgerFits(t) /\ t.source = session.source /\ t.sourceIntents = session.sourceIntents
    BY <1>0, <1>2, <2>1, CommitFits
  <2>4. t.configuration = session.configuration
    BY <1>0, <1>2, <2>1, FeatureAcceptedIs
  <2> HIDE DEF t
  <2>5. session' = t
    BY <2>2 DEF t
  <2> QED
    BY <2>3, <2>4, <2>5
<1>4. Asked => /\ Keeps(target, request.operation, request.intents) /\ Remembers /\ command.stage = "off"
               /\ request # NoRequest /\ request.operation \in Operations /\ DOMAIN request.intents = Names(request.operation)
  BY <1>0 DEF CommandKeeps, Conversation, PanelShape, NoRequest
<1>5. CASE manager.fault
  <2>1. manager' = manager /\ command' = NoCommand /\ Answer(command.caller, FALSE)
    BY <1>5 DEF OffIsAcknowledged, Fails
  <2> QED
    BY <1>0, <1>1, <1>3, <2>1, DeviceAnswered
<1>6. CASE ~manager.fault /\ (command.stage = "reassert" \/ Generates(target))
  <2>1. manager' = [manager EXCEPT !.rf = "off"] /\ command' = NoCommand /\ Answer(command.caller, TRUE)
    <3>1. CASE command.stage = "reassert"
      BY <1>6, <3>1 DEF OffIsAcknowledged, Finishes
    <3>2. CASE command.stage = "off" /\ Generates(target)
      BY <1>6, <3>2 DEF OffIsAcknowledged, Finishes, Generates
    <3> QED
      BY <1>0, <1>6, <3>1, <3>2
  <2>2. manager'.overlay = manager.overlay
    BY <1>0, <2>1 DEF ManagerShape
  <2>3. ASSUME Asked
        PROVE  Honours(Surface'.parameters[request.operation], request.intents)
    <3>1. IsFeature(target) /\ target.action = "configure"
      BY <1>4, <1>6, <2>3 DEF Generates
    <3>2. request.operation = SourceOp /\ Achieves(SourceShown(target, request.intents), request.intents)
      BY <1>4, <2>3, <3>1 DEF Keeps
    <3>3. session'.source = GeneratorConfiguration(target) /\ session'.sourceIntents = request.intents
      BY <1>3, <1>4, <2>3, <3>1 DEF Remembers
    <3> QED
      BY <1>0, <1>1, <1>2, <1>4, <2>2, <2>3, <3>2, <3>3, SourceHonours
  <2> QED
    BY <1>0, <1>1, <1>3, <2>1, <2>2, <2>3, DeviceAnswered
<1>7. CASE ~manager.fault /\ command.stage = "off" /\ ~Generates(target)
  <2>1. ~IsFeature(target) /\ Halfway
    BY <1>2, <1>7 DEF Halfway
  <2>2. manager' = Admitted(manager, command) /\ command' = NoCommand /\ Answer(command.caller, TRUE)
    BY <1>7, <2>1 DEF OffIsAcknowledged, Finishes, Generates
  <2>3. session'.configuration = target
    BY <1>3, <1>7, <2>1 DEF SurfaceInv, SoundInv, ConfigurationInv
  <2>4. Overlays(manager'.overlay) /\ (Asked => Honours(Surface'.parameters[request.operation], request.intents))
    BY <1>0, <1>1, <1>2, <2>1, <2>2, <2>3, ConfigurationHonours
  <2> QED
    BY <1>0, <1>1, <1>3, <2>2, <2>4, DeviceAnswered
<1> QED
  BY <1>0, <1>5, <1>6, <1>7

LEMMA DeviceRefusesIsHonest == SurfaceInv /\ HonestInv /\ DeviceRefuses => HonestInv'
<1> SUFFICES ASSUME SurfaceInv, HonestInv, DeviceRefuses PROVE HonestInv'
  OBVIOUS
<1>0. /\ unit' = unit /\ panel' = panel /\ request' = request /\ command # NoCommand /\ command' = NoCommand
      /\ Answer(command.caller, FALSE)
      /\ SessionShape /\ ManagerShape /\ CommandShape /\ LedgerFits(session) /\ Overlays(manager.overlay)
  BY DEF DeviceRefuses, Fails, SurfaceInv, HonestInv, FitInv
<1>1. SurfaceInv'
  BY DeviceRefusesKeepsInv
<1>2. Overlays(manager'.overlay)
  <2>1. manager' = Faulted(manager) \/ manager' = manager
    BY DEF DeviceRefuses, Fails
  <2>2. Faulted(manager).overlay = NoOverlay
    BY <1>0 DEF Faulted, Invalidated, ManagerShape
  <2> QED
    BY <1>0, <2>1, <2>2 DEF Overlays
<1>3. LedgerFits(session')
  <2>1. CASE command.stage # "device"
    <3>1. session' = FeatureRefused(session, OutputOff) /\ driver = "tinysa"
      BY <1>0, <2>1 DEF DeviceRefuses, CommandShape, ManagerShape
    <3> QED
      BY <1>0, <3>1, RefusalFits
  <2>2. CASE command.stage = "device" /\ IsFeature(command.target)
    <3>1. session' = FeatureRefused(session, command.target) /\ driver = "tinysa"
      BY <1>0, <2>2 DEF DeviceRefuses, CommandShape
    <3> QED
      BY <1>0, <3>1, RefusalFits
  <2>3. CASE command.stage = "device" /\ ~IsFeature(command.target)
    <3>1. session' = session
      BY <2>3 DEF DeviceRefuses
    <3> QED
      BY <1>0, <3>1
  <2> QED
    BY <2>1, <2>2, <2>3
<1> QED
  BY <1>0, <1>1, <1>2, <1>3, DeviceAnswered

LEMMA DriverFaultsIsHonest == SurfaceInv /\ HonestInv /\ DriverFaults => HonestInv'
<1> SUFFICES ASSUME SurfaceInv, HonestInv, DriverFaults PROVE HonestInv'
  OBVIOUS
<1>0. /\ unit' = unit /\ panel' = panel /\ request' = request /\ session' = session /\ command' = command
      /\ answers' = answers /\ ManagerShape /\ AnswerShape /\ LedgerFits(session)
  BY DEF DriverFaults, panelVars, SurfaceInv, HonestInv, FitInv
<1>1. SurfaceInv' /\ SessionShape'
  <2>1. SurfaceInv'
    BY DriverFaultsKeepsInv
  <2> QED
    BY <2>1 DEF SurfaceInv
<1>2. Overlays(manager'.overlay)
  BY <1>0 DEF DriverFaults, Faulted, Invalidated, ManagerShape, Overlays
<1>3. FitInv'
  <2>1. Tells
    BY <1>0 DEF Tells
  <2> QED
    BY <1>0, <1>1, <1>2, <2>1, FitFrame DEF HonestInv
<1>4. Asked' <=> Asked
  BY <1>0 DEF Asked
<1>5. Conversation' /\ ReplyHonoursRequest'
  BY <1>0, <1>4, Silent DEF HonestInv
<1>6. CommandKeeps'
  BY <1>0, CommandStays DEF HonestInv
<1>7. (unit \in DOMAIN Units)'
  BY <1>0 DEF HonestInv
<1> QED
  BY <1>3, <1>5, <1>6, <1>7 DEF HonestInv

\* Initially nothing has been asked.
LEMMA HonestInit == Init => HonestInv
<1> SUFFICES ASSUME Init PROVE HonestInv
  OBVIOUS
<1>0. /\ unit \in DOMAIN Units /\ command = NoCommand /\ request = NoRequest /\ answers = <<>>
      /\ panel.surface = None /\ panel.edits = None /\ DOMAIN answers = {}
  BY DEF Init
<1>1. manager.overlay = NoOverlay
  BY DEF Init, FreshManager
<1>2. LedgerFits(session)
  <2>1. CASE driver = "tinysa" /\ session = NoTinySa
    <3>1. /\ session.sourceIntents = Nothing /\ session.outputIntent = AutoIntent
          /\ session.pending.feature.action = "none"
      BY <2>1 DEF NoTinySa, NoFeature
    <3>2. Fits(SourceOp, Nothing)
      BY DEF Fits, Nothing
    <3> QED
      BY <2>1, <3>1, <3>2, AutoFits DEF LedgerFits
  <2>2. CASE driver = "neptune"
    BY <2>2 DEF LedgerFits
  <2>3. ASSUME driver = "signallab", NEW status, session = Lab!NoSignalLab(status)
        PROVE  LedgerFits(session)
    <3>1. DOMAIN session.intents = {} /\ session.pending.action \notin LabActions
      BY <2>3 DEF Lab!NoSignalLab, Lab!NoLedger, LabActions
    <3> QED
      BY <2>3, <3>1 DEF LedgerFits
  <2> QED
    BY <2>1, <2>2, <2>3 DEF Init
<1>3. FitInv
  BY <1>0, <1>1, <1>2 DEF FitInv, Overlays
<1>4. ~Asked /\ CommandKeeps
  BY <1>0 DEF Asked, CommandKeeps
<1>5. Conversation /\ ReplyHonoursRequest
  BY <1>0, <1>4 DEF Conversation, ReplyHonoursRequest
<1> QED
  BY <1>0, <1>3, <1>4, <1>5 DEF HonestInv

\* Every step keeps the invariant.
LEMMA HonestNext == SurfaceInv /\ HonestInv /\ [Next]_vars => HonestInv'
<1> SUFFICES ASSUME SurfaceInv, HonestInv, [Next]_vars PROVE HonestInv'
  OBVIOUS
<1>1. CASE Edit
  BY <1>1, EditIsHonest
<1>2. CASE AskAutomatic
  BY <1>2, AskAutomaticIsHonest
<1>3. CASE TakeAnswer
  BY <1>3, TakeAnswerIsHonest
<1>4. CASE ReadSurface
  BY <1>4, ReadSurfaceIsHonest
<1>5. CASE Admit
  BY <1>5, AdmitIsHonest
<1>6. CASE Other
  BY <1>6, OtherIsHonest
<1>7. CASE Acquire
  BY <1>7, AcquireIsHonest
<1>8. CASE DeviceAccepts
  BY <1>8, DeviceAcceptsIsHonest
<1>9. CASE OffIsAcknowledged
  BY <1>9, OffIsAcknowledgedIsHonest
<1>10. CASE DeviceRefuses
  BY <1>10, DeviceRefusesIsHonest
<1>11. CASE DriverFaults
  BY <1>11, DriverFaultsIsHonest
<1>12. CASE UNCHANGED vars
  <2>0. /\ unit' = unit /\ session' = session /\ manager' = manager /\ command' = command /\ request' = request
        /\ panel' = panel /\ answers' = answers
    BY <1>12 DEF vars
  <2>1. Asked' <=> Asked
    BY <2>0 DEF Asked
  <2>2. FitInv'
    BY <2>0, FitNext DEF HonestInv, FitInv
  <2>3. Conversation' /\ ReplyHonoursRequest'
    BY <2>0, <2>1, Silent DEF HonestInv
  <2>4. CommandKeeps'
    BY <2>0, CommandStays DEF HonestInv
  <2>5. (unit \in DOMAIN Units)'
    BY <2>0 DEF HonestInv
  <2> QED
    BY <2>2, <2>3, <2>4, <2>5 DEF HonestInv
<1> QED
  BY <1>1, <1>2, <1>3, <1>4, <1>5, <1>6, <1>7, <1>8, <1>9, <1>10, <1>11, <1>12 DEF Next

\* The invariant of the conversation: one request at a time, whatever is asked
\* fits its setting, and the command on its way does what the panel asked for
\* (CanonicalOperationPanel.tsx, #executeCanonicalOperation in
\* instrument-manager.ts, resolveCanonicalOperation of the three drivers).
THEOREM HonestInvHolds == Spec => []HonestInv
<1>1. Init => HonestInv
  BY HonestInit
<1>2. SurfaceInv /\ HonestInv /\ [Next]_vars => HonestInv'
  BY HonestNext
<1> QED
  BY <1>1, <1>2, SurfaceInvHolds, PTL DEF Spec

\* An operation that was applied did what was asked: the reply shows the
\* settings requested, and every explicit one in effect.
THEOREM RepliesHonourRequests == Spec => []ReplyHonoursRequest
<1>1. HonestInv => ReplyHonoursRequest
  BY DEF HonestInv
<1> QED
  BY <1>1, HonestInvHolds, PTL

\* Whatever the panel is told and shows is true: the settings of a reply, and
\* the surface of the current revision.
THEOREM PanelIsTold == Spec => []PanelIsToldTheTruth
<1>1. RevisionNamesSurface /\ ReplyHonoursRequest => PanelIsToldTheTruth
  BY DEF PanelIsToldTheTruth
<1> QED
  BY <1>1, RevisionsNameSurfaces, RepliesHonourRequests, PTL

-----------------------------------------------------------------------------
(* Ranges: what every driver makes its automatic values with *)

\* Multiplying by a step keeps the order.
LEMMA Monotone ==
    ASSUME NEW x \in Int, NEW y \in Int, NEW d \in Nat, x <= y
    PROVE  x * d <= y * d
OBVIOUS

\* A quotient is known from the multiples around it.
LEMMA QuotientIs ==
    ASSUME NEW a \in Int, NEW d \in Nat \ {0}, NEW q \in Int, q * d <= a, a < q * d + d
    PROVE  a \div d = q
<1> DEFINE p == a \div d
           m == a % d
<1>1. p \in Int /\ m \in 0 .. (d - 1) /\ a = d * p + m
  OBVIOUS
<1> HIDE DEF p, m
<1>2. CASE p >= q + 1
  <2>1. (q + 1) * d <= p * d
    BY <1>1, <1>2, Monotone
  <2>2. (q + 1) * d = q * d + d /\ p * d = d * p
    BY <1>1
  <2> QED BY <1>1, <2>1, <2>2
<1>3. CASE p + 1 <= q
  <2>1. (p + 1) * d <= q * d
    BY <1>1, <1>3, Monotone
  <2>2. (p + 1) * d = p * d + d /\ p * d = d * p
    BY <1>1
  <2> QED BY <1>1, <2>1, <2>2
<1> QED BY <1>1, <1>2, <1>3 DEF p

\* A multiple of the step
LEMMA Multiple ==
    ASSUME NEW k \in Int, NEW d \in Nat \ {0}
    PROVE  (k * d) \div d = k /\ (k * d) % d = 0
<1> DEFINE a == k * d
<1>1. a \div d = k
  <2>1. a \in Int /\ k * d <= a /\ a < k * d + d
    OBVIOUS
  <2> HIDE DEF a
  <2> QED BY <2>1, QuotientIs
<1>2. a \in Int /\ a = d * k
  OBVIOUS
<1> HIDE DEF a
<1>3. a = d * (a \div d) + (a % d) /\ (a % d) \in Int
  BY <1>2
<1> QED BY <1>1, <1>2, <1>3 DEF a

\* What a range admits is what lies on its lattice, between its bounds.
LEMMA AdmitsIs ==
    ASSUME NEW r, IsRange(r), NEW k \in Int, 0 <= k, r.min + k * r.step <= r.max
    PROVE  Admits(r, r.min + k * r.step)
<1> DEFINE d == r.step
           a == k * d
<1>1. d \in Nat \ {0} /\ r.min \in Int
  BY DEF IsRange
<1>2. a \in Int /\ 0 <= a
  <2>1. 0 * d <= k * d
    BY <1>1, Monotone
  <2> QED BY <1>1, <2>1
<1>3. a % d = 0
  BY <1>1, Multiple
<1> HIDE DEF a
<1>4. (r.min + a) - r.min = a
  BY <1>1, <1>2
<1>5. Admits(r, r.min + a)
  BY <1>1, <1>2, <1>3, <1>4 DEF Admits, a
<1> QED BY <1>5 DEF a

\* What is admitted is a whole number of steps above the minimum.
LEMMA IsAdmitted ==
    ASSUME NEW r, IsRange(r), NEW v \in Int, Admits(r, v)
    PROVE  \E k \in Nat : v = r.min + k * r.step
<1> DEFINE a == v - r.min
           d == r.step
<1>1. d \in Nat \ {0} /\ a \in Int /\ 0 <= a /\ a % d = 0 /\ v = r.min + a
  BY DEF IsRange, Admits
<1> HIDE DEF a, d
<1> DEFINE k == a \div d
<1>2. k \in Int /\ a = d * k + (a % d)
  BY <1>1
<1> HIDE DEF k
<1>3. a = k * d
  BY <1>1, <1>2
<1>4. 0 <= k
  <2>1. CASE k <= -1
    <3>1. k * d <= (-1) * d
      BY <1>1, <1>2, <2>1, Monotone
    <3> QED BY <1>1, <1>3, <3>1
  <2> QED BY <1>2, <2>1
<1> QED BY <1>1, <1>2, <1>3, <1>4 DEF d

\* How many steps fit into a range
Steps(r) == (r.max - r.min) \div r.step

\* The last value a range reaches.
LEMMA StepsOf ==
    ASSUME NEW r, IsRange(r), r.min <= r.max
    PROVE  /\ Steps(r) \in Nat
           /\ MaximumReachable(r) = r.min + Steps(r) * r.step
           /\ MaximumReachable(r) \in Int /\ MaximumReachable(r) <= r.max
           /\ r.min <= MaximumReachable(r)
           /\ Admits(r, MaximumReachable(r)) /\ Admits(r, r.min)
           /\ \A k \in Nat : r.min + k * r.step <= r.max => k <= Steps(r)
<1> DEFINE d == r.step
           a == r.max - r.min
           n == a \div d
<1>1. d \in Nat \ {0} /\ a \in Nat /\ r.min \in Int /\ r.max \in Int /\ r.max = r.min + a
  BY DEF IsRange
<1>2. n \in Int /\ a = d * n + (a % d) /\ a % d \in 0 .. (d - 1)
  BY <1>1
<1>3. Steps(r) = n /\ MaximumReachable(r) = r.min + n * d
  BY DEF Steps, MaximumReachable
<1> HIDE DEF a, n
<1>4. d * n = n * d /\ n * d \in Int
  BY <1>1, <1>2
<1>5. 0 <= n
  <2>1. CASE n <= -1
    <3>1. n * d <= (-1) * d
      BY <1>1, <1>2, <2>1, Monotone
    <3> QED BY <1>1, <1>2, <1>4, <3>1
  <2> QED BY <1>2, <2>1
<1>6. n * d <= a /\ 0 <= n * d
  <2>1. 0 * d <= n * d
    BY <1>1, <1>2, <1>5, Monotone
  <2> QED BY <1>1, <1>2, <1>4, <2>1
<1>7. ASSUME NEW k \in Nat, r.min + k * d <= r.max PROVE k <= n
  <2>1. CASE k >= n + 1
    <3>1. (n + 1) * d <= k * d
      BY <1>1, <1>2, <2>1, Monotone
    <3>2. (n + 1) * d = n * d + d /\ k * d \in Int
      BY <1>1, <1>2
    <3> QED BY <1>1, <1>2, <1>4, <1>7, <3>1, <3>2
  <2> QED BY <1>2, <2>1
<1>8. r.min + n * d \in Int /\ r.min <= r.min + n * d /\ r.min + n * d <= r.max
  BY <1>1, <1>4, <1>6
<1>9. Admits(r, r.min + n * d)
  BY <1>2, <1>5, <1>8, AdmitsIs
<1>10. Admits(r, r.min)
  <2>1. r.min + 0 * d = r.min /\ r.min <= r.max
    BY <1>1
  <2>2. Admits(r, r.min + 0 * d)
    BY <2>1, AdmitsIs
  <2> QED BY <2>1, <2>2
<1> QED BY <1>2, <1>3, <1>5, <1>7, <1>8, <1>9, <1>10
-----------------------------------------------------------------------------
(* The value of a range that is nearest to a preferred one *)

\* The extremes of two numbers.
LEMMA TwoOf ==
    ASSUME NEW x \in Int, NEW y \in Int
    PROVE  /\ Max({x, y}) \in {x, y} /\ Max({x, y}) >= x /\ Max({x, y}) >= y
           /\ Min({x, y}) \in {x, y} /\ Min({x, y}) <= x /\ Min({x, y}) <= y
<1>1. \E m \in {x, y} : \A z \in {x, y} : m >= z
  BY x >= y \/ y >= x
<1>2. \E m \in {x, y} : \A z \in {x, y} : m <= z
  BY x >= y \/ y >= x
<1>3. Max({x, y}) \in {x, y} /\ \A z \in {x, y} : Max({x, y}) >= z
  BY <1>1, Zenon DEF Max
<1>4. Min({x, y}) \in {x, y} /\ \A z \in {x, y} : Min({x, y}) <= z
  BY <1>2, Zenon DEF Min
<1> QED BY <1>3, <1>4

\* Rounding stays between whole steps, and leaves them alone.
LEMMA RoundedIs ==
    ASSUME NEW a \in Nat, NEW d \in Nat \ {0}, NEW n \in Nat, a <= n * d
    PROVE  /\ Rounded(a, d) \in 0 .. n
           /\ a = n * d => Rounded(a, d) = n
<1> DEFINE c == 2 * a + d
           e == 2 * d
           q == c \div e
<1>1. c \in Nat /\ e \in Nat \ {0}
  OBVIOUS
<1>2. c <= n * e + d /\ c < n * e + e
  <2>1. n * e = 2 * (n * d) /\ n * d \in Nat
    OBVIOUS
  <2> QED BY <2>1
<1>3. a = n * d => n * e <= c
  <2>1. n * e = 2 * (n * d)
    OBVIOUS
  <2> QED BY <2>1
<1>5. n * e \in Int
  BY <1>1
<1> HIDE DEF c, e
<1>4. q \in Int /\ c = e * q + (c % e) /\ c % e \in 0 .. (e - 1)
  BY <1>1
<1>6. a = n * d => q = n
  BY <1>1, <1>2, <1>3, QuotientIs
<1>7. e * q = q * e /\ q * e \in Int
  BY <1>1, <1>4
<1> HIDE DEF q
<1>8. q >= 0
  <2>1. CASE q <= -1
    <3>1. q * e <= (-1) * e
      BY <1>1, <1>4, <2>1, Monotone
    <3> QED BY <1>1, <1>4, <1>7, <3>1
  <2> QED BY <1>4, <2>1
<1>9. q <= n
  <2>1. CASE q >= n + 1
    <3>1. (n + 1) * e <= q * e
      BY <1>1, <1>4, <2>1, Monotone
    <3>2. (n + 1) * e = n * e + e
      BY <1>1
    <3> QED BY <1>1, <1>2, <1>4, <1>5, <1>7, <3>1, <3>2
  <2> QED BY <1>4, <2>1
<1> QED BY <1>4, <1>6, <1>8, <1>9 DEF Rounded, q, c, e

\* The nearest value is admitted, and is the preferred one where that is.
LEMMA RangeValueIs ==
    ASSUME NEW r, IsRange(r), r.min <= r.max, NEW p \in Int
    PROVE  /\ RangeValue(r, p) \in Int
           /\ Admits(r, RangeValue(r, p))
           /\ r.min <= RangeValue(r, p) /\ RangeValue(r, p) <= MaximumReachable(r)
           /\ Admits(r, p) => RangeValue(r, p) = p
<1> DEFINE d == r.step
           n == Steps(r)
           top == MaximumReachable(r)
           low == Max({r.min, p})
           clamped == Min({top, low})
           a == clamped - r.min
           k == Rounded(a, d)
<1>1. d \in Nat \ {0} /\ r.min \in Int /\ r.max \in Int
  BY DEF IsRange
<1>2. n \in Nat /\ top = r.min + n * d /\ top \in Int /\ top <= r.max /\ r.min <= top
  BY StepsOf
<1>3. RangeValue(r, p) = r.min + k * d
  BY DEF RangeValue
<1> HIDE DEF n, top
<1>4. low \in Int /\ low >= r.min /\ (p >= r.min => low = p)
  <2>1. low \in {r.min, p} /\ low >= r.min /\ low >= p
    BY <1>1, TwoOf, Zenon
  <2> HIDE DEF low
  <2> QED BY <1>1, <2>1
<1> HIDE DEF low
<1>5. clamped \in Int /\ clamped >= r.min /\ clamped <= top /\ (low <= top => clamped = low)
  <2>1. clamped \in {top, low} /\ clamped <= top /\ clamped <= low
    BY <1>2, <1>4, TwoOf, Zenon
  <2> HIDE DEF clamped
  <2> QED BY <1>2, <1>4, <2>1
<1> HIDE DEF clamped
<1>6. a \in Nat /\ a <= n * d /\ n * d \in Int /\ clamped = r.min + a
  BY <1>1, <1>2, <1>5
<1> HIDE DEF a
<1>7. k \in 0 .. n
  BY <1>1, <1>2, <1>6, RoundedIs
<1>8. ASSUME Admits(r, p) PROVE r.min + k * d = p
  <2>1. PICK m \in Nat : p = r.min + m * d
    BY <1>8, IsAdmitted
  <2>2. r.min <= p /\ p <= r.max
    BY <1>8 DEF Admits
  <2>3. m <= n
    BY <2>1, <2>2, StepsOf DEF n
  <2>4. m * d <= n * d /\ m * d \in Int
    BY <1>1, <1>2, <2>3, Monotone
  <2>5. clamped = p
    BY <1>1, <1>2, <1>4, <1>5, <2>1, <2>2, <2>4
  <2>6. a = m * d
    <3>1. r.min + a = r.min + m * d
      BY <1>6, <2>1, <2>5
    <3> HIDE DEF d
    <3> QED BY <1>1, <1>6, <2>4, <3>1
  <2>7. k = m
    BY <1>1, <1>6, <2>6, RoundedIs
  <2> QED BY <2>1, <2>7
<1> HIDE DEF k
<1>9. k * d <= n * d /\ k * d \in Int /\ 0 <= k * d
  <2>1. 0 * d <= k * d /\ k * d <= n * d
    BY <1>1, <1>2, <1>7, Monotone
  <2> QED BY <1>1, <1>7, <2>1
<1>10. r.min + k * d \in Int /\ r.min <= r.min + k * d /\ r.min + k * d <= top
  BY <1>1, <1>2, <1>6, <1>9
<1>11. Admits(r, r.min + k * d)
  BY <1>1, <1>2, <1>7, <1>10, AdmitsIs
<1> QED BY <1>3, <1>8, <1>10, <1>11 DEF top

\* Whole steps below and above a number
LEMMA StepsBelow ==
    ASSUME NEW a \in Int, NEW d \in Nat \ {0}
    PROVE  /\ a \div d \in Int /\ (a \div d) * d \in Int /\ (a \div d) * d <= a /\ a < (a \div d) * d + d
           /\ 0 <= a => 0 <= a \div d
<1> DEFINE q == a \div d
<1>1. q \in Int /\ a = d * q + (a % d) /\ a % d \in 0 .. (d - 1)
  OBVIOUS
<1> HIDE DEF q
<1>2. d * q = q * d /\ q * d \in Int
  BY <1>1
<1>3. q * d <= a /\ a < q * d + d
  BY <1>1, <1>2
<1>4. 0 <= a => 0 <= q
  <2> SUFFICES ASSUME 0 <= a, q <= -1 PROVE FALSE
    BY <1>1
  <2>1. q * d <= (-1) * d
    BY <1>1, Monotone
  <2> QED BY <1>2, <1>3, <2>1
<1> QED BY <1>1, <1>2, <1>3, <1>4 DEF q

\* Whole steps above a number.
LEMMA CeilingIs ==
    ASSUME NEW a \in Int, NEW d \in Nat \ {0}
    PROVE  /\ Ceiling(a, d) \in Int /\ Ceiling(a, d) * d \in Int /\ a <= Ceiling(a, d) * d
           /\ 0 <= a => 0 <= Ceiling(a, d)
           /\ \A k \in Int : a = k * d => Ceiling(a, d) = k
<1> DEFINE b == -a
           q == b \div d
           k == -q
<1>1. b \in Int /\ Ceiling(a, d) = k
  BY DEF Ceiling
<1>2. a = -b
  OBVIOUS
<1> HIDE DEF b
<1>3. q \in Int /\ q * d \in Int /\ q * d <= b /\ b < q * d + d
  BY <1>1, StepsBelow
<1>4. \A j \in Int : a = j * d => q = -j
  <2> SUFFICES ASSUME NEW j \in Int, a = j * d PROVE q = -j
    OBVIOUS
  <2>1. b = (-j) * d /\ (-j) \in Int
    BY <1>1, <1>2
  <2> QED BY <2>1, Multiple
<1> HIDE DEF q
<1>5. k * d = -(q * d) /\ k \in Int /\ k * d \in Int
  BY <1>3
<1>6. a <= k * d
  BY <1>1, <1>2, <1>3, <1>5
<1>7. 0 <= a => 0 <= k
  <2> SUFFICES ASSUME 0 <= a, k <= -1 PROVE FALSE
    BY <1>5
  <2>1. k * d <= (-1) * d
    BY <1>5, Monotone
  <2> QED BY <1>5, <1>6, <2>1
<1>8. \A j \in Int : a = j * d => k = j
  BY <1>3, <1>4
<1> HIDE DEF k
<1> QED BY <1>1, <1>5, <1>6, <1>7, <1>8

\* The nearest admitted value that is at least a minimum, where there is one
LEMMA AtLeastIs ==
    ASSUME NEW r, IsRange(r), r.min <= r.max, NEW p \in Int, NEW low \in Int,
           None \notin Int, RangeValueAtLeast(r, p, low) # None
    PROVE  /\ RangeValueAtLeast(r, p, low) \in Int
           /\ Admits(r, RangeValueAtLeast(r, p, low))
           /\ RangeValueAtLeast(r, p, low) >= low
<1> DEFINE asked == Max({p, low})
           selected == RangeValue(r, asked)
           a == low - r.min
           d == r.step
           k == Ceiling(a, d)
           candidate == r.min + k * d
<1>1. d \in Nat \ {0} /\ r.min \in Int /\ r.max \in Int /\ a \in Int
  BY DEF IsRange
<1>2. asked \in Int
  <2>1. asked \in {p, low}
    BY TwoOf, Zenon
  <2> QED BY <2>1, Zenon
<1> HIDE DEF asked
<1>3. selected \in Int /\ Admits(r, selected) /\ r.min <= selected
  BY <1>2, RangeValueIs
<1>4. MaximumReachable(r) \in Int /\ MaximumReachable(r) <= r.max
  BY StepsOf
<1>5. k \in Int /\ k * d \in Int /\ a <= k * d /\ (0 <= a => 0 <= k)
  BY <1>1, CeilingIs
<1>6. candidate \in Int /\ low <= candidate
  <2>1. low = r.min + a
    BY <1>1
  <2> HIDE DEF a, k
  <2> QED BY <1>1, <1>5, <2>1
<1>7. RangeValueAtLeast(r, p, low) = CASE selected >= low -> selected
                                       [] selected < low /\ candidate <= MaximumReachable(r) -> candidate
                                       [] OTHER -> None
  BY DEF RangeValueAtLeast, asked
<1>8. CASE selected >= low
  <2>1. RangeValueAtLeast(r, p, low) = selected
    <3> HIDE DEF selected, candidate
    <3> QED BY <1>3, <1>7, <1>8
  <2> HIDE DEF selected
  <2> QED BY <1>3, <1>8, <2>1
<1>9. CASE selected < low /\ candidate <= MaximumReachable(r)
  <2>1. RangeValueAtLeast(r, p, low) = candidate
    <3> HIDE DEF selected, candidate
    <3> QED BY <1>3, <1>7, <1>9
  <2>2. 0 <= k
    <3> HIDE DEF selected, candidate, k
    <3> QED BY <1>1, <1>3, <1>5, <1>9
  <2>3. candidate <= r.max
    <3> HIDE DEF candidate
    <3> QED BY <1>1, <1>4, <1>6, <1>9
  <2> HIDE DEF k
  <2>4. Admits(r, candidate)
    BY <1>5, <2>2, <2>3, AdmitsIs
  <2> HIDE DEF candidate
  <2> QED BY <1>6, <2>1, <2>4
<1>10. CASE ~(selected >= low) /\ ~(selected < low /\ candidate <= MaximumReachable(r))
  <2> HIDE DEF selected, candidate
  <2> QED BY <1>7, <1>10
<1> QED BY <1>8, <1>9, <1>10, Zenon

\* A value that is admitted and suffices is kept.
LEMMA AtLeastKeeps ==
    ASSUME NEW r, IsRange(r), r.min <= r.max, NEW p \in Int, NEW low \in Int, p >= low, Admits(r, p)
    PROVE  RangeValueAtLeast(r, p, low) = p
<1>1. Max({p, low}) = p
  <2>1. Max({p, low}) \in {p, low} /\ Max({p, low}) >= p
    BY TwoOf, Zenon
  <2> DEFINE m == Max({p, low})
  <2> HIDE DEF m
  <2>2. m \in {p, low} /\ m >= p
    BY <2>1 DEF m
  <2>3. m = p
    BY <2>2
  <2> QED BY <2>3 DEF m
<1>2. RangeValue(r, Max({p, low})) = p
  BY <1>1, RangeValueIs
<1> DEFINE q == RangeValue(r, Max({p, low}))
<1> HIDE DEF q
<1>3. q = p
  BY <1>2 DEF q
<1> QED BY <1>2, <1>3 DEF RangeValueAtLeast, q

\* The nearest admitted value that is at most a maximum, where there is one.
LEMMA AtMostIs ==
    ASSUME NEW r, IsRange(r), r.min <= r.max, NEW p \in Int, NEW high \in Int,
           None \notin Int, RangeValueAtMost(r, p, high) # None
    PROVE  /\ RangeValueAtMost(r, p, high) \in Int
           /\ Admits(r, RangeValueAtMost(r, p, high))
           /\ RangeValueAtMost(r, p, high) <= high
<1> DEFINE asked == Min({p, high})
           selected == RangeValue(r, asked)
           a == high - r.min
           d == r.step
           k == a \div d
           candidate == r.min + k * d
<1>1. d \in Nat \ {0} /\ r.min \in Int /\ r.max \in Int /\ a \in Int
  BY DEF IsRange
<1>2. asked \in Int
  <2>1. asked \in {p, high}
    BY TwoOf, Zenon
  <2> QED BY <2>1, Zenon
<1> HIDE DEF asked
<1>3. selected \in Int /\ Admits(r, selected) /\ selected <= r.max
  BY <1>2, RangeValueIs DEF Admits
<1>5. k \in Int /\ k * d \in Int /\ k * d <= a
  BY <1>1, StepsBelow
<1>6. candidate \in Int /\ candidate <= high
  <2>1. high = r.min + a
    BY <1>1
  <2> HIDE DEF a, k
  <2> QED BY <1>1, <1>5, <2>1
<1>7. RangeValueAtMost(r, p, high) = CASE selected <= high -> selected
                                       [] selected > high /\ candidate >= r.min -> candidate
                                       [] OTHER -> None
  BY DEF RangeValueAtMost, asked
<1>8. CASE selected <= high
  <2>1. RangeValueAtMost(r, p, high) = selected
    <3> HIDE DEF selected, candidate
    <3> QED BY <1>3, <1>7, <1>8
  <2> HIDE DEF selected
  <2> QED BY <1>3, <1>8, <2>1
<1>9. CASE selected > high /\ candidate >= r.min
  <2>1. RangeValueAtMost(r, p, high) = candidate
    <3> HIDE DEF selected, candidate
    <3> QED BY <1>3, <1>7, <1>9
  <2>2. 0 <= k
    <3> SUFFICES ASSUME k <= -1 PROVE FALSE
      <4> HIDE DEF k
      <4> QED BY <1>5
    <3> HIDE DEF k
    <3>1. k * d <= (-1) * d
      BY <1>1, <1>5, Monotone
    <3> QED BY <1>1, <1>5, <1>9, <3>1
  <2>3. candidate <= r.max
    <3> HIDE DEF candidate, selected
    <3> QED BY <1>1, <1>3, <1>6, <1>9
  <2> HIDE DEF k
  <2>4. Admits(r, candidate)
    BY <1>5, <2>2, <2>3, AdmitsIs
  <2> HIDE DEF candidate
  <2> QED BY <1>6, <2>1, <2>4
<1>10. CASE ~(selected <= high) /\ ~(selected > high /\ candidate >= r.min)
  <2> HIDE DEF selected, candidate
  <2> QED BY <1>7, <1>10
<1> QED BY <1>8, <1>9, <1>10, Zenon

\* An admitted value that is small enough is kept.
LEMMA AtMostKeeps ==
    ASSUME NEW r, IsRange(r), r.min <= r.max, NEW p \in Int, NEW high \in Int, p <= high, Admits(r, p)
    PROVE  RangeValueAtMost(r, p, high) = p
<1>1. Min({p, high}) = p
  <2>1. Min({p, high}) \in {p, high} /\ Min({p, high}) <= p
    BY TwoOf, Zenon
  <2> DEFINE m == Min({p, high})
  <2> HIDE DEF m
  <2>2. m \in {p, high} /\ m <= p
    BY <2>1 DEF m
  <2>3. m = p
    BY <2>2
  <2> QED BY <2>3 DEF m
<1>2. RangeValue(r, Min({p, high})) = p
  BY <1>1, RangeValueIs
<1> DEFINE q == RangeValue(r, Min({p, high}))
<1> HIDE DEF q
<1>3. q = p
  BY <1>2 DEF q
<1> QED BY <1>2, <1>3 DEF RangeValueAtMost, q

-----------------------------------------------------------------------------
(* Sound settings *)

\* What is configured was admitted, and so was what the source is set to: they
\* are what an automatic setting keeps.
SweepIsSound(conf) == conf.kind = "sweep" =>
    /\ {"start", "stop"} \subseteq DOMAIN conf
    /\ conf.start # None /\ Admits(caps.frequency, conf.start)
    /\ conf.stop # None /\ Admits(caps.frequency, conf.stop)
    /\ conf.start < conf.stop

SourceIsSound(source) == source = Nothing \/
    /\ DOMAIN source = {"frequency", "path", "modulation", "rate"}
    /\ source.path \in DOMAIN caps.paths /\ Admits(caps.paths[source.path], source.frequency)
    /\ source.modulation \in Modulations(caps)
    /\ DOMAIN caps.rates # {} => Admits(RatesFor(caps, source.modulation), source.rate)

SessionIsSound ==
    /\ driver = "tinysa" => SweepIsSound(session.configuration) /\ SourceIsSound(session.source)
    /\ driver = "signallab" => session.status.pinned \in Lab!Widths \cup {None}

TargetIsSound(target) ==
    /\ driver = "tinysa" /\ ~IsFeature(target) => SweepIsSound(target)
    /\ driver = "tinysa" /\ Generates(target) => SourceIsSound(GeneratorConfiguration(target))
    /\ driver = "signallab" /\ IsFeature(target) /\ target.action = "configure-custom-waveform" =>
          target.value \in Lab!Widths \cup {None}

SettingsInv == unit \in DOMAIN Units /\ SessionIsSound /\ (command # NoCommand => TargetIsSound(command.target))

\* A sweep is asked for between two frequencies.
Between(op, intents) ==
    driver = "tinysa" /\ op = SweepOp => \A n \in {"start", "stop"} : IsManual(intents[n]) => intents[n].value # None

-----------------------------------------------------------------------------
(* Sources *)

\* The rates of a source are those of its modulations together, and admit the
\* rate it starts with.
LEMMA SourceRatesAre ==
    ASSUME NEW c, AdvertisesTinySa(c), c.rf, DOMAIN c.rates # {}
    PROVE  /\ SourceRates(c).min \in Int /\ SourceRates(c).max \in Int /\ SourceRates(c).step = 1
           /\ SourceRates(c).min <= DefaultRate /\ DefaultRate <= SourceRates(c).max
           /\ Admits(SourceRates(c), DefaultRate) /\ Admits(SourceRates(c), SourceRates(c).min)
<1> DEFINE ranges == {c.rates[m] : m \in DOMAIN c.rates}
           lows == {r.min : r \in ranges}
           highs == {r.max : r \in ranges}
<1>1. /\ DOMAIN c.rates \in {{"am"}, {"fm"}, {"am", "fm"}}
      /\ \A m \in DOMAIN c.rates : IsSpan(c.rates[m]) /\ Admits(c.rates[m], DefaultRate)
  BY DEF AdvertisesTinySa
<1>2. \A m \in DOMAIN c.rates : /\ c.rates[m].min \in Int /\ c.rates[m].max \in Int
                                /\ c.rates[m].min <= DefaultRate /\ DefaultRate <= c.rates[m].max
  BY <1>1 DEF IsSpan, IsRange, Admits
<1>3. \E x, y \in ranges : ranges = {x, y}
  BY <1>1
<1>4. \A r \in ranges : r.min \in Int /\ r.max \in Int /\ r.min <= DefaultRate /\ DefaultRate <= r.max
  BY <1>2
<1> HIDE DEF ranges
<1>5. PICK x \in ranges, y \in ranges : ranges = {x, y}
  BY <1>3
<1>6. lows = {x.min, y.min} /\ highs = {x.max, y.max}
  BY <1>5
<1>7. \A v \in lows \cup highs : v \in Int
  BY <1>4
<1>8. \A v \in lows : v <= DefaultRate
  BY <1>4
<1>9. \A v \in highs : DefaultRate <= v
  BY <1>4
<1> HIDE DEF lows, highs
<1>10. \E v \in lows : \A w \in lows : v <= w
  <2>1. x.min <= y.min \/ y.min <= x.min
    BY <1>6, <1>7
  <2> QED BY <1>6, <1>7, <2>1
<1>11. \E v \in highs : \A w \in highs : v >= w
  <2>1. x.max <= y.max \/ y.max <= x.max
    BY <1>6, <1>7
  <2> QED BY <1>6, <1>7, <2>1
<1> DEFINE low == CHOOSE v \in lows : \A r \in ranges : v <= r.min
           high == CHOOSE v \in highs : \A r \in ranges : v >= r.max
<1>12. low \in lows
  <2>1. \E v \in lows : \A r \in ranges : v <= r.min
    BY <1>10 DEF lows
  <2> QED BY <2>1, Zenon
<1>13. high \in highs
  <2>1. \E v \in highs : \A r \in ranges : v >= r.max
    BY <1>11 DEF highs
  <2> QED BY <2>1, Zenon
<1>14. SourceRates(c) = [min |-> low, max |-> high, step |-> 1]
  BY Zenon DEF SourceRates, Hull, ranges, lows, highs
<1> HIDE DEF low, high
<1>15. low \in Int /\ high \in Int /\ low <= DefaultRate /\ DefaultRate <= high
  BY <1>7, <1>8, <1>9, <1>12, <1>13
<1>16. \A v \in Int : v % 1 = 0
  OBVIOUS
<1>17. DefaultRate \in Int /\ DefaultRate - low \in Int /\ low - low \in Int
  BY <1>15 DEF DefaultRate
<1>18. low <= high
  BY <1>15, <1>17
<1> QED
  BY <1>14, <1>15, <1>16, <1>17, <1>18 DEF Admits

\* The TinySA one is connected to advertises what its driver promises.
LEMMA TinySaIs ==
    ASSUME driver = "tinysa", unit \in DOMAIN Units
    PROVE  AdvertisesTinySa(caps)
BY UnitsAssumption DEF driver, caps

\* What a source is asked to generate can be kept.
LEMMA SourceResolvesSound ==
    ASSUME driver = "tinysa", unit \in DOMAIN Units, caps.rf, SourceIsSound(session.source), NEW intents,
           NEW target \in ResolvedSource(caps, session, intents)
    PROVE  SourceIsSound(GeneratorConfiguration(target))
<1> DEFINE automatic == AutomaticSource(caps)
           path == Resolve(intents["path"], Kept(session.source, "path", automatic.path))
           modulation == Resolve(intents["modulation"], Kept(session.source, "modulation", automatic.modulation))
           frequency == Resolve(intents["frequency"], Kept(session.source, "frequency", caps.paths[path].min))
           rate == IF "rate" \in SourceNames(caps)
                   THEN Resolve(intents["rate"], Kept(session.source, "rate", RatesFor(caps, modulation).min))
                   ELSE automatic.rate
<1>1. /\ ResolvesOption(intents["path"], DOMAIN caps.paths)
      /\ ResolvesOption(intents["modulation"], Modulations(caps))
      /\ Admits(caps.paths[path], frequency)
      /\ "rate" \in SourceNames(caps) => Admits(RatesFor(caps, modulation), rate)
      /\ target = [action |-> "configure", path |-> path, frequency |-> frequency, modulation |-> modulation,
                   rate |-> IF modulation = "off" THEN None ELSE rate]
  BY Zenon DEF ResolvedSource
<1>2. "rate" \in SourceNames(caps) <=> DOMAIN caps.rates # {}
  BY DEF SourceNames
<1>3. AdvertisesTinySa(caps)
  BY TinySaIs
<1>4. path \in DOMAIN caps.paths
  <2>1. automatic.path = "normal" /\ "normal" \in DOMAIN caps.paths
    BY <1>3 DEF AutomaticSource, AdvertisesTinySa
  <2>2. Kept(session.source, "path", automatic.path) \in DOMAIN caps.paths
    BY <2>1 DEF Kept, SourceIsSound, Nothing
  <2> QED BY <1>1, <2>2 DEF Resolve, ResolvesOption
<1>5. modulation \in Modulations(caps)
  <2>1. automatic.modulation = "off" /\ "off" \in Modulations(caps)
    BY DEF AutomaticSource, Modulations
  <2>2. Kept(session.source, "modulation", automatic.modulation) \in Modulations(caps)
    BY <2>1 DEF Kept, SourceIsSound, Nothing
  <2> QED BY <1>1, <2>2 DEF Resolve, ResolvesOption
<1> HIDE DEF path, modulation, frequency, rate
<1> DEFINE g == GeneratorConfiguration(target)
<1>6. g = [frequency |-> frequency, path |-> path, modulation |-> modulation,
           rate |-> IF modulation = "off" THEN DefaultRate ELSE rate]
  BY <1>1 DEF GeneratorConfiguration
<1>7. DOMAIN caps.rates # {} => Admits(RatesFor(caps, g.modulation), g.rate)
  BY <1>1, <1>2, <1>3, <1>6, SourceRatesAre DEF RatesFor
<1> HIDE DEF g
<1> QED
  BY <1>1, <1>4, <1>5, <1>6, <1>7 DEF SourceIsSound, g

\* A sweep too.
LEMMA SweepResolvesSound ==
    ASSUME driver = "tinysa", unit \in DOMAIN Units, NEW intents, Between(SweepOp, intents),
           NEW target \in ResolvedSweep(caps, session, intents)
    PROVE  SweepIsSound(target)
<1> DEFINE current == CurrentReceiver(session, "sweep")
           effective == EffectiveSweep(caps, current)
<1>1. PICK t \in ResolvedTrigger(caps, current, intents) :
         /\ target = [kind |-> "sweep", start |-> Resolve(intents["start"], effective.start),
                      stop |-> Resolve(intents["stop"], effective.stop), trigger |-> t.trigger, level |-> t.level]
         /\ ReceiverBinds(caps, target)
  BY DEF ResolvedSweep
<1>2. IsSpan(caps.frequency)
  BY TinySaIs DEF AdvertisesTinySa
<1>3. caps.frequency.min # None /\ MaximumReachable(caps.frequency) # None
  BY <1>2, ReachableIsInt, NoneAssumption DEF IsSpan, IsRange
<1>4. effective.start # None /\ effective.stop # None
  BY <1>3 DEF EffectiveSweep, EffectiveNumber
<1> HIDE DEF effective
<1>5. target.start # None /\ target.stop # None
  BY <1>1, <1>4 DEF Resolve, Between
<1>6. Admits(caps.frequency, target.start) /\ Admits(caps.frequency, target.stop) /\ target.start < target.stop
  BY <1>1 DEF ReceiverBinds
<1>7. {"start", "stop"} \subseteq DOMAIN target
  BY <1>1
<1> QED
  BY <1>5, <1>6, <1>7 DEF SweepIsSound

\* So is whatever an operation resolves to.
LEMMA ResolvesSound ==
    ASSUME SessionShape, unit \in DOMAIN Units, SessionIsSound, NEW op \in Operations, NEW intents,
           DOMAIN intents = Names(op), Between(op, intents), NEW target \in Resolved(op, intents)
    PROVE  TargetIsSound(target)
<1>1. CASE driver = "tinysa"
  <2> USE DEF SweepOp, PowerOp, SourceOp, OutputOp
  <2>1. op \in TinySaOperations(caps) /\ target \in TinySaResolved(caps, session, op, intents)
    BY <1>1 DEF Operations, Resolved
  <2>2. CASE op = SweepOp
    <3>1. target \in ResolvedSweep(caps, session, intents)
      BY <2>1, <2>2 DEF TinySaResolved
    <3>2. ~IsFeature(target)
      BY <3>1 DEF ResolvedSweep, IsFeature
    <3>3. SweepIsSound(target)
      BY <1>1, <2>2, <3>1, SweepResolvesSound
    <3> QED BY <1>1, <3>2, <3>3 DEF TargetIsSound, Generates
  <2>3. CASE op = PowerOp
    <3>1. target \in ResolvedPower(caps, session, intents)
      BY <2>1, <2>3 DEF TinySaResolved
    <3>2. ~IsFeature(target) /\ target.kind = "power"
      BY <3>1 DEF ResolvedPower, IsFeature
    <3> QED BY <1>1, <3>2 DEF TargetIsSound, Generates, SweepIsSound
  <2>4. CASE op = SourceOp
    <3>1. target \in ResolvedSource(caps, session, intents) /\ caps.rf
      BY <2>1, <2>4 DEF TinySaResolved, TinySaOperations
    <3>2. IsFeature(target)
      BY <3>1 DEF ResolvedSource, IsFeature
    <3>3. SourceIsSound(GeneratorConfiguration(target))
      BY <1>1, <3>1, SourceResolvesSound DEF SessionIsSound
    <3> QED BY <1>1, <3>2, <3>3 DEF TargetIsSound
  <2>5. CASE op = OutputOp
    <3>1. target \in ResolvedOutput(intents)
      BY <2>1, <2>5 DEF TinySaResolved
    <3>2. IsFeature(target) /\ target.action = "set-output"
      BY <3>1 DEF ResolvedOutput, IsFeature
    <3> QED BY <1>1, <3>2 DEF TargetIsSound, Generates
  <2> QED BY <2>1, <2>2, <2>3, <2>4, <2>5 DEF TinySaOperations
<1>2. CASE driver = "neptune"
  BY <1>2 DEF TargetIsSound
<1>3. CASE driver = "signallab"
  <2> USE DEF Lab!SpectrumOp, Lab!ObserveOp, Lab!CaptureIqOp, Lab!ProfileOp, Lab!ChannelOp, Lab!WaveformOp
  <2>0. target \in Lab!ResolvedLab(caps, session, op, intents)
    BY <1>3 DEF Resolved
  <2>1. CASE op \in {Lab!SpectrumOp, Lab!ObserveOp, Lab!CaptureIqOp}
    <3>1. "action" \notin DOMAIN target
      BY <2>0, <2>1 DEF Lab!ResolvedLab
    <3> QED BY <1>3, <3>1 DEF TargetIsSound, IsFeature
  <2>2. CASE op \in {Lab!ProfileOp, Lab!ChannelOp}
    <3>1. target.action \in {"select-profile", "configure-channel"}
      BY <2>0, <2>2 DEF Lab!ResolvedLab
    <3> QED BY <1>3, <3>1 DEF TargetIsSound
  <2>3. CASE op = Lab!WaveformOp
    <3>1. "width" \in DOMAIN intents
      BY <1>3, <2>3 DEF Names
    <3>2. target.value = Lab!Resolve(intents["width"], None)
      BY <2>0, <2>3 DEF Lab!ResolvedLab
    <3>3. Lab!IsManual(intents["width"]) => intents["width"].value \in Lab!Offered(Lab!LabDomain(caps, op, "width"))
      BY <2>0, <3>1 DEF Lab!ResolvedLab
    <3>4. Lab!LabDomain(caps, op, "width") = Lab!OneOf(Lab!Widths)
      BY <2>3 DEF Lab!LabDomain
    <3> QED BY <1>3, <3>2, <3>3, <3>4 DEF TargetIsSound, Lab!Resolve, Lab!Offered, Lab!OneOf
  <2> QED BY <1>3, <2>1, <2>2, <2>3 DEF Operations
<1> QED BY <1>1, <1>2, <1>3 DEF SessionShape

-----------------------------------------------------------------------------
(* Settings stay sound *)

\* Settings stay sound when the session and the command that follow are.
LEMMA SoundStays ==
    ASSUME SettingsInv, unit' = unit,
           driver = "tinysa" => SweepIsSound(session'.configuration) /\ SourceIsSound(session'.source),
           driver = "signallab" => session'.status.pinned \in Lab!Widths \cup {None},
           command' # NoCommand => TargetIsSound(command'.target)
    PROVE  SettingsInv'
<1>1. driver' = driver /\ caps' = caps
  BY DEF driver, caps
<1>2. SessionIsSound'
  BY <1>1 DEF SessionIsSound, SweepIsSound, SourceIsSound
<1>4. command' # NoCommand => TargetIsSound(command.target)'
  BY <1>1 DEF TargetIsSound, SweepIsSound, SourceIsSound
<1> QED
  BY <1>2, <1>4 DEF SettingsInv

\* There is nothing to keep of no configuration.
LEMMA NoSweepIsSound == SweepIsSound(NoConfiguration)
BY DEF SweepIsSound, NoConfiguration

\* A session that moved only in what is staged, or lost its configuration.
LEMMA LikeIsSound ==
    ASSUME SettingsInv, SessionShape, unit' = unit, NEW s, Like(s),
           session' = s \/ (driver = "tinysa" /\ session' = ClearConfiguration(s)),
           command' # NoCommand => TargetIsSound(command'.target)
    PROVE  SettingsInv'
<1>1. driver = "tinysa" => /\ session'.configuration \in {session.configuration, NoConfiguration}
                           /\ session'.source = session.source
  BY DEF Like, ClearConfiguration, Bump, SessionShape
<1>2. driver = "signallab" => session'.status = session.status
  BY DEF Like
<1> QED
  BY <1>1, <1>2, NoSweepIsSound, SoundStays DEF SettingsInv, SessionIsSound

\* A sound target is dispatched as a sound command.
LEMMA DispatchIsSound ==
    ASSUME SettingsInv, SessionShape, command = NoCommand, unit' = unit, NEW s, Like(s), NEW c, IsCommand(c),
           TargetIsSound(c.target), Dispatch(s, c)
    PROVE  SettingsInv'
<1> DEFINE target == c.target
<1>1. CASE driver # "signallab"
  <2>1. session' = Begun(s, target) /\ command' = c
    BY <1>1 DEF Dispatch
  <2>2. CASE driver = "tinysa"
    <3>1. session' = s \/ session' = ClearConfiguration(s)
      BY <2>1, <2>2 DEF Begun
    <3> QED BY <2>1, <2>2, <3>1, LikeIsSound
  <2>3. CASE driver = "neptune"
    BY <2>1, <2>3, SoundStays
  <2> QED BY <1>1, <2>2, <2>3 DEF SessionShape
<1>2. CASE driver = "signallab" /\ ~IsFeature(target)
  <2>1. session' \in {s, Bound(s, target)} /\ command' = NoCommand
    BY <1>2 DEF Dispatch, LabConfigures
  <2>2. session'.status = session.status
    <3>1. DOMAIN s = DOMAIN session /\ s.status = session.status
      BY <1>2 DEF Like
    <3>2. Bound(s, target).status = s.status
      BY <1>2, <3>1 DEF Bound, SessionShape
    <3> QED BY <2>1, <3>1, <3>2
  <2> QED BY <1>2, <2>1, <2>2, SoundStays DEF SettingsInv, SessionIsSound
<1>3. CASE driver = "signallab" /\ IsFeature(target)
  <2> DEFINE next == Lab!LabFeatureAccepted(s, target)
             refused == Lab!LabFeatureRefused(s, target)
             served == Lab!Served(session.status, target)
  <2>1. session' \in {next, refused} /\ command' = NoCommand
    BY <1>3 DEF Dispatch, LabExecutes, LabRefuses
  <2>2. DOMAIN s = DOMAIN session /\ s.status = session.status
    BY <1>3 DEF Like
  <2>3. DOMAIN session = {"status", "configuration", "revision", "intents", "pending"}
    BY <1>3 DEF SessionShape
  <2>4. next.status = served
    BY <2>2, <2>3 DEF Lab!LabFeatureAccepted
  <2>5. refused.status = session.status
    BY <2>2, <2>3 DEF Lab!LabFeatureRefused
  <2>6. target.action \in LabActions /\ (target.action = "select-profile" => target.value \in DOMAIN caps.profiles)
    BY <1>3 DEF IsCommand, TargetShape
  <2>7. /\ DOMAIN session.status = {"profile", "channel", "pinned", "epoch"} /\ session.status.epoch \in Nat
        /\ session.status.profile \in DOMAIN caps.profiles /\ session.status.pinned \in Lab!Widths \cup {None}
    BY <1>3 DEF SessionShape, SettingsInv, SessionIsSound
  <2>8. /\ target.action # "configure-custom-waveform" => served.pinned = session.status.pinned
        /\ target.action = "configure-custom-waveform" => served.pinned = target.value
    <3>1. /\ target.action = "select-profile" => served.pinned = session.status.pinned
          /\ target.action = "configure-channel" => served.pinned = session.status.pinned
          /\ target.action = "configure-custom-waveform" => served.pinned = target.value
      BY <2>6, <2>7, ServedIs
    <3> HIDE DEF served
    <3> QED BY <2>6, <3>1 DEF LabActions
  <2>9. target.action = "configure-custom-waveform" => target.value \in Lab!Widths \cup {None}
    BY <1>3 DEF TargetIsSound
  <2> HIDE DEF next, refused, served
  <2> QED BY <1>3, <2>1, <2>4, <2>5, <2>7, <2>8, <2>9, SoundStays
<1> QED
  BY <1>1, <1>2, <1>3

\* What fits an operation asks for a sweep between two frequencies.
LEMMA FitIsBetween ==
    ASSUME NEW op, NEW intents, DOMAIN intents = Names(op), Fits(op, intents)
    PROVE  Between(op, intents)
<1> SUFFICES ASSUME driver = "tinysa", op = SweepOp, NEW n \in {"start", "stop"}, IsManual(intents[n])
             PROVE  intents[n].value # None
  BY DEF Between
<1>1. n \in DOMAIN intents
  BY DEF Names, SweepOp, PowerOp, SourceOp, OutputOp
<1> QED
  BY <1>1 DEF Fits, Fit

\* The panel's request, resolved and dispatched, leaves the settings sound.
LEMMA AdmitIsSound == SurfaceInv /\ HonestInv /\ SettingsInv /\ Admit => SettingsInv'
<1> SUFFICES ASSUME SurfaceInv, HonestInv, SettingsInv, Admit PROVE SettingsInv'
  OBVIOUS
<1>0. command = NoCommand /\ unit' = unit /\ SessionShape /\ Like(session)
  BY StagedIsLike DEF Admit, SurfaceInv
<1> DEFINE op == request.operation
           intents == request.intents
<1>1. /\ op \in Operations /\ DOMAIN intents = Names(op) /\ Between(op, intents)
  BY FitIsBetween DEF PanelShape, Admit, NoRequest, SurfaceInv, HonestInv, FitInv
<1>2. ASSUME NEW s, Like(s), Refuse(s) PROVE SettingsInv'
  BY <1>0, <1>2, LikeIsSound DEF Refuse
<1> DEFINE stale == \/ manager.fault
                    \/ request.revision # Surface.revision
                    \/ op \notin DOMAIN Surface.parameters
           resolved == IF stale THEN {} ELSE Resolved(op, intents)
<1>3. ASSUME NEW target \in resolved,
             LET staged == Staged(op, intents, target)
             IN  IF MayDispatch(target)
                 THEN Dispatch(staged, Command(target, IF IsFeature(target) THEN None ELSE op, intents, "panel"))
                 ELSE Refuse(staged)
      PROVE  SettingsInv'
  <2>1. target \in Resolved(op, intents)
    BY <1>3
  <2>2. TargetShape(target) /\ TargetIsSound(target)
    BY <1>0, <1>1, <2>1, Resolves, ResolvesSound DEF SettingsInv
  <2> DEFINE operation == IF IsFeature(target) THEN None ELSE op
             c == Command(target, operation, intents, "panel")
             s == Staged(op, intents, target)
  <2>3. IsCommand(c) /\ c.target = target
    BY <2>2, CommandIs
  <2>4. Like(s)
    BY <1>0, StagedIsLike
  <2>5. MayDispatch(target) => Dispatch(s, c)
    BY <1>3
  <2>6. ~MayDispatch(target) => Refuse(s)
    BY <1>3
  <2> HIDE DEF c, s
  <2> QED
    BY <1>0, <1>2, <2>2, <2>3, <2>4, <2>5, <2>6, DispatchIsSound
<1> QED
  BY <1>0, <1>2, <1>3 DEF Admit

\* The manager's view leaves the domains as they are.
LEMMA DomainsStay ==
    ASSUME SessionShape, NEW op \in DOMAIN Surface.parameters, NEW n \in DOMAIN Surface.parameters[op]
    PROVE  Surface.parameters[op][n].domain = DriverSurface.parameters[op][n].domain
<1> DEFINE before == DriverSurface
           o == manager.overlay
<1>1. DOMAIN before = {"revision", "parameters"}
  BY SettingsAre DEF Settings
<1>2. Surface = IF o = NoOverlay THEN before
                ELSE [before EXCEPT !.parameters[o.operation] = [m \in DOMAIN @ |-> [@[m] EXCEPT !.requested = o.intents[m]]]]
  BY DEF Surface
<1>3. \A p \in DOMAIN before.parameters : \A m \in DOMAIN before.parameters[p] :
         DOMAIN before.parameters[p][m] = {"domain", "requested", "effective"}
  BY SettingsAre DEF Settings
<1> HIDE DEF before, o
<1>4. CASE o = NoOverlay
  BY <1>2, <1>4 DEF before
<1>5. CASE o # NoOverlay
  <2>1. Surface.parameters = [before.parameters EXCEPT ![o.operation] =
                                 [m \in DOMAIN @ |-> [@[m] EXCEPT !.requested = o.intents[m]]]]
    BY <1>1, <1>2, <1>5
  <2>2. op \in DOMAIN before.parameters
    BY <2>1
  <2>3. CASE op # o.operation
    BY <2>1, <2>2, <2>3 DEF before
  <2>4. CASE op = o.operation
    <3>1. Surface.parameters[op] = [m \in DOMAIN before.parameters[op] |->
                                       [before.parameters[op][m] EXCEPT !.requested = o.intents[m]]]
      BY <2>1, <2>2, <2>4
    <3>2. n \in DOMAIN before.parameters[op]
      BY <3>1
    <3>3. Surface.parameters[op][n] = [before.parameters[op][n] EXCEPT !.requested = o.intents[n]]
      BY <3>1, <3>2
    <3> QED BY <3>3 DEF before
  <2> QED BY <2>3, <2>4
<1> QED BY <1>4, <1>5

\* What the other callers ask for does too.
LEMMA OthersAreBetween ==
    ASSUME SessionShape, NEW op \in DOMAIN Surface.parameters, NEW intents \in OtherIntents(Surface.parameters[op])
    PROVE  DOMAIN intents = Names(op) /\ Between(op, intents)
<1> DEFINE settings == Surface.parameters[op]
<1>1. DOMAIN settings = Names(op) /\ op \in Operations
  BY SurfaceIs DEF WellFormed
<1>2. \/ intents = AllAuto(settings)
      \/ \E n \in {m \in DOMAIN settings : settings[m].domain.kind = "enum"} : \E v : intents = [AllAuto(settings) EXCEPT ![n] = Manual(v)]
  <2> HIDE DEF settings
  <2> SUFFICES ASSUME NEW is \in OtherIntents(settings)
               PROVE  \/ is = AllAuto(settings)
                      \/ \E n \in {m \in DOMAIN settings : settings[m].domain.kind = "enum"} : \E v : is = [AllAuto(settings) EXCEPT ![n] = Manual(v)]
    BY DEF settings
  <2> DEFINE choices == {m \in DOMAIN settings : settings[m].domain.kind = "enum"}
             Of(n) == {[AllAuto(settings) EXCEPT ![n] = Manual(v)] : v \in settings[n].domain.options}
             All == {Of(n) : n \in choices}
  <2>1. is \in {AllAuto(settings)} \cup UNION All
    BY Zenon DEF OtherIntents
  <2>2. \A X \in All : \E n \in choices : X = Of(n)
    BY Zenon
  <2>3. \A n : \A i \in Of(n) : \E v : i = [AllAuto(settings) EXCEPT ![n] = Manual(v)]
    BY Zenon
  <2> HIDE DEF choices, Of, All
  <2>4. is = AllAuto(settings) \/ \E n \in choices : \E v : is = [AllAuto(settings) EXCEPT ![n] = Manual(v)]
    BY <2>1, <2>2, <2>3
  <2> QED BY <2>4 DEF choices
<1>3. DOMAIN intents = DOMAIN settings
  BY <1>2 DEF AllAuto
<1>4. ASSUME driver = "tinysa", op = SweepOp, NEW n \in {"start", "stop"}
      PROVE  ~IsManual(intents[n])
  <2>1. n \in DOMAIN settings
    BY <1>1, <1>4 DEF Names, SweepOp, PowerOp, SourceOp, OutputOp
  <2>2. settings[n].domain = DriverSurface.parameters[op][n].domain
    BY <2>1, DomainsStay
  <2>3. DriverSurface.parameters[op] = TinySaParameters(caps, session, op)
    BY <1>1, <1>4 DEF DriverSurface, TinySaSurface, Operations
  <2>4. TinySaParameters(caps, session, op) = Joined(SweepParameters(caps, CurrentReceiver(session, "sweep")),
                                                     TriggerParameters(caps, CurrentReceiver(session, "sweep")))
    BY <1>4 DEF TinySaParameters, SweepOp, PowerOp, SourceOp, OutputOp
  <2>5. DriverSurface.parameters[op][n].domain = Numeric(caps.frequency)
    BY <2>3, <2>4 DEF Joined, SweepParameters, Parameter
  <2>6. settings[n].domain.kind # "enum"
    BY <2>2, <2>5 DEF Numeric
  <2> HIDE DEF settings
  <2>7. intents[n] = AutoIntent
    BY <1>2, <2>1, <2>6 DEF AllAuto
  <2> QED BY <2>7 DEF IsManual, AutoIntent
<1> QED
  BY <1>1, <1>3, <1>4 DEF Between

\* Another caller's command leaves the settings sound.
LEMMA OtherIsSound == SurfaceInv /\ SettingsInv /\ Other => SettingsInv'
<1> SUFFICES ASSUME SurfaceInv, SettingsInv, Other PROVE SettingsInv'
  OBVIOUS
<1>0. command = NoCommand /\ unit' = unit /\ SessionShape /\ Like(session)
  BY StagedIsLike DEF Other, SurfaceInv
<1>1. PICK target \in OtherTargets : Dispatch(session, Command(target, None, None, "other"))
  BY DEF Other
<1>2. TargetShape(target)
  BY <1>0, <1>1, OthersAreShaped
<1>3. TargetIsSound(target)
  <2>1. CASE driver = "tinysa" /\ target = [action |-> "touch"]
    BY <2>1 DEF TargetIsSound, IsFeature, Generates
  <2>2. ASSUME NEW op \in DOMAIN Surface.parameters, NEW intents \in OtherIntents(Surface.parameters[op]),
               target \in Resolved(op, intents)
        PROVE  TargetIsSound(target)
    <3>1. op \in Operations
      BY <1>0, SurfaceIs DEF WellFormed
    <3>2. DOMAIN intents = Names(op) /\ Between(op, intents)
      BY <1>0, OthersAreBetween
    <3> QED BY <1>0, <2>2, <3>1, <3>2, ResolvesSound DEF SettingsInv
  <2> QED BY <2>1, <2>2, OthersAre
<1> DEFINE c == Command(target, None, None, "other")
<1>4. IsCommand(c) /\ c.target = target
  BY <1>2, CommandIs
<1>5. Dispatch(session, c)
  BY <1>1
<1> HIDE DEF c
<1> QED
  BY <1>0, <1>3, <1>4, <1>5, DispatchIsSound

\* Switching the output off sets nothing.
LEMMA OffIsSound == TargetIsSound(OutputOff)
BY DEF TargetIsSound, OutputOff, IsFeature, Generates

\* What the device accepts is what the command was to set.
LEMMA SourceAccepted ==
    ASSUME driver = "tinysa", SessionShape, NEW target, target.action \in {"configure", "set-output"}
    PROVE  LET s == FeatureAccepted(session, target)
           IN  /\ s.configuration = session.configuration
               /\ s.source = IF target.action = "configure" THEN GeneratorConfiguration(target) ELSE session.source
<1> DEFINE ours == session.pending.feature = target
           fed == IF ours THEN [session EXCEPT !.pending = NoFeature] ELSE session
           s == CommitSource(session, target)
<1>1. DOMAIN session = {"configuration", "source", "sourceIntents", "output", "outputIntent", "pending", "epoch"}
  BY DEF SessionShape
<1>2. DOMAIN fed = DOMAIN session /\ fed.configuration = session.configuration /\ fed.source = session.source
  BY <1>1
<1>3. CASE target.action = "configure"
  <2>1. PICK intents : s = [fed EXCEPT !.source = GeneratorConfiguration(target), !.sourceIntents = intents]
    BY <1>3 DEF CommitSource
  <2> HIDE DEF fed, s
  <2>2. DOMAIN s = DOMAIN session /\ s.configuration = session.configuration /\ s.source = GeneratorConfiguration(target)
    BY <1>1, <1>2, <2>1
  <2> QED
    BY <1>1, <1>3, <2>2 DEF FeatureAccepted, Bump, s
<1>4. CASE target.action = "set-output"
  <2>1. PICK intent : s = [fed EXCEPT !.output = target.enabled, !.outputIntent = intent]
    BY <1>4 DEF CommitSource
  <2> HIDE DEF fed, s
  <2>2. DOMAIN s = DOMAIN session /\ s.configuration = session.configuration /\ s.source = session.source
    BY <1>1, <1>2, <2>1
  <2> QED
    BY <1>1, <1>4, <2>2 DEF FeatureAccepted, Bump, s
<1> QED
  BY <1>3, <1>4

\* So do the answers of the device.
LEMMA DeviceAcceptsIsSound == SurfaceInv /\ SettingsInv /\ DeviceAccepts => SettingsInv'
<1> SUFFICES ASSUME SurfaceInv, SettingsInv, DeviceAccepts PROVE SettingsInv'
  OBVIOUS
<1> DEFINE target == command.target
<1>0. /\ unit' = unit /\ command.stage = "device" /\ command # NoCommand
      /\ SessionShape /\ CommandShape /\ TargetIsSound(target)
  BY DEF DeviceAccepts, SurfaceInv, NoCommand, SettingsInv
<1>1. command' = NoCommand \/ command' = [command EXCEPT !.stage = "off"]
  BY DEF DeviceAccepts, AcceptedAnswer, Finishes, Fails, Waits
<1>2. command' # NoCommand => command'.target = target
  BY <1>0, <1>1 DEF CommandShape
<1>3. driver # "signallab"
  BY <1>0 DEF CommandShape
<1>4. ASSUME driver = "tinysa"
      PROVE  SweepIsSound(session'.configuration) /\ SourceIsSound(session'.source)
  <2>0. SweepIsSound(session.configuration) /\ SourceIsSound(session.source)
    BY <1>4 DEF SettingsInv, SessionIsSound
  <2>1. CASE ~IsFeature(target)
    <3>1. session' = ConfigurationAccepted(session, target)
      <4>1. session' = Bound(session, target)
        BY <2>1 DEF DeviceAccepts, Generates, IsOutput
      <4> QED BY <1>4, <4>1 DEF Bound
    <3>2. session'.configuration = target /\ session'.source = session.source
      BY <1>0, <1>4, <3>1 DEF ConfigurationAccepted, Bump, SessionShape
    <3> QED BY <1>0, <1>4, <2>0, <2>1, <3>2 DEF TargetIsSound
  <2>2. CASE IsFeature(target) /\ target.action = "touch"
    <3>1. session' = session
      BY <2>2 DEF DeviceAccepts, Generates, IsOutput
    <3> QED BY <2>0, <3>1
  <2>3. CASE IsFeature(target) /\ target.action # "touch"
    <3>1. target.action \in {"configure", "set-output"}
      BY <1>0, <2>3 DEF CommandShape
    <3>2. session' = FeatureAccepted(session, target)
      BY <2>3, <3>1 DEF DeviceAccepts, Generates, IsOutput
    <3>3. /\ session'.configuration = session.configuration
          /\ session'.source = IF target.action = "configure" THEN GeneratorConfiguration(target) ELSE session.source
      BY <1>0, <1>4, <3>1, <3>2, SourceAccepted
    <3> QED BY <1>0, <1>4, <2>0, <2>3, <3>3 DEF TargetIsSound, Generates
  <2> QED BY <2>1, <2>2, <2>3
<1> QED
  BY <1>0, <1>2, <1>3, <1>4, SoundStays

\* An acknowledged output-off sets nothing else.
LEMMA OffIsAcknowledgedIsSound == SurfaceInv /\ SettingsInv /\ OffIsAcknowledged => SettingsInv'
<1> SUFFICES ASSUME SurfaceInv, SettingsInv, OffIsAcknowledged PROVE SettingsInv'
  OBVIOUS
<1>0. /\ unit' = unit /\ command # NoCommand /\ SessionShape /\ ManagerShape /\ CommandShape
      /\ session' = FeatureAccepted(session, OutputOff)
  BY DEF OffIsAcknowledged, SurfaceInv, NoCommand
<1>1. /\ command.stage = "off" => manager.rf # "none" /\ (~IsFeature(command.target) \/ Generates(command.target))
      /\ command.stage = "reassert" => manager.rf # "none"
      /\ command.stage \in {"off", "reassert"}
  BY <1>0 DEF CommandShape, OffIsAcknowledged
<1>2. driver = "tinysa"
  BY <1>0, <1>1 DEF ManagerShape
<1>3. command' = NoCommand
  BY <1>1 DEF OffIsAcknowledged, Finishes, Fails
<1>4. session'.configuration = session.configuration /\ session'.source = session.source
  <2>1. OutputOff.action = "set-output"
    BY DEF OutputOff
  <2> QED BY <1>0, <1>2, <2>1, SourceAccepted
<1> QED
  BY <1>0, <1>2, <1>3, <1>4, SoundStays DEF SettingsInv, SessionIsSound

\* A refusal forgets, and sets nothing.
LEMMA DeviceRefusesIsSound == SurfaceInv /\ SettingsInv /\ DeviceRefuses => SettingsInv'
<1> SUFFICES ASSUME SurfaceInv, SettingsInv, DeviceRefuses PROVE SettingsInv'
  OBVIOUS
<1>0. unit' = unit /\ command # NoCommand /\ command' = NoCommand /\ SessionShape /\ ManagerShape /\ CommandShape
  BY DEF DeviceRefuses, SurfaceInv, Fails
<1>1. \/ session' = session
      \/ driver = "tinysa" /\ \E target : session' = FeatureRefused(session, target)
  <2>1. CASE command.stage # "device"
    BY <1>0, <2>1 DEF DeviceRefuses, CommandShape, ManagerShape
  <2>2. CASE command.stage = "device" /\ IsFeature(command.target)
    BY <1>0, <2>2 DEF DeviceRefuses, CommandShape
  <2>3. CASE command.stage = "device" /\ ~IsFeature(command.target)
    BY <2>3 DEF DeviceRefuses
  <2> QED BY <2>1, <2>2, <2>3
<1>2. Like(session')
  BY <1>0, <1>1, FeatureRefusedIsLike, StagedIsLike
<1> QED
  BY <1>0, <1>2, LikeIsSound

\* Every step keeps the settings sound ...
LEMMA SettingsNext == SurfaceInv /\ HonestInv /\ SettingsInv /\ [Next]_vars => SettingsInv'
<1> SUFFICES ASSUME SurfaceInv, HonestInv, SettingsInv, [Next]_vars PROVE SettingsInv'
  OBVIOUS
<1>0. SessionShape /\ Like(session)
  BY StagedIsLike DEF SurfaceInv
<1>1. ASSUME unit' = unit, session' = session, command' = command PROVE SettingsInv'
  BY <1>0, <1>1, LikeIsSound DEF SettingsInv
<1>2. CASE Edit \/ AskAutomatic \/ TakeAnswer \/ ReadSurface \/ DriverFaults \/ UNCHANGED vars
  BY <1>1, <1>2 DEF Edit, AskAutomatic, TakeAnswer, ReadSurface, DriverFaults, vars
<1>3. CASE Acquire
  <2>1. unit' = unit /\ session' = session /\ command'.target = OutputOff
    BY <1>3 DEF Acquire, Command
  <2> QED BY <1>0, <2>1, OffIsSound, LikeIsSound
<1> QED
  BY <1>2, <1>3, AdmitIsSound, OtherIsSound, DeviceAcceptsIsSound, OffIsAcknowledgedIsSound, DeviceRefusesIsSound DEF Next

\* ... and at first there are none.
LEMMA SettingsInit == Init => SettingsInv
<1> SUFFICES ASSUME Init PROVE SettingsInv
  OBVIOUS
<1>1. unit \in DOMAIN Units /\ command = NoCommand
  BY DEF Init
<1>2. driver = "tinysa" => SweepIsSound(session.configuration) /\ SourceIsSound(session.source)
  <2>1. driver = "tinysa" => session = NoTinySa
    BY DEF Init
  <2> QED BY <2>1, NoSweepIsSound DEF NoTinySa, SourceIsSound
<1>3. driver = "signallab" => session.status.pinned \in Lab!Widths \cup {None}
  <2> SUFFICES ASSUME driver = "signallab" PROVE session.status.pinned \in Lab!Widths \cup {None}
    OBVIOUS
  <2>1. PICK status \in LabStatuses : session = Lab!NoSignalLab(status)
    BY DEF Init
  <2>2. session.status = status
    BY <2>1 DEF Lab!NoSignalLab
  <2> QED BY <1>1, <2>2, UnitsAssumption DEF driver
<1> QED
  BY <1>1, <1>2, <1>3 DEF SettingsInv, SessionIsSound

(* The drivers' ranges are one another's *)

\* Neptune judges a range as every driver does ...
LEMMA NeptuneRanges ==
    /\ \A r, v : Neptune!Admits(r, v) = Admits(r, v)
    /\ \A r : Neptune!IsSpan(r) = IsSpan(r)
    /\ \A r, p : Neptune!RangeValue(r, p) = RangeValue(r, p)
    /\ \A r, p, m : Neptune!RangeValueAtLeast(r, p, m) = RangeValueAtLeast(r, p, m)
    /\ \A r, p, m : Neptune!RangeValueAtMost(r, p, m) = RangeValueAtMost(r, p, m)
<1>1. \A r, v : Neptune!Admits(r, v) = Admits(r, v)
  BY DEF Neptune!Admits, Admits
<1>2. \A r : Neptune!IsSpan(r) = IsSpan(r)
  BY DEF Neptune!IsSpan, IsSpan, Neptune!IsRange, IsRange
<1>3. \A S : Neptune!Max(S) = Max(S) /\ Neptune!Min(S) = Min(S)
  BY DEF Neptune!Max, Max, Neptune!Min, Min
<1>4. \A r : Neptune!MaximumReachable(r) = MaximumReachable(r)
  BY DEF Neptune!MaximumReachable, MaximumReachable
<1>5. \A a, b : Neptune!Rounded(a, b) = Rounded(a, b) /\ Neptune!Ceiling(a, b) = Ceiling(a, b)
  BY DEF Neptune!Rounded, Rounded, Neptune!Ceiling, Ceiling
<1>6. \A r, p : Neptune!RangeValue(r, p) = RangeValue(r, p)
  BY <1>3, <1>4, <1>5 DEF Neptune!RangeValue, RangeValue
<1>7. \A r, p, m : Neptune!RangeValueAtLeast(r, p, m) = RangeValueAtLeast(r, p, m)
  BY <1>3, <1>4, <1>5, <1>6 DEF Neptune!RangeValueAtLeast, RangeValueAtLeast
<1>8. \A r, p, m : Neptune!RangeValueAtMost(r, p, m) = RangeValueAtMost(r, p, m)
  BY <1>3, <1>4, <1>5, <1>6 DEF Neptune!RangeValueAtMost, RangeValueAtMost
<1> QED BY <1>1, <1>2, <1>6, <1>7, <1>8

\* ... and so does SignalLab.
LEMMA LabRanges ==
    /\ \A r, v : Lab!Admits(r, v) = Admits(r, v)
    /\ \A r : Lab!IsSpan(r) = IsSpan(r)
    /\ \A S : Lab!Max(S) = Max(S) /\ Lab!Min(S) = Min(S)
    /\ \A r : Lab!MaximumReachable(r) = MaximumReachable(r)
    /\ \A a, b : Lab!Rounded(a, b) = Rounded(a, b) /\ Lab!Ceiling(a, b) = Ceiling(a, b)
    /\ \A r, p : Lab!RangeValue(r, p) = RangeValue(r, p)
<1>1. \A r, v : Lab!Admits(r, v) = Admits(r, v)
  BY DEF Lab!Admits, Admits
<1>2. \A r : Lab!IsSpan(r) = IsSpan(r)
  BY DEF Lab!IsSpan, IsSpan, Lab!IsRange, IsRange
<1>3. \A S : Lab!Max(S) = Max(S) /\ Lab!Min(S) = Min(S)
  BY DEF Lab!Max, Max, Lab!Min, Min
<1>4. \A r : Lab!MaximumReachable(r) = MaximumReachable(r)
  BY DEF Lab!MaximumReachable, MaximumReachable
<1>5. \A a, b : Lab!Rounded(a, b) = Rounded(a, b) /\ Lab!Ceiling(a, b) = Ceiling(a, b)
  BY DEF Lab!Rounded, Rounded, Lab!Ceiling, Ceiling
<1>6. \A r, p : Lab!RangeValue(r, p) = RangeValue(r, p)
  BY <1>3, <1>4, <1>5 DEF Lab!RangeValue, RangeValue
<1> QED BY <1>1, <1>2, <1>3, <1>4, <1>5, <1>6

-----------------------------------------------------------------------------
(* Left automatic *)

\* A range admits its bounds, the upper one on the lattice.
LEMMA SpanAdmits ==
    ASSUME NEW r, IsSpan(r)
    PROVE  Admits(r, r.min) /\ Admits(r, MaximumReachable(r))
BY StepsOf DEF IsSpan

\* An effective number is admitted if the fallback is.
LEMMA EffectiveIsAdmitted ==
    ASSUME NEW v, NEW r, NEW fallback, Admits(r, fallback)
    PROVE  Admits(r, EffectiveNumber(v, r, fallback))
BY DEF EffectiveNumber

\* The trigger in effect, left alone, binds.
LEMMA AutomaticTrigger ==
    ASSUME NEW c, AdvertisesTinySa(c), NEW current, NEW intents, ~IsManual(intents["trigger"]),
           c.level # None => ~IsManual(intents["level"])
    PROVE  \E t \in ResolvedTrigger(c, current, intents) : TriggerBinds(c, t)
<1> DEFINE chosen == EffectiveTrigger(c, current)
           level == EffectiveLevel(c, current)
           t == IF chosen # "auto" THEN [trigger |-> chosen, level |-> level] ELSE [trigger |-> "auto", level |-> None]
<1>1. Resolve(intents["trigger"], chosen) = chosen
  BY DEF Resolve
<1>2. chosen \in c.triggers
  <2>1. PreferredTrigger(c) \in c.triggers
    BY DEF PreferredTrigger, AdvertisesTinySa
  <2> QED BY <2>1 DEF EffectiveTrigger, EffectiveOption
<1>3. chosen # "auto" => c.level # None
  BY <1>2 DEF AdvertisesTinySa
<1>4. chosen # "auto" => Admits(c.level, level)
  BY <1>3, SpanAdmits, EffectiveIsAdmitted DEF AdvertisesTinySa, EffectiveLevel
<1>5. ResolvesOption(intents["trigger"], c.triggers)
  BY DEF ResolvesOption
<1>6. chosen # "auto" => Resolve(intents["level"], level) = level
  BY <1>3 DEF Resolve
<1> HIDE DEF chosen, level
<1>7. t \in ResolvedTrigger(c, current, intents)
  <2>1. CASE chosen # "auto"
    BY <1>1, <1>5, <1>6, <2>1 DEF ResolvedTrigger, chosen, level
  <2>2. CASE chosen = "auto"
    BY <1>1, <1>5, <2>2 DEF ResolvedTrigger, chosen
  <2> QED BY <2>1, <2>2
<1>8. TriggerBinds(c, t)
  BY <1>2, <1>4 DEF TriggerBinds
<1> QED BY <1>7, <1>8

\* A sweep left alone binds ...
LEMMA AutomaticSweep ==
    ASSUME driver = "tinysa", unit \in DOMAIN Units, SweepIsSound(session.configuration), NEW intents,
           \A n \in Names(SweepOp) : ~IsManual(intents[n])
    PROVE  \E target \in ResolvedSweep(caps, session, intents) : ~IsFeature(target) /\ ReceiverBinds(caps, target)
<1> USE DEF SweepOp, PowerOp, SourceOp, OutputOp
<1> DEFINE current == CurrentReceiver(session, "sweep")
           effective == EffectiveSweep(caps, current)
<1>1. AdvertisesTinySa(caps)
  BY TinySaIs
<1>2. /\ ~IsManual(intents["start"]) /\ ~IsManual(intents["stop"]) /\ ~IsManual(intents["trigger"])
      /\ caps.level # None => ~IsManual(intents["level"])
  <2>1. {"start", "stop", "trigger"} \subseteq Names(SweepOp) /\ (caps.level # None => "level" \in Names(SweepOp))
    BY DEF Names
  <2> QED BY <2>1
<1>3. PICK t \in ResolvedTrigger(caps, current, intents) : TriggerBinds(caps, t)
  BY <1>1, <1>2, AutomaticTrigger
<1>4. /\ Admits(caps.frequency, effective.start) /\ Admits(caps.frequency, effective.stop)
      /\ effective.start < effective.stop
  <2>1. CASE session.configuration.kind = "sweep"
    <3>1. current = session.configuration
      BY <2>1 DEF CurrentReceiver
    <3>2. Field(current, "start") = current.start /\ Field(current, "stop") = current.stop
      BY <2>1, <3>1 DEF SweepIsSound, Field, Kept
    <3>3. effective.start = current.start /\ effective.stop = current.stop
      BY <2>1, <3>1, <3>2 DEF SweepIsSound, EffectiveSweep, EffectiveNumber
    <3> QED BY <2>1, <3>1, <3>3 DEF SweepIsSound
  <2>2. CASE session.configuration.kind # "sweep"
    <3>1. current = NoConfiguration
      BY <2>2 DEF CurrentReceiver
    <3>2. Field(current, "start") = None /\ Field(current, "stop") = None
      BY <3>1 DEF Field, Kept, NoConfiguration
    <3>3. effective.start = caps.frequency.min /\ effective.stop = MaximumReachable(caps.frequency)
      BY <3>2 DEF EffectiveSweep, EffectiveNumber
    <3> QED BY <1>1, <3>3, SpanAdmits DEF AdvertisesTinySa
  <2> QED BY <2>1, <2>2
<1> HIDE DEF effective
<1> DEFINE target == [kind |-> "sweep", start |-> effective.start, stop |-> effective.stop,
                      trigger |-> t.trigger, level |-> t.level]
<1>5. ReceiverBinds(caps, target)
  BY <1>3, <1>4 DEF ReceiverBinds, TriggerBinds
<1>6. target = [kind |-> "sweep", start |-> Resolve(intents["start"], effective.start),
                stop |-> Resolve(intents["stop"], effective.stop), trigger |-> t.trigger, level |-> t.level]
  BY <1>2 DEF Resolve
<1>7. target \in ResolvedSweep(caps, session, intents)
  BY <1>3, <1>5, <1>6, Zenon DEF ResolvedSweep, effective
<1> QED BY <1>5, <1>7 DEF IsFeature

\* ... a power observation ...
LEMMA AutomaticPower ==
    ASSUME driver = "tinysa", unit \in DOMAIN Units, caps.power, NEW intents,
           \A n \in Names(PowerOp) : ~IsManual(intents[n])
    PROVE  \E target \in ResolvedPower(caps, session, intents) : ~IsFeature(target) /\ ReceiverBinds(caps, target)
<1> USE DEF SweepOp, PowerOp, SourceOp, OutputOp
<1> DEFINE current == CurrentReceiver(session, "power")
           center == EffectiveCenter(caps, current)
<1>1. AdvertisesTinySa(caps)
  BY TinySaIs
<1>2. /\ ~IsManual(intents["center"]) /\ ~IsManual(intents["trigger"])
      /\ caps.level # None => ~IsManual(intents["level"])
  <2>1. {"center", "trigger"} \subseteq Names(PowerOp) /\ (caps.level # None => "level" \in Names(PowerOp))
    BY DEF Names
  <2> QED BY <2>1
<1>3. PICK t \in ResolvedTrigger(caps, current, intents) : TriggerBinds(caps, t)
  BY <1>1, <1>2, AutomaticTrigger
<1>4. Admits(caps.frequency, center)
  BY <1>1, SpanAdmits, EffectiveIsAdmitted DEF AdvertisesTinySa, EffectiveCenter
<1> HIDE DEF center
<1> DEFINE target == [kind |-> "power", center |-> center, trigger |-> t.trigger, level |-> t.level]
<1>5. ReceiverBinds(caps, target)
  BY <1>3, <1>4 DEF ReceiverBinds, TriggerBinds
<1>6. target = [kind |-> "power", center |-> Resolve(intents["center"], center), trigger |-> t.trigger, level |-> t.level]
  BY <1>2 DEF Resolve
<1>7. target \in ResolvedPower(caps, session, intents)
  BY <1>3, <1>5, <1>6, Zenon DEF ResolvedPower, center
<1> QED BY <1>5, <1>7 DEF IsFeature

\* ... a source ...
LEMMA AutomaticSourceBinds ==
    ASSUME driver = "tinysa", unit \in DOMAIN Units, caps.rf, SourceIsSound(session.source), NEW intents,
           \A n \in Names(SourceOp) : ~IsManual(intents[n])
    PROVE  \E target \in ResolvedSource(caps, session, intents) : IsFeature(target) /\ SourceBinds(caps, target)
<1> USE DEF SweepOp, PowerOp, SourceOp, OutputOp
<1> DEFINE automatic == AutomaticSource(caps)
           path == Kept(session.source, "path", automatic.path)
           modulation == Kept(session.source, "modulation", automatic.modulation)
           frequency == Kept(session.source, "frequency", caps.paths[path].min)
           rate == IF "rate" \in SourceNames(caps)
                   THEN Kept(session.source, "rate", RatesFor(caps, modulation).min)
                   ELSE automatic.rate
<1>1. AdvertisesTinySa(caps)
  BY TinySaIs
<1>2. /\ ~IsManual(intents["path"]) /\ ~IsManual(intents["modulation"]) /\ ~IsManual(intents["frequency"])
      /\ "rate" \in SourceNames(caps) => ~IsManual(intents["rate"])
  <2>1. Names(SourceOp) = SourceNames(caps)
    BY DEF Names
  <2> QED BY <2>1 DEF SourceNames
<1>3. "rate" \in SourceNames(caps) <=> DOMAIN caps.rates # {}
  BY DEF SourceNames
<1>4. automatic.path = "normal" /\ automatic.modulation = "off"
  BY DEF AutomaticSource
<1>5. /\ path \in DOMAIN caps.paths /\ modulation \in Modulations(caps)
      /\ Admits(caps.paths[path], frequency)
      /\ "rate" \in SourceNames(caps) => Admits(RatesFor(caps, modulation), rate)
  <2>1. CASE session.source = Nothing
    <3>1. path = "normal" /\ modulation = "off" /\ frequency = caps.paths["normal"].min
      BY <1>4, <2>1 DEF Kept, Nothing
    <3>2. "rate" \in SourceNames(caps) => rate = SourceRates(caps).min /\ RatesFor(caps, modulation) = SourceRates(caps)
      BY <2>1, <3>1 DEF Kept, Nothing, RatesFor
    <3>3. "normal" \in DOMAIN caps.paths /\ IsSpan(caps.paths["normal"])
      BY <1>1 DEF AdvertisesTinySa
    <3> HIDE DEF path, modulation, frequency, rate
    <3> QED BY <1>1, <1>3, <3>1, <3>2, <3>3, SpanAdmits, SourceRatesAre DEF Modulations
  <2>2. CASE session.source # Nothing
    <3>1. path = session.source.path /\ modulation = session.source.modulation /\ frequency = session.source.frequency
      BY <2>2 DEF Kept, SourceIsSound
    <3>2. "rate" \in SourceNames(caps) => rate = session.source.rate
      BY <2>2 DEF Kept, SourceIsSound
    <3> HIDE DEF path, modulation, frequency, rate
    <3> QED BY <1>3, <2>2, <3>1, <3>2 DEF SourceIsSound
  <2> QED BY <2>1, <2>2
<1> DEFINE target == [action |-> "configure", path |-> path, frequency |-> frequency, modulation |-> modulation,
                      rate |-> IF modulation = "off" THEN None ELSE rate]
<1>6. /\ Resolve(intents["path"], path) = path /\ Resolve(intents["modulation"], modulation) = modulation
      /\ Resolve(intents["frequency"], frequency) = frequency
      /\ "rate" \in SourceNames(caps) => Resolve(intents["rate"], rate) = rate
      /\ ResolvesOption(intents["path"], DOMAIN caps.paths) /\ ResolvesOption(intents["modulation"], Modulations(caps))
  BY <1>2 DEF Resolve, ResolvesOption
<1>7. ResolvedSource(caps, session, intents) = {target}
  <2>1. Resolve(intents["path"], Kept(session.source, "path", automatic.path)) = path
    BY <1>6
  <2>2. Resolve(intents["modulation"], Kept(session.source, "modulation", automatic.modulation)) = modulation
    BY <1>6
  <2>3. Resolve(intents["frequency"], Kept(session.source, "frequency", caps.paths[path].min)) = frequency
    BY <1>6
  <2>4. (IF "rate" \in SourceNames(caps)
         THEN Resolve(intents["rate"], Kept(session.source, "rate", RatesFor(caps, modulation).min))
         ELSE automatic.rate) = rate
    BY <1>6
  <2> HIDE DEF path, modulation, frequency, rate
  <2> QED BY <1>5, <1>6, <2>1, <2>2, <2>3, <2>4 DEF ResolvedSource
<1>8. IsFeature(target)
  BY DEF IsFeature
<1>9. SourceBinds(caps, target)
  <2> HIDE DEF path, modulation, frequency, rate
  <2>1. modulation # "off" => modulation \in DOMAIN caps.rates
    BY <1>5 DEF Modulations
  <2>2. modulation # "off" => "rate" \in SourceNames(caps) /\ RatesFor(caps, modulation) = caps.rates[modulation]
    BY <1>3, <2>1 DEF RatesFor
  <2> QED BY <1>5, <2>1, <2>2 DEF SourceBinds
<1> HIDE DEF target
<1> QED BY <1>7, <1>8, <1>9

\* ... and the output.
LEMMA AutomaticOutput ==
    ASSUME caps.rf, NEW intents, ~IsManual(intents["output"])
    PROVE  \E target \in ResolvedOutput(intents) : IsFeature(target) /\ SourceBinds(caps, target)
<1>1. ResolvedOutput(intents) = {[action |-> "set-output", enabled |-> FALSE]}
  BY DEF ResolvedOutput
<1> QED BY <1>1 DEF IsFeature, SourceBinds

\* Every operation of a TinySA, left automatic, resolves to what binds.
LEMMA TinySaSettlesAutomatic ==
    ASSUME driver = "tinysa", unit \in DOMAIN Units, SessionIsSound, NEW op \in Operations, NEW intents,
           \A n \in Names(op) : ~IsManual(intents[n])
    PROVE  \E target \in Resolved(op, intents) : Binds(target)
<1> USE DEF SweepOp, PowerOp, SourceOp, OutputOp
<1>1. op \in TinySaOperations(caps) /\ Resolved(op, intents) = TinySaResolved(caps, session, op, intents)
  BY DEF Operations, Resolved
<1>2. \A target : ~IsFeature(target) /\ ReceiverBinds(caps, target) => Binds(target)
  BY DEF Binds
<1>3. \A target : IsFeature(target) /\ caps.rf /\ SourceBinds(caps, target) => Binds(target)
  BY DEF Binds
<1>4. SweepIsSound(session.configuration) /\ SourceIsSound(session.source)
  BY DEF SessionIsSound
<1>5. CASE op = SweepOp
  <2>1. Resolved(op, intents) = ResolvedSweep(caps, session, intents)
    BY <1>1, <1>5 DEF TinySaResolved
  <2> QED BY <1>2, <1>4, <1>5, <2>1, AutomaticSweep
<1>6. CASE op = PowerOp
  <2>1. Resolved(op, intents) = ResolvedPower(caps, session, intents) /\ caps.power
    BY <1>1, <1>6 DEF TinySaResolved, TinySaOperations
  <2> QED BY <1>2, <1>6, <2>1, AutomaticPower
<1>7. CASE op = SourceOp
  <2>1. Resolved(op, intents) = ResolvedSource(caps, session, intents) /\ caps.rf
    BY <1>1, <1>7 DEF TinySaResolved, TinySaOperations
  <2> QED BY <1>3, <1>4, <1>7, <2>1, AutomaticSourceBinds
<1>8. CASE op = OutputOp
  <2>1. Resolved(op, intents) = ResolvedOutput(intents) /\ caps.rf
    BY <1>1, <1>8 DEF TinySaResolved, TinySaOperations
  <2>2. ~IsManual(intents["output"])
    BY <1>8 DEF Names
  <2> QED BY <1>3, <2>1, <2>2, AutomaticOutput
<1> QED BY <1>1, <1>5, <1>6, <1>7, <1>8 DEF TinySaOperations

\* The pair of sample rate and bandwidth nobody asked anything of is found again.
LEMMA NeptuneSettlesAutomatic ==
    ASSUME driver = "neptune", unit \in DOMAIN Units, NEW intents,
           \A n \in Neptune!CaptureNames : ~IsManual(intents[n])
    PROVE  \E target \in Neptune!ResolvedCapture(caps, intents) : Binds(target)
<1> DEFINE low == caps.bandwidth.min
           rate == Neptune!RangeValueAtLeast(caps.rate, Neptune!PreferredRate, low)
           bandwidth == Neptune!RangeValueAtMost(caps.bandwidth, Neptune!PreferredBandwidth, rate)
           tune == Neptune!RangeValue(caps.tune, Neptune!PreferredTune)
           automatic == [kind |-> "capture", tune |-> tune, rate |-> rate, bandwidth |-> bandwidth]
<1>1. /\ IsSpan(caps.tune) /\ IsSpan(caps.rate) /\ IsSpan(caps.bandwidth) /\ Neptune!AutomaticCapture(caps) # {}
  BY UnitsAssumption, NeptuneRanges DEF driver, caps, Neptune!AdvertisesNeptune, Neptune!CaptureNames
<1>2. rate # None /\ bandwidth # None /\ Neptune!AutomaticCapture(caps) = {automatic}
  <2>1. Neptune!AutomaticCapture(caps) = IF rate = None THEN {} ELSE IF bandwidth = None THEN {} ELSE {automatic}
    BY Zenon DEF Neptune!AutomaticCapture
  <2> HIDE DEF rate, bandwidth, automatic
  <2> QED BY <1>1, <2>1
<1>3. Neptune!Automatic(caps) = automatic
  <2> HIDE DEF automatic
  <2> QED BY <1>2 DEF Neptune!Automatic
<1>4. low \in Int
  BY <1>1 DEF IsSpan, IsRange
<1>5. rate \in Int /\ Admits(caps.rate, rate) /\ rate >= low
  <2>1. Neptune!PreferredRate \in Int
    BY DEF Neptune!PreferredRate
  <2>2. rate = RangeValueAtLeast(caps.rate, Neptune!PreferredRate, low)
    BY NeptuneRanges
  <2> HIDE DEF rate, low
  <2> QED BY <1>1, <1>2, <1>4, <2>1, <2>2, NoneAssumption, AtLeastIs DEF IsSpan
<1> HIDE DEF rate
<1>6. bandwidth \in Int /\ Admits(caps.bandwidth, bandwidth) /\ bandwidth <= rate
  <2>1. Neptune!PreferredBandwidth \in Int
    BY DEF Neptune!PreferredBandwidth
  <2>2. bandwidth = RangeValueAtMost(caps.bandwidth, Neptune!PreferredBandwidth, rate)
    BY NeptuneRanges
  <2> HIDE DEF bandwidth
  <2> QED BY <1>1, <1>2, <1>5, <2>1, <2>2, NoneAssumption, AtMostIs DEF IsSpan
<1>7. Admits(caps.tune, tune)
  <2>1. Neptune!PreferredTune \in Int
    BY DEF Neptune!PreferredTune
  <2> QED BY <1>1, <2>1, NeptuneRanges, RangeValueIs DEF IsSpan
<1> HIDE DEF bandwidth, tune
<1>8. Neptune!RangeValueAtLeast(caps.rate, rate, low) = rate
  BY <1>1, <1>4, <1>5, NeptuneRanges, AtLeastKeeps DEF IsSpan
<1>9. Neptune!RangeValueAtMost(caps.bandwidth, bandwidth, rate) = bandwidth
  BY <1>1, <1>5, <1>6, NeptuneRanges, AtMostKeeps DEF IsSpan
<1>10. ~Neptune!IsManual(intents["tune"]) /\ ~Neptune!IsManual(intents["rate"]) /\ ~Neptune!IsManual(intents["bandwidth"])
  BY DEF Neptune!CaptureNames, Neptune!IsManual, IsManual
<1>11. Neptune!CaptureIsOrdered(intents) /\ \A n \in Neptune!CaptureNames : Neptune!Accepts(caps, intents, n)
  BY <1>10 DEF Neptune!CaptureIsOrdered, Neptune!OrderedWhenManual, Neptune!Accepts, Neptune!CaptureNames
<1>12. Neptune!ResolvedCapture(caps, intents) = {automatic}
  <2>1. automatic.tune = tune /\ automatic.rate = rate /\ automatic.bandwidth = bandwidth
    OBVIOUS
  <2>2. Neptune!Resolve(intents["tune"], automatic["tune"]) = tune
    BY <1>10 DEF Neptune!Resolve
  <2> HIDE DEF automatic
  <2>3. Neptune!ResolvedCapture(caps, intents) = {[kind |-> "capture", tune |-> tune, rate |-> rate, bandwidth |-> bandwidth]}
    BY <1>2, <1>3, <1>8, <1>9, <1>10, <1>11, <2>1, <2>2 DEF Neptune!ResolvedCapture, low
  <2> QED BY <2>3 DEF automatic
<1>13. Neptune!CaptureBinds(caps, automatic)
  BY <1>5, <1>6, <1>7, NeptuneRanges DEF Neptune!CaptureBinds, Neptune!CaptureNames
<1> HIDE DEF automatic
<1>14. Binds(automatic)
  BY <1>13 DEF Binds
<1> QED BY <1>12, <1>14

-----------------------------------------------------------------------------
(* SignalLab *)

\* The greatest of three numbers.
LEMMA ThreeOf ==
    ASSUME NEW x \in Int, NEW y \in Int, NEW z \in Int
    PROVE  /\ Max({x, y, z}) \in {x, y, z}
           /\ Max({x, y, z}) >= x /\ Max({x, y, z}) >= y /\ Max({x, y, z}) >= z
<1>1. \E m \in {x, y, z} : \A w \in {x, y, z} : m >= w
  <2>1. CASE x >= y /\ x >= z
    BY <2>1
  <2>2. CASE y >= x /\ y >= z
    BY <2>2
  <2>3. CASE z >= x /\ z >= y
    BY <2>3
  <2> QED BY <2>1, <2>2, <2>3
<1>2. Max({x, y, z}) \in {x, y, z} /\ \A w \in {x, y, z} : Max({x, y, z}) >= w
  BY <1>1, Zenon DEF Max
<1> QED BY <1>2

\* canonicalIntegerAtLeast: admitted, enough, and no more than asked where that is
\* admitted.
LEMMA IntegersAtLeastIs ==
    ASSUME NEW r, IsSpan(r), NEW required \in Int, NEW v \in Lab!IntegersAtLeast(r, required)
    PROVE  v \in Int /\ Admits(r, v) /\ v >= required /\ (Admits(r, required) => v = required)
<1> DEFINE d == r.step
           a == required - r.min
           k == Ceiling(a, d)
           m == Max({0, k})
<1>1. d \in Nat \ {0} /\ r.min \in Int /\ r.max \in Int /\ a \in Int /\ IsRange(r) /\ r.min <= r.max
  BY DEF IsSpan, IsRange
<1>2. v = r.min + m * d /\ v <= MaximumReachable(r)
  BY LabRanges DEF Lab!IntegersAtLeast
<1>3. k \in Int /\ k * d \in Int /\ a <= k * d /\ (\A j \in Int : a = j * d => k = j)
  BY <1>1, CeilingIs
<1>4. required = r.min + a
  BY <1>1
<1>5. Admits(r, required) => \E j \in Nat : a = j * d
  <2> SUFFICES ASSUME Admits(r, required) PROVE \E j \in Nat : a = j * d
    OBVIOUS
  <2>1. PICK j \in Nat : required = r.min + j * d
    BY <1>1, IsAdmitted
  <2>2. a = j * d
    <3>1. r.min + a = r.min + j * d
      BY <1>4, <2>1
    <3>2. j * d \in Int
      BY <1>1
    <3> HIDE DEF a, d
    <3> QED BY <1>1, <3>1, <3>2
  <2> QED BY <2>2
<1> HIDE DEF k, a
<1>6. m \in {0, k} /\ m >= 0 /\ m >= k
  <2>1. k \in Int /\ 0 \in Int
    BY <1>3
  <2> QED BY <2>1, TwoOf, Zenon
<1> HIDE DEF m
<1>7. m \in Int /\ 0 <= m /\ k <= m
  BY <1>3, <1>6
<1>8. m * d \in Int /\ k * d <= m * d
  BY <1>1, <1>3, <1>7, Monotone
<1>9. v \in Int /\ required <= v
  <2> HIDE DEF d
  <2> QED BY <1>1, <1>2, <1>3, <1>4, <1>8
<1>10. v <= r.max
  <2>1. MaximumReachable(r) \in Int /\ MaximumReachable(r) <= r.max
    BY <1>1, StepsOf
  <2> QED BY <1>1, <1>2, <1>9, <2>1
<1>11. Admits(r, v)
  BY <1>1, <1>2, <1>7, <1>10, AdmitsIs
<1>12. Admits(r, required) => v = required
  <2> SUFFICES ASSUME Admits(r, required) PROVE v = required
    OBVIOUS
  <2>1. PICK j \in Nat : a = j * d
    BY <1>5
  <2>2. k = j
    BY <1>3, <2>1
  <2>3. m = k
    BY <1>6, <2>2
  <2> QED BY <1>2, <1>4, <2>1, <2>2, <2>3
<1> QED BY <1>9, <1>11, <1>12

\* canonicalIntegerClosestWithin: admitted, and within the limit.
LEMMA ClosestWithinIs ==
    ASSUME NEW r, IsSpan(r), NEW p \in Int, NEW high \in Int, NEW v \in Lab!ClosestWithin(r, p, high)
    PROVE  v \in Int /\ Admits(r, v) /\ v <= high
<1> DEFINE top == Min({MaximumReachable(r), high})
           q == [r EXCEPT !.max = top]
<1>1. v = RangeValue(q, p) /\ top >= r.min /\ v <= high
  BY LabRanges DEF Lab!ClosestWithin
<1>2. MaximumReachable(r) \in Int /\ MaximumReachable(r) <= r.max
  BY StepsOf DEF IsSpan
<1>3. top \in {MaximumReachable(r), high} /\ top <= MaximumReachable(r)
  BY <1>2, TwoOf
<1> HIDE DEF top
<1>4. top \in Int /\ top <= r.max
  BY <1>2, <1>3 DEF IsSpan, IsRange
<1>5. q.min = r.min /\ q.step = r.step /\ q.max = top
  BY DEF IsSpan
<1> HIDE DEF q
<1>6. IsRange(q) /\ q.min <= q.max
  BY <1>1, <1>4, <1>5 DEF IsSpan, IsRange
<1>7. RangeValue(q, p) \in Int /\ Admits(q, RangeValue(q, p))
  BY <1>6, RangeValueIs
<1>8. Admits(r, v)
  BY <1>1, <1>4, <1>5, <1>7 DEF Admits, IsSpan, IsRange
<1> QED BY <1>1, <1>7, <1>8

\* A one-shot limit is a number, where there is one.
LEMMA OutputLimitIs ==
    ASSUME NEW c, NEW profile, Lab!IsTransport(c, profile), NEW rate \in Int
    PROVE  Lab!OutputLimit(profile, rate) \in Int \cup {None}
<1> DEFINE quotient == (profile.oneShot * rate) \div profile.native
           inner == Min({Lab!MaxSamples, quotient})
           outer == Max({1, inner})
<1>1. {profile.native, profile.least, profile.oneShot} \ {None} \subseteq Nat \ {0}
  BY DEF Lab!IsTransport
<1>2. CASE profile.oneShot = None
  BY <1>2 DEF Lab!OutputLimit
<1>3. CASE profile.oneShot # None /\ profile.native = None
  BY <1>1, <1>3 DEF Lab!OutputLimit
<1>4. CASE profile.oneShot # None /\ profile.native # None
  <2>1. profile.oneShot \in Int /\ profile.native \in Nat \ {0}
    BY <1>1, <1>4
  <2>2. profile.oneShot * rate \in Int
    BY <2>1
  <2>3. quotient \in Int
    BY <2>1, <2>2, StepsBelow
  <2> HIDE DEF quotient
  <2>4. inner \in Int
    <3>1. inner \in {Lab!MaxSamples, quotient}
      BY <2>3, TwoOf DEF Lab!MaxSamples
    <3> HIDE DEF inner
    <3> QED BY <2>3, <3>1 DEF Lab!MaxSamples
  <2> HIDE DEF inner
  <2>5. outer \in Int
    <3>0. inner \in Int /\ 1 \in Int
      BY <2>4
    <3>1. outer \in {1, inner}
      BY <3>0, TwoOf, Zenon
    <3> HIDE DEF outer
    <3> QED BY <2>4, <3>1
  <2>6. Lab!OutputLimit(profile, rate) = outer
    BY <1>4, LabRanges DEF Lab!OutputLimit, quotient, inner
  <2> QED BY <2>5, <2>6
<1> QED BY <1>2, <1>3, <1>4

\* What an automatic capture needs at least: of a profile with a native rate,
\* that rate.
LEMMA LeastIs ==
    ASSUME NEW c, NEW profile, Lab!IsTransport(c, profile), IsSpan(c.rate), IsSpan(c.bandwidth), NEW low, NEW rate,
           low = Lab!Max({c.bandwidth.min, profile.signal} \cup ({profile.least} \ {None})),
           rate = Lab!Max({c.rate.min, low,
                           IF profile.native = None THEN Lab!MinimumDerivedRate(profile.signal) ELSE profile.native})
    PROVE  /\ low \in Int /\ rate \in Int /\ profile.signal <= low /\ low <= rate
           /\ profile.native # None => rate = profile.native
<1> DEFINE least == IF profile.least = None THEN profile.signal ELSE profile.least
           wanted == IF profile.native = None THEN Lab!MinimumDerivedRate(profile.signal) ELSE profile.native
<1>1. /\ profile.signal \in Int /\ profile.signal > 0 /\ c.bandwidth.min \in Int /\ c.rate.min \in Int
      /\ {profile.native, profile.least} \ {None} \subseteq Int
      /\ c.bandwidth.min <= profile.signal
      /\ profile.native # None =>
            /\ profile.native >= c.rate.min /\ profile.signal <= profile.native
            /\ profile.least # None => profile.least <= profile.native
  <2>1. /\ profile.signal \in Nat \ {0} /\ c.bandwidth.min <= profile.signal
        /\ {profile.native, profile.least, profile.oneShot} \ {None} \subseteq Nat \ {0}
        /\ profile.native # None =>
              /\ Lab!Admits(c.rate, profile.native) /\ profile.signal <= profile.native
              /\ profile.least # None => profile.least <= profile.native
    BY DEF Lab!IsTransport
  <2>2. c.bandwidth.min \in Int /\ c.rate.min \in Int
    BY DEF IsSpan, IsRange
  <2>3. {profile.native, profile.least} \ {None} \subseteq Int
    BY <2>1
  <2>4. ASSUME profile.native # None PROVE profile.native >= c.rate.min
    BY <2>1, <2>4, LabRanges DEF Admits
  <2> QED BY <2>1, <2>2, <2>3, <2>4
<1>2. least \in Int
  BY <1>1
<1>3. {c.bandwidth.min, profile.signal} \cup ({profile.least} \ {None}) = {c.bandwidth.min, profile.signal, least}
  OBVIOUS
<1>4. profile.native # None => least <= profile.native
  BY <1>1
<1> HIDE DEF least
<1>5. low = Max({c.bandwidth.min, profile.signal, least})
  BY <1>3, LabRanges
<1>6. low \in {c.bandwidth.min, profile.signal, least} /\ low >= profile.signal
  <2>1. c.bandwidth.min \in Int /\ profile.signal \in Int /\ least \in Int
    BY <1>1, <1>2
  <2>2. /\ Max({c.bandwidth.min, profile.signal, least}) \in {c.bandwidth.min, profile.signal, least}
        /\ Max({c.bandwidth.min, profile.signal, least}) >= profile.signal
    BY <2>1, ThreeOf, Zenon
  <2> QED BY <1>5, <2>2
<1>7. low \in Int /\ (profile.native # None => low <= profile.native)
  BY <1>1, <1>2, <1>4, <1>6
<1>8. wanted \in Int
  <2>1. CASE profile.native = None
    <3>1. profile.signal * 100 \in Int /\ 95 \in Nat \ {0}
      BY <1>1
    <3>2. Ceiling(profile.signal * 100, 95) \in Int
      BY <3>1, CeilingIs
    <3> QED BY <2>1, <3>2, LabRanges DEF Lab!MinimumDerivedRate
  <2>2. CASE profile.native # None
    BY <1>1, <2>2
  <2> QED BY <2>1, <2>2
<1>9. profile.native # None => wanted = profile.native
  OBVIOUS
<1>10. rate = Max({c.rate.min, low, wanted})
  BY LabRanges
<1> HIDE DEF wanted
<1>11. rate \in {c.rate.min, low, wanted} /\ rate >= low /\ rate >= wanted
  <2>1. c.rate.min \in Int /\ low \in Int /\ wanted \in Int
    BY <1>1, <1>7, <1>8
  <2>2. /\ Max({c.rate.min, low, wanted}) \in {c.rate.min, low, wanted}
        /\ Max({c.rate.min, low, wanted}) >= low /\ Max({c.rate.min, low, wanted}) >= wanted
    BY <2>1, ThreeOf, Zenon
  <2> HIDE DEF wanted
  <2> QED BY <1>10, <2>2
<1>12. rate \in Int
  BY <1>1, <1>7, <1>8, <1>11
<1>13. profile.native # None => rate = profile.native
  BY <1>1, <1>7, <1>8, <1>9, <1>11, <1>12
<1> QED
  BY <1>6, <1>7, <1>11, <1>12, <1>13

\* An automatic capture is admitted, and follows the rules of its profile.
LEMMA IqIsSound ==
    ASSUME NEW c, NEW profile, Lab!IsTransport(c, profile), IsSpan(c.rate), IsSpan(c.bandwidth), IsSpan(c.samples),
           NEW a \in Lab!AutomaticIq(c, profile)
    PROVE  /\ DOMAIN a = {"rate", "bandwidth", "samples"}
           /\ \A n \in {"rate", "bandwidth", "samples"} : Admits(c[n], a[n])
           /\ a.bandwidth <= a.rate /\ Lab!IqRules(profile, a)
<1> DEFINE low == Lab!Max({c.bandwidth.min, profile.signal} \cup ({profile.least} \ {None}))
           least == Lab!Max({c.rate.min, low,
                             IF profile.native = None THEN Lab!MinimumDerivedRate(profile.signal) ELSE profile.native})
           limits(rate) == {c.samples.max} \cup ({Lab!OutputLimit(profile, rate)} \ {None})
           pairs == Lab!IntegersAtLeast(c.rate, least) \X Lab!IntegersAtLeast(c.bandwidth, low)
           of(pair) == {[rate |-> pair[1], bandwidth |-> pair[2], samples |-> samples] :
                           samples \in Lab!ClosestWithin(c.samples, Lab!PreferredSamples, Lab!Min(limits(pair[1])))}
<1>1. Lab!AutomaticIq(c, profile) = UNION {of(pair) : pair \in {p \in pairs : p[2] <= p[1]}}
  BY Zenon DEF Lab!AutomaticIq
<1>2. PICK pair \in pairs : pair[2] <= pair[1] /\ a \in of(pair)
  BY <1>1, Zenon
<1>3. /\ low \in Int /\ least \in Int /\ profile.signal <= low /\ low <= least
      /\ profile.native # None => least = profile.native
  <2> HIDE DEF least, low
  <2> QED BY LeastIs, Zenon DEF least, low
<1> HIDE DEF least, low
<1> DEFINE rate == pair[1]
           bandwidth == pair[2]
           limit == Lab!OutputLimit(profile, rate)
           most == Lab!Min(limits(rate))
<1>4. rate \in Lab!IntegersAtLeast(c.rate, least) /\ bandwidth \in Lab!IntegersAtLeast(c.bandwidth, low)
  BY <1>2
<1>5. PICK samples \in Lab!ClosestWithin(c.samples, Lab!PreferredSamples, most) :
          a = [rate |-> rate, bandwidth |-> bandwidth, samples |-> samples]
  BY <1>2, Zenon
<1>6. bandwidth <= rate
  BY <1>2
<1> HIDE DEF rate, bandwidth, limit, most, pairs, of
<1>7. rate \in Int /\ Admits(c.rate, rate) /\ rate >= least /\ (Admits(c.rate, least) => rate = least)
  BY <1>3, <1>4, IntegersAtLeastIs
<1>8. bandwidth \in Int /\ Admits(c.bandwidth, bandwidth) /\ bandwidth >= low
  BY <1>3, <1>4, IntegersAtLeastIs
<1>9. limit \in Int \cup {None}
  BY <1>7, OutputLimitIs DEF limit
<1>10. most \in Int /\ (limit # None => most <= limit)
  <2>1. c.samples.max \in Int
    BY DEF IsSpan, IsRange
  <2>2. most = Min({c.samples.max} \cup ({limit} \ {None}))
    BY LabRanges DEF most, limit
  <2>3. CASE limit = None
    <3>1. {c.samples.max} \cup ({limit} \ {None}) = {c.samples.max, c.samples.max}
      BY <2>3
    <3>2. most = Min({c.samples.max, c.samples.max})
      BY <2>2, <3>1
    <3>3. most \in {c.samples.max, c.samples.max}
      BY <2>1, <3>2, TwoOf
    <3> QED BY <2>1, <2>3, <3>3
  <2>4. CASE limit # None
    <3>1. limit \in Int /\ {c.samples.max} \cup ({limit} \ {None}) = {c.samples.max, limit}
      BY <1>9, <2>4
    <3>2. most = Min({c.samples.max, limit})
      BY <2>2, <3>1
    <3>3. most \in {c.samples.max, limit} /\ most <= limit
      BY <2>1, <3>1, <3>2, TwoOf
    <3> QED BY <2>1, <3>1, <3>3
  <2> QED BY <2>3, <2>4
<1>11. Admits(c.samples, samples) /\ samples <= most
  BY <1>5, <1>10, ClosestWithinIs DEF Lab!PreferredSamples
<1>12. samples \in Int
  BY <1>5, <1>10, ClosestWithinIs DEF Lab!PreferredSamples
<1>13. profile.native # None => rate = profile.native
  BY <1>3, <1>7, LabRanges DEF Lab!IsTransport
<1>14. rate >= profile.signal /\ bandwidth >= profile.signal
  BY <1>3, <1>7, <1>8 DEF Lab!IsTransport
<1>15. limit # None => samples <= limit
  BY <1>9, <1>10, <1>11, <1>12
<1>16. Lab!IqRules(profile, a)
  <2>1. a.rate = rate /\ a.bandwidth = bandwidth /\ a.samples = samples
    BY <1>5
  <2>2. profile.native # None => ~(rate < profile.native)
    BY <1>7, <1>13
  <2> QED BY <1>13, <1>14, <1>15, <2>1, <2>2 DEF Lab!IqRules, limit
<1> QED
  BY <1>5, <1>6, <1>7, <1>8, <1>11, <1>16

\* A session's profile and its transport.
LEMMA LabIs ==
    ASSUME driver = "signallab", unit \in DOMAIN Units, SessionShape, SessionIsSound, NEW waveform,
           waveform = Lab!Waveform(caps, session.status, session.status.profile)
    PROVE  /\ IsSpan(caps.frequency) /\ caps.frequency.min < MaximumReachable(caps.frequency)
           /\ IsSpan(caps.rate) /\ IsSpan(caps.bandwidth) /\ IsSpan(caps.samples)
           /\ Lab!IsTransport(caps, waveform) /\ Lab!AutomaticIq(caps, waveform) # {}
           /\ Lab!Selected(Lab!Catalog(caps, session.status)) = waveform
<1>1. Lab!AdvertisesLab(caps)
  BY UnitsAssumption DEF driver, caps
<1>2. session.status.profile \in DOMAIN caps.profiles
  BY DEF SessionShape
<1>3. Lab!WidthOf(session.status) \in Lab!Widths
  BY DEF SessionIsSound, Lab!WidthOf, Lab!DefaultWidth, Lab!Widths
<1>4. waveform = caps.profiles[session.status.profile][Lab!WidthOf(session.status)]
  BY DEF Lab!Waveform
<1>5. Lab!Selected(Lab!Catalog(caps, session.status)) = waveform
  BY <1>2 DEF Lab!Selected, Lab!Catalog
<1> QED
  BY <1>1, <1>2, <1>3, <1>4, <1>5, LabRanges DEF Lab!AdvertisesLab

\* A spectrum left alone: two admitted frequencies in order ...
LEMMA AutomaticSpectrum ==
    ASSUME driver = "signallab", unit \in DOMAIN Units, SessionShape, SessionIsSound, NEW spectrum,
           spectrum = Lab!AutomaticSpectrum(caps, session)
    PROVE  /\ Admits(caps.frequency, spectrum.start) /\ Admits(caps.frequency, spectrum.stop)
           /\ spectrum.start < spectrum.stop
<1> DEFINE waveform == Lab!Waveform(caps, session.status, session.status.profile)
           span == Max({caps.frequency.step, waveform.span})
           start == RangeValue(caps.frequency, Rounded(2 * waveform.center - span, 2))
           stop == RangeValue(caps.frequency, Rounded(2 * waveform.center + span, 2))
<1>1. /\ IsSpan(caps.frequency) /\ caps.frequency.min < MaximumReachable(caps.frequency)
      /\ Lab!IsTransport(caps, waveform)
  <2> HIDE DEF waveform
  <2> QED BY LabIs DEF waveform
<1>2. spectrum = IF start < stop THEN [start |-> start, stop |-> stop]
                 ELSE [start |-> caps.frequency.min, stop |-> MaximumReachable(caps.frequency)]
  BY LabRanges DEF Lab!AutomaticSpectrum
<1>3. waveform.center \in Int /\ waveform.span \in Int /\ caps.frequency.step \in Int
  BY <1>1 DEF Lab!IsTransport, IsSpan, IsRange
<1> HIDE DEF waveform
<1>4. span \in Int
  <2>1. span \in {caps.frequency.step, waveform.span}
    BY <1>3, TwoOf, Zenon
  <2> HIDE DEF span
  <2> QED BY <1>3, <2>1
<1> HIDE DEF span
<1>5. \A twice \in Int : Admits(caps.frequency, RangeValue(caps.frequency, Rounded(twice, 2)))
  <2> SUFFICES ASSUME NEW twice \in Int PROVE Admits(caps.frequency, RangeValue(caps.frequency, Rounded(twice, 2)))
    OBVIOUS
  <2>1. Rounded(twice, 2) \in Int
    BY DEF Rounded
  <2> QED BY <1>1, <2>1, RangeValueIs DEF IsSpan
<1>6. 2 * waveform.center - span \in Int /\ 2 * waveform.center + span \in Int
  BY <1>3, <1>4
<1>7. Admits(caps.frequency, start) /\ Admits(caps.frequency, stop)
  BY <1>5, <1>6
<1> HIDE DEF start, stop
<1>8. Admits(caps.frequency, caps.frequency.min) /\ Admits(caps.frequency, MaximumReachable(caps.frequency))
  BY <1>1, SpanAdmits
<1> QED
  BY <1>1, <1>2, <1>7, <1>8

\* ... and a capture that follows the selected profile's rules.
LEMMA AutomaticCapture ==
    ASSUME driver = "signallab", unit \in DOMAIN Units, SessionShape, SessionIsSound, NEW iq,
           iq = Lab!Iq(caps, session)
    PROVE  /\ \A n \in {"rate", "bandwidth", "samples"} : Admits(caps[n], iq[n])
           /\ iq.bandwidth <= iq.rate
           /\ Lab!IqRules(Lab!Selected(Lab!Catalog(caps, session.status)), iq)
<1> DEFINE waveform == Lab!Waveform(caps, session.status, session.status.profile)
<1>1. iq = CHOOSE a \in Lab!AutomaticIq(caps, waveform) : TRUE
  BY DEF Lab!Iq
<1> HIDE DEF waveform
<1>2. /\ IsSpan(caps.rate) /\ IsSpan(caps.bandwidth) /\ IsSpan(caps.samples)
      /\ Lab!IsTransport(caps, waveform) /\ Lab!AutomaticIq(caps, waveform) # {}
      /\ Lab!Selected(Lab!Catalog(caps, session.status)) = waveform
  BY LabIs DEF waveform
<1>3. iq \in Lab!AutomaticIq(caps, waveform)
  BY <1>1, <1>2
<1> QED
  BY <1>2, <1>3, IqIsSound

\* Every operation of SignalLab, left automatic, resolves to what binds.
LEMMA LabSettlesAutomatic ==
    ASSUME driver = "signallab", unit \in DOMAIN Units, SessionShape, SessionIsSound, CatalogInv,
           NEW op \in Operations, NEW intents, DOMAIN intents = Names(op), \A n \in Names(op) : ~IsManual(intents[n])
    PROVE  \E target \in Resolved(op, intents) : Binds(target)
<1> DEFINE spectrum == Lab!AutomaticSpectrum(caps, session)
           center == Lab!AutomaticCenter(caps, session)
           iq == Lab!Iq(caps, session)
<1>1. Resolved(op, intents) = Lab!ResolvedLab(caps, session, op, intents)
  BY DEF Resolved
<1>2. \A n \in DOMAIN intents : ~Lab!IsManual(intents[n])
  BY DEF Lab!IsManual, IsManual
<1>3. \A n \in DOMAIN intents : \A v : Lab!Resolve(intents[n], v) = v
  BY <1>2 DEF Lab!Resolve
<1>4. Lab!IqIsOrdered(op, intents)
  <2> SUFFICES ASSUME op = Lab!CaptureIqOp PROVE ~Lab!IsManual(intents["rate"])
    BY DEF Lab!IqIsOrdered, Lab!OrderedWhenManual
  <2>1. "rate" \in Names(op)
    BY DEF Names, Lab!CaptureIqOp, Lab!SpectrumOp, Lab!ObserveOp, Lab!ProfileOp, Lab!ChannelOp, Lab!WaveformOp
  <2> QED BY <1>2, <2>1
<1>5. \A target : IsFeature(target) => Binds(target)
  BY DEF Binds
<1>6. \A target : ~IsFeature(target) /\ Lab!LabBinds(caps, Lab!Catalog(caps, session.status), target) => Binds(target)
  BY DEF Binds, CatalogInv
<1> USE DEF Lab!SpectrumOp, Lab!ObserveOp, Lab!CaptureIqOp, Lab!ProfileOp, Lab!ChannelOp, Lab!WaveformOp
<1>7. CASE op = Lab!SpectrumOp
  <2> DEFINE target == [kind |-> "spectrum", start |-> spectrum.start, stop |-> spectrum.stop]
  <2>1. {"start", "stop"} \subseteq DOMAIN intents
    BY <1>7 DEF Names
  <2> HIDE DEF spectrum
  <2>2. /\ Admits(caps.frequency, spectrum.start) /\ Admits(caps.frequency, spectrum.stop)
        /\ spectrum.start < spectrum.stop
    BY AutomaticSpectrum DEF spectrum
  <2>3. target \in Lab!ResolvedLab(caps, session, op, intents)
    BY <1>2, <1>3, <1>4, <1>7, <2>1, <2>2 DEF Lab!ResolvedLab, spectrum
  <2>4. Lab!LabBinds(caps, Lab!Catalog(caps, session.status), target)
    BY <2>2, LabRanges DEF Lab!LabBinds
  <2> QED BY <1>1, <1>6, <2>3, <2>4 DEF IsFeature
<1>8. CASE op = Lab!ObserveOp
  <2> DEFINE target == [kind |-> "power", center |-> center]
  <2>1. "center" \in DOMAIN intents
    BY <1>8 DEF Names
  <2>2. Admits(caps.frequency, center)
    <3> DEFINE waveform == Lab!Waveform(caps, session.status, session.status.profile)
    <3>1. center = RangeValue(caps.frequency, waveform.center)
      BY LabRanges DEF Lab!AutomaticCenter
    <3> HIDE DEF waveform, center
    <3>2. IsSpan(caps.frequency) /\ Lab!IsTransport(caps, waveform)
      BY LabIs DEF waveform
    <3>3. waveform.center \in Int
      BY <3>2 DEF Lab!IsTransport
    <3> QED BY <3>1, <3>2, <3>3, RangeValueIs DEF IsSpan
  <2> HIDE DEF center
  <2>3. target \in Lab!ResolvedLab(caps, session, op, intents)
    BY <1>2, <1>3, <1>4, <1>8, <2>1 DEF Lab!ResolvedLab, center
  <2>4. Lab!LabBinds(caps, Lab!Catalog(caps, session.status), target)
    BY <2>2, LabRanges DEF Lab!LabBinds
  <2> QED BY <1>1, <1>6, <2>3, <2>4 DEF IsFeature
<1>9. CASE op = Lab!CaptureIqOp
  <2> DEFINE target == [kind |-> "capture", rate |-> iq.rate, bandwidth |-> iq.bandwidth, samples |-> iq.samples]
             catalog == Lab!Catalog(caps, session.status)
             profile == Lab!Selected(catalog)
  <2>1. {"rate", "bandwidth", "samples"} \subseteq DOMAIN intents
    BY <1>9 DEF Names
  <2> HIDE DEF iq, catalog
  <2>2. /\ \A n \in {"rate", "bandwidth", "samples"} : Admits(caps[n], iq[n])
        /\ iq.bandwidth <= iq.rate /\ Lab!IqRules(profile, iq)
    BY AutomaticCapture DEF iq, catalog
  <2>3. target \in Lab!ResolvedLab(caps, session, op, intents)
    BY <1>2, <1>3, <1>4, <1>9, <2>1, <2>2 DEF Lab!ResolvedLab, iq
  <2>4. Lab!IqRules(profile, target)
    BY <2>2 DEF Lab!IqRules
  <2>5. Lab!LabBinds(caps, catalog, target)
    BY <2>2, <2>4, LabRanges DEF Lab!LabBinds
  <2> QED BY <1>1, <1>6, <2>3, <2>5 DEF IsFeature, catalog
<1>10. CASE op \in {Lab!ProfileOp, Lab!ChannelOp, Lab!WaveformOp}
  <2>1. \E target \in Lab!ResolvedLab(caps, session, op, intents) : IsFeature(target)
    <3>1. CASE op = Lab!ProfileOp
      <4> DEFINE target == [action |-> "select-profile", value |-> Lab!Resolve(intents["profile"], session.status.profile)]
      <4>1. target \in Lab!ResolvedLab(caps, session, op, intents)
        BY <1>2, <1>4, <3>1 DEF Lab!ResolvedLab
      <4> QED BY <4>1 DEF IsFeature
    <3>2. CASE op = Lab!ChannelOp
      <4> DEFINE target == [action |-> "configure-channel", value |-> Lab!Resolve(intents["channel"], session.status.channel)]
      <4>1. target \in Lab!ResolvedLab(caps, session, op, intents)
        BY <1>2, <1>4, <3>2 DEF Lab!ResolvedLab
      <4> QED BY <4>1 DEF IsFeature
    <3>3. CASE op = Lab!WaveformOp
      <4> DEFINE target == [action |-> "configure-custom-waveform", value |-> Lab!Resolve(intents["width"], None)]
      <4>1. target \in Lab!ResolvedLab(caps, session, op, intents)
        BY <1>2, <1>4, <3>3 DEF Lab!ResolvedLab
      <4> QED BY <4>1 DEF IsFeature
    <3> QED BY <1>10, <3>1, <3>2, <3>3
  <2> QED BY <1>1, <1>5, <2>1
<1> QED
  BY <1>7, <1>8, <1>9, <1>10 DEF Operations

\* What is configured, and what a command under way is to configure, was
\* admitted (#configure, #executeFeature and #executeCanonicalOperation of
\* instrument-manager.ts, and what the three drivers keep).
THEOREM SettingsInvHolds == Spec => []SettingsInv
<1> QED
  BY SettingsInit, SettingsNext, SurfaceInvHolds, HonestInvHolds, PTL DEF Spec

\* Leaving every setting automatic always works (resolveCanonicalOperation of
\* the drivers against requireFeatureCapability and
\* instrumentConfigurationCapabilityBindingIssues).
THEOREM AutomaticAlwaysResolves == Spec => []AutomaticSettingsResolve
<1>1. SurfaceInv /\ SettingsInv => AutomaticSettingsResolve
  <2> SUFFICES ASSUME SurfaceInv, SettingsInv, Idle, NEW op \in DOMAIN Surface.parameters
               PROVE  \E target \in Resolved(op, AllAuto(Surface.parameters[op])) : Binds(target)
    BY DEF AutomaticSettingsResolve
  <2> DEFINE intents == AllAuto(Surface.parameters[op])
  <2>1. SessionShape /\ CatalogInv /\ unit \in DOMAIN Units /\ SessionIsSound
    BY DEF SurfaceInv, SoundInv, SettingsInv, Idle
  <2>2. op \in Operations /\ DOMAIN Surface.parameters[op] = Names(op)
    BY SurfaceIs DEF SurfaceInv, WellFormed
  <2>3. DOMAIN intents = Names(op) /\ \A n \in Names(op) : ~IsManual(intents[n])
    BY <2>2 DEF AllAuto, AutoIntent, IsManual
  <2> HIDE DEF intents
  <2>4. CASE driver = "tinysa"
    BY <2>1, <2>2, <2>3, <2>4, TinySaSettlesAutomatic DEF intents
  <2>5. CASE driver = "neptune"
    <3>1. \A n \in Neptune!CaptureNames : ~IsManual(intents[n])
      BY <2>3, <2>5 DEF Names
    <3>2. Resolved(op, intents) = Neptune!ResolvedCapture(caps, intents)
      BY <2>5 DEF Resolved
    <3> QED BY <2>1, <2>5, <3>1, <3>2, NeptuneSettlesAutomatic DEF intents
  <2>6. CASE driver = "signallab"
    BY <2>1, <2>2, <2>3, <2>6, LabSettlesAutomatic DEF intents
  <2> QED BY <2>1, <2>4, <2>5, <2>6 DEF SessionShape
<1> QED
  BY <1>1, SurfaceInvHolds, SettingsInvHolds, PTL
=============================================================================
