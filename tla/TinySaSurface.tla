--------------------------- MODULE TinySaSurface ---------------------------
(***************************************************************************)
(* The canonical surface of a TinySA session and how its operations are    *)
(* resolved (packages/tinysa/src/tinysa-instrument-driver.ts): two         *)
(* receiver operations, which yield a configuration, and two source        *)
(* operations, which yield a native rf-generator feature.                  *)
(*                                                                         *)
(* The session is a record: the configuration bound to it, the source      *)
(* configuration and the intents it was made from, the output and its      *)
(* intent, the source operation resolved last, the surface epoch.  Of the  *)
(* receiver controls the trigger stands for itself; points, sweep time,    *)
(* resolution bandwidth and attenuation are resolved as the centre of a    *)
(* power observation is, the other options as the trigger mode, and the    *)
(* source level and modulation depths as the source frequency.             *)
(***************************************************************************)
EXTENDS CanonicalParameters, FiniteSets

(* c: [frequency, power, triggers, level, rf, paths, rates]                *)

SweepOp == "receiver.sweep"
PowerOp == "receiver.power"
SourceOp == "source.configure"
OutputOp == "source.set-output"

TinySaOperations(c) ==
    {SweepOp} \cup (IF c.power THEN {PowerOp} ELSE {})
              \cup (IF c.rf THEN {SourceOp, OutputOp} ELSE {})

Nothing == [n \in {} |-> None]
NoFeature == [feature |-> [action |-> "none"]]

NoTinySa ==
    [configuration |-> NoConfiguration, source |-> Nothing, sourceIntents |-> Nothing,
     output |-> FALSE, outputIntent |-> AutoIntent, pending |-> NoFeature, epoch |-> 0]

Bump(s) == [s EXCEPT !.epoch = @ + 1]
ClearConfiguration(s) == Bump([s EXCEPT !.configuration = NoConfiguration])

Kept(record, name, otherwise) == IF name \in DOMAIN record THEN record[name] ELSE otherwise
Field(record, name) == Kept(record, name, None)

Parameter(domain, requested, effective) ==
    [domain |-> domain, requested |-> requested, effective |-> effective]
------------------------------------------------------------------------------
(* Receiver *)

(* The bound configuration, when it is of the kind asked for. *)
CurrentReceiver(s, kind) ==
    IF s.configuration.kind = kind THEN s.configuration ELSE NoConfiguration

PreferredTrigger(c) == IF "auto" \in c.triggers THEN "auto" ELSE CHOOSE t \in c.triggers : TRUE

EffectiveTrigger(c, current) == EffectiveOption(Field(current, "trigger"), c.triggers, PreferredTrigger(c))
EffectiveLevel(c, current) == EffectiveNumber(Field(current, "level"), c.level, c.level.min)

TriggerParameters(c, current) ==
    [n \in {"trigger"} \cup (IF c.level = None THEN {} ELSE {"level"}) |->
        IF n = "trigger" THEN Parameter(OneOf(c.triggers), AutoIntent, EffectiveTrigger(c, current))
                         ELSE Parameter(Numeric(c.level), AutoIntent, EffectiveLevel(c, current))]

EffectiveSweep(c, current) ==
    [start |-> EffectiveNumber(Field(current, "start"), c.frequency, c.frequency.min),
     stop  |-> EffectiveNumber(Field(current, "stop"), c.frequency, MaximumReachable(c.frequency))]

EffectiveCenter(c, current) == EffectiveNumber(Field(current, "center"), c.frequency, c.frequency.min)

SweepParameters(c, current) ==
    [n \in {"start", "stop"} |-> Parameter(Numeric(c.frequency), AutoIntent, EffectiveSweep(c, current)[n])]

PowerParameters(c, current) ==
    [n \in {"center"} |-> Parameter(Numeric(c.frequency), AutoIntent, EffectiveCenter(c, current))]

(* What the trigger is resolved to; {} when the driver refuses. *)
ResolvedTrigger(c, current, intents) ==
    LET mode  == Resolve(intents["trigger"], EffectiveTrigger(c, current))
    IN  IF ~ResolvesOption(intents["trigger"], c.triggers) THEN {}
        ELSE IF mode # "auto" THEN {[trigger |-> mode, level |-> Resolve(intents["level"], EffectiveLevel(c, current))]}
        ELSE IF c.level # None /\ IsManual(intents["level"]) THEN {}
        ELSE {[trigger |-> "auto", level |-> None]}

TriggerBinds(c, conf) ==
    conf.trigger \in c.triggers /\ (conf.trigger # "auto" => Admits(c.level, conf.level))

(* instrumentConfigurationCapabilityBindingIssues is empty, and the        *)
(* configuration is well formed.                                           *)
ReceiverBinds(c, conf) ==
    /\ TriggerBinds(c, conf)
    /\ conf.kind = "sweep" => /\ Admits(c.frequency, conf.start)
                              /\ Admits(c.frequency, conf.stop)
                              /\ conf.start < conf.stop
    /\ conf.kind = "power" => c.power /\ Admits(c.frequency, conf.center)

ResolvedSweep(c, s, intents) ==
    LET current   == CurrentReceiver(s, "sweep")
        effective == EffectiveSweep(c, current)
    IN  {conf \in {[kind |-> "sweep", start |-> Resolve(intents["start"], effective.start),
                    stop |-> Resolve(intents["stop"], effective.stop),
                    trigger |-> t.trigger, level |-> t.level] : t \in ResolvedTrigger(c, current, intents)} :
            ReceiverBinds(c, conf)}

ResolvedPower(c, s, intents) ==
    LET current == CurrentReceiver(s, "power")
    IN  {conf \in {[kind |-> "power", center |-> Resolve(intents["center"], EffectiveCenter(c, current)),
                    trigger |-> t.trigger, level |-> t.level] : t \in ResolvedTrigger(c, current, intents)} :
            ReceiverBinds(c, conf)}
------------------------------------------------------------------------------
(* Source *)

Modulations(c) == {"off"} \cup DOMAIN c.rates

(* The hull of some ranges, with step 1. *)
Hull(ranges) ==
    [min |-> CHOOSE v \in {r.min : r \in ranges} : \A r \in ranges : v <= r.min,
     max |-> CHOOSE v \in {r.max : r \in ranges} : \A r \in ranges : v >= r.max, step |-> 1]

SourceFrequencies(c) == Hull({c.paths[p] : p \in DOMAIN c.paths})
SourceRates(c) == Hull({c.rates[m] : m \in DOMAIN c.rates})
RatesFor(c, modulation) == IF modulation = "off" THEN SourceRates(c) ELSE c.rates[modulation]

DefaultRate == 1              \* what a source without modulation is given

AutomaticSource(c) ==
    [frequency |-> c.paths["normal"].min, path |-> "normal", modulation |-> "off",
     rate |-> IF DOMAIN c.rates = {} THEN DefaultRate ELSE SourceRates(c).min]

SourceNames(c) == {"frequency", "path", "modulation"} \cup (IF DOMAIN c.rates = {} THEN {} ELSE {"rate"})

SourceDomain(c, n) ==
    CASE n = "frequency" -> Numeric(SourceFrequencies(c))
      [] n = "path" -> OneOf(DOMAIN c.paths)
      [] n = "modulation" -> OneOf(Modulations(c))
      [] n = "rate" -> Numeric(SourceRates(c))

SourceParameters(c, s) ==
    [n \in SourceNames(c) |->
        Parameter(SourceDomain(c, n), Kept(s.sourceIntents, n, AutoIntent), Kept(s.source, n, AutomaticSource(c)[n]))]

(* An automatic setting keeps what the source is set to, admitted or not:  *)
(* what a value must lie in is judged afterwards.                          *)
ResolvedSource(c, s, intents) ==
    LET automatic  == AutomaticSource(c)
        kept(n, otherwise) == Kept(s.source, n, otherwise)
        path       == Resolve(intents["path"], kept("path", automatic.path))
        modulation == Resolve(intents["modulation"], kept("modulation", automatic.modulation))
        frequency  == Resolve(intents["frequency"], kept("frequency", c.paths[path].min))
        rate       == IF "rate" \in SourceNames(c)
                      THEN Resolve(intents["rate"], kept("rate", RatesFor(c, modulation).min))
                      ELSE automatic.rate
        refused    == \/ ~ResolvesOption(intents["path"], DOMAIN c.paths)
                      \/ ~ResolvesOption(intents["modulation"], Modulations(c))
                      \/ ~Admits(c.paths[path], frequency)
                      \/ "rate" \in SourceNames(c) /\ ~Admits(RatesFor(c, modulation), rate)
    IN  IF refused THEN {}
        ELSE {[action |-> "configure", path |-> path, frequency |-> frequency, modulation |-> modulation,
               rate |-> IF modulation = "off" THEN None ELSE rate]}

ResolvedOutput(intents) ==
    {[action |-> "set-output", enabled |-> IsManual(intents["output"]) /\ intents["output"].value]}

(* What the device is sent for a feature: a source without modulation gets *)
(* the default rate.                                                       *)
GeneratorConfiguration(feature) ==
    [frequency |-> feature.frequency, path |-> feature.path, modulation |-> feature.modulation,
     rate |-> IF feature.modulation = "off" THEN DefaultRate ELSE feature.rate]

(* requireFeatureCapability. *)
SourceBinds(c, feature) ==
    feature.action = "configure" =>
        /\ feature.path \in DOMAIN c.paths
        /\ Admits(c.paths[feature.path], feature.frequency)
        /\ feature.modulation # "off" => /\ feature.modulation \in DOMAIN c.rates
                                         /\ Admits(c.rates[feature.modulation], feature.rate)

(* What tinySaCapabilities makes of a device: a sweep is advertised only   *)
(* where the frequencies leave room for one, a level wherever a trigger    *)
(* needs it, and the source's rates admit the one it starts with.          *)
AdvertisesTinySa(c) ==
    /\ IsSpan(c.frequency) /\ c.frequency.min < MaximumReachable(c.frequency)
    /\ c.triggers # {} /\ None \notin c.triggers
    /\ IF c.level = None THEN c.triggers = {"auto"} ELSE IsSpan(c.level)
    /\ c.rf => /\ "normal" \in DOMAIN c.paths /\ \A p \in DOMAIN c.paths : IsSpan(c.paths[p])
               /\ DOMAIN c.rates \subseteq {"am", "fm"}
               /\ \A m \in DOMAIN c.rates : IsSpan(c.rates[m]) /\ Admits(c.rates[m], DefaultRate)
------------------------------------------------------------------------------
(* Surface, resolution, and the session after an answer of the device *)

Joined(f, g) == [n \in DOMAIN f \cup DOMAIN g |-> IF n \in DOMAIN f THEN f[n] ELSE g[n]]

OutputParameters(s) == [n \in {"output"} |-> Parameter(OneOf(BOOLEAN), s.outputIntent, s.output)]

TinySaParameters(c, s, op) ==
    LET sweep == CurrentReceiver(s, "sweep")
        power == CurrentReceiver(s, "power")
    IN  CASE op = SweepOp  -> Joined(SweepParameters(c, sweep), TriggerParameters(c, sweep))
          [] op = PowerOp  -> Joined(PowerParameters(c, power), TriggerParameters(c, power))
          [] op = SourceOp -> SourceParameters(c, s)
          [] op = OutputOp -> OutputParameters(s)

TinySaSurface(c, s) ==
    [revision   |-> <<s.epoch, 0>>,
     parameters |-> [op \in TinySaOperations(c) |-> TinySaParameters(c, s, op)]]

TinySaResolved(c, s, op, intents) ==
    CASE op = SweepOp  -> ResolvedSweep(c, s, intents)
      [] op = PowerOp  -> ResolvedPower(c, s, intents)
      [] op = SourceOp -> ResolvedSource(c, s, intents)
      [] op = OutputOp -> ResolvedOutput(intents)

(* A resolved source operation waits for its feature to be acknowledged.   *)
Stage(s, op, intents, feature) ==
    [s EXCEPT !.pending = [operation |-> op, feature |-> feature, intents |-> intents]]

IntentsOf(source) == [n \in DOMAIN source |-> Manual(source[n])]

(* The feature that was staged brings its intents; any other one makes     *)
(* what it set the explicit request, and leaves the staged one waiting.    *)
CommitSource(s, feature) ==
    LET ours == s.pending.feature = feature
        fed  == IF ours THEN [s EXCEPT !.pending = NoFeature] ELSE s
    IN  CASE feature.action = "configure" ->
               [fed EXCEPT !.source = GeneratorConfiguration(feature),
                           !.sourceIntents = IF ours THEN s.pending.intents
                                             ELSE IntentsOf(GeneratorConfiguration(feature))]
          [] feature.action = "set-output" ->
               [fed EXCEPT !.output = feature.enabled,
                           !.outputIntent = CASE ours -> s.pending.intents["output"]
                                              [] ~ours /\ feature.enabled -> Manual(TRUE)
                                              [] OTHER -> AutoIntent]

(* Faulty variant: the surface keeps its revision. *)
FeatureAcceptedSilently(s, feature) == CommitSource(s, feature)

(* executeFeature, once the device has accepted the generator command. *)
FeatureAccepted(s, feature) == Bump(CommitSource(s, feature))

FeatureRefused(s, feature) ==
    IF s.pending.feature = feature THEN [s EXCEPT !.pending = NoFeature] ELSE s

ConfigurationAccepted(s, configuration) == Bump([s EXCEPT !.configuration = configuration])

OutputOff == [action |-> "set-output", enabled |-> FALSE]
==============================================================================
