-------------------------- MODULE SignalLabSurface -------------------------
(***************************************************************************)
(* The canonical surface of the in-process SignalLab session               *)
(* (apps/desktop/src/shared/in-process-signal-lab-driver.ts): acquisition  *)
(* operations whose automatic values follow the selected source profile,   *)
(* and source operations that change the profile, the channel and a custom *)
(* waveform.  The measurement service behind it is another repository: its *)
(* status is modelled from what this driver reads of it.                   *)
(*                                                                         *)
(* One channel setting stands for the five (the others are resolved the    *)
(* same way), one waveform choice, the width, for the custom waveform's.   *)
(* The spectrum's points and the capture's tune are left out: they are     *)
(* resolved alone, as the centre of a power observation is.                *)
(***************************************************************************)
EXTENDS CanonicalParameters

(* c: [frequency, rate, bandwidth, samples, profiles], the last a function *)
(* from profiles to [center, span] and a transport: [signal, native,       *)
(* least, derived, oneShot], a custom profile from its width to these.     *)

SpectrumOp == "spectrum"
ObserveOp == "power"
CaptureIqOp == "capture"
ProfileOp == "source.profile"
ChannelOp == "source.channel"
WaveformOp == "source.waveform"

Channels == {"clean", "fading"}
Widths == {"narrow", "wide"}
DefaultWidth == "narrow"
CustomProfile == "custom"

PreferredSamples == 4
MaxSamples == 8               \* MAX_COMPLEX_IQ_SAMPLES_V1

(* The service's status: selected profile, channel, the width pinned for   *)
(* the custom waveform (or None), and the producer's configuration epoch.  *)
Status(profile, channel, pinned, epoch) ==
    [profile |-> profile, channel |-> channel, pinned |-> pinned, epoch |-> epoch]

WidthOf(status) == IF status.pinned = None THEN DefaultWidth ELSE status.pinned
Waveform(c, status, profile) == c.profiles[profile][WidthOf(status)]

(* Session and manager keep a capability record: the selected profile, the *)
(* channel, and the transport of every profile.                            *)
Catalog(c, status) ==
    [selected |-> status.profile, channel |-> status.channel,
     transports |-> [p \in DOMAIN c.profiles |-> Waveform(c, status, p)]]

Selected(catalog) == catalog.transports[catalog.selected]

NoLedger == [action |-> "none"]

NoSignalLab(status) ==
    [status |-> status, configuration |-> NoConfiguration, revision |-> 0,
     intents |-> [n \in {} |-> AutoIntent], pending |-> NoLedger]

LabOperations(s) ==
    {SpectrumOp, ObserveOp, CaptureIqOp, ProfileOp, ChannelOp}
        \cup (IF s.status.profile = CustomProfile THEN {WaveformOp} ELSE {})
------------------------------------------------------------------------------
(* Automatic configurations *)

(* canonicalIntegerAtLeast and canonicalIntegerClosestWithin; {} where     *)
(* they throw.                                                             *)
IntegersAtLeast(r, required) ==
    {v \in {r.min + Max({0, Ceiling(required - r.min, r.step)}) * r.step} : v <= MaximumReachable(r)}

ClosestWithin(r, preferred, maximum) ==
    {v \in {RangeValue([r EXCEPT !.max = admitted], preferred) :
               admitted \in {a \in {Min({MaximumReachable(r), maximum})} : a >= r.min}} : v <= maximum}

(* 95 % of the band is usable when a rate is derived. *)
MinimumDerivedRate(signal) == Ceiling(signal * 100, 95)

OutputLimit(profile, rate) ==
    CASE profile.oneShot = None -> None
      [] profile.oneShot # None /\ profile.native = None -> profile.oneShot
      [] OTHER -> Max({1, Min({MaxSamples, (profile.oneShot * rate) \div profile.native})})

AutomaticSpectrum(c, s) ==
    LET waveform == Waveform(c, s.status, s.status.profile)
        span     == Max({c.frequency.step, waveform.span})
        closest(twice) == RangeValue(c.frequency, Rounded(twice, 2))
        start    == closest(2 * waveform.center - span)
        stop     == closest(2 * waveform.center + span)
    IN  IF start < stop THEN [start |-> start, stop |-> stop]
        ELSE [start |-> c.frequency.min, stop |-> MaximumReachable(c.frequency)]

AutomaticCenter(c, s) == RangeValue(c.frequency, Waveform(c, s.status, s.status.profile).center)

(* {} where the code throws: there is then no surface at all. *)
AutomaticIq(c, profile) ==
    LET leastBandwidth == Max({c.bandwidth.min, profile.signal} \cup ({profile.least} \ {None}))
        leastRate      == Max({c.rate.min, leastBandwidth,
                               IF profile.native = None THEN MinimumDerivedRate(profile.signal) ELSE profile.native})
        limits(rate)   == {c.samples.max} \cup ({OutputLimit(profile, rate)} \ {None})
        pairs          == IntegersAtLeast(c.rate, leastRate) \X IntegersAtLeast(c.bandwidth, leastBandwidth)
    IN  UNION {{[rate |-> pair[1], bandwidth |-> pair[2], samples |-> samples] :
                   samples \in ClosestWithin(c.samples, PreferredSamples, Min(limits(pair[1])))} :
                 pair \in {p \in pairs : p[2] <= p[1]}}

(* Of what the contract demands of a profile's transport: the signal fills *)
(* the least bandwidth, and a native rate is one of the rates and carries  *)
(* the signal and the native bandwidth.                                    *)
IsTransport(c, profile) ==
    /\ profile.center \in Int /\ profile.span \in Int
    /\ profile.signal \in Nat \ {0} /\ c.bandwidth.min <= profile.signal
    /\ {profile.native, profile.least, profile.oneShot} \ {None} \subseteq Nat \ {0}
    /\ profile.native # None =>
          /\ Admits(c.rate, profile.native) /\ profile.signal <= profile.native
          /\ profile.least # None => profile.least <= profile.native

AdvertisesLab(c) ==
    /\ IsSpan(c.frequency) /\ c.frequency.min < MaximumReachable(c.frequency)
    /\ IsSpan(c.rate) /\ IsSpan(c.bandwidth) /\ IsSpan(c.samples)
    /\ \A p \in DOMAIN c.profiles : \A width \in Widths :
          IsTransport(c, c.profiles[p][width]) /\ AutomaticIq(c, c.profiles[p][width]) # {}

Iq(c, s) == CHOOSE a \in AutomaticIq(c, Waveform(c, s.status, s.status.profile)) : TRUE
------------------------------------------------------------------------------
(* Surface *)

(* An acquisition parameter shows the bound configuration as the request.  *)
LabAcquisition(domain, current, n, automatic) ==
    [domain    |-> domain,
     requested |-> IF current = NoConfiguration THEN AutoIntent ELSE Manual(current[n]),
     effective |-> IF current = NoConfiguration THEN automatic ELSE current[n]]

LabDomain(c, op, n) ==
    CASE op \in {SpectrumOp, ObserveOp} -> Numeric(c.frequency)
      [] op = CaptureIqOp -> Numeric(c[n])
      [] op = ProfileOp -> OneOf(DOMAIN c.profiles)
      [] op = ChannelOp -> OneOf(Channels)
      [] op = WaveformOp -> OneOf(Widths)

CurrentLab(s, kind) ==
    IF s.configuration.kind = kind THEN s.configuration ELSE NoConfiguration

(* A source parameter shows the ledger of the last source operation. *)
LabSource(domain, s, n, effective, fallback) ==
    [domain |-> domain, effective |-> effective,
     requested |-> IF n \in DOMAIN s.intents THEN s.intents[n] ELSE fallback]

WaveformIntent(pinned) == IF pinned = None THEN AutoIntent ELSE Manual(pinned)

LabParameters(c, s, op) ==
    CASE op = SpectrumOp ->
           [n \in {"start", "stop"} |->
               LabAcquisition(LabDomain(c, op, n), CurrentLab(s, "spectrum"), n, AutomaticSpectrum(c, s)[n])]
      [] op = ObserveOp ->
           [n \in {"center"} |->
               LabAcquisition(LabDomain(c, op, n), CurrentLab(s, "power"), n, AutomaticCenter(c, s))]
      [] op = CaptureIqOp ->
           [n \in {"rate", "bandwidth", "samples"} |->
               LabAcquisition(LabDomain(c, op, n), CurrentLab(s, "capture"), n, Iq(c, s)[n])]
      [] op = ProfileOp ->
           [n \in {"profile"} |-> LabSource(LabDomain(c, op, n), s, n, s.status.profile, AutoIntent)]
      [] op = ChannelOp ->
           [n \in {"channel"} |-> LabSource(LabDomain(c, op, n), s, n, s.status.channel, AutoIntent)]
      [] op = WaveformOp ->
           [n \in {"width"} |->
               LabSource(LabDomain(c, op, n), s, n, WidthOf(s.status), WaveformIntent(s.status.pinned))]

SignalLabSurface(c, s) ==
    [revision   |-> <<s.status.epoch, s.revision>>,
     parameters |-> [op \in LabOperations(s) |-> LabParameters(c, s, op)]]
------------------------------------------------------------------------------
(* Resolution *)

IqIsOrdered(op, intents) == op = CaptureIqOp => OrderedWhenManual(intents["bandwidth"], intents["rate"])

ResolvedLab(c, s, op, intents) ==
    LET spectrum   == AutomaticSpectrum(c, s)
        iq         == Iq(c, s)
        refused    == \/ ~IqIsOrdered(op, intents)
                      \/ \E n \in DOMAIN intents :
                            IsManual(intents[n]) /\ intents[n].value \notin Offered(LabDomain(c, op, n))
        outcome    ==
            CASE op = SpectrumOp -> [kind |-> "spectrum", start |-> Resolve(intents["start"], spectrum.start),
                                     stop |-> Resolve(intents["stop"], spectrum.stop)]
              [] op = ObserveOp -> [kind |-> "power", center |-> Resolve(intents["center"], AutomaticCenter(c, s))]
              [] op = CaptureIqOp -> [kind |-> "capture", rate |-> Resolve(intents["rate"], iq.rate),
                                      bandwidth |-> Resolve(intents["bandwidth"], iq.bandwidth),
                                      samples |-> Resolve(intents["samples"], iq.samples)]
              [] op = ProfileOp -> [action |-> "select-profile", value |-> Resolve(intents["profile"], s.status.profile)]
              [] op = ChannelOp -> [action |-> "configure-channel", value |-> Resolve(intents["channel"], s.status.channel)]
              [] op = WaveformOp -> [action |-> "configure-custom-waveform", value |-> Resolve(intents["width"], None)]
    IN  IF refused THEN {}
        ELSE {o \in {outcome} : /\ op = SpectrumOp => o.start < o.stop
                                /\ op = CaptureIqOp => o.bandwidth <= o.rate}

(* What a staged source operation leaves in the ledger: a waveform's       *)
(* intents are those of the selections admitted.                           *)
LabStage(s, op, intents, feature) ==
    [s EXCEPT !.pending =
        [action |-> feature.action,
         intents |-> IF op = WaveformOp THEN [n \in {"width"} |-> WaveformIntent(feature.value)] ELSE intents]]

(* The profile rules both the binding and the driver's configure apply.    *)
IqRules(profile, conf) ==
    LET limit == OutputLimit(profile, conf.rate)
    IN  /\ conf.rate >= profile.signal
        /\ conf.bandwidth >= profile.signal
        /\ profile.native # None /\ conf.rate # profile.native => profile.derived
        /\ profile.native # None /\ conf.rate < profile.native =>
               conf.rate >= MinimumDerivedRate(profile.signal)
        /\ limit # None => conf.samples <= limit

(* instrumentConfigurationCapabilityBindingIssues over a catalog: the      *)
(* manager's copy when the manager asks.                                   *)
LabBinds(c, catalog, conf) ==
    CASE conf.kind = "spectrum" -> /\ Admits(c.frequency, conf.start) /\ Admits(c.frequency, conf.stop)
                                   /\ conf.start < conf.stop
      [] conf.kind = "power" -> Admits(c.frequency, conf.center)
      [] conf.kind = "capture" -> /\ \A n \in {"rate", "bandwidth", "samples"} : Admits(c[n], conf[n])
                                  /\ conf.bandwidth <= conf.rate
                                  /\ IqRules(Selected(catalog), conf)

Within(r, v) == r.min <= v /\ v <= r.max

(* The driver's own check, over its status. *)
LabAccepts(c, s, conf) ==
    CASE conf.kind = "spectrum" -> Within(c.frequency, conf.start) /\ Within(c.frequency, conf.stop) /\ conf.start < conf.stop
      [] conf.kind = "power" -> Within(c.frequency, conf.center)
      [] conf.kind = "capture" -> /\ \A n \in {"rate", "bandwidth", "samples"} : Within(c[n], conf[n])
                                  /\ conf.bandwidth <= conf.rate
                                  /\ IqRules(Waveform(c, s.status, s.status.profile), conf)
------------------------------------------------------------------------------
(* Source features *)

(* The service: every mutation advances the producer's epoch. *)
Served(status, feature) ==
    LET next == [status EXCEPT !.epoch = @ + 1]
    IN  CASE feature.action = "select-profile" -> [next EXCEPT !.profile = feature.value]
          [] feature.action = "configure-channel" -> [next EXCEPT !.channel = feature.value]
          [] feature.action = "configure-custom-waveform" -> [next EXCEPT !.pinned = feature.value]

NameOf(action) ==
    CASE action = "select-profile" -> "profile"
      [] action = "configure-channel" -> "channel"
      [] action = "configure-custom-waveform" -> "width"

(* The ledger names one operation's parameters only: the staged intents    *)
(* when the action is theirs, otherwise what the command set.              *)
Ledger(s, feature) ==
    IF s.pending.action = feature.action THEN s.pending.intents
    ELSE [n \in {NameOf(feature.action)} |->
             IF feature.action = "configure-custom-waveform" THEN WaveformIntent(feature.value)
                                                             ELSE Manual(feature.value)]

LabFeatureAccepted(s, feature) ==
    [s EXCEPT !.configuration = NoConfiguration, !.revision = 0, !.pending = NoLedger,
              !.status = Served(s.status, feature), !.intents = Ledger(s, feature)]

LabFeatureRefused(s, feature) ==
    [s EXCEPT !.configuration = NoConfiguration, !.revision = 0,
              !.pending = IF s.pending.action = feature.action THEN NoLedger ELSE s.pending]

(* Faulty variant: a new waveform leaves the transport the manager knows. *)
CatalogOfSelections(catalog, refreshed, feature) ==
    CASE feature.action = "select-profile" -> [catalog EXCEPT !.selected = feature.value]
      [] feature.action = "configure-channel" -> [catalog EXCEPT !.channel = feature.value]
      [] feature.action = "configure-custom-waveform" -> catalog

(* withSelectedSignalLabProfile, withSignalLabChannel and                  *)
(* admitRefreshedCustomWaveformCapabilities: the manager substitutes what  *)
(* the feature may change and nothing else.                                *)
AdmittedCatalog(catalog, refreshed, feature) ==
    CASE feature.action = "select-profile" -> [catalog EXCEPT !.selected = feature.value]
      [] feature.action = "configure-channel" -> [catalog EXCEPT !.channel = feature.value]
      [] feature.action = "configure-custom-waveform" ->
            [catalog EXCEPT !.transports[CustomProfile] = refreshed.transports[CustomProfile]]

(* ... and rejects a refreshed capability that changed anything else. *)
CatalogIsAdmissible(catalog, refreshed, feature) ==
    feature.action = "configure-custom-waveform" =>
        /\ refreshed.selected = catalog.selected
        /\ refreshed.channel = catalog.channel
        /\ \A p \in DOMAIN catalog.transports \ {CustomProfile} : refreshed.transports[p] = catalog.transports[p]
==============================================================================
