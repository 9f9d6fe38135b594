----------------------- MODULE NeptuneCaptureSurface -----------------------
(***************************************************************************)
(* The canonical capture operation of a Neptune P210 session               *)
(* (packages/neptune-p210/src/neptune-p210-instrument-driver.ts): sample   *)
(* rate and bandwidth are chosen together, a manual one is never changed.  *)
(* The tune and the number of samples are chosen alone; the tune stands    *)
(* for both.                                                               *)
(***************************************************************************)
EXTENDS CanonicalParameters

(* c: [tune, rate, bandwidth], ranges *)

CaptureOp == "capture"
CaptureNames == {"tune", "rate", "bandwidth"}

(* The driver's preferences, in the units of the ranges. *)
PreferredTune == 2
PreferredRate == 3
PreferredBandwidth == 2

NoCapture == [configuration |-> NoConfiguration, revision |-> 0]

(* The pair chosen for capabilities nobody asked anything of: {} when      *)
(* there is none, and the session has no surface to publish.               *)
AutomaticCapture(c) ==
    LET rate      == RangeValueAtLeast(c.rate, PreferredRate, c.bandwidth.min)
        bandwidth == RangeValueAtMost(c.bandwidth, PreferredBandwidth, rate)
    IN  IF rate = None THEN {}
        ELSE IF bandwidth = None THEN {}
        ELSE {[kind |-> "capture", tune |-> RangeValue(c.tune, PreferredTune), rate |-> rate, bandwidth |-> bandwidth]}

Automatic(c) == CHOOSE a \in AutomaticCapture(c) : TRUE

(* Without an automatic capture the driver throws, and there is no session *)
(* to speak of.                                                            *)
AdvertisesNeptune(c) == (\A n \in CaptureNames : IsSpan(c[n])) /\ AutomaticCapture(c) # {}

NeptuneSurface(c, s) ==
    LET configured == s.configuration # NoConfiguration
        effective  == IF configured THEN s.configuration ELSE Automatic(c)
    IN  [revision   |-> <<0, s.revision>>,
         parameters |->
            [op \in {CaptureOp} |->
                [n \in CaptureNames |->
                    [domain    |-> Numeric(c[n]),
                     requested |-> IF configured THEN Manual(s.configuration[n]) ELSE AutoIntent,
                     effective |-> effective[n]]]]]

(* The constraint declared with the operation. *)
CaptureIsOrdered(intents) == OrderedWhenManual(intents["bandwidth"], intents["rate"])

(* resolveCanonicalInteger: an explicit value must be admitted. *)
Accepts(c, intents, n) == IsManual(intents[n]) => Admits(c[n], intents[n].value)

ResolvedCapture(c, intents) ==
    LET automatic == Automatic(c)
        asked(n)  == Resolve(intents[n], automatic[n])
        manual(n) == IsManual(intents[n])
        rate      == IF manual("rate") THEN asked("rate")
                     ELSE RangeValueAtLeast(c.rate, automatic.rate,
                                            IF manual("bandwidth") THEN asked("bandwidth") ELSE c.bandwidth.min)
        bandwidth == IF manual("bandwidth") THEN asked("bandwidth")
                     ELSE RangeValueAtMost(c.bandwidth, automatic.bandwidth, rate)
    IN  IF \/ ~CaptureIsOrdered(intents)
           \/ \E n \in CaptureNames : ~Accepts(c, intents, n) THEN {}
        ELSE IF rate = None THEN {}
        ELSE IF bandwidth = None THEN {}
        ELSE {[kind |-> "capture", tune |-> asked("tune"), rate |-> rate, bandwidth |-> bandwidth]}

(* instrumentConfigurationCapabilityBindingIssues and the schema; the      *)
(* driver's configure checks the same again.                               *)
CaptureBinds(c, conf) ==
    (\A n \in CaptureNames : Admits(c[n], conf[n])) /\ conf.bandwidth <= conf.rate
==============================================================================
