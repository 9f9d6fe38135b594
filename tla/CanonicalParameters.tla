------------------------ MODULE CanonicalParameters ------------------------
(***************************************************************************)
(* The building blocks every driver makes its canonical surface from       *)
(* (packages/instrument-runtime/src/canonical-parameters.ts) and the parts *)
(* of the contract that judge a surface, a request and a configuration     *)
(* (packages/contracts/src/canonical-instrument.ts, instrument.ts).        *)
(*                                                                         *)
(* A range is a record [min, max, step] of integers: a range without a     *)
(* step has step 1, and the tolerance the code allows for binary fractions *)
(* is exact here.  A parameter has a domain, the intent the operator last  *)
(* requested (automatic or an explicit value) and an effective value.      *)
(***************************************************************************)
EXTENDS Integers, FiniteSetsExt

CONSTANT None                 \* undefined

ASSUME NoneAssumption == None \notin Int

NoConfiguration == [kind |-> "none"]

AutoIntent == [mode |-> "auto"]
Manual(v) == [mode |-> "manual", value |-> v]
IsManual(intent) == intent.mode = "manual"

------------------------------------------------------------------------------
(* Ranges *)

IsRange(r) == r.min \in Int /\ r.max \in Int /\ r.step \in Nat \ {0}

Admits(r, v) == v >= r.min /\ v <= r.max /\ (v - r.min) % r.step = 0

(* Faulty variant: the advertised maximum, on the lattice or not. *)
AdvertisedMaximum(r) == r.max

(* A range of a capability is not empty.                                   *)
IsSpan(r) == DOMAIN r = {"min", "max", "step"} /\ IsRange(r) /\ r.min <= r.max

MaximumReachable(r) == r.min + ((r.max - r.min) \div r.step) * r.step

(* Math.round of n / d, with the half rounded up. *)
Rounded(n, d) == (2 * n + d) \div (2 * d)
Ceiling(n, d) == -((-n) \div d)

RangeValue(r, preferred) ==
    LET clamped == Min({MaximumReachable(r), Max({r.min, preferred})})
    IN  r.min + Rounded(clamped - r.min, r.step) * r.step

RangeValueAtLeast(r, preferred, minimum) ==
    LET selected  == RangeValue(r, Max({preferred, minimum}))
        candidate == r.min + Ceiling(minimum - r.min, r.step) * r.step
    IN  CASE selected >= minimum -> selected
          [] selected < minimum /\ candidate <= MaximumReachable(r) -> candidate
          [] OTHER -> None

RangeValueAtMost(r, preferred, maximum) ==
    LET selected  == RangeValue(r, Min({preferred, maximum}))
        candidate == r.min + ((maximum - r.min) \div r.step) * r.step
    IN  CASE selected <= maximum -> selected
          [] selected > maximum /\ candidate >= r.min -> candidate
          [] OTHER -> None
------------------------------------------------------------------------------
(* Parameters and the values they are given *)

Numeric(r) == [kind |-> "number", range |-> r]
OneOf(options) == [kind |-> "enum", options |-> options]

(* What the surface schema demands of a requested or an effective value:   *)
(* a number lies between the bounds, whatever the step.                    *)
Publishable(domain, v) ==
    IF domain.kind = "number" THEN domain.range.min <= v /\ v <= domain.range.max
                              ELSE v \in domain.options

(* What the panel lets the operator commit. *)
Offered(domain) ==
    IF domain.kind = "number"
    THEN {v \in domain.range.min .. domain.range.max : Admits(domain.range, v)}
    ELSE domain.options

EffectiveNumber(v, r, fallback) ==
    IF v # None /\ Admits(r, v) THEN v ELSE fallback

EffectiveOption(v, options, fallback) ==
    IF v # None /\ v \in options THEN v ELSE fallback

Resolve(intent, automatic) == IF IsManual(intent) THEN intent.value ELSE automatic

(* An explicit option must be advertised; an automatic one is not checked. *)
ResolvesOption(intent, options) == IsManual(intent) => intent.value \in options

(* The portable guard on two explicit values of one operation. *)
OrderedWhenManual(low, high) ==
    IsManual(low) /\ IsManual(high) => low.value <= high.value
==============================================================================
