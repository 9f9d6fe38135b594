--------------------------- MODULE FrequencyAgile ---------------------------
(***************************************************************************)
(* Which sweeps may carry frequency-agile 2.4 GHz activity, which follow   *)
(* one another, and when the looks of a window qualify as agile            *)
(* (packages/analysis/src/frequency-agile-geometry.ts and                  *)
(* bayesian-agile-association.ts).                                         *)
(*                                                                         *)
(* Of a sweep this module reads its id, sequence number, capture time (at, *)
(* in units of 25 ms), session, geometry and whether its source is the     *)
(* SignalLab simulation, whose cadence is exact.  Frequencies count from   *)
(* 2400 MHz.                                                               *)
(***************************************************************************)
EXTENDS BayesianDetector

CONSTANTS
  MinimumPositives,     \* minimumPositiveObservations (8 in the code)
  MinimumCells,         \* minimumResolutionCells (3)
  PromotionChanges,     \* of n transitions, how many must change for the
  RetentionChanges      \* posterior to reach .99 and .90: functions of n

BandStart == 2 * MHz
BandStop  == 80 * MHz
MaximumComponentBandwidth == 4 * MHz
MinimumCaptureGap == 1
MaximumCaptureGap == 20

SweepEligible(sweep) ==
  /\ Grid(sweep).start <= BandStart
  /\ Grid(sweep).stop >= BandStop
  /\ Grid(sweep).time = 50

GeometryCompatible(previous, sweep) ==
  /\ SweepEligible(previous) /\ SweepEligible(sweep)
  /\ previous.geometry = sweep.geometry
  /\ previous.session = sweep.session

StrictlyOrderedOpportunity(previous, sweep) ==
  /\ sweep.id # previous.id
  /\ sweep.seq > previous.seq
  /\ sweep.at > previous.at

SequentialOpportunity(previous, sweep) ==
  /\ StrictlyOrderedOpportunity(previous, sweep)
  /\ sweep.seq = previous.seq + 1
  /\ \/ previous.exact /\ sweep.exact
     \/ sweep.at - previous.at \in MinimumCaptureGap..MaximumCaptureGap

---------------------------------------------------------------------------
(* One look                                                                *)

InBand(c) == c.stop >= BandStart /\ c.start <= BandStop

\* frequencyAgileObservationEligible, boundedFrequencyAgileCenter and the
\* support a look publishes: half a bin wider, inside the sweep.
ObservationEligible(c) == InBand(c) /\ Bandwidth(c) <= MaximumComponentBandwidth

AgileCentre(c) == Largest({BandStart, Smallest({BandStop, Centre(c)})})

AgileSupport(c, geometry) ==
  <<Smallest({AgileCentre(c), Largest({geometry.start, c.start - geometry.bin \div 2})}),
    Largest({AgileCentre(c), Smallest({geometry.stop, c.stop + geometry.bin \div 2})})>>

\* What a sweep's own candidates say: no component in the band, exactly one
\* that qualifies, or anything else.
OpportunityOutcome(candidates) ==
  LET band == {k \in DOMAIN candidates : InBand(candidates[k])}
  IN  IF band = {} THEN "none"
      ELSE IF /\ Cardinality(band) = 1
              /\ \A k \in band : ObservationEligible(candidates[k])
             THEN "exactly-one" ELSE "ambiguous"

---------------------------------------------------------------------------
(* A window of looks: a sequence of [sweep, candidate, track]              *)

ResolvedCentreChanged(l, r) ==
  LET Width(x) == AgileSupport(x.candidate, Grid(x.sweep))[2]
                    - AgileSupport(x.candidate, Grid(x.sweep))[1]
      resolution == Largest({MHz \div 2, Grid(l.sweep).rbw, Grid(r.sweep).rbw,
                             (Width(l) + Width(r)) \div 2})
  IN  Distance(AgileCentre(l.candidate), AgileCentre(r.candidate)) > resolution

ChangedTransitions(looks) ==
  Cardinality({i \in 2..Len(looks) : ResolvedCentreChanged(looks[i - 1], looks[i])})

\* resolutionCellCount: in the order of their centres, each look that is
\* resolved from every cell before it opens one.
ResolutionCells(looks) ==
  LET ordered == SortSeq(looks, LAMBDA l, r :
                   AgileCentre(l.candidate) < AgileCentre(r.candidate))
      Open(cells, look) == IF \A c \in cells : ResolvedCentreChanged(c, look)
                             THEN cells \cup {look} ELSE cells
  IN  Cardinality(FoldLeft(Open, {}, ordered))

\* bayesianFrequencyAgileActivityEvidence and ...Qualifies: enough looks,
\* enough cells, and a posterior that depends on how many of the transitions
\* changed; an activity already promoted needs the lower one.
ActivityQualifies(looks, promoted) ==
  LET transitions == Len(looks) - 1
  IN  /\ Len(looks) >= MinimumPositives
      /\ ResolutionCells(looks) >= MinimumCells
      /\ ChangedTransitions(looks)
           >= (IF promoted THEN RetentionChanges ELSE PromotionChanges)[transitions]
=============================================================================
