-------------------------- MODULE BayesianDetector --------------------------
(***************************************************************************)
(* The grouping half of the detector (packages/analysis/src/               *)
(* bayesian-signal-detector.ts): from the bins of one sweep to its         *)
(* frequency-local candidates.  A bin's level is an integer: the noise is  *)
(* 0, Threshold is the first level above the configured threshold and      *)
(* Admitted the first that also passes the prominence filter and the       *)
(* posterior test (the numbers behind them are data).  Reach is how many   *)
(* bins to each side the best tested region of a peak extends.  A sweep    *)
(* names its geometry and the scene it saw.                                *)
(***************************************************************************)
EXTENDS ComponentAssociations

CONSTANTS
  Threshold, Admitted,
  Geometries,   \* name -> [start, stop, rbw, bin, time]
  Scenes        \* geometry name -> scene -> [levels, reach]

\* A scene gives a level to each bin of its sweep.
ASSUME ScenesAssumption ==
  \A g \in DOMAIN Scenes : \A s \in DOMAIN Scenes[g] : Scenes[g][s].levels \in Seq(Nat)

\* Frequency of a bin (counted from 1) of a geometry.
BinFrequency(geometry, b) == geometry.start + (b - 1) * geometry.bin

Points(geometry) == 1 + (geometry.stop - geometry.start) \div geometry.bin

\* bridgeShortGaps: a gap of one or two bins between bins above threshold is
\* filled.
AboveThreshold(levels) ==
  LET above == {b \in DOMAIN levels : levels[b] >= Threshold}
      Bridged(b) == \E l, r \in above : l < b /\ b < r /\ r - l <= 3
  IN  above \cup {b \in (DOMAIN levels) \ above : Bridged(b)}

\* The maximal runs of bins above threshold, as <<first, last>>.
SpectralGroups(levels) ==
  LET mask == AboveThreshold(levels)
  IN  {group \in mask \X mask :
         /\ group[1] <= group[2]
         /\ group[1]..group[2] \subseteq mask
         /\ group[1] - 1 \notin mask /\ group[2] + 1 \notin mask}

\* centeredRegion: the tested bins around a peak, moved inside the grid.
CenteredRegion(points, peak, reach) ==
  LET width == Smallest({points, 2 * reach + 1})
      first == Largest({1, Smallest({peak - reach, points - width + 1})})
  IN  <<first, first + width - 1>>

\* The candidate of a group: the first strongest bin is its peak; its
\* classification region covers the group and the tested region.
CandidateOf(geometry, levels, reach, group) ==
  LET bins == group[1]..group[2]
      peak == CHOOSE b \in bins :
                /\ \A c \in bins : levels[c] <= levels[b]
                /\ \A c \in bins : c < b => levels[c] < levels[b]
      tested == CenteredRegion(Points(geometry), peak, reach)
  IN  [start  |-> BinFrequency(geometry, group[1]),
       stop   |-> BinFrequency(geometry, group[2]),
       peak   |-> BinFrequency(geometry, peak),
       dbm    |-> levels[peak],
       region |-> <<BinFrequency(geometry, Smallest({group[1], tested[1]})),
                    BinFrequency(geometry, Largest({group[2], tested[2]}))>>]

\* analyzeBayesianSweep: the admitted groups in frequency order.
AnalyzeBayesianSweep(geometry, levels, reach) ==
  LET Of(group) == CandidateOf(geometry, levels, reach, group)
      admitted == {group \in SpectralGroups(levels) : Of(group).dbm >= Admitted}
      first == Ascending({group[1] : group \in admitted})
  IN  [n \in DOMAIN first |-> Of(CHOOSE group \in admitted : group[1] = first[n])]

---------------------------------------------------------------------------
(* What there is to see in each scene, once                                *)

OfEveryScene(F(_, _)) ==
  [g \in DOMAIN Scenes |-> [s \in DOMAIN Scenes[g] |-> F(g, s)]]

SceneCandidates == OfEveryScene(LAMBDA g, s :
  AnalyzeBayesianSweep(Geometries[g], Scenes[g][s].levels, Scenes[g][s].reach))

SceneCombs == OfEveryScene(LAMBDA g, s :
  RegularSpectralComponentAssociations(SceneCandidates[g][s], Geometries[g]))

SceneRegions == OfEveryScene(LAMBDA g, s :
  MulticomponentSweptRegionAssociations(SceneCandidates[g][s], Geometries[g]))

Grid(sweep)       == Geometries[sweep.geometry]
Candidates(sweep) == SceneCandidates[sweep.geometry][sweep.scene]
Combs(sweep)      == SceneCombs[sweep.geometry][sweep.scene]
Regions(sweep)    == SceneRegions[sweep.geometry][sweep.scene]
=============================================================================
