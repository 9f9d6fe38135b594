----------------------- MODULE ComponentAssociations -----------------------
(***************************************************************************)
(* The two pure grouping rules the signal tracker shares with provenance   *)
(* revalidation: which threshold components of ONE sweep form a regular    *)
(* comb (packages/analysis/src/regular-spectral-component.ts) and which    *)
(* form a swept multicomponent region (multicomponent-swept-region.ts),    *)
(* and when two looks at such a group belong to one lineage.               *)
(*                                                                         *)
(* Frequencies are integers in units of 1/16800 MHz: a 50 kHz half bin is  *)
(* 840 units and divides by every interval count 1..8, so the spacings the *)
(* code computes with floating point are exact here for grids of 100 kHz   *)
(* bins.  A candidate is a record [start, stop, peak, dbm, region]; a      *)
(* geometry is [start, stop, rbw, bin].                                    *)
(***************************************************************************)
EXTENDS Integers, Sequences, FiniteSets, SequencesExt

MHz == 16800

Largest(S)  == CHOOSE x \in S : \A y \in S : y <= x
Smallest(S) == CHOOSE x \in S : \A y \in S : x <= y
\* The elements of a finite set of numbers, in order.
Ascending(S) ==
  [n \in 1..Cardinality(S) |-> CHOOSE x \in S : Cardinality({y \in S : y <= x}) = n]

Distance(x, y) == IF x < y THEN y - x ELSE x - y

\* Math.round(x / y) for a positive y.
RoundedQuotient(x, y) == (2 * x + y) \div (2 * y)

Centre(c)    == (c.start + c.stop) \div 2
Bandwidth(c) == c.stop - c.start

MedianOf(values) ==
  LET sorted == SortSeq(values, LAMBDA x, y : x < y)
      middle == Len(sorted) \div 2
  IN  IF Len(sorted) % 2 = 1
        THEN sorted[middle + 1]
        ELSE (sorted[middle] + sorted[middle + 1]) \div 2

---------------------------------------------------------------------------
(* Regular combs                                                           *)

\* How far a centre may lie from its lattice position.
LatticeTolerance(geometry) ==
  Largest({2 * geometry.bin, geometry.rbw \div 2})

Step(candidates, seed, spacing, k) ==
  RoundedQuotient(Centre(candidates[k]) - Centre(candidates[seed]), spacing)

\* The candidates on the lattice through a seed: narrow enough, at most
\* twelve steps away, close to their step, and the strongest of their step
\* (the first in frequency order where several are as strong).
LatticeHits(candidates, geometry, seed, spacing) ==
  LET StepOf(k) == Step(candidates, seed, spacing, k)
      OnLattice(k) ==
        /\ 10 * Bandwidth(candidates[k])
             <= Largest({40 * geometry.rbw, 7 * spacing})
        /\ StepOf(k) \in -12..12
        /\ Distance(Centre(candidates[k]),
                    Centre(candidates[seed]) + StepOf(k) * spacing)
             <= LatticeTolerance(geometry)
      fits == {k \in DOMAIN candidates : OnLattice(k)}
      Before(j, k) == \/ candidates[j].dbm > candidates[k].dbm
                      \/ /\ candidates[j].dbm = candidates[k].dbm
                         /\ Centre(candidates[j]) < Centre(candidates[k])
  IN  {k \in fits : \A j \in fits :
         StepOf(j) = StepOf(k) /\ j # k => ~Before(j, k)}

\* The run of hits around the seed in which at most one line in a row is
\* missing.
LocalRun(candidates, geometry, seed, spacing) ==
  LET hits  == LatticeHits(candidates, geometry, seed, spacing)
      steps == {Step(candidates, seed, spacing, k) : k \in hits}
      Linked(k) ==
        LET s == Step(candidates, seed, spacing, k)
        IN  \A t \in Smallest({0, s})..(Largest({0, s}) - 1) :
              t \in steps \/ t + 1 \in steps
  IN  {k \in hits : Linked(k)}

\* What a pair of seeds and an interval count propose: the local run must
\* hold both seeds and three members, must resolve its spacing (not only
\* every second step), must span enough of the lattice and no more than a
\* cluster may, and nothing else may lie between its outer members.
CombHypothesis(candidates, geometry, left, right, spacing, members) ==
  LET centres == {Centre(candidates[k]) : k \in members}
      span    == Largest(centres) - Smallest(centres)
  IN  /\ {left, right} \subseteq members
      /\ Cardinality(members) >= 3
      /\ \E k \in members : Step(candidates, left, spacing, k) % 2 = 1
      /\ 10 * span >= spacing * (IF Cardinality(members) = 3 THEN 18 ELSE 28)
      /\ 10 * span <= Largest({0, Smallest({20 * MHz,
                         6 * (geometry.stop - geometry.start)})})
      /\ \A k \in (DOMAIN candidates) \ members :
           ~ /\ Centre(candidates[k]) > Smallest(centres)
             /\ Centre(candidates[k]) < Largest(centres)

CombHypotheses(candidates, geometry) ==
  LET Spacing(l, r, n) ==
        (Centre(candidates[r]) - Centre(candidates[l])) \div n
      minimum == Largest({MHz \div 1000, 4 * geometry.bin,
                          (3 * geometry.rbw) \div 2})
      Seed(l, r, n) == /\ Centre(candidates[l]) < Centre(candidates[r])
                       /\ Spacing(l, r, n) >= minimum
                       /\ Spacing(l, r, n) <= MHz \div 2
      seeds == {t \in (DOMAIN candidates) \X (DOMAIN candidates) \X (1..8) :
                  Seed(t[1], t[2], t[3])}
      proposals ==
        {[members |-> LocalRun(candidates, geometry, t[1], Spacing(t[1], t[2], t[3])),
          spacing |-> Spacing(t[1], t[2], t[3]), left |-> t[1], right |-> t[2]]
           : t \in seeds}
  IN  {[members |-> p.members, spacing |-> p.spacing] :
         p \in {q \in proposals : CombHypothesis(candidates, geometry, q.left,
                                                 q.right, q.spacing, q.members)}}

\* Per member set the widest directly resolved spacing; of the member sets
\* the maximal ones; of those the ones no other maximal one shares a line
\* with (a shared line is ambiguous and admits neither).
Widest(hypotheses) ==
  {h \in hypotheses : \A g \in hypotheses : g.members = h.members => g.spacing <= h.spacing}

Maximal(hypotheses) ==
  {h \in hypotheses : ~\E g \in hypotheses :
     h.members # g.members /\ h.members \subseteq g.members}

Unambiguous(hypotheses) ==
  {h \in hypotheses : \A g \in hypotheses \ {h} : g.members \cap h.members = {}}

RegularSpectralComponentAssociations(candidates, geometry) ==
  LET hypotheses == IF Len(candidates) < 3 THEN {}
                    ELSE CombHypotheses(candidates, geometry)
      Association(h) ==
        [members |-> h.members, spacing |-> h.spacing,
         anchor |-> Smallest({Centre(candidates[k]) : k \in h.members}),
         start |-> Smallest({candidates[k].start : k \in h.members}),
         stop  |-> Largest({candidates[k].stop : k \in h.members})]
  IN  SetToSortSeq({Association(h) : h \in Unambiguous(Maximal(Widest(hypotheses)))},
                   LAMBDA a, b : a.anchor < b.anchor)

\* regularSpectralComponentLineagesAreCompatible: one lattice (or its first
\* divisor), in phase, a line in common and overlapping hulls.
RegularLineagesAreCompatible(l, r, geometry) ==
  LET fundamental == Smallest({l.spacing, r.spacing})
      larger      == Largest({l.spacing, r.spacing})
      tolerance   == Largest({LatticeTolerance(geometry), (8 * fundamental) \div 100})
      ratio       == RoundedQuotient(larger, fundamental)
      phase       == RoundedQuotient(r.anchor - l.anchor, fundamental)
  IN  /\ l.start < l.stop /\ r.start < r.stop
      /\ ratio \in 1..2
      /\ Distance(larger, ratio * fundamental) <= tolerance
      /\ Distance(r.anchor - l.anchor, phase * fundamental) <= tolerance
      /\ \E x \in l.centres, y \in r.centres :
           Distance(x, y) <= LatticeTolerance(geometry)
      /\ Smallest({l.stop, r.stop}) > Largest({l.start, r.start})

---------------------------------------------------------------------------
(* Swept multicomponent regions                                            *)

ByCentre(candidates) ==
  SortSeq(candidates, LAMBDA c, d : Centre(c) < Centre(d))

Gaps(components) ==
  [i \in 1..(Len(components) - 1) |-> Centre(components[i + 1]) - Centre(components[i])]

\* A gap of one to three raster steps, or one irregular edge gap next to a
\* narrow outer component.
RasterGap(geometry, spacing, gap) ==
  LET steps == RoundedQuotient(gap, spacing)
  IN  /\ steps \in 1..3
      /\ 100 * Distance(gap, steps * spacing)
           <= Largest({310 * geometry.bin, 150 * geometry.rbw, 8 * spacing})

EdgeGap(spacing, gap, edge) ==
  /\ 10 * Bandwidth(edge) <= 3 * spacing
  /\ 2 * gap >= spacing
  /\ 2 * gap <= 3 * spacing

\* A resolved raster with at most one edge exception.
IsRaster(components, gaps, spacing, geometry) ==
  LET n == Len(components)
      hull == components[n].stop - components[1].start
      irregular == {i \in DOMAIN gaps : ~RasterGap(geometry, spacing, gaps[i])}
      Fits(i) == \/ i = 1 /\ EdgeGap(spacing, gaps[i], components[1])
                 \/ i = n - 1 /\ i # 1 /\ EdgeGap(spacing, gaps[i], components[n])
  IN  /\ \A i \in irregular : Fits(i)
      /\ Cardinality(irregular) <= 1
      /\ 10 * hull >= 8 * spacing * (n - 1)
      /\ 10 * hull <= 9 * (geometry.stop - geometry.start)

\* The components whose tested region contains the hull of them all.
ContainingAnchors(components, geometry) ==
  LET tolerance == (11 * Largest({geometry.bin, geometry.rbw})) \div 10
      start == Smallest({components[i].start : i \in DOMAIN components})
      stop  == Largest({components[i].stop : i \in DOMAIN components})
  IN  {i \in DOMAIN components : /\ components[i].region[1] <= start + tolerance
                                /\ components[i].region[2] >= stop - tolerance}

\* The one with the narrowest region, 0 for none.  Between regions of one width
\* the evidence of their bins decides, which is data: the lower is taken here.
\* Components that tested the same region have the same evidence and the first
\* of them is taken.
Narrower(c, d) ==
  LET Width(r) == r[2] - r[1]
  IN  \/ Width(c.region) < Width(d.region)
      \/ Width(c.region) = Width(d.region) /\ c.region[1] < d.region[1]

Anchor(candidates, containing) ==
  IF containing = {} THEN 0
  ELSE Smallest({i \in containing :
                   \A j \in containing : ~Narrower(candidates[j], candidates[i])})

SpacingInRange(spacing, geometry) ==
  /\ spacing >= Largest({MHz \div 2, 6 * geometry.bin, 3 * geometry.rbw})
  /\ spacing <= Smallest({20 * MHz, (geometry.stop - geometry.start) \div 4})

\* The whole population is one region or none is: the median gap in range,
\* no wide component, and one of the two shapes.
IsSweptRegion(components, gaps, spacing, geometry) ==
  /\ SpacingInRange(spacing, geometry)
  /\ \A i \in DOMAIN components :
       100 * Bandwidth(components[i]) <= Largest({400 * geometry.rbw, 76 * spacing})
  /\ \/ ContainingAnchors(components, geometry) # {}
     \/ IsRaster(components, gaps, spacing, geometry)

MulticomponentSweptRegionAssociations(candidates, geometry) ==
  LET components == ByCentre(candidates)
      IsRegion(ordered, gaps) == IsSweptRegion(ordered, gaps, MedianOf(gaps), geometry)
  IN  IF Len(candidates) >= 4 /\ IsRegion(components, Gaps(components))
        THEN <<[members |-> DOMAIN candidates, start |-> components[1].start,
                stop |-> Last(components).stop,
                anchor |-> Anchor(candidates, ContainingAnchors(candidates, geometry))]>>
        ELSE <<>>

\* multicomponentAssociationRegionsOverlap: hulls that overlap by three
\* quarters after padding.
RegionPad(geometry) == Largest({2 * geometry.rbw, 5 * geometry.bin})

RegionsOverlap(l, r, geometry) ==
  LET pad == RegionPad(geometry)
      intersection == Smallest({l.stop, r.stop}) - Largest({l.start, r.start}) + 2 * pad
      union == Largest({l.stop, r.stop}) - Smallest({l.start, r.start}) + 2 * pad
  IN  /\ l.start < l.stop /\ r.start < r.stop
      /\ 4 * intersection >= 3 * union

\* multicomponentSweptRegionLineagesAreCompatible: overlapping hulls and a
\* component in common.
MulticomponentLineagesAreCompatible(l, r, geometry) ==
  /\ RegionsOverlap(l, r, geometry)
  /\ \E x \in l.centres, y \in r.centres : Distance(x, y) <= RegionPad(geometry)
=============================================================================
