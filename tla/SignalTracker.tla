---------------------------- MODULE SignalTracker ----------------------------
(***************************************************************************)
(* SignalTracker (packages/analysis/src/index.ts): the rows that follow    *)
(* frequency-local candidates from sweep to sweep, the comb and region     *)
(* lineages bound to them, and the frequency-agile activity.               *)
(*                                                                         *)
(* A tracker is [rows, agile, nextId, nextAssociation].  A row is [id,     *)
(* state, missed, run, origin, admissions, assoc]: its admissions are the  *)
(* looks [sweep, candidate] the detector admitted it on (they are its      *)
(* sweepIds and its local ledger at once), the last one its present shape, *)
(* and origin the first, whose region it is classified on.  A static       *)
(* association is [mode, id, looks, missed], a look of it                  *)
(* [sweep, found, tracks] with the association found in that sweep and the *)
(* row that each of its candidates went to.                                *)
(***************************************************************************)
EXTENDS FrequencyAgile

CONSTANTS
  PromoteAfter,        \* minimumConsecutiveSweeps
  ReleaseAfter,        \* releaseAfterMissedSweeps
  AdmissionWindow,     \* looks a local ledger keeps (64)
  LookWindow,          \* looks a static association keeps (8)
  OpportunityWindow    \* opportunities an activity keeps (96)

NoAssociation == [mode |-> "frequency-local"]
NoActivity    == [id |-> 0]

InitialTracker ==
  [rows |-> <<>>, agile |-> NoActivity, nextId |-> 1, nextAssociation |-> 1]

\* The last n elements.
Latest(s, n) == SubSeq(s, Largest({1, Len(s) - n + 1}), Len(s))

Indices(s) == [i \in DOMAIN s |-> i]

Shape(row)  == Last(row.admissions).candidate
Static(row) == row.assoc.mode # "frequency-local"

\* Faulty variant: a reset starts the identities over.
ResetRecycling(tracker) == InitialTracker

\* reset keeps both counters: an identity is never issued twice.
ResetTracker(tracker) == [tracker EXCEPT !.rows = <<>>, !.agile = NoActivity]

---------------------------------------------------------------------------
(* Matching                                                                *)

\* matchScore in thousandths; rows and candidates that neither overlap nor
\* lie within the tolerance do not match.
Overlap(p, c) == Largest({0, Smallest({p.stop, c.stop}) - Largest({p.start, c.start})})
Union(p, c)   == Largest({p.stop, c.stop}) - Smallest({p.start, c.start})
Tolerance(p, c, bin) == Largest({3 * bin, Bandwidth(p), Bandwidth(c)})

TrackCompatible(p, c, bin) ==
  \/ Overlap(p, c) > 0
  \/ Union(p, c) = 0 /\ p.peak = c.peak
  \/ Distance(p.peak, c.peak) <= Tolerance(p, c, bin)

MatchScore(p, c, bin) ==
  LET tolerance == Tolerance(p, c, bin)
      shared == IF Union(p, c) > 0 THEN (700 * Overlap(p, c)) \div Union(p, c)
                ELSE IF p.peak = c.peak THEN 700 ELSE 0
      near   == tolerance - Smallest({tolerance, Distance(p.peak, c.peak)})
  IN  shared + (300 * near) \div tolerance

\* Every row with every candidate.
Pairs(rows, candidates, bin) ==
  LET Pair(i, k) ==
        [row |-> i, candidate |-> k,
         compatible |-> TrackCompatible(Shape(rows[i]), candidates[k], bin),
         score |-> MatchScore(Shape(rows[i]), candidates[k], bin)]
      n == Len(candidates)
  IN  [m \in 1..(Len(rows) * n) |-> Pair(1 + ((m - 1) \div n), 1 + ((m - 1) % n))]

\* The best pair first; among equals the older row, then the lower
\* candidate.  Each row and each candidate is used once.
BestFirst(m, n) ==
  \/ m.score > n.score
  \/ m.score = n.score /\ m.row < n.row
  \/ m.score = n.score /\ m.row = n.row /\ m.candidate < n.candidate

Matching(rows, candidates, bin) ==
  LET Take(used, m) ==
        IF \E u \in used : u.row = m.row \/ u.candidate = m.candidate
          THEN used ELSE used \cup {m}
      compatible == SelectSeq(Pairs(rows, candidates, bin), LAMBDA m : m.compatible)
  IN  FoldLeft(Take, {}, SortSeq(compatible, BestFirst))

\* mergeSignal: identity, origin and a static association stay.
MergeSignal(row, look) ==
  [row EXCEPT !.run = @ + 1, !.missed = 0,
     !.state = IF @ = "active" \/ row.run + 1 >= PromoteAfter THEN "active" ELSE "candidate",
     !.admissions = Latest(Append(@, look), AdmissionWindow)]

NewTrack(id, look) ==
  [id |-> <<"signal", id>>, state |-> IF PromoteAfter <= 1 THEN "active" ELSE "candidate",
   missed |-> 0, run |-> 1, origin |-> look, admissions |-> <<look>>, assoc |-> NoAssociation]

MissSignal(row) ==
  [row EXCEPT !.run = 0, !.missed = @ + 1,
     !.state = IF row.missed + 1 > ReleaseAfter THEN "released" ELSE @]

\* The rows after the local pass, and the row each look went to.
Followed(tracker, looks, matching) ==
  LET Of(i) == {m \in matching : m.row = i}
      Row(i) == IF Of(i) = {} THEN MissSignal(tracker.rows[i])
                ELSE MergeSignal(tracker.rows[i],
                                 looks[(CHOOSE m \in Of(i) : TRUE).candidate])
      fresh == Ascending({k \in DOMAIN looks : \A m \in matching : m.candidate # k})
      old == [i \in DOMAIN tracker.rows |-> Row(i)]
      new == [n \in DOMAIN fresh |-> NewTrack(tracker.nextId + n - 1, looks[fresh[n]])]
      rows == old \o new
  IN  [rows |-> rows, nextId |-> tracker.nextId + Len(fresh),
       track |-> [k \in DOMAIN looks |->
                    rows[CHOOSE i \in DOMAIN rows : Last(rows[i].admissions) = looks[k]].id]]

LocalPass(tracker, sweep, candidates) ==
  Followed(tracker,
           [k \in DOMAIN candidates |-> [sweep |-> sweep, candidate |-> candidates[k]]],
           Matching(tracker.rows, candidates, Grid(sweep).bin))

---------------------------------------------------------------------------
(* Static associations                                                     *)

Members(look) == {look.tracks[k] : k \in look.found.members}

LookCentres(look) ==
  {Centre(Candidates(look.sweep)[k]) : k \in look.found.members}

\* The shape two looks of one lineage are compared by.
LineageShape(look) == look.found @@ [centres |-> LookCentres(look)]

LooksAreCompatible(mode, old, new) ==
  /\ old.sweep.geometry = new.sweep.geometry
  /\ old.sweep.session = new.sweep.session
  /\ IF mode = "regular"
       THEN RegularLineagesAreCompatible(LineageShape(old), LineageShape(new), Grid(new.sweep))
       ELSE MulticomponentLineagesAreCompatible(LineageShape(old), LineageShape(new), Grid(new.sweep))

\* Per lineage of a mode the row whose looks speak for it: of those not
\* released, the first with the most looks.
PriorLineages(rows, mode) ==
  LET bound == {i \in DOMAIN rows : /\ rows[i].assoc.mode = mode
                                    /\ rows[i].assoc.missed <= ReleaseAfter}
      Looks(i) == Len(rows[i].assoc.looks)
  IN  {rows[i].assoc : i \in {j \in bound : \A k \in bound :
         rows[k].assoc.id = rows[j].assoc.id =>
           Looks(k) < Looks(j) \/ (Looks(k) = Looks(j) /\ j <= k)}}

\* One association of the sweep is bound to its rows: it continues the
\* compatible lineage with the most looks (the lowest identity among
\* equals) that no association of this sweep has taken, or opens one.
Better(l, m) == \/ Len(l.looks) > Len(m.looks)
                \/ Len(l.looks) = Len(m.looks) /\ l.id <= m.id

Compatible(mode, look, lineages) ==
  {l \in lineages : LooksAreCompatible(mode, Last(l.looks), look)}

Continued(lineages) == {l \in lineages : \A m \in lineages : Better(l, m)}

\* existing: the lineage continued, if any.  A pass keeps which association each
\* row is bound to.
BindTo(existing, mode, look, rows, pass) ==
  LET new == existing = {}
      lineage == CHOOSE l \in existing : TRUE
      id == IF new THEN pass.next ELSE lineage.id
      retained == IF new THEN <<>>
                  ELSE SelectSeq(lineage.looks, LAMBDA old : LooksAreCompatible(mode, old, look))
      assoc == [mode |-> mode, id |-> id, missed |-> 0,
                looks |-> Latest(Append(retained, look), LookWindow)]
  IN  [bound |-> [i \in DOMAIN rows |->
                    IF rows[i].id \in Members(look) THEN assoc ELSE pass.bound[i]],
       used |-> pass.used \cup {id},
       fresh |-> pass.fresh \cup Members(look),
       next |-> IF new THEN pass.next + 1 ELSE pass.next]

Bind(mode, other, prior, look, rows, pass) ==
  IF \E i \in DOMAIN rows : rows[i].id \in Members(look) /\ pass.bound[i].mode = other
    THEN pass
    ELSE BindTo(Continued(Compatible(mode, look, {l \in prior : l.id \notin pass.used})),
                mode, look, rows, pass)

LookAt(sweep, found, track) ==
  [sweep |-> sweep, found |-> found, tracks |-> [k \in found.members |-> track[k]]]

\* One mode's associations of the sweep, in order.
BindAll(mode, other, prior, looks, rows, pass) ==
  FoldLeft(LAMBDA p, look : Bind(mode, other, prior, look, rows, p), pass, looks)

\* A row no association of the sweep refreshed keeps its association as long
\* as misses may last, then loses it (clearStaticRegionAssociation).
Age(row, fresh) ==
  IF ~Static(row) \/ row.id \in fresh THEN row
  ELSE IF row.assoc.missed + 1 > ReleaseAfter THEN [row EXCEPT !.assoc = NoAssociation]
  ELSE [row EXCEPT !.assoc.missed = @ + 1]

Aged(rows, pass) ==
  [rows |-> [i \in DOMAIN rows |->
               Age([rows[i] EXCEPT !.assoc = pass.bound[i]], pass.fresh)],
   nextAssociation |-> pass.next]

\* Combs first, then regions, then ageing.
BindMode(mode, other, local, sweep, associations, pass) ==
  BindAll(mode, other, PriorLineages(local.rows, mode),
          [i \in DOMAIN associations |-> LookAt(sweep, associations[i], local.track)],
          local.rows, [pass EXCEPT !.used = {}])

AssociationPass(local, sweep, nextAssociation) ==
  LET unbound == [bound |-> [i \in DOMAIN local.rows |-> local.rows[i].assoc],
                  used |-> {}, fresh |-> {}, next |-> nextAssociation]
  IN  Aged(local.rows,
           BindMode("multicomponent", "regular", local, sweep, Regions(sweep),
             BindMode("regular", "multicomponent", local, sweep, Combs(sweep), unbound)))

---------------------------------------------------------------------------
(* Frequency-agile activity: [id, opportunities, promoted]; an opportunity *)
(* is [sweep, outcome, look], its look [sweep, candidate, track] when the  *)
(* outcome is exactly-one                                                  *)

NoLook == [track |-> <<"none", 0>>]

AgileLooks(activity) ==
  LET seen == SelectSeq(activity.opportunities, LAMBDA o : o.look # NoLook)
  IN  [i \in DOMAIN seen |-> seen[i].look]

Opportunity(sweep, candidates, track) ==
  LET outcome == OpportunityOutcome(candidates)
      k == CHOOSE j \in DOMAIN track : InBand(candidates[j])
  IN  [sweep |-> sweep, outcome |-> outcome,
       look |-> IF outcome = "exactly-one"
                  THEN [sweep |-> sweep, candidate |-> candidates[k], track |-> track[k]]
                  ELSE NoLook]

Continues(activity, sweep) ==
  /\ activity # NoActivity
  /\ GeometryCompatible(Last(activity.opportunities).sweep, sweep)
  /\ SequentialOpportunity(Last(activity.opportunities).sweep, sweep)

Grown(activity, opportunity) ==
  [activity EXCEPT !.opportunities = Latest(Append(@, opportunity), OpportunityWindow)]

\* An activity no look of which is left is none.
Judged(activity) ==
  IF AgileLooks(activity) = <<>> THEN NoActivity
  ELSE [activity EXCEPT !.promoted = ActivityQualifies(AgileLooks(activity), @)]

\* #updateFrequencyAgileActivity
AgilePass(activity, opportunity, nextAssociation) ==
  IF ~SweepEligible(opportunity.sweep)
    THEN [agile |-> NoActivity, next |-> nextAssociation]
  ELSE IF Continues(activity, opportunity.sweep)
    THEN [agile |-> Judged(Grown(activity, opportunity)), next |-> nextAssociation]
  ELSE IF opportunity.look = NoLook
    THEN [agile |-> NoActivity, next |-> nextAssociation]
  ELSE [agile |-> [id |-> nextAssociation, opportunities |-> <<opportunity>>,
                   promoted |-> FALSE],
        next |-> nextAssociation + 1]

\* #frequencyAgileRepresentative: one synthetic row for a promoted activity.
\* Its shape is the latest look's; how many opportunities since is its miss
\* count.
Representative(activity) ==
  LET looks  == AgileLooks(activity)
      latest == Last(looks)
      look   == [sweep |-> latest.sweep, candidate |-> latest.candidate]
      since  == {i \in DOMAIN activity.opportunities :
                   activity.opportunities[i].sweep.seq > latest.sweep.seq}
  IN  [id |-> <<"agile", activity.id>>, state |-> "active", missed |-> 0, run |-> 1,
       origin |-> look, admissions |-> <<look>>,
       assoc |-> [mode |-> "agile", id |-> activity.id,
                  opportunities |-> activity.opportunities, missed |-> Cardinality(since)]]

---------------------------------------------------------------------------
(* update                                                                  *)

\* An agile look that does not follow the last opportunity in order is
\* refused before anything changes.
UpdateRefused(tracker, sweep) ==
  /\ tracker.agile # NoActivity
  /\ SweepEligible(sweep)
  /\ ~StrictlyOrderedOpportunity(Last(tracker.agile.opportunities).sweep, sweep)

\* The tracker after a sweep, released rows included: the local pass, the
\* associations, the activity.
WithActivity(local, static, agile) ==
  [rows |-> static.rows, agile |-> agile.agile,
   nextId |-> local.nextId, nextAssociation |-> agile.next]

WithAssociations(tracker, sweep, local, static) ==
  WithActivity(local, static,
               AgilePass(tracker.agile, Opportunity(sweep, Candidates(sweep), local.track),
                         static.nextAssociation))

WithLocal(tracker, sweep, local) ==
  WithAssociations(tracker, sweep, local,
                   AssociationPass(local, sweep, tracker.nextAssociation))

Updated(tracker, sweep) ==
  WithLocal(tracker, sweep, LocalPass(tracker, sweep, Candidates(sweep)))

\* What update returns: every row once more, the released too, and the
\* representative, strongest first; then the released are forgotten.
Displayed(tracker) ==
  tracker.rows \o (IF tracker.agile # NoActivity /\ tracker.agile.promoted
                     THEN <<Representative(tracker.agile)>> ELSE <<>>)

StrongestFirst(rows) ==
  LET order == SortSeq(Indices(rows), LAMBDA i, j :
                 \/ Shape(rows[i]).dbm > Shape(rows[j]).dbm
                 \/ Shape(rows[i]).dbm = Shape(rows[j]).dbm /\ i < j)
  IN  [n \in DOMAIN order |-> rows[order[n]]]

Published(tracker) == StrongestFirst(Displayed(tracker))

Forgotten(tracker) ==
  LET kept == Ascending({i \in DOMAIN tracker.rows : tracker.rows[i].state # "released"})
  IN  [tracker EXCEPT !.rows = [n \in DOMAIN kept |-> @[kept[n]]]]
=============================================================================
