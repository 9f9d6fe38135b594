--------------------------- MODULE CaptureTargets ---------------------------
(***************************************************************************)
(* From the tracker's rows to the one a detected-power capture is tuned    *)
(* to: which rows are physical and visible, which of them a frequency-     *)
(* agile activity speaks for, their order, and what is selected            *)
(* (packages/analysis/src/index.ts and classification-target-ranking.ts,   *)
(* apps/desktop/src/renderer/classification-target-selection.ts and        *)
(* controllers/classification-helpers.ts).                                 *)
(*                                                                         *)
(* A projection is [raw, shown, kind]: the physical row that owns the tune *)
(* and the row that owns the evidence.  One level of a bin is 6 dB.        *)
(***************************************************************************)
EXTENDS ObservableAdmission

NoSweep  == [id |-> 0]
NoId     == <<"none", 0>>
NoTarget == [kind |-> "none"]
NoRank   == 0

---------------------------------------------------------------------------
(* Who may be a target                                                     *)

\* currentVisiblePhysicalClassificationRows
PhysicalRow(row) == /\ row.state = "active"
                    /\ row.missed = 0
                    /\ row.assoc.mode # "agile"

OccurrenceCount(rows, id) == Cardinality({i \in DOMAIN rows : rows[i].id = id})

\* currentQualifiedAgileLatestMemberProjection: the physical row that a
\* current, fully qualified activity saw in its latest look, under the very
\* shape the representative shows.
AgileMember(rows, shown, raw) ==
  /\ shown.state = "active" /\ shown.missed = 0
  /\ shown.assoc.mode = "agile" /\ shown.assoc.missed = 0
  /\ AgileRegionIsComplete(shown)
  /\ LET opportunity == Last(shown.assoc.opportunities)
         look == Last(AgileLooks(shown.assoc))
     IN  /\ opportunity.outcome = "exactly-one"
         /\ opportunity.sweep = look.sweep
         /\ Last(shown.admissions).sweep = look.sweep
         /\ raw.id = look.track
         /\ OccurrenceCount(rows, raw.id) = 1
  /\ raw.state \in {"candidate", "active"}
  /\ raw.missed = 0
  /\ raw.assoc.mode # "agile"
  /\ Last(raw.admissions) = Last(shown.admissions)

\* classificationCaptureTargetEligibilityProjections: a physical row stands
\* for itself unless exactly one activity claims it.
Projection(rows, row, claims) ==
  CASE Cardinality(claims) = 1 ->
         [raw |-> row, shown |-> rows[CHOOSE j \in claims : TRUE],
          kind |-> "current-qualified-agile-latest-member"]
    [] Cardinality(claims) # 1 /\ PhysicalRow(row) /\ OccurrenceCount(rows, row.id) = 1 ->
         [raw |-> row, shown |-> row, kind |-> "current-active-physical-representative"]
    [] OTHER -> NoTarget

EligibilityProjections(rows) ==
  LET all == [i \in DOMAIN rows |->
                Projection(rows, rows[i],
                           {j \in DOMAIN rows : AgileMember(rows, rows[j], rows[i])})]
  IN  SelectSeq(all, LAMBDA p : p # NoTarget)

---------------------------------------------------------------------------
(* Their order                                                             *)

\* classificationCaptureTargetRankEvidence: the excess over the floor,
\* integrated over the cells of the row's interval; a cell at the edge of
\* the grid is half as wide.  Twice the value, over the resolution
\* bandwidth, which all rows of a sweep share.
RankPower(row) ==
  LET look   == Last(row.admissions)
      grid   == Grid(look.sweep)
      levels == Scenes[look.sweep.geometry][look.sweep.scene].levels
      support == {b \in DOMAIN levels : /\ BinFrequency(grid, b) >= look.candidate.start
                                        /\ BinFrequency(grid, b) <= look.candidate.stop}
      Cell(b) == (4 ^ levels[b] - 1) * (IF b \in {1, Len(levels)} THEN 1 ELSE 2)
  IN  MapThenSumSet(Cell, support)

\* classificationRepresentativeKey of a physical row: its association's key or
\* its own, in the order of their text.
RepresentativeKey(row) ==
  CASE row.assoc.mode = "frequency-local" -> <<1, row.id[2]>>
    [] row.assoc.mode = "multicomponent" -> <<2, row.assoc.id>>
    [] row.assoc.mode = "regular" -> <<3, row.assoc.id>>

\* Faulty variant: the weakest first.
WeakestFirst(p, q) == RankPower(p.raw) < RankPower(q.raw)

RankedBefore(p, q) ==
  LET Key(r) == RepresentativeKey(r.raw)
      Less(s, t) == s[1] < t[1] \/ (s[1] = t[1] /\ s[2] < t[2])
  IN  \/ RankPower(p.raw) > RankPower(q.raw)
      \/ /\ RankPower(p.raw) = RankPower(q.raw)
         /\ \/ Less(Key(p), Key(q))
            \/ Key(p) = Key(q) /\ p.raw.id[2] < q.raw.id[2]

\* classificationCaptureTargetProjections: all of them ranked, or none.
Ranked(eligible) ==
  IF \E i \in DOMAIN eligible : RankPower(eligible[i].raw) = NoRank THEN <<>>
  ELSE SortSeq(eligible, RankedBefore)

TargetProjections(rows) == Ranked(EligibilityProjections(rows))

---------------------------------------------------------------------------
(* What the visible sweep admits                                           *)

\* detectionIsFromVisibleSweep
FromVisibleSweep(row, sweep) == Last(row.admissions).sweep = sweep

\* visibleClassificationTargetProjectionAdmission: the rows of the visible
\* sweep, and the complete ranking of them or a failure.
CompleteRanking(visible, eligible, projections) ==
  LET physical == SelectSeq(visible, PhysicalRow)
      ids == {physical[i].id : i \in DOMAIN physical}
               \cup {eligible[i].raw.id : i \in DOMAIN eligible}
  IN  /\ \A i \in DOMAIN physical : /\ RankPower(physical[i]) # NoRank
                                    /\ OccurrenceCount(physical, physical[i].id) = 1
      /\ \A id \in ids :
           Cardinality({i \in DOMAIN projections : projections[i].raw.id = id}) = 1

Ready(projections) == [status |-> "ready", projections |-> projections]

AdmissionOf(visible, eligible, projections) ==
  IF CompleteRanking(visible, eligible, projections) THEN Ready(projections)
  ELSE [status |-> "ranking-admission-failed", projections |-> <<>>]

AdmissionAmong(visible) ==
  AdmissionOf(visible, EligibilityProjections(visible), TargetProjections(visible))

VisibleTargetAdmission(detections, sweep) ==
  IF sweep = NoSweep THEN Ready(<<>>)
  ELSE AdmissionAmong(SelectSeq(detections, LAMBDA row : FromVisibleSweep(row, sweep)))

\* resolveVisibleClassificationTargetSelection: the explicit choice while it
\* is visible, else the strongest target.
TargetSelection(projections, explicit) ==
  LET chosen == {i \in DOMAIN projections : projections[i].shown.id = explicit}
  IN  IF chosen # {}
        THEN [origin |-> "explicit", target |-> projections[CHOOSE i \in chosen : TRUE]]
      ELSE [origin |-> "automatic",
            target |-> IF projections = <<>> THEN NoTarget ELSE projections[1]]

\* resolveRuntimeAdmittedCaptureTarget: the target whose representative the
\* extractor admits on a full window; "refused" when it refuses the row.
FullWindow(evidence) ==
  IF evidence.outcome = "observed" /\ Len(evidence.sweeps) < ClassifierWindow
    THEN Unavailable ELSE evidence

RuntimeEvidence(shown, history) ==
  IF CurrentlyQualified(shown) THEN FullWindow(ExtractObservableFeatures(shown, history))
  ELSE Unavailable

RuntimeAdmittedCaptureTarget(projections, history, rawId) ==
  LET mine == {i \in DOMAIN projections : projections[i].raw.id = rawId}
  IN  IF mine = {} THEN Unavailable
      ELSE RuntimeEvidence(projections[CHOOSE i \in mine : TRUE].shown, history)
=============================================================================
