--------------------------- MODULE CaptureReceipt ---------------------------
(***************************************************************************)
(* The receipt of a detected-power capture: what                           *)
(* createDetectedPowerCaptureReceipt (packages/analysis/src/index.ts)      *)
(* writes down about the ranked targets, and what                          *)
(* detected-power-capture-receipt.ts demands of such a receipt before it   *)
(* issues it.  The capture's payload and its digest are left out; a        *)
(* capture names the row it targets, and its tune always agrees.           *)
(***************************************************************************)
EXTENDS CaptureTargets

NoReceipt == [status |-> "refused"]

RowMembers(row) ==
  CASE row.assoc.mode = "frequency-local" -> {}
    [] row.assoc.mode = "agile" -> {AgileLooks(row.assoc)[i].track :
                                      i \in DOMAIN AgileLooks(row.assoc)}
    [] OTHER -> Members(Last(row.assoc.looks))

\* Whether the representative of a ranked target is admitted on a full
\* window; "throws" for a row the extractor refuses.
AdmissionBy(evidence) ==
  CASE evidence.outcome = "refused" -> [status |-> "throws", window |-> <<>>]
    [] Len(evidence.sweeps) = ClassifierWindow ->
         [status |-> "admitted", window |-> evidence.sweeps]
    [] OTHER -> [status |-> "unavailable", window |-> <<>>]

CaptureAdmission(shown, history) ==
  AdmissionBy(IF CurrentlyQualified(shown) THEN ExtractObservableFeatures(shown, history)
              ELSE Unavailable)

\* One line of a receipt per ranked target.
ReceiptCandidates(ranked, rows, history) ==
  LET raws == {ranked[i].raw.id : i \in DOMAIN ranked}
      input == SelectSeq(rows, LAMBDA row : row.id \in raws)
      Candidate(i, raw) ==
        [rank |-> i, ordinal |-> CHOOSE n \in DOMAIN input : input[n].id = raw.id,
         raw |-> raw.id, shown |-> ranked[i].shown.id, kind |-> ranked[i].kind,
         state |-> raw.state, missed |-> raw.missed, mode |-> raw.assoc.mode,
         members |-> RowMembers(raw), key |-> RepresentativeKey(raw),
         source |-> Last(raw.admissions).sweep, power |-> RankPower(raw),
         admission |-> CaptureAdmission(ranked[i].shown, history)]
  IN  [i \in DOMAIN ranked |-> Candidate(i, ranked[i].raw)]

\* createDetectedPowerCaptureReceipt: the automatic choice is the strongest
\* target or none, never a weaker one; preferred is a raw row or NoId.  The
\* result is refused, thrown, or handed to issueDetectedPowerCaptureReceipt.
IssuedFor(ranked, candidates, preferred, target, window) ==
  LET chosen == IF preferred = NoId THEN {1}
                ELSE {i \in DOMAIN candidates : candidates[i].raw = preferred}
      n == CHOOSE i \in chosen : TRUE
  IN  IF candidates = <<>> THEN NoReceipt
      ELSE IF \E i \in DOMAIN candidates : candidates[i].admission.status = "throws"
        THEN [status |-> "throws"]
      ELSE IF \/ chosen = {}
              \/ candidates[n].admission.status # "admitted"
              \/ target # candidates[n].raw
              \/ candidates[n].admission.window # window
        THEN NoReceipt
      ELSE [status |-> "issued",
            selection |-> [preferred |-> preferred, raw |-> candidates[n].raw,
                           shown |-> candidates[n].shown],
            candidates |-> candidates, representative |-> ranked[n].shown,
            window |-> window, target |-> target]

CreateReceiptFor(ranked, rows, history, preferred, target, window) ==
  IssuedFor(ranked, ReceiptCandidates(ranked, rows, history), preferred, target, window)

CreateReceipt(rows, history, preferred, target, window) ==
  CreateReceiptFor(TargetProjections(rows), rows, history, preferred, target, window)

---------------------------------------------------------------------------
(* What an issued receipt must say                                         *)

\* assertAssociationEvidenceWellFormed
AssociationWellFormed(mode, members) ==
  (mode = "frequency-local") = (members = {})

\* assertCandidateEvidenceWellFormed
CandidateWellFormed(candidate, rank) ==
  /\ candidate.rank = rank
  /\ candidate.state \in {"candidate", "active"}
  /\ IF candidate.kind = "current-active-physical-representative"
       THEN candidate.state = "active" /\ candidate.raw = candidate.shown
       ELSE candidate.raw # candidate.shown
  /\ candidate.power > 0
  /\ AssociationWellFormed(candidate.mode, candidate.members)
  /\ candidate.admission.status = "admitted" =>
       /\ Len(candidate.admission.window) = ClassifierWindow
       /\ Cardinality(Range(candidate.admission.window)) = ClassifierWindow
       /\ Head(candidate.admission.window) = candidate.source

\* compareCaptureCandidateEvidence: d may follow c.
MayFollow(c, d) ==
  \/ c.power > d.power
  \/ c.power = d.power /\ \/ c.key[1] < d.key[1]
                          \/ c.key[1] = d.key[1] /\ c.key[2] <= d.key[2]

\* The two kinds of projection, as the receipt must show them.
ProjectionWellFormed(selected, shown) ==
  IF selected.kind = "current-active-physical-representative"
    THEN selected.state = "active" /\ shown.assoc.mode # "agile"
    ELSE /\ shown.assoc.mode = "agile" /\ shown.missed = 0 /\ shown.assoc.missed = 0
         /\ selected.raw \in RowMembers(shown)

\* assertReceiptSelfConsistent
ReceiptSelfConsistent(receipt) ==
  LET candidates == receipt.candidates
      raws == {candidates[i].raw : i \in DOMAIN candidates}
      selected == candidates[CHOOSE i \in DOMAIN candidates :
                               candidates[i].raw = receipt.selection.raw]
  IN  /\ Cardinality(raws) = Len(candidates)
      /\ {candidates[i].ordinal : i \in DOMAIN candidates} = DOMAIN candidates
      /\ \A i \in DOMAIN candidates : CandidateWellFormed(candidates[i], i)
      /\ \A i \in 2..Len(candidates) : MayFollow(candidates[i - 1], candidates[i])
      /\ receipt.selection.raw \in raws
      /\ selected.shown = receipt.selection.shown
      /\ receipt.representative.id = receipt.selection.shown
      /\ selected.admission.status = "admitted"
      /\ selected.admission.window = receipt.window
      /\ ProjectionWellFormed(selected, receipt.representative)
      /\ IF receipt.selection.preferred = NoId
           THEN candidates[1].raw = receipt.selection.raw
           ELSE receipt.selection.preferred = receipt.selection.raw
      /\ receipt.target = receipt.selection.raw
      /\ AssociationWellFormed(receipt.representative.assoc.mode,
                               RowMembers(receipt.representative))
      /\ Len(receipt.window) = ClassifierWindow
      /\ Cardinality(Range(receipt.window)) = ClassifierWindow

---------------------------------------------------------------------------
(* The capture itself                                                      *)

\* acquireZeroSpanOwned of the acquisition controller, from the choice of a
\* target to the receipt: what becomes of a capture taken with this evidence
\* on display.
ReceiptOutcome(receipt) ==
  IF receipt.status # "issued" THEN receipt.status
  ELSE IF ReceiptSelfConsistent(receipt) THEN "qualified" ELSE "contradiction"

CapturedFor(detections, history, selection, admitted) ==
  IF admitted.outcome # "observed" THEN admitted.outcome
  ELSE ReceiptOutcome(
         CreateReceipt(detections, history,
                       IF selection.origin = "explicit" THEN selection.target.raw.id ELSE NoId,
                       selection.target.raw.id, admitted.sweeps))

CaptureOf(detections, history, projections, selection) ==
  IF selection.target = NoTarget THEN "unqualified"
  ELSE CapturedFor(detections, history, selection,
                   RuntimeAdmittedCaptureTarget(projections, history, selection.target.raw.id))

CaptureAmong(detections, history, projections, explicit) ==
  CaptureOf(detections, history, projections, TargetSelection(projections, explicit))

AcquireZeroSpan(detections, history, explicit) ==
  LET sweep == IF history = <<>> THEN NoSweep ELSE Head(history)
  IN  CaptureAmong(detections, history,
                   VisibleTargetAdmission(detections, sweep).projections, explicit)
=============================================================================
