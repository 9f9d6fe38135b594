------------------------- MODULE ObservableAdmission -------------------------
(***************************************************************************)
(* The second implementation of the tracker's rules: before a row may own  *)
(* a qualified measurement, extractObservableFeatures (packages/analysis/  *)
(* src/observable-features.ts) replays every claim the row makes from the  *)
(* sweeps it names.  The features themselves are numbers and are left out; *)
(* what is modelled is which rows get a window of sweeps, which a typed    *)
(* "unavailable", and which are refused with an ordinary error.            *)
(*                                                                         *)
(* A row is the tracker's (SignalTracker); history is newest first.  Two   *)
(* looks at one sweep compare equal exactly when their detector inputs do. *)
(***************************************************************************)
EXTENDS SignalTracker

CONSTANT ClassifierWindow     \* sweeps of an evidence window (8)

Refused     == [outcome |-> "refused", sweeps |-> <<>>]
Unavailable == [outcome |-> "unavailable", sweeps |-> <<>>]
Observed(sweeps) ==
  [outcome |-> "observed",
   sweeps |-> SubSeq(sweeps, 1, Smallest({ClassifierWindow, Len(sweeps)}))]

\* sweepAcquisitionGeometryMatches
SameAcquisition(s, t) == s.geometry = t.geometry /\ s.session = t.session

\* Looks in the order they were taken, by sequence number and capture time.
StrictlyCausal(looks) ==
  \A i \in 2..Len(looks) : /\ looks[i - 1].sweep.seq < looks[i].sweep.seq
                           /\ looks[i - 1].sweep.at < looks[i].sweep.at

SweepsOf(looks) == [i \in DOMAIN looks |-> looks[i].sweep]

---------------------------------------------------------------------------
(* Frequency-local rows                                                    *)

\* replayLocalClassificationObservation: the detector finds the claimed
\* candidate in the claimed sweep, once.
Replays(look) ==
  Cardinality({k \in DOMAIN Candidates(look.sweep) :
                 Candidates(look.sweep)[k] = look.candidate}) = 1

\* localClassificationRegionProvenanceIsValid
OriginIsValid(row, reference) ==
  /\ Replays(row.origin)
  /\ row.origin.sweep.seq <= reference.seq
  /\ SameAcquisition(row.origin.sweep, reference)

\* assertLocalHistorySweepsReplayUniquely, the whole retained ledger: causal,
\* every admission found again, each one a plausible successor.
LedgerReplays(ledger) ==
  /\ StrictlyCausal(ledger)
  /\ \A i \in DOMAIN ledger : Replays(ledger[i])
  /\ \A i \in 2..Len(ledger) :
       TrackCompatible(ledger[i - 1].candidate, ledger[i].candidate,
                       Grid(ledger[i].sweep).bin)

\* localAdmissionSupportsFrozenRegion
SupportsFrozenRegion(look, frozen) ==
  LET c == look.candidate
  IN  /\ c.region[1] <= frozen[2] /\ c.region[2] >= frozen[1]
      /\ c.start <= frozen[2] /\ c.stop >= frozen[1]
      /\ frozen[1] <= c.peak /\ c.peak <= frozen[2]

\* The latest admissions must all be in the history and in order; of them the
\* ones on the latest look's geometry are the window, newest first.
LocalLedgerHolds(row, required, history) ==
  /\ \A i \in DOMAIN required : required[i].sweep \in Range(history)
  /\ StrictlyCausal(required)
  /\ OriginIsValid(row, Last(required).sweep)
  /\ LedgerReplays(row.admissions)

LocalWindow(row, coherent) ==
  LET Supported(look) == SupportsFrozenRegion(look, row.origin.candidate.region)
  IN  IF Supported(Head(coherent)) /\ row.missed # 0 THEN Refused
      ELSE IF \E i \in DOMAIN coherent : ~Supported(coherent[i]) THEN Unavailable
      ELSE Observed(SweepsOf(coherent))

LocalEvidenceFrom(row, required, history) ==
  LET Coherent(look) == SameAcquisition(look.sweep, Last(required).sweep)
  IN  IF LocalLedgerHolds(row, required, history)
        THEN LocalWindow(row, Reverse(SelectSeq(required, Coherent)))
        ELSE Refused

LocalEvidence(row, history) ==
  LocalEvidenceFrom(row, Latest(row.admissions, ClassifierWindow), history)

---------------------------------------------------------------------------
(* Rows of a comb                                                          *)

\* An association with the look's extent and members is found in its sweep,
\* once.
FoundAgain(look, associations) ==
  Cardinality({i \in DOMAIN associations : associations[i] = look.found}) = 1

\* regularAssociationProvenanceIsValid
RegularProvenanceIsValid(row) ==
  LET looks  == row.assoc.looks
      latest == Last(looks)
  IN  /\ Len(looks) \in 1..LookWindow
      /\ row.id \in Members(latest)
      /\ \E i \in DOMAIN row.admissions : row.admissions[i].sweep = latest.sweep
      /\ latest.sweep.at = Last(row.admissions).sweep.at
      /\ StrictlyCausal(looks)
      /\ \A i \in DOMAIN looks :
           /\ SameAcquisition(looks[1].sweep, looks[i].sweep)
           /\ Cardinality(Members(looks[i])) >= 3
           /\ RegularLineagesAreCompatible(LineageShape(looks[i]), LineageShape(latest),
                                           Grid(looks[i].sweep))
           /\ FoundAgain(looks[i], Combs(looks[i].sweep))

---------------------------------------------------------------------------
(* Rows of a swept multicomponent region                                   *)

\* The anchor of a look is recomputed over its members in the order of their
\* rows: of those that tested the anchor's region it must have the lowest row.
AnchorIsFirst(look) ==
  LET Region(k) == Candidates(look.sweep)[k].region
      anchor == look.found.anchor
  IN  anchor # 0 =>
        \A k \in look.found.members :
          Region(k) = Region(anchor) => look.tracks[anchor][2] <= look.tracks[k][2]

\* multicomponentAssociationProvenanceIsValid on the row alone
MulticomponentProvenanceIsValid(row) ==
  LET looks  == row.assoc.looks
      latest == Last(looks)
  IN  /\ row.id \in Members(latest)
      /\ \E i \in DOMAIN row.admissions : row.admissions[i].sweep = latest.sweep
      /\ \A i \in 2..Len(looks) : looks[i - 1].sweep.seq < looks[i].sweep.seq
      /\ \A i \in DOMAIN looks :
           /\ looks[i].sweep.geometry = latest.sweep.geometry
           /\ Cardinality(Members(looks[i])) >= 4
           /\ AnchorIsFirst(looks[i])
           /\ RegionsOverlap(looks[i].found, latest.found, Grid(latest.sweep))

\* ... and against the sweeps of the history
MulticomponentSweepsMatch(row, history) ==
  LET looks == row.assoc.looks
  IN  /\ \A i \in DOMAIN looks : /\ looks[i].sweep \in Range(history)
                                 /\ FoundAgain(looks[i], Regions(looks[i].sweep))
      /\ Last(looks).sweep.at = Last(row.admissions).sweep.at

---------------------------------------------------------------------------
(* The agile representative                                                *)

\* hasCompleteAssociationRegion for an activity: the full promotion gate, not
\* the retention one, on the window the representative carries.
AgileLooksAreComplete(looks) ==
  /\ Len(looks) >= MinimumPositives
  /\ Cardinality({looks[i].track : i \in DOMAIN looks}) >= 2
  /\ ActivityQualifies(looks, FALSE)

AgileRegionIsComplete(row) ==
  /\ Len(row.assoc.opportunities) <= OpportunityWindow
  /\ AgileLooksAreComplete(AgileLooks(row.assoc))

\* validateAgileAssociationSweeps: every opportunity is in the history, in
\* sequence, and says what the detector says again.
SaysSoAgain(opportunity, candidates) ==
  /\ opportunity.outcome = OpportunityOutcome(candidates)
  /\ opportunity.outcome = "exactly-one" =>
       \E k \in DOMAIN candidates :
         InBand(candidates[k]) /\ opportunity.look.candidate = candidates[k]

AgileSweepsMatch(row, history) ==
  LET opportunities == row.assoc.opportunities
  IN  \A i \in DOMAIN opportunities :
        LET o == opportunities[i]
        IN  /\ o.sweep \in Range(history)
            /\ GeometryCompatible(opportunities[1].sweep, o.sweep)
            /\ i > 1 => SequentialOpportunity(opportunities[i - 1].sweep, o.sweep)
            /\ SaysSoAgain(o, Candidates(o.sweep))

---------------------------------------------------------------------------
(* Every row                                                               *)

Local(row) == row.assoc.mode = "frequency-local"

HasCompleteAssociationRegion(row) ==
  CASE row.assoc.mode = "agile" -> AgileRegionIsComplete(row)
    [] row.assoc.mode = "regular" -> row.assoc.missed = 0 /\ RegularProvenanceIsValid(row)
    [] row.assoc.mode = "multicomponent" ->
         row.assoc.missed = 0 /\ MulticomponentProvenanceIsValid(row)
    [] OTHER -> FALSE

\* observableAssociationEvidenceIsCurrentlyQualified
CurrentlyQualified(row) ==
  row.missed = 0 /\ (Local(row) \/ HasCompleteAssociationRegion(row))

\* coherentSweeps for an association: the sweeps of its looks, newest first,
\* when they are what the row says and in causal order.
AssociationSweepsMatch(row, history) ==
  CASE row.assoc.mode = "agile" -> AgileSweepsMatch(row, history)
    [] row.assoc.mode = "multicomponent" -> MulticomponentSweepsMatch(row, history)
    [] OTHER -> TRUE

CausalWindow(looks) ==
  IF StrictlyCausal(looks) THEN Observed(SweepsOf(Reverse(looks))) ELSE Refused

AssociationEvidence(row, history) ==
  IF HasCompleteAssociationRegion(row) /\ AssociationSweepsMatch(row, history)
    THEN CausalWindow(IF row.assoc.mode = "agile" THEN AgileLooks(row.assoc)
                      ELSE row.assoc.looks)
    ELSE Refused

ExtractObservableFeatures(row, history) ==
  IF history = <<>> THEN Unavailable
  ELSE IF Local(row) THEN LocalEvidence(row, history)
  ELSE AssociationEvidence(row, history)
=============================================================================
