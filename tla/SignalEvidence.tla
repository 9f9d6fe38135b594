--------------------------- MODULE SignalEvidence ---------------------------
(***************************************************************************)
(* What the renderer makes of acquired evidence: every sweep goes through  *)
(* the detector and the tracker into the rows on display, the strongest    *)
(* row or every I/Q capture to the classifier, and the capture on display  *)
(* to the constellation recovery (controllers/acquisition.ts, kernel.ts,   *)
(* instrument-events.ts, AppShell.tsx, containers/IqContainer.tsx).        *)
(*                                                                         *)
(* The acquisitions themselves, and which of them the renderer accepts,    *)
(* are RendererAcquisition's; here an accepted measurement arrives.        *)
(***************************************************************************)
EXTENDS CaptureReceipt, ClassificationController, IqRecovery

CONSTANTS
  SweepNames,       \* geometry names a swept configuration may have
  IqNames, Short,   \* I/Q configurations; the ones too short to classify
  Arrivals,         \* how a sweep follows the last: <<time, sequence>> steps
  Regular,          \* the step that is no oddity
  HistoryLimit,
  Budgets           \* bounds: what a behaviour may spend, one record each

\* A configuration sweeps or captures; there is something to see in each sweep.
ASSUME EvidenceAssumption ==
  /\ SweepNames \cap IqNames = {}
  /\ "none" \notin SweepNames \cup IqNames
  /\ SweepNames \cup {"derived"} \subseteq DOMAIN Scenes

VARIABLES
  session,     \* the instrument session: its number, whether it has I/Q
  config,      \* its configuration: a geometry, an I/Q name or "none"
  tracker,
  history,     \* accepted sweeps, newest first; the first is on display
  detections,  \* rows on display
  iqCapture,   \* capture on display
  classifier, recovery,
  root,        \* the renderer's root: "mounted", "leaving", "gone"
  clock,       \* [id, seq, at] of the last sweep
  budget,      \* what is left of the bounds
  born         \* history variable: every <<row id, origin>> ever on display

displayVars == <<session, config, tracker, history, detections, iqCapture, classifier,
          recovery, root, clock, budget, born>>

evidenceVars == <<session, config, tracker, history, detections, iqCapture, clock, born>>

VisibleSweep == IF history = <<>> THEN NoSweep ELSE Head(history)

Left(what)  == budget[what] > 0
Spend(what) == Left(what) /\ budget' = [budget EXCEPT ![what] = @ - 1]

DisplayInit ==
  /\ session \in [no : {1}, iq : BOOLEAN]
  /\ config = "none"
  /\ tracker = InitialTracker
  /\ history = <<>> /\ detections = <<>>
  /\ iqCapture = NoCapture
  /\ classifier = InitialClassifier
  /\ recovery = Unmounted
  /\ root = "mounted"
  /\ clock = [id |-> 0, seq |-> 0, at |-> 0]
  /\ budget \in Budgets
  /\ session.iq = budget.iq
  /\ born = {}

---------------------------------------------------------------------------
(* Sweeps                                                                  *)

\* The strongest row, the first among equals.
ScalarTarget(rows, i) ==
  \A j \in DOMAIN rows :
    Shape(rows[i]).dbm > Shape(rows[j]).dbm
    \/ (Shape(rows[i]).dbm = Shape(rows[j]).dbm /\ i <= j)

\* A scope names the session, the requested geometry and the row.
ScalarEvidence(sweep, row) ==
  [source |-> "scalar", scope |-> <<sweep.session, sweep.geometry, row.id>>,
   id |-> sweep.id, data |-> [sweep |-> sweep, origin |-> row.origin]]

\* recordSweepEvidence once the sweep is accepted: when the tracker refuses
\* it the sweep is shown over the rows of the one before.
RecordSweepEvidence(sweep) ==
  /\ history' = SubSeq(<<sweep>> \o history, 1, Smallest({HistoryLimit, Len(history) + 1}))
  /\ clock' = [id |-> sweep.id, seq |-> sweep.seq, at |-> sweep.at]
  /\ IF UpdateRefused(tracker, sweep)
       THEN UNCHANGED <<tracker, detections, born>>
       ELSE \E updated \in {Updated(tracker, sweep)} :
              /\ tracker' = Forgotten(updated)
              /\ detections' = Published(updated)
              /\ born' = born \cup {<<row.id, row.origin>> : row \in Range(Displayed(updated))}

NextSweep(geometry, scene, step) ==
  [id |-> clock.id + 1, seq |-> clock.seq + step[2], at |-> clock.at + step[1],
   geometry |-> geometry, scene |-> scene, session |-> session.no, exact |-> FALSE]

\* The sweep's strongest row is classified where there is no I/Q to classify;
\* a row that has just been released is none.
OfferScalar(sweep) ==
  LET rows == Displayed(tracker')
  IN  IF session.iq \/ UpdateRefused(tracker, sweep) \/ rows = <<>>
        THEN UNCHANGED classifier
        ELSE \E i \in DOMAIN rows :
               /\ ScalarTarget(rows, i)
               /\ classifier' = Submitted(classifier, ScalarEvidence(sweep, rows[i]), FALSE)

\* A swept-spectrum measurement.
SweepArrives(sweep, odd) ==
  /\ Left("sweeps") /\ (odd => Left("oddities"))
  /\ budget' = [budget EXCEPT !.sweeps = @ - 1, !.oddities = IF odd THEN @ - 1 ELSE @]
  /\ RecordSweepEvidence(sweep)
  /\ OfferScalar(sweep)
  /\ UNCHANGED <<session, config, iqCapture, recovery, root>>

\* A complex-I/Q measurement: it is shown and offered to the classifier, and
\* its own spectrum recorded as a sweep.
IqEvidence(id) ==
  [source |-> "iq", scope |-> <<session.no, "iq", config>>, id |-> id,
   data |-> [short |-> config \in Short]]

CaptureArrives(sweep, rejects) ==
  /\ Spend("captures")
  /\ iqCapture' = [scope |-> IqEvidence(sweep.id).scope, id |-> sweep.id]
  /\ classifier' = Submitted(classifier, IqEvidence(sweep.id), rejects)
  /\ RecordSweepEvidence(sweep)
  /\ UNCHANGED <<session, config, recovery, root>>

\* An acquisition in flight may return after the root has gone.
MeasurementArrives ==
  \/ /\ config \in SweepNames
     /\ \E scene \in DOMAIN Scenes[config], step \in Arrivals :
          SweepArrives(NextSweep(config, scene, step), step # Regular)
  \/ /\ config \in IqNames
     /\ \E scene \in DOMAIN Scenes["derived"], rejects \in BOOLEAN :
          CaptureArrives(NextSweep("derived", scene, Regular), rejects)

---------------------------------------------------------------------------
(* Changes                                                                 *)

\* Faulty variant: the tracker goes on with rows the history has lost.
InvalidateHistoryOnly ==
  /\ classifier' = Reset(classifier)
  /\ UNCHANGED tracker
  /\ history' = <<>> /\ detections' = <<>>

\* invalidateAcquiredEvidence
InvalidateAcquiredEvidence ==
  /\ classifier' = Reset(classifier)
  /\ tracker' = ResetTracker(tracker)
  /\ history' = <<>> /\ detections' = <<>>

\* executeCanonicalOperation, or a configuration the driver withdrew.
Configure ==
  /\ root = "mounted" /\ Spend("changes")
  /\ config' \in SweepNames \cup (IF session.iq THEN IqNames ELSE {})
  /\ InvalidateAcquiredEvidence
  /\ iqCapture' = NoCapture
  /\ UNCHANGED <<session, recovery, root, clock, born>>

ReplaceSession ==
  /\ root = "mounted" /\ Spend("sessions")
  /\ session' \in [no : {session.no + 1}, iq : BOOLEAN]
  /\ config' = "none"
  /\ InvalidateAcquiredEvidence
  /\ iqCapture' = NoCapture
  /\ UNCHANGED <<recovery, root, clock, born>>

\* A stream that faults takes the evidence with it, the capture stays.
StreamBreaks ==
  /\ root = "mounted" /\ Spend("changes")
  /\ config \in SweepNames
  /\ InvalidateAcquiredEvidence
  /\ UNCHANGED <<session, config, iqCapture, recovery, root, clock, born>>

\* applyDetectionConfiguration: the tracker starts over; the history and the
\* classification stay.
ApplyDetectionConfiguration ==
  /\ root = "mounted" /\ Spend("changes")
  /\ tracker' = ResetTracker(tracker)
  /\ detections' = <<>>
  /\ UNCHANGED <<session, config, history, iqCapture, classifier, recovery, root, clock, born>>

\* Run and Single start the classification over; a continuous I/Q run takes
\* the capture off the display.
StartOver ==
  /\ root = "mounted" /\ Spend("changes")
  /\ config # "none"
  /\ classifier' = Reset(classifier)
  /\ iqCapture' \in {iqCapture, IF config \in IqNames THEN NoCapture ELSE iqCapture}
  /\ UNCHANGED <<session, config, tracker, history, detections, recovery, root, clock, born>>

---------------------------------------------------------------------------
(* The classifier's worker                                                 *)

ClassifierStep(c) ==
  classifier' = c /\ UNCHANGED <<recovery, root, budget, evidenceVars>>

WorkerAnswers == /\ classifier.job.phase = "asked"
                 /\ \E answer \in {"ok", "none", "error"} :
                      ClassifierStep(JobAnswered(classifier, answer))

WorkerFails == classifier.worker /\ ClassifierStep(WorkerFailed(classifier))

ResponseTimesOut ==
  classifier.job.phase = "asked" /\ ClassifierStep(WorkerFailed(classifier))

ResultHandled == /\ classifier.job.phase = "settled"
                 /\ \E kept \in 0..Len(classifier.consensus) :
                      ClassifierStep(Handled(classifier, kept))

JobFinished == /\ classifier.job.phase = "handled"
               /\ \E rejects \in BOOLEAN : ClassifierStep(Finished(classifier, rejects))

---------------------------------------------------------------------------
(* The root and the I/Q workspace                                          *)

\* A real unmount disposes of the classifier a microtask later; the replay
\* of React's StrictMode mounts again before it.
RootUnmounts ==
  /\ root = "mounted" /\ Spend("roots")
  /\ root' = "leaving"
  /\ recovery' = Unmounted
  /\ UNCHANGED <<classifier, evidenceVars>>

RootRemounts ==
  /\ root = "leaving"
  /\ root' = "mounted"
  /\ UNCHANGED <<classifier, recovery, budget, evidenceVars>>

RootGone ==
  /\ root = "leaving"
  /\ root' = "gone"
  /\ classifier' = Disposed(classifier)
  /\ UNCHANGED <<recovery, budget, evidenceVars>>

RecoveryStep(r) == recovery' = r /\ UNCHANGED <<classifier, root, budget, evidenceVars>>

EnterWorkspace ==
  /\ root = "mounted" /\ session.iq /\ ~recovery.mounted
  /\ Spend("visits")
  /\ recovery' = Mounted(iqCapture)
  /\ UNCHANGED <<classifier, root, evidenceVars>>

LeaveWorkspace == recovery.mounted /\ RecoveryStep(Unmounted)

CaptureShown == /\ recovery.mounted /\ recovery.capture # iqCapture
                /\ RecoveryStep(EffectRun(recovery, iqCapture))

RecoveryAnswers == /\ recovery.job.phase = "asked"
                   /\ \E answer \in {"ok", "error"} :
                        RecoveryStep(RecoveryAnswered(recovery, answer))

RecoveryResult == recovery.job.phase = "settled" /\ RecoveryStep(RecoveryHandled(recovery))

RecoveryEnds == recovery.job.phase = "handled" /\ RecoveryStep(RecoveryFinished(recovery))

CoolingEnds == recovery.cooling /\ RecoveryStep(Cooled(recovery))

TimerFires == recovery.timer = "due" /\ RecoveryStep(TimerFired(recovery))

---------------------------------------------------------------------------
DisplayNext ==
  \/ MeasurementArrives
  \/ Configure \/ ReplaceSession \/ StreamBreaks
  \/ ApplyDetectionConfiguration \/ StartOver
  \/ WorkerAnswers \/ WorkerFails \/ ResponseTimesOut \/ ResultHandled \/ JobFinished
  \/ RootUnmounts \/ RootRemounts \/ RootGone
  \/ EnterWorkspace \/ LeaveWorkspace \/ CaptureShown
  \/ RecoveryAnswers \/ RecoveryResult \/ RecoveryEnds \/ CoolingEnds \/ TimerFires

DisplayFairness ==
  /\ WF_displayVars(WorkerAnswers \/ ResponseTimesOut)
  /\ WF_displayVars(ResultHandled) /\ WF_displayVars(JobFinished)
  /\ WF_displayVars(RecoveryAnswers) /\ WF_displayVars(RecoveryResult) /\ WF_displayVars(RecoveryEnds)
  /\ WF_displayVars(CoolingEnds) /\ WF_displayVars(TimerFires) /\ WF_displayVars(CaptureShown)

DisplaySpec == DisplayInit /\ [][DisplayNext]_displayVars /\ DisplayFairness

---------------------------------------------------------------------------
(* Properties                                                              *)

\* The wall clock did not step back between the sweeps anything on display
\* refers to.
TimesIncrease ==
  LET seen == Range(history) \cup
                UNION {Range(SweepsOf(detections[i].admissions)) : i \in DOMAIN detections}
  IN  \A s, t \in seen : s.id < t.id => s.at < t.at

NoVisibleTarget ==
  \A i \in DOMAIN detections :
    ~(PhysicalRow(detections[i]) /\ FromVisibleSweep(detections[i], VisibleSweep))

\* The extractor is a second implementation of the tracker's rules: whatever
\* rows the tracker publishes as current, over whatever sequence of sweeps,
\* missed looks, refused updates and changes of configuration, the extractor
\* reads as evidence or declines with its typed outcome, and never refuses
\* with the ordinary error that means a broken ledger
\* (observable-features.ts:154).
RowsAreAdmissible ==
  TimesIncrease =>
    \A i \in DOMAIN detections :
      LET row == detections[i]
      IN  row.state # "released" /\ CurrentlyQualified(row) =>
            ExtractObservableFeatures(row, history).outcome # "refused"

\* A row's name means one signal for ever: over resets of the tracker, new
\* configurations and new sessions, an identity was only ever on display with
\* one origin (index.ts:150-455: reset keeps both counters).
NamesAreExact == \A p, q \in born : p[1][1] = "signal" /\ p[1] = q[1] => p[2] = q[2]

\* The rows that hold the latest look of a lineage are exactly the members the
\* look names, all under the same ledger (one pass binds combs, the next
\* regions, a third ages).
LineagesAreExact ==
  LET Fresh(i) == Static(tracker.rows[i]) /\ tracker.rows[i].assoc.missed = 0
      rows == {i \in DOMAIN tracker.rows : Fresh(i)}
  IN  \A i \in rows :
        LET assoc == tracker.rows[i].assoc
            kin == {j \in rows : tracker.rows[j].assoc.id = assoc.id}
        IN  /\ \A j \in kin : tracker.rows[j].assoc = assoc
            /\ {tracker.rows[j].id : j \in kin} = Members(Last(assoc.looks))

\* Both: an identity, once given, is one signal's and one lineage's.
IdentitiesAreExact == NamesAreExact /\ LineagesAreExact

\* A detected-power capture taken over the evidence on display, for every
\* explicit choice of a row and for none, ends with a consistent receipt or
\* with a typed refusal: the ranking is complete, the selected row's evidence
\* begins with the visible sweep, and the receipt that three places compute
\* in three ways never contradicts itself (acquisition.ts:973,
\* index.ts:951, detected-power-capture-receipt.ts:148).
CapturesAreQualified ==
  TimesIncrease =>
    /\ VisibleTargetAdmission(detections, VisibleSweep).status = "ready"
    /\ \A explicit \in {NoId} \cup {detections[i].id : i \in DOMAIN detections} :
         AcquireZeroSpan(detections, history, explicit)
           \in {"qualified", "unavailable"}
                 \cup (IF NoVisibleTarget THEN {"unqualified"} ELSE {})

\* What the display says of modulation is about the evidence of now: however
\* late the worker answers, fails or times out, a shown result, an issue or a
\* wait belongs to the present session and configuration, its samples to one
\* scope and, where that is a signal, to one origin (an activity moves, and so
\* does the origin of its row), and a wait to work that is there
\* (classification.ts:214-418); and a recovered constellation is of the scope
\* the workspace shows (iq-recovery.ts:101-137).
ShownIsCurrent ==
  LET c == classifier
      shown == c.shown
  IN  /\ shown # NothingShown =>
           /\ c.scope # Nowhere
           /\ c.scope[1] = session.no
           /\ config = c.scope[IF shown.source = "iq" THEN 3 ELSE 2]
      /\ shown.pending => c.latest # NoSubmission \/ (Working(c) /\ c.job.current)
      /\ \A i, j \in DOMAIN shown.samples :
           /\ shown.samples[i].scope = c.scope
           /\ shown.source = "scalar" /\ c.scope[3][1] = "signal" =>
                shown.samples[i].data.origin = shown.samples[j].data.origin
           /\ i < j => shown.samples[i].id < shown.samples[j].id
      /\ recovery.recovered # NoCapture =>
           /\ recovery.recovered.scope = recovery.scope
           /\ recovery.capture # NoCapture

\* Nobody waits for ever: a classification that shows as pending stops
\* pending, and a capture that waits for its recovery is taken
\* (classification.ts:383, 502, iq-recovery.ts:101, 130).
JobsEnd ==
  /\ classifier.shown.pending ~> ~classifier.shown.pending
  /\ recovery.latest # NoCapture ~> recovery.latest = NoCapture
=============================================================================
