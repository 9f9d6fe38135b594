----------------------------- MODULE IqRecovery -----------------------------
(***************************************************************************)
(* The constellation recovery of the I/Q workspace (apps/desktop/src/      *)
(* renderer/controllers/iq-recovery.ts, mounted by containers/             *)
(* IqContainer.tsx): one recovery at a time, at most four a second, the    *)
(* newest capture waiting.  A capture is [scope, id]; a job is [capture,   *)
(* current, phase, answer].  cooling says that the 250 ms since the last   *)
(* recovery began are not over.  The timer of a scheduled drain is set for *)
(* their end, then due; a recovery that begins first leaves it due.        *)
(***************************************************************************)
EXTENDS Naturals

NoCapture  == [id |-> 0]
NoRecovery == [phase |-> "none"]

\* A workspace that is not mounted has no controller.
Unmounted ==
  [mounted |-> FALSE, capture |-> NoCapture, scope |-> <<>>, latest |-> NoCapture,
   job |-> NoRecovery, completed |-> NoCapture, cooling |-> FALSE, timer |-> "none",
   recovered |-> NoCapture]

\* drain
Recovering(r) ==
  IF ~r.mounted \/ r.job # NoRecovery \/ r.latest = NoCapture THEN r
  ELSE IF r.cooling THEN [r EXCEPT !.timer = IF @ = "none" THEN "set" ELSE @]
  ELSE [r EXCEPT !.latest = NoCapture, !.cooling = TRUE,
                 !.job = [capture |-> r.latest, current |-> TRUE,
                          phase |-> "asked", answer |-> "none"]]

\* A new scope or a reset: nothing of the old one is shown or waits, and the
\* next recovery need not wait either.
Rescoped(r, scope) ==
  [r EXCEPT !.scope = scope, !.latest = NoCapture, !.completed = NoCapture,
            !.cooling = FALSE, !.timer = "none", !.recovered = NoCapture,
            !.job = IF @ = NoRecovery THEN @ ELSE [@ EXCEPT !.current = FALSE]]

\* submit; whether the capture in flight is still current is not asked.
Offered(r, capture) ==
  LET scoped == IF capture.scope = r.scope THEN r ELSE Rescoped(r, capture.scope)
      duplicate == \/ scoped.job # NoRecovery /\ scoped.job.capture = capture
                   \/ scoped.latest = capture
                   \/ scoped.completed = capture
  IN  IF duplicate THEN scoped
      ELSE Recovering([scoped EXCEPT !.latest = capture])

\* The effect of the container when the shown capture changed.
EffectRun(r, capture) ==
  LET seen == [r EXCEPT !.capture = capture]
  IN  IF capture = NoCapture THEN Rescoped(seen, <<>>) ELSE Offered(seen, capture)

\* Mounting makes a fresh controller and runs the effect once.
Mounted(capture) == EffectRun([Unmounted EXCEPT !.mounted = TRUE], capture)

\* The worker answers, fails, or does not answer for 15 seconds.
RecoveryAnswered(r, answer) ==
  [r EXCEPT !.job.phase = "settled", !.job.answer = answer]

\* A good answer is shown while its generation lasts; a bad one keeps what
\* was shown.
RecoveryHandled(r) ==
  LET done == [r EXCEPT !.job.phase = "handled"]
  IN  IF ~r.job.current \/ r.job.answer # "ok" THEN done
      ELSE [done EXCEPT !.completed = r.job.capture, !.recovered = r.job.capture]

RecoveryFinished(r) == Recovering([r EXCEPT !.job = NoRecovery])

\* The 250 ms are over.
Cooled(r) ==
  [r EXCEPT !.cooling = FALSE, !.timer = IF @ = "set" THEN "due" ELSE @]

\* The scheduled drain, which finds nothing to do during a recovery.
TimerFired(r) == Recovering([r EXCEPT !.timer = "none"])
=============================================================================
