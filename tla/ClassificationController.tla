---------------------- MODULE ClassificationController ----------------------
(***************************************************************************)
(* The application-wide classifier of the renderer (apps/desktop/src/      *)
(* renderer/controllers/classification.ts): one worker job at a time, the  *)
(* newest evidence waiting, a trailing consensus of one scope, and the     *)
(* projection every workspace shows.                                       *)
(*                                                                         *)
(* Evidence is [source, scope, id, data].  A job is [evidence, current,    *)
(* phase, answer]: current is whether the generation it was started in is  *)
(* still the controller's; its phase runs from asked (the worker has it)   *)
(* over settled (the answer is there) to handled.  The operators take the  *)
(* controller's record and return it.                                      *)
(***************************************************************************)
EXTENDS Naturals, Sequences

NoSubmission == [source |-> "none"]
NoJob      == [phase |-> "none"]
Nowhere    == <<>>       \* no scope, no key

NothingShown == [source |-> "none", pending |-> FALSE, samples |-> <<>>, issue |-> "none"]

InitialClassifier ==
  [latest |-> NoSubmission, job |-> NoJob, completed |-> Nowhere, scope |-> Nowhere,
   consensus |-> <<>>, disposed |-> FALSE, worker |-> FALSE, shown |-> NothingShown]

Key(evidence) == <<evidence.scope, evidence.id>>

Working(c) == c.job # NoJob
Outdated(job) == IF job = NoJob THEN NoJob ELSE [job EXCEPT !.current = FALSE]

\* Faulty variant: any answer is shown until the controller is disposed of.
AdmissibleForEver(c) == ~c.disposed

\* A job whose answer may still be shown.
Admissible(c) == ~c.disposed /\ c.job.current /\ c.job.evidence.scope = c.scope

\* drain: the waiting evidence becomes the job.  A capture too short for the
\* classifier resolves at once; a capture whose route cannot be trusted
\* rejects at once; anything else goes to the worker, started on demand.
Drained(c, rejects) ==
  LET evidence == c.latest
      Started(phase, answer) == [evidence |-> evidence, current |-> TRUE,
                                 phase |-> phase, answer |-> answer]
      iq == evidence.source = "iq"
  IN  IF c.disposed \/ Working(c) \/ c.latest = NoSubmission THEN c
      ELSE IF iq /\ evidence.data.short
        THEN [c EXCEPT !.latest = NoSubmission, !.job = Started("settled", "none")]
      ELSE IF iq /\ rejects
        THEN [c EXCEPT !.latest = NoSubmission, !.job = Started("settled", "error")]
      ELSE [c EXCEPT !.latest = NoSubmission, !.job = Started("asked", "none"), !.worker = TRUE]

\* submit, once the scope is this evidence's.
Enqueued(c, evidence, rejects) ==
  LET duplicate == \/ /\ Working(c) /\ c.job.current
                      /\ Key(c.job.evidence) = Key(evidence)
                   \/ c.latest # NoSubmission /\ Key(c.latest) = Key(evidence)
                   \/ c.completed = Key(evidence)
      first == c.shown.samples = <<>> /\ ~c.shown.pending
      shown == IF first \/ c.shown.issue # "none"
                 THEN [c.shown EXCEPT !.source = evidence.source,
                         !.pending = first \/ @, !.issue = "none"]
                 ELSE c.shown
  IN  IF duplicate THEN c
      ELSE Drained([c EXCEPT !.latest = evidence, !.shown = shown], rejects)

\* A new scope forgets everything that belongs to the old one.
Submitted(c, evidence, rejects) ==
  LET rescoped == [c EXCEPT !.scope = evidence.scope, !.job = Outdated(@),
                     !.consensus = <<>>, !.latest = NoSubmission, !.completed = Nowhere,
                     !.shown = [NothingShown EXCEPT !.source = evidence.source,
                                                    !.pending = TRUE]]
  IN  IF c.disposed THEN c
      ELSE Enqueued(IF evidence.scope = c.scope THEN c ELSE rescoped, evidence, rejects)

\* reset, as every caller in the application calls it.
Reset(c) ==
  [c EXCEPT !.job = Outdated(@), !.latest = NoSubmission, !.completed = Nowhere,
            !.scope = Nowhere, !.consensus = <<>>, !.shown = NothingShown]

\* dispose: the worker is terminated and what it still owed is rejected.
Settled(c, answer) ==
  IF c.job.phase = "asked" THEN [c EXCEPT !.job.phase = "settled", !.job.answer = answer]
  ELSE c

Disposed(c) ==
  IF c.disposed THEN c
  ELSE [Settled(Reset(c), "error") EXCEPT !.disposed = TRUE, !.worker = FALSE]

\* The worker answers; an I/Q answer without a result is an error.
JobAnswered(c, answer) ==
  Settled(c, IF answer = "none" /\ c.job.evidence.source = "iq" THEN "error" ELSE answer)

\* failWorker: an error event of the worker, or no answer for 15 seconds.
WorkerFailed(c) == [Settled(c, "error") EXCEPT !.worker = FALSE]

\* The handler of the settled promise; kept is how many of the earlier
\* samples are at most 500 ms old.
Handled(c, kept) ==
  LET evidence == c.job.evidence
      samples == Append(SubSeq(c.consensus, Len(c.consensus) - kept + 1, Len(c.consensus)),
                        evidence)
      done == [c EXCEPT !.job.phase = "handled"]
  IN  IF ~Admissible(c) THEN done
      ELSE CASE c.job.answer = "ok" ->
                  [done EXCEPT !.completed = Key(evidence), !.consensus = samples,
                     !.shown = [source |-> evidence.source, pending |-> FALSE,
                                samples |-> samples, issue |-> "none"]]
             [] c.job.answer = "none" ->
                  [done EXCEPT !.completed = Key(evidence), !.shown.source = evidence.source,
                     !.shown.issue = IF evidence.source = "iq" /\ evidence.data.short
                                       THEN "unavailable" ELSE "none"]
             [] OTHER ->
                  [done EXCEPT !.shown.source = evidence.source, !.shown.issue = "failure"]

\* Faulty variant: only a result ends the waiting.
FinishedQuietly(c, rejects) == Drained([c EXCEPT !.job = NoJob], rejects)

\* finally: a job that nothing follows ends the waiting it began.
Finished(c, rejects) ==
  LET idle == c.job.current /\ c.latest = NoSubmission
      freed == [c EXCEPT !.job = NoJob,
                         !.shown.pending = IF idle THEN FALSE ELSE @]
  IN  Drained(freed, rejects)
=============================================================================
