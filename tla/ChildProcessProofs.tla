-------------------------- MODULE ChildProcessProofs --------------------------
(***************************************************************************)
(* Proofs about the two components that live off child processes.          *)
(*                                                                         *)
(* The Neptune P210 driver, for every set of endpoints and any number of   *)
(* configurations: CallInv ties the call under way to the session,         *)
(* ChildInv the processes to the call, and TuneInv the attributes of the   *)
(* device to the settings the call has already written.                    *)
(*                                                                         *)
(* The firmware twin's transport and its shell adapter, for any number of  *)
(* bridges and of requests in flight: BridgeInv is what one bridge knows   *)
(* of itself, OwnerInv what the transport knows of its bridge while open() *)
(* and close() overtake each other, ShadowInv what the adapter knows of    *)
(* the firmware.                                                           *)
(***************************************************************************)
EXTENDS NeptuneP210, DigitalTwinTransport, SequenceTheorems, TLAPS

-----------------------------------------------------------------------------
(* Neptune: the inductive invariant *)

Places == Endpoints \cup {"nowhere"}

Calls == [kind : {"none", "known", "hits", "manual", "connect", "configure", "acquire"},
          step : {"none", "next", "query", "sweep", "manual", "probe", "ranges", "range",
                  "write", "verify", "readback", "written", "capture", "read"},
          at : Places, rev : {Foreign} \cup Revisions, setting : Settings \cup {"none"},
          todo : SUBSET (Endpoints \cup Settings),
          known : SUBSET Endpoints, found : SUBSET Endpoints]

Sessions == [at : Places, config : {Foreign} \cup Revisions,
             failures : 0..MaxConsecutiveFailures]

\* The steps of each kind of call
StepsOf(kind) ==
    CASE kind = "known"     -> {"next", "query", "sweep"}
      [] kind = "hits"      -> {"next", "query"}
      [] kind = "manual"    -> {"manual"}
      [] kind = "connect"   -> {"probe", "ranges", "range"}
      [] kind = "configure" -> {"write", "verify", "readback", "written"}
      [] kind = "acquire"   -> {"write", "written", "capture", "read"}
      [] OTHER              -> {"none"}

TypeInv ==
    /\ op \in Calls
    /\ children \subseteq Children
    /\ tuned \in [Settings -> {Foreign} \cup Revisions]
    /\ candidates \subseteq Endpoints /\ remembered \subseteq Endpoints
    /\ pending \in BOOLEAN
    /\ session \in Sessions
    /\ streak \in Nat

\* A call is at one of its steps.  One that opens or uses a session knows its
\* endpoint, one that tunes knows the revision, and no capture is started by a
\* session that has failed too often.
CallInv ==
    /\ op.step \in StepsOf(op.kind)
    /\ op.kind = "none" => op = NoOp
    /\ op.kind \in {"known", "hits"} => op.todo \subseteq Endpoints
    /\ op.kind = "connect" => op.at \in Endpoints
    /\ op.kind \in {"configure", "acquire"} =>
         /\ session.at \in Endpoints /\ op.at \in Endpoints /\ op.rev \in Revisions
         /\ op.setting \in Settings
    /\ op.step \in {"verify", "readback"} => op.setting = "tune"
    /\ op.setting = "band" => op.step # "written"
    /\ session # NoSession => session.at \in Endpoints
    /\ streak = session.failures
    /\ op.kind = "acquire" => session.failures < MaxConsecutiveFailures

\* Every process is waited for, and no two of them talk to one endpoint.
ChildInv ==
    /\ \A child \in children : Awaited(child)
    /\ \A c, d \in children : c.at = d.at => c = d

\* What has been written
Done == CASE op.step \in {"capture", "read"} -> Settings
          [] op.step \in {"verify", "readback"} -> {"tune"}
          [] op.step = "write" /\ op.setting = "rate" -> {"tune"}
          [] op.step = "write" /\ op.setting = "band" -> {"tune", "rate"}
          [] op.step = "written" /\ op.setting = "tune" -> {"tune"}
          [] op.step = "written" /\ op.setting = "rate" -> {"tune", "rate"}
          [] OTHER -> {}

TuneInv == \A s \in Done : tuned[s] = op.rev

NeptuneInv == TypeInv /\ CallInv /\ ChildInv /\ TuneInv

LEMMA EmptyTypes ==
  NoOp \in Calls /\ NoSession \in Sessions /\ Untuned \in [Settings -> {Foreign} \cup Revisions]
<1>1. NoOp \in Calls
  BY DEF NoOp, Calls, Places
<1>2. NoSession \in Sessions
  BY DEF NoSession, Sessions, Places, Foreign, MaxConsecutiveFailures
<1>3. Untuned \in [Settings -> {Foreign} \cup Revisions]
  BY DEF Untuned
<1>4. QED
  BY <1>1, <1>2, <1>3

LEMMA InitNeptuneInv == Init => NeptuneInv
<1> SUFFICES ASSUME Init PROVE NeptuneInv
  OBVIOUS
<1>1. TypeInv
  BY EmptyTypes DEF Init, TypeInv
<1>2. CallInv
  BY DEF Init, NoSession, NoOp, CallInv, StepsOf, MaxConsecutiveFailures
<1>3. ChildInv /\ TuneInv
  BY DEF Init, NoOp, ChildInv, TuneInv, Done
<1>4. QED
  BY <1>1, <1>2, <1>3 DEF NeptuneInv

-----------------------------------------------------------------------------
(* Processes of the call under way *)

\* The steps at which the call waits for processes
Waits == {"query", "sweep", "manual", "probe", "range", "write", "readback", "read"}

\* At any other step there is no process.
LEMMA NobodyUnawaited ==
  ASSUME NeptuneInv, op.step \notin Waits
  PROVE  children = {}
  BY DEF NeptuneInv, ChildInv, Awaited, Waits

\* Outside the sweep there is at most one.
LEMMA OnlyChild ==
  ASSUME NeptuneInv, NEW child \in children, op.step # "sweep"
  PROVE  children = {child} /\ child.at = op.at
<1>1. \A c \in children : c.at = op.at
  BY DEF NeptuneInv, ChildInv, Awaited
<1>2. QED
  BY <1>1 DEF NeptuneInv, ChildInv

\* A process is answered when it is gone.
LEMMA AnsweredIsGone ==
  ASSUME NeptuneInv, NEW child \in children, op.step # "sweep", Closes(child)
  PROVE  children' = {}
  BY OnlyChild DEF Closes, Answers

\* A started process is waited for.
LEMMA StartedAlone ==
  ASSUME children = {}, NEW c, children' = children \cup {c}, Awaited(c)'
  PROVE  ChildInv'
  BY DEF ChildInv

LEMMA QueryType ==
  ASSUME NEW e \in Endpoints
  PROVE  Query(e) \in Children /\ Query(e).at = e /\ Query(e).does = "query"
  BY DEF Query, Command, Children, Foreign

LEMMA CommandType ==
  ASSUME NEW e \in Endpoints, NEW does \in {"read"} \cup Settings, NEW rev \in {Foreign} \cup Revisions
  PROVE  /\ Command(e, does, rev) \in Children
         /\ Command(e, does, rev).at = e /\ Command(e, does, rev).does = does
         /\ Command(e, does, rev).rev = rev
  BY DEF Command, Children

-----------------------------------------------------------------------------
(* Processes move *)

\* A late setter writes what the call that waits for it is writing.
LEMMA AppliesKeepsInv ==
  ASSUME NeptuneInv, NEW child \in children, Applies(child)
  PROVE  NeptuneInv'
<1> USE DEF NeptuneInv
<1>1. child \in Children /\ Awaited(child)
  BY DEF TypeInv, ChildInv
<1>2. UNCHANGED <<children, op, candidates, remembered, pending, session, streak>>
  BY DEF Applies, atRest
<1>3. op.step = "write" /\ child.does = op.setting /\ child.rev = op.rev
  BY <1>1 DEF Applies, Awaited, Settings
<1>4. TypeInv'
  BY <1>1, <1>2 DEF TypeInv, Applies, Children
<1>5. CallInv' /\ ChildInv'
  BY <1>2 DEF CallInv, ChildInv, Awaited
<1>6. TuneInv'
  BY <1>2, <1>3 DEF TuneInv, Done, Applies, TypeInv, Settings
<1>7. QED
  BY <1>4, <1>5, <1>6

\* A signalled process is the same one.
LEMMA SignalsKeepsInv ==
  ASSUME NeptuneInv, NEW child \in children, Signals(child)
  PROVE  NeptuneInv'
<1> USE DEF NeptuneInv
<1>1. UNCHANGED <<tuned, op, candidates, remembered, pending, session, streak>>
  BY DEF Signals, atRest
<1> DEFINE marked == [child EXCEPT !.signalled = TRUE]
<1>2. child \in Children
  BY DEF TypeInv
<1>3. /\ marked \in Children /\ marked.at = child.at
      /\ marked.does = child.does /\ marked.rev = child.rev
  BY <1>2 DEF Children
<1>4. children' = (children \ {child}) \cup {marked}
  BY DEF Signals
<1>5. TypeInv'
  BY <1>1, <1>3, <1>4 DEF TypeInv
<1>6. CallInv' /\ TuneInv'
  BY <1>1 DEF CallInv, TuneInv, Done
<1>7. \A c : Awaited(c)' <=> Awaited(c)
  BY <1>1 DEF Awaited
<1>8. Awaited(marked)
  BY <1>3 DEF ChildInv, Awaited
<1>9. ChildInv'
  <2> HIDE DEF marked
  <2> QED BY <1>3, <1>4, <1>7, <1>8 DEF ChildInv
<1>10. QED
  BY <1>5, <1>6, <1>9

-----------------------------------------------------------------------------
(* discover() and addManualEndpoint() *)

\* A call that only starts a command leaves the rest alone.
LEMMA DiscoverKeepsInv ==
  ASSUME NeptuneInv, Discover
  PROVE  NeptuneInv'
<1>1. PICK listed \in {remembered, {}} :
        /\ Idle
        /\ Start({}, [NoOp EXCEPT !.kind = "known", !.step = "next",
                                  !.todo = Configured \cup listed,
                                  !.known = Configured \cup listed])
  BY DEF Discover
<1>2. Configured \cup listed \in SUBSET Endpoints
  BY NeptuneAssumption DEF NeptuneInv, TypeInv
<1>3. children' = {}
  BY <1>1, NobodyUnawaited DEF Idle, Start, NeptuneInv, CallInv, NoOp, Waits
<1>4. /\ op' \in Calls /\ op'.kind = "known" /\ op'.step = "next"
      /\ op'.todo \subseteq Endpoints
  BY <1>1, <1>2, EmptyTypes DEF Start, Calls, NoOp
<1>5. UNCHANGED <<tuned, candidates, remembered, pending, session, streak>>
  BY <1>1 DEF Start, atRest
<1>6. TypeInv'
  BY <1>3, <1>4, <1>5 DEF NeptuneInv, TypeInv, Sessions
<1>7. CallInv'
  BY <1>4, <1>5 DEF NeptuneInv, CallInv, StepsOf
<1>8. ChildInv' /\ TuneInv'
  BY <1>3, <1>4 DEF ChildInv, TuneInv, Done
<1>9. QED
  BY <1>6, <1>7, <1>8 DEF NeptuneInv

LEMMA DiscoverOneKeepsInv ==
  ASSUME NeptuneInv, DiscoverOne
  PROVE  NeptuneInv'
<1>1. PICK e \in op.todo : Start({Query(e)}, [op EXCEPT !.step = "query", !.at = e])
  BY DEF DiscoverOne
<1>2. op \in Calls /\ op.kind \in {"known", "hits"} /\ op.step = "next" /\ e \in Endpoints
  BY DEF DiscoverOne, NeptuneInv, TypeInv, CallInv, StepsOf, Calls
<1>3. children = {} /\ children' = children \cup {Query(e)}
  BY <1>1, <1>2, NobodyUnawaited DEF Start, Waits
<1>4. /\ op' \in Calls /\ op'.kind = op.kind /\ op'.step = "query"
      /\ op'.todo = op.todo /\ op'.at = e
  BY <1>1, <1>2 DEF Start, Calls, Places
<1>5. UNCHANGED <<tuned, candidates, remembered, pending, session, streak>>
  BY <1>1 DEF Start, atRest
<1>6. TypeInv'
  BY <1>2, <1>3, <1>4, <1>5, QueryType DEF NeptuneInv, TypeInv, Sessions
<1>7. CallInv'
  BY <1>2, <1>4, <1>5 DEF NeptuneInv, CallInv, StepsOf
<1>8. Awaited(Query(e))'
  BY <1>2, <1>4, QueryType DEF Awaited, Query, Command
<1>9. ChildInv'
  BY <1>3, <1>8, StartedAlone
<1>10. TuneInv'
  BY <1>4 DEF TuneInv, Done
<1>11. QED
  BY <1>6, <1>7, <1>9, <1>10 DEF NeptuneInv

LEMMA DiscoveredKeepsInv ==
  ASSUME NeptuneInv, NEW child \in children, Discovered(child)
  PROVE  NeptuneInv'
<1>1. /\ op \in Calls /\ op.kind \in {"known", "hits"} /\ op.step = "query"
      /\ op.todo \subseteq Endpoints /\ child.at \in Endpoints
  BY DEF Discovered, NeptuneInv, TypeInv, CallInv, StepsOf, Children
<1>2. children' = {}
  BY <1>1, AnsweredIsGone DEF Discovered, Succeeds, Fails
<1>3. UNCHANGED <<tuned, candidates, remembered, pending, session, streak>>
  BY DEF Discovered, atRest
<1>4. /\ op' \in Calls /\ op'.kind = op.kind /\ op'.step = "next"
      /\ op'.todo \subseteq Endpoints
  <2> DEFINE after == [op EXCEPT !.step = "next", !.todo = @ \ {child.at}]
  <2>1. /\ after \in Calls /\ after.kind = op.kind /\ after.step = "next"
        /\ after.todo \subseteq Endpoints /\ after.found = op.found
    BY <1>1 DEF Calls
  <2>2. op' = after \/ op' = [after EXCEPT !.found = @ \cup {child.at}]
    BY DEF Discovered
  <2> HIDE DEF after
  <2>3. QED
    BY <1>1, <2>1, <2>2 DEF Calls
<1>5. TypeInv'
  BY <1>2, <1>3, <1>4 DEF NeptuneInv, TypeInv, Sessions
<1>6. CallInv'
  BY <1>1, <1>3, <1>4 DEF NeptuneInv, CallInv, StepsOf
<1>7. ChildInv' /\ TuneInv'
  BY <1>2, <1>4 DEF ChildInv, TuneInv, Done
<1>8. QED
  BY <1>5, <1>6, <1>7 DEF NeptuneInv

\* One process per host, all of them awaited.
LEMMA SweepKeepsInv ==
  ASSUME NeptuneInv, Sweep
  PROVE  NeptuneInv'
<1>1. PICK hosts \in SUBSET Endpoints :
         Start({Query(e) : e \in hosts}, [op EXCEPT !.step = "sweep", !.todo = hosts])
  BY DEF Sweep
<1>2. op \in Calls /\ op.kind = "known" /\ op.step = "next"
  BY DEF Sweep, NeptuneInv, TypeInv
<1>3. children' = {Query(e) : e \in hosts}
  BY <1>1, <1>2, NobodyUnawaited DEF Start, Waits
<1>4. op' \in Calls /\ op'.kind = "known" /\ op'.step = "sweep" /\ op'.todo = hosts
  BY <1>1, <1>2 DEF Start, Calls
<1>5. UNCHANGED <<tuned, candidates, remembered, pending, session, streak>>
  BY <1>1 DEF Start, atRest
<1>6. TypeInv'
  BY <1>3, <1>4, <1>5, QueryType DEF NeptuneInv, TypeInv, Sessions
<1>7. CallInv'
  BY <1>4, <1>5 DEF NeptuneInv, CallInv, StepsOf
<1>8. ChildInv'
  BY <1>3, <1>4, QueryType DEF ChildInv, Awaited
<1>9. TuneInv'
  BY <1>4 DEF TuneInv, Done
<1>10. QED
  BY <1>6, <1>7, <1>8, <1>9 DEF NeptuneInv

\* The host of a failed probe leaves the hits with its only process.
LEMMA SweepAnswersKeepsInv ==
  ASSUME NeptuneInv, NEW child \in children, SweepAnswers(child)
  PROVE  NeptuneInv'
<1>1. op \in Calls /\ op.kind = "known" /\ op.step = "sweep" /\ op.todo \subseteq Endpoints
  BY DEF SweepAnswers, NeptuneInv, TypeInv, CallInv, StepsOf
<1>2. children' = children \ {child}
  BY DEF SweepAnswers, Succeeds, Fails, Closes, Answers
<1>3. UNCHANGED <<tuned, candidates, remembered, pending, session, streak>>
  BY DEF SweepAnswers, atRest
<1>4. /\ op' \in Calls /\ op'.kind = "known" /\ op'.step = "sweep"
      /\ op'.todo \subseteq Endpoints /\ op.todo \ {child.at} \subseteq op'.todo
  BY <1>1 DEF SweepAnswers, Calls
<1>5. TypeInv'
  BY <1>2, <1>3, <1>4 DEF NeptuneInv, TypeInv, Sessions
<1>6. CallInv'
  BY <1>3, <1>4 DEF NeptuneInv, CallInv, StepsOf
<1>7. ChildInv'
  BY <1>1, <1>2, <1>4 DEF NeptuneInv, ChildInv, Awaited
<1>8. TuneInv'
  BY <1>4 DEF TuneInv, Done
<1>9. QED
  BY <1>5, <1>6, <1>7, <1>8 DEF NeptuneInv

LEMMA SweptKeepsInv ==
  ASSUME NeptuneInv, Swept
  PROVE  NeptuneInv'
<1>1. op \in Calls /\ op.kind = "known" /\ op.step = "sweep" /\ op.todo \subseteq Endpoints
  BY DEF Swept, NeptuneInv, TypeInv, CallInv, StepsOf
<1>2. children' = {}
  BY DEF Swept, NeptuneInv, ChildInv
<1>3. UNCHANGED <<tuned, candidates, remembered, pending, session, streak>>
  BY DEF Swept, atRest
<1>4. /\ op' \in Calls /\ op'.kind = "hits" /\ op'.step = "next"
      /\ op'.todo \subseteq Endpoints
  BY <1>1 DEF Swept, Calls, Places
<1>5. TypeInv'
  BY <1>2, <1>3, <1>4 DEF NeptuneInv, TypeInv, Sessions
<1>6. CallInv'
  BY <1>3, <1>4 DEF NeptuneInv, CallInv, StepsOf
<1>7. ChildInv' /\ TuneInv'
  BY <1>2, <1>4 DEF ChildInv, TuneInv, Done
<1>8. QED
  BY <1>5, <1>6, <1>7 DEF NeptuneInv

\* What is left to show of a step with which the call ends
LEMMA CallEnds ==
  ASSUME NeptuneInv, TypeInv', op' = NoOp, children' = {},
         session' # NoSession => session'.at \in Endpoints,
         streak' = session'.failures
  PROVE  NeptuneInv'
<1>1. CallInv'
  BY DEF CallInv, StepsOf, NoOp
<1>2. ChildInv' /\ TuneInv'
  BY DEF ChildInv, TuneInv, Done, NoOp
<1>3. QED
  BY <1>1, <1>2 DEF NeptuneInv

LEMMA FinishDiscoverKeepsInv ==
  ASSUME NeptuneInv, FinishDiscover
  PROVE  NeptuneInv'
<1>1. children' = {}
  BY NobodyUnawaited DEF FinishDiscover, Waits
<1>2. TypeInv'
  BY <1>1, EmptyTypes DEF FinishDiscover, NeptuneInv, TypeInv, Calls
<1>3. QED
  BY <1>1, <1>2, CallEnds DEF FinishDiscover, NeptuneInv, CallInv

LEMMA AddManualEndpointKeepsInv ==
  ASSUME NeptuneInv, NEW e \in Endpoints, AddManualEndpoint(e)
  PROVE  NeptuneInv'
<1>1. children = {} /\ children' = children \cup {Query(e)}
  BY NobodyUnawaited DEF AddManualEndpoint, Idle, Start, NeptuneInv, CallInv, NoOp, Waits
<1>2. op' \in Calls /\ op'.kind = "manual" /\ op'.step = "manual" /\ op'.at = e
  BY EmptyTypes DEF AddManualEndpoint, Start, Calls, Places, NoOp
<1>3. UNCHANGED <<tuned, candidates, remembered, pending, session, streak>>
  BY DEF AddManualEndpoint, Start, atRest
<1>4. TypeInv'
  BY <1>1, <1>2, <1>3, QueryType DEF NeptuneInv, TypeInv, Sessions
<1>5. CallInv' /\ TuneInv'
  BY <1>2, <1>3 DEF NeptuneInv, CallInv, StepsOf, TuneInv, Done
<1>6. ChildInv'
  BY <1>1, <1>2, StartedAlone, QueryType DEF Awaited
<1>7. QED
  BY <1>4, <1>5, <1>6 DEF NeptuneInv

LEMMA ManualAnsweredKeepsInv ==
  ASSUME NeptuneInv, NEW child \in children, ManualAnswered(child)
  PROVE  NeptuneInv'
<1>1. children' = {}
  BY AnsweredIsGone DEF ManualAnswered, Succeeds, Fails
<1>2. remembered' \subseteq Endpoints
  BY DEF ManualAnswered, Record, NeptuneInv, TypeInv, Children
<1>3. TypeInv'
  BY <1>1, <1>2, EmptyTypes DEF ManualAnswered, NeptuneInv, TypeInv
<1>4. QED
  BY <1>1, <1>3, CallEnds DEF ManualAnswered, NeptuneInv, CallInv

-----------------------------------------------------------------------------
(* connect(), cleanupPendingConnection() and disconnect() *)

LEMMA ConnectKeepsInv ==
  ASSUME NeptuneInv, NEW e \in Endpoints, Connect(e)
  PROVE  NeptuneInv'
<1>1. children = {} /\ children' = children \cup {Query(e)}
  BY NobodyUnawaited DEF Connect, Idle, NeptuneInv, CallInv, NoOp, Waits
<1>2. op' \in Calls /\ op'.kind = "connect" /\ op'.step = "probe" /\ op'.at = e
  BY EmptyTypes DEF Connect, Calls, Places, NoOp
<1>3. pending' \in BOOLEAN /\ UNCHANGED <<tuned, candidates, remembered, session, streak>>
  BY DEF Connect
<1>4. TypeInv'
  BY <1>1, <1>2, <1>3, QueryType DEF NeptuneInv, TypeInv, Sessions
<1>5. CallInv' /\ TuneInv'
  BY <1>2, <1>3 DEF NeptuneInv, CallInv, StepsOf, TuneInv, Done
<1>6. ChildInv'
  BY <1>1, <1>2, StartedAlone, QueryType DEF Awaited
<1>7. QED
  BY <1>4, <1>5, <1>6 DEF NeptuneInv

LEMMA ProbedKeepsInv ==
  ASSUME NeptuneInv, NEW child \in children, Probed(child)
  PROVE  NeptuneInv'
<1>1. op \in Calls /\ op.kind = "connect" /\ op.at \in Endpoints
  BY DEF Probed, NeptuneInv, TypeInv, CallInv, StepsOf, Calls
<1>2. children' = {}
  BY AnsweredIsGone DEF Probed, Succeeds, Fails
<1>3. UNCHANGED <<tuned, candidates, remembered, pending, session, streak>>
  BY DEF Probed, atRest
<1>4. CASE op' = [op EXCEPT !.step = "ranges", !.todo = Settings]
  <2>1. /\ op' \in Calls /\ op'.kind = "connect" /\ op'.step = "ranges" /\ op'.at \in Endpoints
    BY <1>1, <1>4 DEF Calls
  <2>2. TypeInv'
    BY <1>2, <1>3, <2>1 DEF NeptuneInv, TypeInv, Sessions
  <2>3. CallInv' /\ ChildInv' /\ TuneInv'
    BY <1>2, <1>3, <2>1 DEF NeptuneInv, CallInv, StepsOf, ChildInv, TuneInv, Done
  <2>4. QED
    BY <2>2, <2>3 DEF NeptuneInv
<1>5. CASE op' = NoOp
  <2>1. TypeInv'
    BY <1>2, <1>3, <1>5, EmptyTypes DEF NeptuneInv, TypeInv, Sessions
  <2>2. QED
    BY <1>2, <1>3, <1>5, <2>1, CallEnds DEF NeptuneInv, CallInv
<1>6. QED
  BY <1>4, <1>5 DEF Probed

LEMMA ReadRangeKeepsInv ==
  ASSUME NeptuneInv, ReadRange
  PROVE  NeptuneInv'
<1>1. op \in Calls /\ op.kind = "connect" /\ op.at \in Endpoints
  BY DEF ReadRange, NeptuneInv, TypeInv, CallInv, StepsOf, Calls
<1>2. PICK s \in op.todo : Start({Query(op.at)}, [op EXCEPT !.step = "range", !.todo = @ \ {s}])
  BY DEF ReadRange
<1>3. children = {} /\ children' = children \cup {Query(op.at)}
  BY <1>2, NobodyUnawaited DEF ReadRange, Start, Waits
<1>4. op' \in Calls /\ op'.kind = "connect" /\ op'.step = "range" /\ op'.at = op.at
  BY <1>1, <1>2 DEF Start, Calls
<1>5. UNCHANGED <<tuned, candidates, remembered, pending, session, streak>>
  BY <1>2 DEF Start, atRest
<1>6. TypeInv'
  BY <1>1, <1>3, <1>4, <1>5, QueryType DEF NeptuneInv, TypeInv, Sessions
<1>7. CallInv' /\ TuneInv'
  BY <1>1, <1>4, <1>5 DEF NeptuneInv, CallInv, StepsOf, TuneInv, Done
<1>8. ChildInv'
  BY <1>1, <1>3, <1>4, StartedAlone, QueryType DEF Awaited
<1>9. QED
  BY <1>6, <1>7, <1>8 DEF NeptuneInv

LEMMA RangeReadKeepsInv ==
  ASSUME NeptuneInv, NEW child \in children, RangeRead(child)
  PROVE  NeptuneInv'
<1>1. op \in Calls /\ op.kind = "connect" /\ op.at \in Endpoints
  BY DEF RangeRead, NeptuneInv, TypeInv, CallInv, StepsOf, Calls
<1>2. children' = {}
  BY AnsweredIsGone DEF RangeRead, Succeeds, Fails
<1>3. UNCHANGED <<tuned, candidates, remembered, pending, session, streak>>
  BY DEF RangeRead, atRest
<1>4. op' \in Calls /\ op'.kind = "connect" /\ op'.step = "ranges" /\ op'.at = op.at
  BY <1>1 DEF RangeRead, Calls
<1>5. TypeInv'
  BY <1>2, <1>3, <1>4 DEF NeptuneInv, TypeInv, Sessions
<1>6. CallInv' /\ ChildInv' /\ TuneInv'
  BY <1>1, <1>2, <1>3, <1>4 DEF NeptuneInv, CallInv, StepsOf, ChildInv, TuneInv, Done
<1>7. QED
  BY <1>5, <1>6 DEF NeptuneInv

\* The session starts with the endpoint that was probed and no failures.
LEMMA OpenedKeepsInv ==
  ASSUME NeptuneInv, Opened
  PROVE  NeptuneInv'
<1>1. op \in Calls /\ op.at \in Endpoints
  BY DEF Opened, NeptuneInv, TypeInv, CallInv, StepsOf, Calls
<1>2. children' = {}
  BY NobodyUnawaited DEF Opened, Waits
<1>3. session' \in Sessions /\ session'.at \in Endpoints /\ session'.failures = 0
  BY <1>1, EmptyTypes DEF Opened, Sessions, NoSession, Places
<1>4. remembered' \subseteq Endpoints
  BY <1>1 DEF Opened, Record, NeptuneInv, TypeInv
<1>5. TypeInv'
  BY <1>2, <1>3, <1>4, EmptyTypes DEF Opened, NeptuneInv, TypeInv
<1>6. QED
  BY <1>2, <1>3, <1>5, CallEnds DEF Opened

LEMMA OwnershipKeepsInv ==
  ASSUME NeptuneInv, CleanupPendingConnection \/ Disconnect
  PROVE  NeptuneInv'
<1>1. op = NoOp /\ children = {}
  BY NobodyUnawaited
  DEF CleanupPendingConnection, Disconnect, Idle, NeptuneInv, CallInv, NoOp, Waits
<1>2. CASE CleanupPendingConnection
  <2>1. TypeInv'
    BY <1>2 DEF CleanupPendingConnection, NeptuneInv, TypeInv, Sessions
  <2>2. QED
    BY <1>1, <1>2, <2>1, CallEnds DEF CleanupPendingConnection, NeptuneInv, CallInv
<1>3. CASE Disconnect
  <2>1. TypeInv'
    BY <1>3, EmptyTypes DEF Disconnect, NeptuneInv, TypeInv
  <2>2. QED
    BY <1>1, <1>3, <2>1, CallEnds DEF Disconnect, NoSession
<1>4. QED
  BY <1>2, <1>3

LEMMA TimePassesKeepsInv ==
  ASSUME NeptuneInv, NEW e \in Endpoints, TimePasses(e)
  PROVE  NeptuneInv'
<1>1. op = NoOp /\ children = {}
  BY NobodyUnawaited DEF TimePasses, Idle, NeptuneInv, CallInv, NoOp, Waits
<1>2. TypeInv'
  BY DEF TimePasses, NeptuneInv, TypeInv, Sessions
<1>3. QED
  BY <1>1, <1>2, CallEnds DEF TimePasses, NeptuneInv, CallInv

-----------------------------------------------------------------------------
(* configure() and acquire() *)

\* What is left to show of a step within a call that tunes
LEMMA TuningGoesOn ==
  ASSUME NeptuneInv, TypeInv', ChildInv', TuneInv',
         op'.kind \in {"configure", "acquire"}, op'.step \in StepsOf(op'.kind),
         op'.at \in Endpoints, op'.rev \in Revisions, op'.setting \in Settings,
         op'.step \in {"verify", "readback"} => op'.setting = "tune",
         op'.setting = "band" => op'.step # "written",
         session'.at \in Endpoints,
         streak' = session'.failures,
         op'.kind = "acquire" => session'.failures < MaxConsecutiveFailures
  PROVE  NeptuneInv'
<1>1. CallInv'
  BY DEF CallInv, StepsOf
<1>2. QED
  BY <1>1 DEF NeptuneInv

LEMMA ConfigureKeepsInv ==
  ASSUME NeptuneInv, NEW rev \in Revisions, Configure(rev)
  PROVE  NeptuneInv'
<1>1. children = {} /\ session \in Sessions /\ session.at \in Endpoints
  BY NobodyUnawaited
  DEF Configure, Idle, Connected, NeptuneInv, TypeInv, CallInv, NoOp, Waits
<1> DEFINE command == Command(session.at, "tune", rev)
<1>2. /\ command \in Children /\ command.at = session.at /\ command.does = "tune"
      /\ command.rev = rev
  BY <1>1, CommandType DEF Settings
<1>3. children' = children \cup {command}
  BY DEF Configure
<1>4. /\ op' \in Calls /\ op'.kind = "configure" /\ op'.step = "write" /\ op'.at = session.at
      /\ op'.rev = rev /\ op'.setting = "tune"
  BY <1>1, EmptyTypes DEF Configure, WriteOf, Calls, NoOp, Places, Settings
<1>5. /\ session' \in Sessions /\ session'.at = session.at
      /\ session'.failures = session.failures
  BY <1>1 DEF Configure, Sessions, Foreign
<1>6. TypeInv'
  BY <1>2, <1>3, <1>4, <1>5 DEF Configure, NeptuneInv, TypeInv
<1>7. ChildInv'
  BY <1>1, <1>2, <1>3, <1>4, StartedAlone DEF Awaited
<1>8. TuneInv'
  BY <1>4 DEF TuneInv, Done
<1>9. QED
  BY <1>1, <1>4, <1>5, <1>6, <1>7, <1>8, TuningGoesOn
  DEF Configure, StepsOf, Settings, NeptuneInv, CallInv

LEMMA AcquireKeepsInv ==
  ASSUME NeptuneInv, Acquire
  PROVE  NeptuneInv'
<1>1. children = {} /\ session \in Sessions /\ session.at \in Endpoints
  BY NobodyUnawaited
  DEF Acquire, Idle, Connected, NeptuneInv, TypeInv, CallInv, NoOp, Waits
<1>2. session.config \in Revisions
  BY <1>1 DEF Acquire, Sessions
<1>3. session.failures < MaxConsecutiveFailures
  BY <1>1 DEF Acquire, Suspended, Sessions, MaxConsecutiveFailures
<1> DEFINE command == Command(session.at, "tune", session.config)
<1>4. /\ command \in Children /\ command.at = session.at /\ command.does = "tune"
      /\ command.rev = session.config
  BY <1>1, <1>2, CommandType DEF Settings
<1>5. children' = children \cup {command}
  BY DEF Acquire, Start
<1>6. /\ op' \in Calls /\ op'.kind = "acquire" /\ op'.step = "write" /\ op'.at = session.at
      /\ op'.rev = session.config /\ op'.setting = "tune"
  BY <1>1, <1>2, EmptyTypes DEF Acquire, Start, WriteOf, Calls, NoOp, Places, Settings
<1>7. UNCHANGED <<tuned, candidates, remembered, pending, session, streak>>
  BY DEF Acquire, Start, atRest
<1>8. TypeInv'
  BY <1>4, <1>5, <1>6, <1>7 DEF NeptuneInv, TypeInv
<1>9. ChildInv'
  BY <1>1, <1>4, <1>5, <1>6, StartedAlone DEF Awaited
<1>10. TuneInv'
  BY <1>6 DEF TuneInv, Done
<1>11. QED
  BY <1>1, <1>2, <1>3, <1>6, <1>7, <1>8, <1>9, <1>10, TuningGoesOn
  DEF StepsOf, Settings, NeptuneInv, CallInv

\* What every step of a call that tunes knows of it
LEMMA Tuning ==
  ASSUME NeptuneInv, op.kind \in {"configure", "acquire"}
  PROVE  /\ op \in Calls /\ op.at \in Endpoints /\ op.rev \in Revisions
         /\ op.setting \in Settings
         /\ session \in Sessions /\ session.at \in Endpoints
         /\ streak = session.failures
         /\ op.kind = "acquire" => session.failures < MaxConsecutiveFailures
  BY DEF NeptuneInv, TypeInv, CallInv

LEMMA WrittenKeepsInv ==
  ASSUME NeptuneInv, NEW child \in children, Written(child)
  PROVE  NeptuneInv'
<1>1. op.kind \in {"configure", "acquire"} /\ op.step = "write"
  BY DEF Written, NeptuneInv, TypeInv, CallInv, StepsOf, Calls
<1>2. children' = {}
  BY <1>1, AnsweredIsGone DEF Written, Succeeds
<1>3. /\ op' \in Calls /\ op'.kind = op.kind /\ op'.at = op.at /\ op'.rev = op.rev
      /\ op'.setting = op.setting /\ op'.step \in {"verify", "written"}
      /\ op'.step = "verify" => op.kind = "configure" /\ op.setting = "tune"
  BY <1>1, Tuning DEF Written, Calls
<1>4. UNCHANGED <<tuned, candidates, remembered, pending, session, streak>>
  BY DEF Written, atRest
<1>5. TypeInv' /\ ChildInv'
  BY <1>2, <1>3, <1>4 DEF NeptuneInv, TypeInv, ChildInv
<1>6. op.setting \in {"tune", "rate"} /\ tuned[op.setting] = op.rev
  BY <1>1, Tuning DEF Written, Succeeds, Awaited, Settings
<1>7. TuneInv'
  BY <1>1, <1>3, <1>4, <1>6 DEF NeptuneInv, TuneInv, Done
<1>8. QED
  BY <1>1, <1>3, <1>4, <1>5, <1>6, <1>7, Tuning, TuningGoesOn DEF StepsOf

LEMMA VerifyTuneKeepsInv ==
  ASSUME NeptuneInv, VerifyTune
  PROVE  NeptuneInv'
<1>1. op.kind = "configure" /\ op.step = "verify"
  BY DEF VerifyTune, NeptuneInv, TypeInv, CallInv, StepsOf, Calls
<1> op.setting = "tune"
  BY <1>1 DEF NeptuneInv, CallInv
<1>2. children = {} /\ children' = children \cup {Query(op.at)}
  BY <1>1, NobodyUnawaited DEF VerifyTune, Start, Waits
<1>3. /\ op' \in Calls /\ op'.kind = op.kind /\ op'.at = op.at /\ op'.rev = op.rev
      /\ op'.setting = op.setting /\ op'.step = "readback"
  BY <1>1, Tuning DEF VerifyTune, Start, Calls
<1>4. UNCHANGED <<tuned, candidates, remembered, pending, session, streak>>
  BY DEF VerifyTune, Start, atRest
<1>5. TypeInv'
  BY <1>1, <1>2, <1>3, <1>4, Tuning, QueryType DEF NeptuneInv, TypeInv
<1>6. ChildInv'
  BY <1>1, <1>2, <1>3, Tuning, StartedAlone, QueryType DEF Awaited
<1>7. TuneInv'
  BY <1>1, <1>3, <1>4 DEF NeptuneInv, TuneInv, Done
<1>8. QED
  BY <1>1, <1>3, <1>4, <1>5, <1>6, <1>7, Tuning, TuningGoesOn DEF StepsOf

LEMMA ReadBackKeepsInv ==
  ASSUME NeptuneInv, NEW child \in children, ReadBack(child)
  PROVE  NeptuneInv'
<1>1. op.kind = "configure" /\ op.step = "readback"
  BY DEF ReadBack, NeptuneInv, TypeInv, CallInv, StepsOf, Calls
<1>2. children' = {}
  BY <1>1, AnsweredIsGone DEF ReadBack, Succeeds
<1>3. /\ op' \in Calls /\ op'.kind = op.kind /\ op'.at = op.at /\ op'.rev = op.rev
      /\ op'.setting = op.setting /\ op'.step = "written"
  BY <1>1, Tuning DEF ReadBack, Calls
<1>4. UNCHANGED <<tuned, candidates, remembered, pending, session, streak>>
  BY DEF ReadBack, atRest
<1>5. TypeInv' /\ ChildInv'
  BY <1>2, <1>3, <1>4 DEF NeptuneInv, TypeInv, ChildInv
<1>6. op.setting = "tune"
  BY <1>1 DEF NeptuneInv, CallInv
<1>7. TuneInv'
  BY <1>1, <1>3, <1>4, <1>6 DEF NeptuneInv, TuneInv, Done
<1>8. QED
  BY <1>1, <1>3, <1>4, <1>5, <1>6, <1>7, Tuning, TuningGoesOn DEF StepsOf

LEMMA WriteNextKeepsInv ==
  ASSUME NeptuneInv, WriteNext
  PROVE  NeptuneInv'
<1> DEFINE setting == NextSetting[op.setting]
           command == Command(op.at, setting, op.rev)
<1>1. op.kind \in {"configure", "acquire"} /\ op.step = "written"
  BY DEF WriteNext, NeptuneInv, TypeInv, CallInv, StepsOf, Calls
<1>2. /\ op.setting \in {"tune", "rate"}
      /\ setting = IF op.setting = "tune" THEN "rate" ELSE "band"
  BY <1>1, Tuning DEF NeptuneInv, CallInv, NextSetting, Settings
<1>3. /\ command \in Children /\ command.at = op.at /\ command.does = setting
      /\ command.rev = op.rev
  BY <1>1, <1>2, Tuning, CommandType DEF Settings
<1>4. children = {} /\ children' = children \cup {command}
  BY <1>1, NobodyUnawaited DEF WriteNext, Start, Waits
<1>5. /\ op' \in Calls /\ op'.kind = op.kind /\ op'.at = op.at /\ op'.rev = op.rev
      /\ op'.setting = setting /\ op'.step = "write"
  BY <1>1, <1>2, Tuning DEF WriteNext, Start, Calls, Settings
<1>6. UNCHANGED <<tuned, candidates, remembered, pending, session, streak>>
  BY DEF WriteNext, Start, atRest
<1> HIDE DEF setting, command
<1>7. TypeInv'
  BY <1>3, <1>4, <1>5, <1>6 DEF NeptuneInv, TypeInv
<1>8. ChildInv'
  BY <1>3, <1>4, <1>5, StartedAlone DEF Awaited
<1>9. TuneInv'
  BY <1>1, <1>2, <1>5, <1>6 DEF NeptuneInv, TuneInv, Done
<1>10. QED
  BY <1>1, <1>2, <1>5, <1>6, <1>7, <1>8, <1>9, Tuning, TuningGoesOn DEF StepsOf, Settings

\* The last write ends a configuration or is followed by the read.
LEMMA BandWrittenKeepsInv ==
  ASSUME NeptuneInv, NEW child \in children, BandWritten(child)
  PROVE  NeptuneInv'
<1>1. op.kind \in {"configure", "acquire"} /\ op.step = "write" /\ op.setting = "band"
  BY DEF BandWritten, NeptuneInv, TypeInv, CallInv, StepsOf, Calls
<1>2. children' = {}
  BY <1>1, AnsweredIsGone DEF BandWritten, Succeeds
<1>3. CASE op.kind = "configure"
  <2>1. /\ session' \in Sessions /\ session'.at = session.at
        /\ session'.failures = session.failures
    BY <1>1, <1>3, Tuning DEF BandWritten, Sessions
  <2>2. TypeInv'
    BY <1>2, <1>3, <2>1, EmptyTypes DEF BandWritten, NeptuneInv, TypeInv
  <2>3. QED
    BY <1>1, <1>2, <1>3, <2>1, <2>2, Tuning, CallEnds DEF BandWritten
<1>4. CASE op.kind = "acquire"
  <2>1. /\ op' \in Calls /\ op'.kind = op.kind /\ op'.at = op.at /\ op'.rev = op.rev
        /\ op'.setting = op.setting /\ op'.step = "capture"
    BY <1>1, <1>4, Tuning DEF BandWritten, Calls
  <2>2. UNCHANGED <<tuned, candidates, remembered, pending, session, streak>>
    BY <1>4 DEF BandWritten
  <2>3. TypeInv' /\ ChildInv'
    BY <1>2, <2>1, <2>2 DEF NeptuneInv, TypeInv, ChildInv
  <2>4. tuned["band"] = op.rev
    BY <1>1 DEF BandWritten, Succeeds, Awaited, Settings
  <2>5. TuneInv'
    BY <1>1, <2>1, <2>2, <2>4 DEF NeptuneInv, TuneInv, Done, Settings
  <2>6. QED
    BY <1>1, <1>4, <2>1, <2>2, <2>3, <2>5, Tuning, TuningGoesOn DEF StepsOf
<1>5. QED
  BY <1>1, <1>3, <1>4

LEMMA ReadSamplesKeepsInv ==
  ASSUME NeptuneInv, ReadSamples
  PROVE  NeptuneInv'
<1> DEFINE command == Command(op.at, "read", op.rev)
<1>1. op.kind = "acquire" /\ op.step = "capture"
  BY DEF ReadSamples, NeptuneInv, TypeInv, CallInv, StepsOf, Calls
<1>2. command \in Children /\ command.at = op.at /\ command.does = "read"
  BY <1>1, Tuning, CommandType
<1>3. children = {} /\ children' = children \cup {command}
  BY <1>1, NobodyUnawaited DEF ReadSamples, Start, Waits
<1>4. /\ op' \in Calls /\ op'.kind = op.kind /\ op'.at = op.at /\ op'.rev = op.rev
      /\ op'.setting = op.setting /\ op'.step = "read"
  BY <1>1, Tuning DEF ReadSamples, Start, Calls
<1>5. UNCHANGED <<tuned, candidates, remembered, pending, session, streak>>
  BY DEF ReadSamples, Start, atRest
<1> HIDE DEF command
<1>6. TypeInv'
  BY <1>2, <1>3, <1>4, <1>5 DEF NeptuneInv, TypeInv
<1>7. ChildInv'
  BY <1>2, <1>3, <1>4, StartedAlone DEF Awaited
<1>8. TuneInv'
  BY <1>1, <1>4, <1>5 DEF NeptuneInv, TuneInv, Done
<1>9. QED
  BY <1>1, <1>4, <1>5, <1>6, <1>7, <1>8, Tuning, TuningGoesOn DEF StepsOf

\* Failures end the call; those of captures are counted.
LEMMA FailuresKeepInv ==
  ASSUME NeptuneInv, NEW child \in children,
         ConfigureFails(child) \/ CaptureFails(child) \/ Captured(child)
  PROVE  NeptuneInv'
<1>1. op.kind \in {"configure", "acquire"} /\ op.step # "sweep"
  BY DEF ConfigureFails, CaptureFails, Captured, NeptuneInv, TypeInv, CallInv, StepsOf, Calls
<1>2. children' = {} /\ op' = NoOp
  BY <1>1, AnsweredIsGone DEF ConfigureFails, CaptureFails, Captured, Succeeds, Fails
<1>3. /\ session' \in Sessions /\ session'.at = session.at
      /\ streak' = session'.failures /\ streak' \in Nat
  <2>1. CASE ConfigureFails(child)
    BY <1>1, <2>1, Tuning DEF ConfigureFails, atRest, Sessions
  <2>2. CASE CaptureFails(child)
    BY <1>1, <2>2, Tuning DEF CaptureFails, Sessions, MaxConsecutiveFailures
  <2>3. CASE Captured(child)
    BY <1>1, <2>3, Tuning DEF Captured, Sessions, MaxConsecutiveFailures
  <2>4. QED
    BY <2>1, <2>2, <2>3
<1>4. TypeInv'
  BY <1>2, <1>3, EmptyTypes
  DEF ConfigureFails, CaptureFails, Captured, atRest, NeptuneInv, TypeInv
<1>5. QED
  BY <1>1, <1>2, <1>3, <1>4, Tuning, CallEnds

-----------------------------------------------------------------------------
(* Theorems *)

LEMMA StepKeepsNeptuneInv ==
  ASSUME NeptuneInv, [Next]_vars
  PROVE  NeptuneInv'
<1>1. CASE Discover \/ CleanupPendingConnection \/ Disconnect \/ Acquire
  BY <1>1, DiscoverKeepsInv, OwnershipKeepsInv, AcquireKeepsInv
<1>2. ASSUME NEW e \in Endpoints, AddManualEndpoint(e) \/ Connect(e) \/ TimePasses(e)
      PROVE  NeptuneInv'
  BY <1>2, AddManualEndpointKeepsInv, ConnectKeepsInv, TimePassesKeepsInv
<1>3. ASSUME NEW rev \in Revisions, Configure(rev)
      PROVE  NeptuneInv'
  BY <1>3, ConfigureKeepsInv
<1>4. CASE Continues
  BY <1>4, DiscoverOneKeepsInv, SweepKeepsInv, SweptKeepsInv, FinishDiscoverKeepsInv,
     ReadRangeKeepsInv, OpenedKeepsInv, VerifyTuneKeepsInv, WriteNextKeepsInv,
     ReadSamplesKeepsInv DEF Continues
<1>5. ASSUME NEW child \in children, Applies(child) \/ Signals(child)
      PROVE  NeptuneInv'
  BY <1>5, AppliesKeepsInv, SignalsKeepsInv
<1>6. ASSUME NEW child \in children, Answered(child)
      PROVE  NeptuneInv'
  BY <1>6, DiscoveredKeepsInv, SweepAnswersKeepsInv, ManualAnsweredKeepsInv, ProbedKeepsInv,
     RangeReadKeepsInv, WrittenKeepsInv, ReadBackKeepsInv, BandWrittenKeepsInv,
     FailuresKeepInv DEF Answered
<1>7. CASE UNCHANGED vars
  <2>1. TypeInv' /\ CallInv'
    BY <1>7 DEF vars, NeptuneInv, TypeInv, CallInv
  <2>2. ChildInv' /\ TuneInv'
    BY <1>7 DEF vars, NeptuneInv, ChildInv, Awaited, TuneInv, Done
  <2>3. QED
    BY <2>1, <2>2 DEF NeptuneInv
<1>8. QED
  BY <1>1, <1>2, <1>3, <1>4, <1>5, <1>6, <1>7 DEF Next

LEMMA NeptuneInvHolds == Spec => []NeptuneInv
<1>1. NeptuneInv /\ [Next]_vars => NeptuneInv'
  BY StepKeepsNeptuneInv
<1>2. QED
  BY InitNeptuneInv, <1>1, PTL DEF Spec

\* Whatever hangs, is killed or fails: no process outlives the call it was started
\* for, and a device that has failed three captures in a row is left alone.
THEOREM DeviceStaysAlone == Spec => []DeviceIsLeftAlone
<1>1. NeptuneInv => DeviceIsLeftAlone
  BY DEF NeptuneInv, TypeInv, CallInv, ChildInv, Sessions, MaxConsecutiveFailures,
         DeviceIsLeftAlone, ChildrenEndWithTheirCall, TypeOK, StuckDeviceIsSpared
<1>2. QED
  BY <1>1, NeptuneInvHolds, PTL

\* Samples are only read while the device is tuned as the measurement will say.
THEOREM SamplesStayAsConfigured == Spec => []SamplesAreAsConfigured
<1>1. NeptuneInv => SamplesAreAsConfigured
  BY DEF NeptuneInv, TuneInv, Done, SamplesAreAsConfigured
<1>2. QED
  BY <1>1, NeptuneInvHolds, PTL

-----------------------------------------------------------------------------
(* Firmware twin: the inductive invariant *)

\* The end of a bridge: what each state says of close(), #terminate() and the
\* process group.  A shutdown request is the last one, and close() waits for it.
BridgeInv(c) ==
    /\ c \in Clients
    /\ c.state = "unborn" => c = Unborn
    /\ c.state \in {"booting", "ready"} => c.call = "none" /\ c.termination = "none"
    /\ c.state = "booting" => ~c.rf
    /\ c.state = "closing" => c.termination = "none" /\ c.call \in {"shutdown", "exit", "confirm"}
    /\ c.state = "closed" <=> c.call = "ok"
    /\ c.state = "closed" => c.exit # "none" /\ ~c.group
    /\ c.call \in {"killing", "cleanup", "failed"} => c.state = "faulted"
    /\ c.call = "shutdown" => c.state = "closing" /\ c.asked # << >>
    /\ c.call = "confirm" => c.exit # "none"
    /\ c.termination = "done" => c.exit # "none" /\ ~c.group
    /\ c.asked # << >> => c.state = "ready" \/ c.call = "shutdown"
    /\ \A i \in 1..Len(c.asked) :
          c.asked[i] = "shutdown" <=> i = Len(c.asked) /\ c.call = "shutdown"

\* Whatever overtakes what, the transport holds every bridge that is not over.
OwnerInv ==
    /\ \A l \in Launches \ {client} : clients[l].state \in {"unborn", "closed"}
    /\ client # NoBridge => Bridge.state # "unborn"
    /\ opening = "launch" => client = NoBridge
    /\ opening \in {"boot", "cleanup"} => client # NoBridge
    /\ closing = "client" => opening = "none" /\ client # NoBridge
    /\ closing = "boot" => opening \in {"boot", "cleanup"}
    /\ open => client # NoBridge /\ Bridge.state = "ready" /\ opening = "none" /\ closing = "none"

\* Until a bridge has been opened the adapter is as new, and so is the bridge.
FreshInv ==
    /\ client = NoBridge \/ opening # "none" => mode = "input" /\ ~configured /\ ~enabled
    /\ opening # "none" => shell = "free"
    /\ opening # "none" /\ client # NoBridge =>
         ~Bridge.rf /\ \A i \in 1..Len(Bridge.asked) : Bridge.asked[i] = "shutdown"

\* The adapter's copy agrees with the firmware also while requests are under way:
\* one at a time, unless the device has lost one, and what they will switch on
\* is configured.
ShadowInv ==
    open =>
      /\ enabled <=> Bridge.rf
      /\ enabled => mode = "output" /\ configured
      /\ shell \in {"free", "quiet"} => Bridge.asked = << >>
      /\ shell = "quiet" => ~enabled
      /\ shell = "busy" => Len(Bridge.asked) = 1
      /\ \A i \in 1..Len(Bridge.asked) :
            /\ Bridge.asked[i] \in {"on", "configure"} => mode = "output"
            /\ Bridge.asked[i] = "on" => configured

TwinTypeInv ==
    /\ clients \in [Launches -> Clients]
    /\ client \in {NoBridge} \cup Launches
    /\ opening \in {"none", "launch", "boot", "cleanup"}
    /\ closing \in {"none", "opening", "boot", "client"}
    /\ open \in BOOLEAN /\ active \in BOOLEAN /\ teardownOnly \in BOOLEAN
    /\ configured \in BOOLEAN /\ enabled \in BOOLEAN
    /\ mode \in {"input", "output"} /\ shell \in {"free", "quiet", "busy", "lost"}

TransportInv ==
    /\ TwinTypeInv
    /\ \A l \in Launches : BridgeInv(clients[l])
    /\ OwnerInv /\ FreshInv /\ ShadowInv

-----------------------------------------------------------------------------
(* One bridge *)

LEMMA EmptyIsSeq == << >> \in Seq(Methods) /\ Len(<< >>) = 0
  OBVIOUS

LEMMA NewBridgeInv ==
  /\ BridgeInv(Unborn)
  /\ BridgeInv(NewClient) /\ NewClient.state = "booting" /\ NewClient.asked = << >>
<1>1. Unborn \in Clients /\ NewClient \in Clients
  BY EmptyIsSeq DEF Unborn, NewClient, Clients
<1>2. BridgeInv(Unborn)
  BY <1>1 DEF Unborn, BridgeInv
<1>3. QED
  BY <1>1, <1>2 DEF NewClient, Unborn, BridgeInv

\* A killed bridge is faulted, has forgotten its requests and keeps its group
\* until #finishTermination has seen it go.
LEMMA PoisonInv ==
  ASSUME NEW c, BridgeInv(c), c.state # "unborn"
  PROVE  /\ BridgeInv(Poison(c))
         /\ Poison(c).asked = << >>
         /\ c.state = "closed" => Poison(c) = c
         /\ c.state # "closed" => Poison(c).state = "faulted"
         /\ Poison(c).rf = c.rf /\ Poison(c).exit = c.exit /\ Poison(c).group = c.group
         /\ Poison(c).call = IF c.call = "shutdown" THEN "cleanup" ELSE c.call
<1>1. c \in Clients
  BY DEF BridgeInv
<1>2. CASE Over(c)
  BY <1>2 DEF Poison, Over, BridgeInv
<1>3. CASE ~Over(c)
  <2> DEFINE d == [c EXCEPT !.state = "faulted", !.asked = << >>,
                            !.call = IF @ = "shutdown" THEN "cleanup" ELSE @]
  <2>1. /\ d \in Clients /\ d.state = "faulted" /\ d.asked = << >>
        /\ d.call = IF c.call = "shutdown" THEN "cleanup" ELSE c.call
        /\ d.rf = c.rf /\ d.exit = c.exit /\ d.group = c.group
        /\ d.termination = c.termination /\ d.acknowledged = c.acknowledged
    BY <1>1, EmptyIsSeq DEF Clients
  <2>2. Poison(c) = Terminate(d)
    BY <1>3 DEF Poison
  <2>3. c.termination = "none"
    BY <1>1, <1>3 DEF BridgeInv, Clients, Over
  <2> HIDE DEF d
  <2>4. Poison(c) = [d EXCEPT !.termination = "running"]
    BY <2>1, <2>2, <2>3 DEF Terminate
  <2>5. /\ Poison(c) \in Clients /\ Poison(c).state = "faulted" /\ Poison(c).asked = << >>
        /\ Poison(c).call = d.call /\ Poison(c).termination = "running"
        /\ Poison(c).rf = d.rf /\ Poison(c).exit = d.exit /\ Poison(c).group = d.group
    BY <2>1, <2>4 DEF Clients
  <2>6. BridgeInv(Poison(c))
    BY <1>1, <1>3, <2>1, <2>5 DEF BridgeInv, Clients, Over
  <2>7. QED
    BY <1>3, <2>1, <2>5, <2>6 DEF Over
<1>4. QED
  BY <1>2, <1>3

LEMMA TerminateInv ==
  ASSUME NEW c, BridgeInv(c), c.state = "faulted"
  PROVE  /\ BridgeInv(Terminate(c)) /\ Terminate(c).state = "faulted"
         /\ Terminate(c).call = c.call /\ Terminate(c).asked = c.asked
  BY DEF BridgeInv, Clients, Terminate

\* close() of a bridge that lives
LEMMA CloseInv ==
  ASSUME NEW c, BridgeInv(c), c.state # "unborn"
  PROVE  /\ BridgeInv(Close(c))
         /\ Close(c).state # "unborn" /\ Close(c).rf = c.rf
         /\ (\A i \in 1..Len(c.asked) : c.asked[i] = "shutdown")
               => \A i \in 1..Len(Close(c).asked) : Close(c).asked[i] = "shutdown"
         /\ c.state = "closed" => Close(c) = c
<1>1. c \in Clients
  BY DEF BridgeInv
<1>2. CASE c.call # "none"
  BY <1>1, <1>2 DEF Close, BridgeInv
<1>3. CASE c.call = "none" /\ c.state \in {"booting", "faulted"}
  <2> DEFINE p == Poison(c)
  <2>1. /\ BridgeInv(p) /\ p.state = "faulted" /\ p.call = "none" /\ p.asked = << >>
        /\ p.rf = c.rf /\ p \in Clients
    BY <1>3, PoisonInv DEF BridgeInv
  <2>2. Close(c) = Killing(p)
    BY <1>3 DEF Close
  <2> HIDE DEF p
  <2>3. CASE p.termination = "done"
    <3>1. Killing(p) = [p EXCEPT !.state = "closed", !.call = "ok"]
      BY <2>3 DEF Killing
    <3>2. /\ Killing(p) \in Clients /\ Killing(p).state = "closed" /\ Killing(p).call = "ok"
          /\ Killing(p).rf = p.rf /\ Killing(p).asked = << >> /\ Killing(p).exit = p.exit
          /\ Killing(p).group = p.group /\ Killing(p).termination = "done"
      BY <2>1, <2>3, <3>1 DEF Clients
    <3>3. BridgeInv(Killing(p))
      BY <2>1, <2>3, <3>2, EmptyIsSeq DEF BridgeInv
    <3>4. QED
      BY <1>3, <2>1, <2>2, <3>2, <3>3
  <2>4. CASE p.termination # "done"
    <3> DEFINE t == Terminate(p)
    <3>1. Killing(p) = [t EXCEPT !.call = "killing"]
      BY <2>4 DEF Killing
    <3>2. /\ BridgeInv(t) /\ t.state = "faulted" /\ t.asked = << >> /\ t.rf = p.rf
          /\ t \in Clients
      BY <2>1, TerminateInv DEF Terminate, BridgeInv, Clients
    <3> HIDE DEF t
    <3>3. BridgeInv(Killing(p)) /\ Killing(p).state = "faulted" /\ Killing(p).rf = p.rf
          /\ Killing(p).asked = << >>
      BY <3>1, <3>2 DEF BridgeInv, Clients
    <3>4. QED
      BY <1>3, <2>1, <2>2, <3>3
  <2>5. QED
    BY <2>3, <2>4
<1>4. CASE c.call = "none" /\ c.state = "ready"
  <2>1. Close(c) = [c EXCEPT !.state = "closing", !.call = "shutdown",
                             !.asked = Append(@, "shutdown")]
    BY <1>4 DEF Close
  <2>2. /\ Append(c.asked, "shutdown") \in Seq(Methods)
        /\ Len(Append(c.asked, "shutdown")) = Len(c.asked) + 1
        /\ Append(c.asked, "shutdown")[Len(c.asked) + 1] = "shutdown"
        /\ \A i \in 1..Len(c.asked) : Append(c.asked, "shutdown")[i] = c.asked[i]
        /\ Len(c.asked) \in Nat
    BY <1>1, AppendProperties DEF Clients, Methods
  <2>3. /\ Close(c) \in Clients /\ Close(c).state = "closing" /\ Close(c).call = "shutdown"
        /\ Close(c).asked = Append(c.asked, "shutdown") /\ Close(c).rf = c.rf
        /\ Close(c).termination = c.termination /\ Close(c).exit = c.exit
    BY <1>1, <2>1, <2>2 DEF Clients
  <2>4. \A i \in 1..Len(c.asked) : c.asked[i] # "shutdown"
    BY <1>4 DEF BridgeInv
  <2>5. BridgeInv(Close(c))
    BY <1>4, <2>2, <2>3, <2>4 DEF BridgeInv
  <2>6. QED
    BY <1>4, <2>2, <2>3, <2>5
<1>5. QED
  BY <1>1, <1>2, <1>3, <1>4 DEF BridgeInv, Clients

\* What CloseFails leaves of a bridge whose close() did not succeed
LEMMA CloseFailsInv ==
  ASSUME NEW c, BridgeInv(c), c.call \in {"exit", "confirm"}
  PROVE  /\ BridgeInv(CloseFails(c)) /\ CloseFails(c).state = "faulted"
         /\ CloseFails(c).rf = c.rf /\ CloseFails(c).asked = << >>
<1>1. c \in Clients /\ c.state \in {"closing", "faulted"} /\ c.asked = << >>
  BY DEF BridgeInv, Clients, Unborn
<1>2. CASE c.termination = "done"
  <2>1. CloseFails(c) = [c EXCEPT !.call = "failed"] /\ c.state = "faulted"
    BY <1>1, <1>2 DEF CloseFails, BridgeInv
  <2>2. QED
    BY <1>1, <1>2, <2>1, EmptyIsSeq DEF BridgeInv, Clients
<1>3. CASE c.termination # "done"
  <2> DEFINE p == Poison(c)
             t == Terminate(p)
  <2>1. BridgeInv(p) /\ p.state = "faulted" /\ p.asked = << >> /\ p.rf = c.rf
    BY <1>1, PoisonInv DEF Over
  <2> HIDE DEF p
  <2>2. /\ BridgeInv(t) /\ t.state = "faulted" /\ t.asked = << >> /\ t.rf = p.rf
        /\ t \in Clients
    BY <2>1, TerminateInv DEF Terminate, BridgeInv, Clients
  <2>3. CloseFails(c) = [t EXCEPT !.call = "cleanup"]
    BY <1>3 DEF CloseFails, p
  <2> HIDE DEF t
  <2>4. QED
    BY <2>1, <2>2, <2>3 DEF BridgeInv, Clients
<1>4. QED
  BY <1>2, <1>3

\* The steps of a close that is under way keep the bridge's invariant, and one
\* that is ready has none.
LEMMA ClientMovesInv ==
  ASSUME NEW c, NEW d, BridgeInv(c),
         \/ c.call = "exit" /\ d = ExitHeard(c)
         \/ c.call = "confirm" /\ ~c.group /\ d = Confirmed(c)
         \/ c.call = "confirm" /\ c.group /\ d = CloseFails(c)
         \/ c.termination = "running" /\ c.exit # "none" /\ ~c.group /\ d = Terminated(c)
         \/ c.termination = "running" /\ (c.exit = "none" \/ c.group) /\ d = TerminationFails(c)
  PROVE  /\ BridgeInv(d) /\ d.rf = c.rf
         /\ d.state \in {"closing", "faulted", "closed"}
         /\ c.state = "closed" => d.state = "closed"
         /\ c.state \notin {"ready", "unborn"}
         /\ d.asked = c.asked
<1>1. c \in Clients /\ c.state \in {"closing", "faulted", "closed"}
  BY DEF BridgeInv, Clients, Unborn
<1>2. CASE c.call = "exit" /\ d = ExitHeard(c)
  <2>1. CASE c.exit = "clean"
    <3>1. d = [c EXCEPT !.call = "confirm"]
      BY <1>2, <2>1 DEF ExitHeard
    <3>2. QED
      BY <1>1, <1>2, <2>1, <3>1 DEF BridgeInv, Clients
  <2>2. CASE c.exit # "clean"
    BY <1>1, <1>2, <2>2, CloseFailsInv DEF ExitHeard, BridgeInv
  <2>3. QED
    BY <2>1, <2>2
<1>3. CASE c.call = "confirm" /\ ~c.group /\ d = Confirmed(c)
  BY <1>1, <1>3, EmptyIsSeq DEF Confirmed, BridgeInv, Clients
<1>4. CASE c.call = "confirm" /\ c.group /\ d = CloseFails(c)
  BY <1>1, <1>4, CloseFailsInv DEF BridgeInv
<1>5. CASE c.termination = "running" /\ c.exit # "none" /\ ~c.group /\ d = Terminated(c)
  <2>1. c.asked = << >> /\ c.state # "closing" /\ c.call # "shutdown"
    BY <1>1, <1>5 DEF BridgeInv
  <2>2. CASE c.call = "killing"
    BY <1>1, <1>5, <2>1, <2>2, EmptyIsSeq DEF Terminated, BridgeInv, Clients
  <2>3. CASE c.call = "cleanup"
    BY <1>1, <1>5, <2>1, <2>3, EmptyIsSeq DEF Terminated, BridgeInv, Clients
  <2>4. CASE c.call \notin {"killing", "cleanup"}
    <3>1. d = [c EXCEPT !.termination = "done"]
      BY <1>5, <2>4 DEF Terminated
    <3>2. QED
      BY <1>1, <1>5, <2>1, <2>4, <3>1, EmptyIsSeq DEF BridgeInv, Clients
  <2>5. QED
    BY <2>2, <2>3, <2>4
<1>6. CASE c.termination = "running" /\ (c.exit = "none" \/ c.group) /\ d = TerminationFails(c)
  <2>1. c.asked = << >> /\ c.state # "closing" /\ c.call # "shutdown"
    BY <1>1, <1>6 DEF BridgeInv
  <2>2. QED
    BY <1>1, <1>6, <2>1, EmptyIsSeq DEF TerminationFails, BridgeInv, Clients
<1>7. QED
  BY <1>2, <1>3, <1>4, <1>5, <1>6

\* A request, its answer and its refusal
LEMMA RequestInv ==
  ASSUME NEW c, BridgeInv(c), c.state = "ready", NEW method \in Methods \ {"shutdown"}
  PROVE  /\ BridgeInv(Request(c, method)) /\ Request(c, method).state = "ready"
         /\ Request(c, method).rf = c.rf
         /\ Request(c, method).asked = Append(c.asked, method)
<1>1. c \in Clients
  BY DEF BridgeInv
<1>2. /\ Append(c.asked, method) \in Seq(Methods)
      /\ Len(Append(c.asked, method)) = Len(c.asked) + 1
      /\ Append(c.asked, method)[Len(c.asked) + 1] = method
      /\ \A i \in 1..Len(c.asked) : Append(c.asked, method)[i] = c.asked[i]
      /\ Len(c.asked) \in Nat
  BY <1>1, AppendProperties DEF Clients
<1> DEFINE d == Request(c, method)
<1>3. /\ d \in Clients /\ d.state = "ready" /\ d.call = c.call /\ d.rf = c.rf
      /\ d.asked = Append(c.asked, method) /\ d.termination = c.termination
  BY <1>1, <1>2 DEF Request, Clients
<1>4. \A i \in 1..Len(c.asked) : c.asked[i] # "shutdown"
  BY DEF BridgeInv
<1> HIDE DEF d
<1>5. BridgeInv(d)
  BY <1>2, <1>3, <1>4 DEF BridgeInv
<1>6. QED
  BY <1>3, <1>5 DEF d

LEMMA RestOfAsked ==
  ASSUME NEW q \in Seq(Methods), q # << >>
  PROVE  /\ Tail(q) \in Seq(Methods) /\ Len(Tail(q)) = Len(q) - 1 /\ Len(q) \in Nat \ {0}
         /\ \A i \in 1..Len(Tail(q)) : Tail(q)[i] = q[i + 1]
         /\ Head(q) = q[1] /\ Head(q) \in Methods
         /\ Len(q) = 1 => Tail(q) = << >>
         /\ Len(q) > 1 => Tail(q) # << >>
<1>1. Tail(q) \in Seq(Methods) /\ Len(Tail(q)) = Len(q) - 1
  BY HeadTailProperties
<1>2. Len(q) \in Nat \ {0}
  BY EmptySeq
<1>3. \A i \in 1..Len(Tail(q)) : Tail(q)[i] = q[i + 1]
  BY HeadTailProperties
<1>4. Head(q) = q[1]
  OBVIOUS
<1>5. Head(q) \in Methods
  BY HeadTailProperties
<1>6. Len(q) = 1 => Tail(q) = << >>
  <2>1. Tail(q) # << >> => Len(Tail(q)) \in Nat \ {0}
    BY <1>1, EmptySeq
  <2>2. QED
    BY <1>1, <2>1
<1>7. Len(q) > 1 => Tail(q) # << >>
  <2>1. Tail(q) = << >> => Len(Tail(q)) = 0
    BY Zenon, EmptyIsSeq
  <2>2. QED
    BY <1>1, <1>2, <2>1
<1>8. QED
  BY <1>1, <1>2, <1>3, <1>4, <1>5, <1>6, <1>7

LEMMA RespondedInv ==
  ASSUME NEW c, BridgeInv(c), c.asked # << >>
  PROVE  /\ BridgeInv(Responded(c)) /\ Responded(c).state = c.state
         /\ Responded(c).asked = Tail(c.asked)
         /\ Responded(c).rf = IF Head(c.asked) = "on" THEN TRUE
                              ELSE IF Head(c.asked) \in {"off", "configure"} THEN FALSE ELSE c.rf
<1>1. c \in Clients /\ c.asked \in Seq(Methods) /\ c.state \in {"ready", "closing"}
  BY DEF BridgeInv, Clients
<1>2. /\ Head(c.asked) = c.asked[1] /\ 1 \in 1..Len(c.asked) /\ Len(c.asked) \in Nat
      /\ Tail(c.asked) \in Seq(Methods) /\ Len(Tail(c.asked)) = Len(c.asked) - 1
      /\ \A i \in 1..Len(Tail(c.asked)) : Tail(c.asked)[i] = c.asked[i + 1]
      /\ Len(c.asked) = 1 => Tail(c.asked) = << >>
      /\ Len(c.asked) > 1 => Tail(c.asked) # << >>
      /\ Head(c.asked) \in Methods
  BY <1>1, RestOfAsked
<1>3. \A i \in 1..Len(c.asked) :
         c.asked[i] = "shutdown" <=> i = Len(c.asked) /\ c.call = "shutdown"
  BY DEF BridgeInv
<1> DEFINE rest == [c EXCEPT !.asked = Tail(@)]
           d == Responded(c)
<1>4. CASE Head(c.asked) = "shutdown"
  <2>1. c.call = "shutdown" /\ Tail(c.asked) = << >> /\ c.state = "closing"
    BY <1>2, <1>3, <1>4 DEF BridgeInv
  <2>2. d = [rest EXCEPT !.acknowledged = TRUE, !.call = "exit"]
    BY <1>4 DEF Responded
  <2>9. /\ rest \in Clients /\ rest.state = "closing" /\ rest.asked = << >>
        /\ rest.exit = c.exit /\ rest.group = c.group /\ rest.termination = c.termination
        /\ rest.rf = c.rf
    BY <1>1, <2>1, EmptyIsSeq DEF Clients
  <2> HIDE DEF rest
  <2>3. /\ d \in Clients /\ d.state = "closing" /\ d.asked = << >> /\ d.call = "exit"
        /\ d.exit = c.exit /\ d.group = c.group /\ d.termination = c.termination
        /\ d.rf = c.rf
    BY <2>2, <2>9 DEF Clients
  <2> HIDE DEF d
  <2>4. BridgeInv(d)
    BY <2>1, <2>3, EmptyIsSeq DEF BridgeInv
  <2>5. d.state = c.state /\ d.asked = Tail(c.asked)
    BY <2>1, <2>3
  <2>6. QED
    BY <1>4, <2>3, <2>4, <2>5 DEF d
<1>5. CASE Head(c.asked) # "shutdown"
  <2>1. /\ d \in Clients /\ d.state = c.state /\ d.asked = Tail(c.asked) /\ d.call = c.call
        /\ d.exit = c.exit /\ d.group = c.group /\ d.termination = c.termination
        /\ d.rf = IF Head(c.asked) = "on" THEN TRUE
                  ELSE IF Head(c.asked) \in {"off", "configure"} THEN FALSE ELSE c.rf
    BY <1>1, <1>2, <1>5 DEF Responded, Clients
  <2>2. c.call = "shutdown" => Len(c.asked) > 1
    BY <1>2, <1>3, <1>5
  <2> HIDE DEF d
  <2>3. \A i \in 1..Len(d.asked) :
           d.asked[i] = "shutdown" <=> i = Len(d.asked) /\ d.call = "shutdown"
    <3>1. SUFFICES ASSUME NEW i \in 1..Len(d.asked)
                   PROVE  d.asked[i] = "shutdown" <=> i = Len(d.asked) /\ d.call = "shutdown"
      OBVIOUS
    <3>2. /\ i + 1 \in 1..Len(c.asked) /\ d.asked[i] = c.asked[i + 1]
          /\ i = Len(d.asked) <=> i + 1 = Len(c.asked)
      BY <1>2, <2>1
    <3>3. d.call = c.call
      BY <2>1
    <3>4. QED
      BY <1>3, <3>2, <3>3
  <2>4. d.call = "shutdown" => d.asked # << >>
    BY <1>2, <2>1, <2>2
  <2>5. d.asked # << >> => d.state = "ready" \/ d.call = "shutdown"
    BY <2>1 DEF BridgeInv
  <2>6. BridgeInv(d)
    BY <1>1, <2>1, <2>3, <2>4, <2>5 DEF BridgeInv
  <2>7. QED
    BY <2>1, <2>6 DEF d
<1>6. QED
  BY <1>4, <1>5

\* The error answer: a refused shutdown kills the bridge.
LEMMA RefusedInv ==
  ASSUME NEW c, BridgeInv(c), c.asked # << >>
  PROVE  /\ BridgeInv(Refused(c)) /\ Refused(c).rf = c.rf
         /\ Head(c.asked) # "shutdown" => Refused(c).state = c.state
                                           /\ Refused(c).asked = Tail(c.asked)
         /\ Head(c.asked) = "shutdown" => c.state = "closing" /\ Refused(c).state = "faulted"
                                           /\ Refused(c).asked = << >>
<1>1. c \in Clients /\ c.asked \in Seq(Methods) /\ c.state \in {"ready", "closing"}
  BY DEF BridgeInv, Clients
<1>2. /\ Head(c.asked) = c.asked[1] /\ 1 \in 1..Len(c.asked) /\ Len(c.asked) \in Nat
      /\ Tail(c.asked) \in Seq(Methods) /\ Len(Tail(c.asked)) = Len(c.asked) - 1
      /\ \A i \in 1..Len(Tail(c.asked)) : Tail(c.asked)[i] = c.asked[i + 1]
      /\ Len(c.asked) = 1 => Tail(c.asked) = << >>
      /\ Len(c.asked) > 1 => Tail(c.asked) # << >>
  BY <1>1, RestOfAsked
<1>3. \A i \in 1..Len(c.asked) :
         c.asked[i] = "shutdown" <=> i = Len(c.asked) /\ c.call = "shutdown"
  BY DEF BridgeInv
<1> DEFINE r == [c EXCEPT !.asked = Tail(@)]
<1>4. /\ r \in Clients /\ r.state = c.state /\ r.asked = Tail(c.asked) /\ r.call = c.call
      /\ r.exit = c.exit /\ r.group = c.group /\ r.termination = c.termination
      /\ r.rf = c.rf
  BY <1>1, <1>2 DEF Clients
<1>5. CASE Head(c.asked) = "shutdown"
  <2>1. c.call = "shutdown" /\ Tail(c.asked) = << >> /\ c.state = "closing"
        /\ c.termination = "none"
    BY <1>2, <1>3, <1>5 DEF BridgeInv
  <2> DEFINE f == [r EXCEPT !.state = "faulted", !.asked = << >>, !.call = "cleanup",
                            !.termination = "running"]
  <2> HIDE DEF r
  <2>2. /\ f \in Clients /\ f.state = "faulted" /\ f.asked = << >> /\ f.call = "cleanup"
        /\ f.termination = "running" /\ f.rf = c.rf /\ f.exit = c.exit /\ f.group = c.group
    BY <1>4, EmptyIsSeq DEF Clients
  <2>3. Poison(r) = f
    BY <1>4, <2>1 DEF Poison, Over, Terminate, Clients
  <2> HIDE DEF f
  <2>4. Terminate(Poison(r)) = f
    BY <2>2, <2>3 DEF Terminate
  <2>5. Refused(c) = [f EXCEPT !.call = "cleanup"]
    BY <1>4, <1>5, <2>1, <2>4 DEF Refused, CloseFails, r
  <2>6. Refused(c) = f
    BY <2>2, <2>5 DEF Clients
  <2>7. BridgeInv(f)
    BY <1>1, <2>2, EmptyIsSeq DEF BridgeInv
  <2>8. QED
    BY <1>5, <2>1, <2>2, <2>6, <2>7
<1>6. CASE Head(c.asked) # "shutdown"
  <2>1. Refused(c) = r
    BY <1>6 DEF Refused
  <2>2. c.call = "shutdown" => Len(c.asked) > 1
    BY <1>2, <1>3, <1>6
  <2> HIDE DEF r
  <2>3. \A i \in 1..Len(r.asked) :
           r.asked[i] = "shutdown" <=> i = Len(r.asked) /\ r.call = "shutdown"
    <3>1. SUFFICES ASSUME NEW i \in 1..Len(r.asked)
                   PROVE  r.asked[i] = "shutdown" <=> i = Len(r.asked) /\ r.call = "shutdown"
      OBVIOUS
    <3>2. /\ i + 1 \in 1..Len(c.asked) /\ r.asked[i] = c.asked[i + 1]
          /\ i = Len(r.asked) <=> i + 1 = Len(c.asked)
      BY <1>2, <1>4
    <3>3. r.call = c.call
      BY <1>4
    <3>4. QED
      BY <1>3, <3>2, <3>3
  <2>4. r.call = "shutdown" => r.asked # << >>
    BY <1>2, <1>4, <2>2
  <2>5. r.asked # << >> => r.state = "ready" \/ r.call = "shutdown"
    BY <1>4 DEF BridgeInv
  <2>6. BridgeInv(r)
    BY <1>1, <1>4, <2>3, <2>4, <2>5 DEF BridgeInv
  <2>7. QED
    BY <1>4, <1>6, <2>1, <2>6
<1>7. QED
  BY <1>5, <1>6

\* The end of a bridge's process
LEMMA ExitedInv ==
  ASSUME NEW c, BridgeInv(c), c.state # "unborn", NEW how \in {"clean", "dirty"}
  PROVE  /\ BridgeInv(Exited(c, how)) /\ Exited(c, how).rf = c.rf
         /\ c.state = "closing" => Exited(c, how).state \in {"closing", "faulted"}
         /\ c.state = "closed" => Exited(c, how).state = "closed"
         /\ c.state \notin {"closing", "closed"} => Exited(c, how).state = "faulted"
         /\ Exited(c, how).asked = << >> \/ Exited(c, how).asked = c.asked
         /\ Exited(c, how).state = "faulted" => Exited(c, how).asked = << >>
         /\ c.state = "faulted" => Exited(c, how).asked = c.asked
<1> DEFINE d == [c EXCEPT !.exit = how]
<1>1. c \in Clients
  BY DEF BridgeInv
<1>2. /\ d \in Clients /\ d.state = c.state /\ d.asked = c.asked /\ d.call = c.call
      /\ d.group = c.group /\ d.termination = c.termination /\ d.rf = c.rf /\ d.exit = how
  BY <1>1 DEF Clients
<1>3. Exited(c, how) = IF c.state = "closing" /\ how = "clean" THEN d ELSE Poison(d)
  BY DEF Exited
<1> HIDE DEF d
<1>4. BridgeInv(d)
  BY <1>2 DEF BridgeInv
<1>5. /\ BridgeInv(Poison(d)) /\ Poison(d).asked = << >> /\ Poison(d).rf = c.rf
      /\ c.state = "closed" => Poison(d) = d
      /\ c.state # "closed" => Poison(d).state = "faulted"
  BY <1>2, <1>4, PoisonInv
<1>6. c.state = "faulted" => c.asked = << >>
  BY DEF BridgeInv
<1>7. QED
  BY <1>2, <1>3, <1>4, <1>5, <1>6

-----------------------------------------------------------------------------
(* The transport: steps that move one bridge *)

\* The bridge that moves is the transport's own, or it is over.
LEMMA OneBridgeMoves ==
  ASSUME TransportInv, NEW l \in Launches, NEW d, BridgeInv(d),
         clients' = [clients EXCEPT ![l] = d], UNCHANGED <<client, opening, closing>>,
         d.state # "unborn", clients[l].state # "unborn",
         clients[l].state = "closed" => d.state = "closed",
         open' => open /\ (l = client => d.state = "ready")
  PROVE  /\ clients' \in [Launches -> Clients]
         /\ \A k \in Launches : BridgeInv(clients'[k])
         /\ OwnerInv'
         /\ l = client => Bridge' = d
         /\ client # NoBridge /\ l # client => Bridge' = Bridge
<1>1. d \in Clients /\ clients \in [Launches -> Clients] /\ client \in {NoBridge} \cup Launches
  BY DEF BridgeInv, TransportInv, TwinTypeInv
<1>2. /\ clients' \in [Launches -> Clients] /\ clients'[l] = d
      /\ \A k \in Launches \ {l} : clients'[k] = clients[k]
  BY <1>1
<1>3. \A k \in Launches : BridgeInv(clients'[k])
  BY <1>2 DEF TransportInv
<1>4. /\ l = client => Bridge' = d
      /\ client # NoBridge /\ l # client => Bridge' = Bridge
  BY <1>1, <1>2 DEF Bridge
<1>5. OwnerInv
  BY DEF TransportInv
<1>6. \A k \in Launches \ {client'} : clients'[k].state \in {"unborn", "closed"}
  BY <1>2, <1>5 DEF OwnerInv
<1>7. client' # NoBridge => Bridge'.state # "unborn"
  BY <1>4, <1>5 DEF OwnerInv
<1>8. open' => client' # NoBridge /\ Bridge'.state = "ready" /\ opening' = "none" /\ closing' = "none"
  BY <1>4, <1>5 DEF OwnerInv
<1>9. OwnerInv'
  BY <1>5, <1>6, <1>7, <1>8 DEF OwnerInv
<1>10. QED
  BY <1>2, <1>3, <1>4, <1>9

\* A step of a bridge that the firmware's output and the adapter do not notice
LEMMA QuietBridgeMoves ==
  ASSUME TransportInv, NEW l \in Launches, NEW d, BridgeInv(d),
         clients' = [clients EXCEPT ![l] = d], UNCHANGED <<client, opening, closing, routing>>,
         UNCHANGED emulation,
         d.state # "unborn", clients[l].state # "unborn",
         clients[l].state = "closed" => d.state = "closed",
         d.rf = clients[l].rf, d.asked = clients[l].asked \/ d.asked = << >>,
         open' \in BOOLEAN,
         open' => open /\ (l = client => d.state = "ready" /\ d.asked = clients[l].asked),
         shell' = shell \/ (shell = "busy" /\ shell' = "lost")
  PROVE  TransportInv'
<1>1. /\ clients' \in [Launches -> Clients]
      /\ \A k \in Launches : BridgeInv(clients'[k])
      /\ OwnerInv'
      /\ l = client => Bridge' = d
      /\ client # NoBridge /\ l # client => Bridge' = Bridge
  BY OneBridgeMoves
<1>2. TwinTypeInv /\ OwnerInv /\ FreshInv /\ ShadowInv
  BY DEF TransportInv
<1>3. TwinTypeInv'
  BY <1>1, <1>2 DEF TwinTypeInv, routing, emulation
<1>4. l = client => Bridge = clients[l]
  BY DEF Bridge
<1>5. client # NoBridge => Bridge'.rf = Bridge.rf
                           /\ (Bridge'.asked = Bridge.asked \/ Bridge'.asked = << >>)
  BY <1>1, <1>4
<1>6. FreshInv'
  <2>1. client' = NoBridge \/ opening' # "none" => mode' = "input" /\ ~configured' /\ ~enabled'
    BY <1>2 DEF FreshInv, emulation
  <2>2. opening' # "none" => shell' = "free"
    BY <1>2 DEF FreshInv
  <2>3. opening' # "none" /\ client' # NoBridge =>
          ~Bridge'.rf /\ \A i \in 1..Len(Bridge'.asked) : Bridge'.asked[i] = "shutdown"
    BY <1>2, <1>5, EmptyIsSeq DEF FreshInv
  <2>4. QED
    BY <2>1, <2>2, <2>3 DEF FreshInv
<1>7. ShadowInv'
  <2>1. CASE open'
    <3>1. open /\ client # NoBridge /\ Bridge'.rf = Bridge.rf /\ Bridge'.asked = Bridge.asked
      BY <1>1, <1>2, <1>4, <1>5, <2>1 DEF OwnerInv
    <3>2. QED
      BY <1>2, <3>1 DEF ShadowInv, emulation
  <2>2. CASE ~open'
    BY <2>2 DEF ShadowInv
  <2>3. QED
    BY <2>1, <2>2
<1>8. QED
  BY <1>1, <1>3, <1>6, <1>7 DEF TransportInv

\* A bridge that ends takes its transport's open with it.
LEMMA PoisonsKeeps ==
  ASSUME TransportInv, NEW l \in Launches, NEW d, BridgeInv(d), Poisons(l, d),
         d.state # "unborn", clients[l].state # "unborn",
         clients[l].state = "closed" => d.state = "closed",
         clients[l].state = "ready" => d.state = "faulted",
         d.rf = clients[l].rf, d.asked = clients[l].asked \/ d.asked = << >>
  PROVE  TransportInv'
<1>1. /\ clients' = [clients EXCEPT ![l] = d]
      /\ UNCHANGED <<client, opening, closing, routing>> /\ UNCHANGED emulation
      /\ shell' = shell \/ (shell = "busy" /\ shell' = "lost")
  BY DEF Poisons
<1>2. open' \in BOOLEAN /\ (open' => open /\ ~(l = client /\ closing = "none" /\ d.state = "faulted"))
  BY Zenon DEF Poisons
<1>3. open /\ l = client => closing = "none" /\ clients[l].state = "ready"
  BY DEF TransportInv, OwnerInv, Bridge
<1>4. open' => open /\ l # client
  BY <1>2, <1>3
<1>5. QED
  BY <1>1, <1>2, <1>4, QuietBridgeMoves

LEMMA MovesKeeps ==
  ASSUME TransportInv, NEW l \in Launches,
         \/ Ready(l) \/ DeadlinePasses(l) \/ Breaks(l) \/ GroupGoes(l) \/ ClientMoves(l)
         \/ \E how \in {"clean", "dirty"} : Exits(l, how)
  PROVE  TransportInv'
<1> DEFINE c == clients[l]
<1>1. /\ c \in Clients /\ BridgeInv(c) /\ open \in BOOLEAN
      /\ open /\ l = client => c.state = "ready"
  BY DEF TransportInv, BridgeInv, OwnerInv, TwinTypeInv, Bridge
<1>2. CASE Ready(l)
  <2> DEFINE d == [c EXCEPT !.state = "ready"]
  <2>1. /\ d \in Clients /\ d.state = "ready" /\ d.asked = c.asked /\ d.call = c.call
        /\ d.exit = c.exit /\ d.group = c.group /\ d.termination = c.termination /\ d.rf = c.rf
        /\ c.state = "booting"
    BY <1>1, <1>2 DEF Ready, Clients
  <2>2. /\ clients' = [clients EXCEPT ![l] = d] /\ shell' = shell /\ open' = open
        /\ UNCHANGED <<client, opening, closing, routing>> /\ UNCHANGED emulation
    BY <1>2 DEF Ready
  <2> HIDE DEF d
  <2>3. BridgeInv(d)
    BY <1>1, <2>1 DEF BridgeInv
  <2>4. QED
    BY <1>1, <2>1, <2>2, <2>3, QuietBridgeMoves
<1>3. CASE DeadlinePasses(l) \/ Breaks(l)
  <2>1. Poisons(l, Poison(c)) /\ c.state \notin {"unborn", "closed"}
    BY <1>1, <1>3 DEF DeadlinePasses, Breaks, Timed, BridgeInv, Unborn
  <2>2. QED
    BY <1>1, <2>1, PoisonInv, PoisonsKeeps
<1>4. CASE GroupGoes(l)
  <2> DEFINE d == [c EXCEPT !.group = FALSE]
  <2>1. /\ d \in Clients /\ d.state = c.state /\ d.asked = c.asked /\ d.call = c.call
        /\ d.exit = c.exit /\ d.group = FALSE /\ d.termination = c.termination /\ d.rf = c.rf
    BY <1>1, <1>4 DEF GroupGoes, Clients
  <2>5. c.state # "unborn"
    BY <1>1, <1>4 DEF GroupGoes, BridgeInv, Unborn
  <2>2. /\ clients' = [clients EXCEPT ![l] = d] /\ shell' = shell /\ open' = open
        /\ UNCHANGED <<client, opening, closing, routing>> /\ UNCHANGED emulation
    BY <1>4 DEF GroupGoes
  <2> HIDE DEF d
  <2>3. BridgeInv(d)
    BY <1>1, <2>1, <2>5 DEF BridgeInv
  <2>4. QED
    BY <1>1, <2>1, <2>2, <2>3, <2>5, QuietBridgeMoves
<1>5. CASE ClientMoves(l)
  <2>1. PICK d :
          /\ clients' = [clients EXCEPT ![l] = d]
          /\ \/ c.call = "exit" /\ d = ExitHeard(c)
             \/ c.call = "confirm" /\ ~c.group /\ d = Confirmed(c)
             \/ c.call = "confirm" /\ c.group /\ d = CloseFails(c)
             \/ c.termination = "running" /\ c.exit # "none" /\ ~c.group /\ d = Terminated(c)
             \/ c.termination = "running" /\ (c.exit = "none" \/ c.group) /\ d = TerminationFails(c)
    BY <1>5 DEF ClientMoves
  <2>2. /\ shell' = shell /\ open' = open
        /\ UNCHANGED <<client, opening, closing, routing>> /\ UNCHANGED emulation
    BY <1>5 DEF ClientMoves
  <2>3. /\ BridgeInv(d) /\ d.rf = c.rf
        /\ d.state \in {"closing", "faulted", "closed"}
        /\ c.state = "closed" => d.state = "closed"
        /\ c.state \notin {"ready", "unborn"}
        /\ d.asked = c.asked
    BY <1>1, <2>1, ClientMovesInv
  <2> HIDE DEF c
  <2>4. QED
    BY <1>1, <2>1, <2>2, <2>3, QuietBridgeMoves DEF c
<1>6. CASE \E how \in {"clean", "dirty"} : Exits(l, how)
  <2>1. PICK how \in {"clean", "dirty"} : Exits(l, how)
    BY <1>6
  <2>2. Poisons(l, Exited(c, how)) /\ c.state # "unborn"
    BY <2>1 DEF Exits
  <2>3. /\ BridgeInv(Exited(c, how)) /\ Exited(c, how).rf = c.rf
        /\ c.state = "closing" => Exited(c, how).state \in {"closing", "faulted"}
        /\ c.state = "closed" => Exited(c, how).state = "closed"
        /\ c.state \notin {"closing", "closed"} => Exited(c, how).state = "faulted"
        /\ Exited(c, how).asked = << >> \/ Exited(c, how).asked = c.asked
    BY <1>1, <2>2, ExitedInv
  <2>4. QED
    BY <2>2, <2>3, PoisonsKeeps
<1>7. QED
  BY <1>2, <1>3, <1>4, <1>5, <1>6

-----------------------------------------------------------------------------
(* The transport: answers *)

\* A response to a bridge that is not the transport's finds nobody.
LEMMA AnsweredIsOwn ==
  ASSUME TransportInv, NEW l \in Launches, clients[l].asked # << >>
  PROVE  /\ l = client /\ client # NoBridge /\ Bridge = clients[l]
         /\ clients[l].asked \in Seq(Methods) /\ clients[l].state \in {"ready", "closing"}
<1>1. BridgeInv(clients[l]) /\ clients[l] \in Clients
  BY DEF TransportInv, BridgeInv
<1>2. clients[l].state \in {"ready", "closing"} /\ clients[l].asked \in Seq(Methods)
  BY <1>1 DEF BridgeInv, Clients
<1>3. l = client
  BY <1>2 DEF TransportInv, OwnerInv
<1>4. QED
  BY <1>2, <1>3, LaunchesAssumption DEF Bridge, Launches, NoBridge

LEMMA RespondsKeeps ==
  ASSUME TransportInv, NEW l \in Launches, Responds(l)
  PROVE  TransportInv'
<1> DEFINE c == clients[l]
           d == Responded(c)
           method == Head(c.asked)
<1>1. /\ c.asked # << >> /\ clients' = [clients EXCEPT ![l] = d]
      /\ UNCHANGED <<client, open, opening, closing, routing, mode>>
      /\ enabled' = EnabledAfter(method)
      /\ shell' = IF shell # "busy" \/ method = "shutdown" THEN shell
                  ELSE IF method = "off" THEN "quiet" ELSE "free"
  BY DEF Responds
<1>2. configured' \in BOOLEAN /\ (configured' <=> configured \/ method = "configure")
  BY Zenon DEF Responds
<1>3. /\ l = client /\ client # NoBridge /\ Bridge = c
      /\ c.asked \in Seq(Methods) /\ c.state \in {"ready", "closing"}
  BY <1>1, AnsweredIsOwn
<1>4. /\ BridgeInv(c) /\ TwinTypeInv /\ OwnerInv /\ FreshInv /\ ShadowInv
  BY DEF TransportInv
<1>5. /\ BridgeInv(d) /\ d.state = c.state /\ d.asked = Tail(c.asked)
      /\ d.rf = IF method = "on" THEN TRUE
                ELSE IF method \in {"off", "configure"} THEN FALSE ELSE c.rf
  BY <1>1, <1>4, RespondedInv
<1>6. /\ method = c.asked[1] /\ 1 \in 1..Len(c.asked) /\ Len(c.asked) \in Nat
      /\ method \in Methods /\ Len(Tail(c.asked)) = Len(c.asked) - 1
      /\ \A i \in 1..Len(Tail(c.asked)) : Tail(c.asked)[i] = c.asked[i + 1]
      /\ Len(c.asked) = 1 => Tail(c.asked) = << >>
  BY <1>1, <1>3, RestOfAsked
<1> HIDE DEF c, d, method
<1>7. open => c.state = "ready" /\ opening = "none"
  BY <1>3, <1>4 DEF OwnerInv
<1>8. /\ clients' \in [Launches -> Clients]
      /\ \A k \in Launches : BridgeInv(clients'[k])
      /\ OwnerInv' /\ Bridge' = d
  BY <1>1, <1>3, <1>5, <1>7, OneBridgeMoves DEF c
<1>9. TwinTypeInv'
  <2>1. enabled' \in BOOLEAN
    BY <1>1, <1>4 DEF EnabledAfter, TwinTypeInv
  <2>2. shell' \in {"free", "quiet", "busy", "lost"}
    BY <1>1, <1>4 DEF TwinTypeInv
  <2>3. QED
    BY <1>1, <1>2, <1>4, <1>8, <2>1, <2>2 DEF TwinTypeInv, routing
<1>10. FreshInv'
  <2>1. CASE opening = "none"
    BY <1>1, <1>3, <2>1 DEF FreshInv
  <2>2. CASE opening # "none"
    <3>1. /\ mode = "input" /\ ~configured /\ ~enabled /\ shell = "free" /\ ~c.rf
          /\ \A i \in 1..Len(c.asked) : c.asked[i] = "shutdown"
      BY <1>3, <1>4, <2>2 DEF FreshInv
    <3>2. method = "shutdown"
      BY <1>6, <3>1
    <3>3. mode' = "input" /\ ~configured' /\ ~enabled' /\ shell' = "free" /\ ~d.rf
      BY <1>1, <1>2, <1>5, <3>1, <3>2 DEF EnabledAfter
    <3>4. \A i \in 1..Len(d.asked) : d.asked[i] = "shutdown"
      <4>1. SUFFICES ASSUME NEW i \in 1..Len(d.asked) PROVE d.asked[i] = "shutdown"
        OBVIOUS
      <4>2. i + 1 \in 1..Len(c.asked) /\ d.asked[i] = c.asked[i + 1]
        BY <1>5, <1>6
      <4>3. QED
        BY <3>1, <4>2
    <3>5. QED
      BY <1>8, <3>3, <3>4 DEF FreshInv
  <2>3. QED
    BY <2>1, <2>2
<1>11. ShadowInv'
  <2>1. SUFFICES ASSUME open PROVE ShadowInv'
    BY <1>1 DEF ShadowInv
  <2>2. /\ enabled <=> c.rf
        /\ enabled => mode = "output" /\ configured
        /\ shell \notin {"free", "quiet"}
        /\ shell = "busy" => Len(c.asked) = 1
        /\ \A i \in 1..Len(c.asked) :
              /\ c.asked[i] \in {"on", "configure"} => mode = "output"
              /\ c.asked[i] = "on" => configured
    BY <1>1, <1>3, <1>4, <2>1 DEF ShadowInv, c
  <2>3. method # "shutdown"
    BY <1>4, <1>6, <1>7, <2>1 DEF BridgeInv
  <2>4. enabled' <=> d.rf
    BY <1>1, <1>5, <2>2 DEF EnabledAfter
  <2>5. method \in {"on", "configure"} => mode = "output"
    BY <1>6, <2>2
  <2>6. method = "on" => configured
    BY <1>6, <2>2
  <2>7. enabled' => mode' = "output" /\ configured'
    BY <1>1, <1>2, <2>2, <2>5, <2>6 DEF EnabledAfter
  <2>8. shell' \in {"free", "quiet"} => shell = "busy" /\ d.asked = << >>
    BY <1>1, <1>5, <1>6, <2>2
  <2>9. shell' = "quiet" => ~enabled'
    BY <1>1, <2>2, <2>3 DEF EnabledAfter
  <2>10. shell' # "busy"
    BY <1>1, <2>3
  <2>11. \A i \in 1..Len(d.asked) :
            /\ d.asked[i] \in {"on", "configure"} => mode' = "output"
            /\ d.asked[i] = "on" => configured'
    <3>1. SUFFICES ASSUME NEW i \in 1..Len(d.asked)
                   PROVE  /\ d.asked[i] \in {"on", "configure"} => mode' = "output"
                          /\ d.asked[i] = "on" => configured'
      OBVIOUS
    <3>2. i + 1 \in 1..Len(c.asked) /\ d.asked[i] = c.asked[i + 1]
      BY <1>5, <1>6
    <3>3. QED
      BY <1>1, <1>2, <2>2, <3>2
  <2>12. QED
    BY <1>8, <2>4, <2>7, <2>8, <2>9, <2>10, <2>11 DEF ShadowInv
<1>12. QED
  BY <1>8, <1>9, <1>10, <1>11 DEF TransportInv

LEMMA RespondsErrorKeeps ==
  ASSUME TransportInv, NEW l \in Launches, RespondsError(l)
  PROVE  TransportInv'
<1> DEFINE c == clients[l]
           d == Refused(c)
<1>1. /\ c.asked # << >> /\ clients' = [clients EXCEPT ![l] = d]
      /\ UNCHANGED <<client, open, opening, closing, routing>> /\ UNCHANGED emulation
      /\ shell' = IF shell = "busy" /\ Head(c.asked) # "shutdown" THEN "lost" ELSE shell
  BY DEF RespondsError
<1>2. /\ l = client /\ client # NoBridge /\ Bridge = c
      /\ c.asked \in Seq(Methods) /\ c.state \in {"ready", "closing"}
  BY <1>1, AnsweredIsOwn
<1>3. /\ BridgeInv(c) /\ TwinTypeInv /\ OwnerInv /\ FreshInv /\ ShadowInv
  BY DEF TransportInv
<1>4. /\ BridgeInv(d) /\ d.rf = c.rf
      /\ Head(c.asked) # "shutdown" => d.state = c.state /\ d.asked = Tail(c.asked)
      /\ Head(c.asked) = "shutdown" => c.state = "closing" /\ d.state = "faulted" /\ d.asked = << >>
  BY <1>1, <1>3, RefusedInv
<1>5. /\ Head(c.asked) = c.asked[1] /\ 1 \in 1..Len(c.asked) /\ Len(c.asked) \in Nat
      /\ Len(Tail(c.asked)) = Len(c.asked) - 1
      /\ \A i \in 1..Len(Tail(c.asked)) : Tail(c.asked)[i] = c.asked[i + 1]
  BY <1>1, <1>2, RestOfAsked
<1> HIDE DEF c, d
<1>6. open => c.state = "ready" /\ opening = "none" /\ Head(c.asked) # "shutdown"
  BY <1>2, <1>3, <1>4 DEF OwnerInv
<1>7. /\ clients' \in [Launches -> Clients]
      /\ \A k \in Launches : BridgeInv(clients'[k])
      /\ OwnerInv' /\ Bridge' = d
  BY <1>1, <1>2, <1>4, <1>6, OneBridgeMoves DEF c
<1>8. TwinTypeInv'
  BY <1>1, <1>3, <1>7 DEF TwinTypeInv, routing, emulation
<1>9. \A i \in 1..Len(d.asked) : \E k \in 1..Len(c.asked) : d.asked[i] = c.asked[k]
  <2>1. SUFFICES ASSUME NEW i \in 1..Len(d.asked)
                 PROVE  \E k \in 1..Len(c.asked) : d.asked[i] = c.asked[k]
    OBVIOUS
  <2>2. d.asked = Tail(c.asked)
    BY <1>4, <2>1, EmptyIsSeq
  <2>3. i + 1 \in 1..Len(c.asked) /\ d.asked[i] = c.asked[i + 1]
    BY <1>5, <2>1, <2>2
  <2>4. QED
    BY <2>3
<1>10. FreshInv'
  <2>1. CASE opening = "none"
    BY <1>1, <1>2, <2>1 DEF FreshInv
  <2>2. CASE opening # "none"
    <3>1. /\ mode = "input" /\ ~configured /\ ~enabled /\ shell = "free" /\ ~c.rf
          /\ \A i \in 1..Len(c.asked) : c.asked[i] = "shutdown"
      BY <1>2, <1>3, <2>2 DEF FreshInv
    <3>2. \A i \in 1..Len(d.asked) : d.asked[i] = "shutdown"
      BY <1>9, <3>1
    <3>3. QED
      BY <1>1, <1>4, <1>7, <3>1, <3>2 DEF FreshInv, emulation
  <2>3. QED
    BY <2>1, <2>2
<1>11. ShadowInv'
  <2>1. SUFFICES ASSUME open PROVE ShadowInv'
    BY <1>1 DEF ShadowInv
  <2>2. /\ enabled <=> c.rf
        /\ enabled => mode = "output" /\ configured
        /\ shell \notin {"free", "quiet"}
        /\ \A i \in 1..Len(c.asked) :
              /\ c.asked[i] \in {"on", "configure"} => mode = "output"
              /\ c.asked[i] = "on" => configured
    BY <1>1, <1>2, <1>3, <2>1 DEF ShadowInv, c
  <2>3. shell' \notin {"free", "quiet", "busy"}
    BY <1>1, <1>6, <2>1, <2>2
  <2>4. \A i \in 1..Len(d.asked) :
            /\ d.asked[i] \in {"on", "configure"} => mode = "output"
            /\ d.asked[i] = "on" => configured
    BY <1>9, <2>2
  <2>5. QED
    BY <1>1, <1>4, <1>7, <2>2, <2>3, <2>4 DEF ShadowInv, emulation
<1>12. QED
  BY <1>7, <1>8, <1>10, <1>11 DEF TransportInv

-----------------------------------------------------------------------------
(* The transport: open() and close() *)

LEMMA OpenKeeps ==
  ASSUME TransportInv, OpenBegins \/ LaunchFails \/ Launched \/ OpenContinues
  PROVE  TransportInv'
<1>1. /\ TwinTypeInv /\ OwnerInv /\ FreshInv /\ ShadowInv
      /\ \A l \in Launches : BridgeInv(clients[l]) /\ clients[l] \in Clients
  BY DEF TransportInv, BridgeInv
<1>2. CASE OpenBegins \/ LaunchFails
  <2>1. /\ UNCHANGED <<clients, client, open, closing>> /\ UNCHANGED emulation
        /\ client = NoBridge /\ ~open /\ opening' \in {"launch", "none"}
        /\ closing \notin {"boot", "client"} /\ shell' \in {shell, "free"}
        /\ opening' = "launch" => shell' = "free"
        /\ active' \in BOOLEAN /\ teardownOnly' \in BOOLEAN
    BY <1>1, <1>2 DEF OpenBegins, MayOpen, LaunchFails, OwnerInv, TwinTypeInv
  <2>2. TwinTypeInv'
    BY <1>1, <2>1 DEF TwinTypeInv, emulation
  <2>3. OwnerInv'
    BY <1>1, <2>1 DEF OwnerInv
  <2>4. FreshInv'
    BY <1>1, <2>1 DEF FreshInv, emulation
  <2>5. ShadowInv'
    BY <2>1 DEF ShadowInv
  <2>6. QED
    BY <1>1, <2>1, <2>2, <2>3, <2>4, <2>5 DEF TransportInv
<1>3. CASE Launched
  <2>1. /\ opening = "launch" /\ client = NoBridge /\ ~open /\ closing \in {"none", "opening"}
        /\ shell = "free" /\ mode = "input" /\ ~configured /\ ~enabled
    BY <1>1, <1>3 DEF Launched, OwnerInv, FreshInv, TwinTypeInv
  <2> DEFINE d == IF closing = "none" THEN NewClient ELSE Close(NewClient)
  <2>2. PICK l \in Launches :
          clients[l].state = "unborn" /\ client' = l /\ clients' = [clients EXCEPT ![l] = d]
    BY <1>3 DEF Launched
  <2>3. /\ opening' = IF closing = "none" THEN "boot" ELSE "cleanup"
        /\ UNCHANGED <<open, closing, routing>> /\ UNCHANGED emulation /\ shell' = shell
    BY <1>3 DEF Launched
  <2>4. /\ BridgeInv(d) /\ d.state # "unborn" /\ ~d.rf
        /\ \A i \in 1..Len(d.asked) : d.asked[i] = "shutdown"
    <3>1. \A i \in 1..Len(NewClient.asked) : NewClient.asked[i] = "shutdown"
      BY NewBridgeInv, EmptyIsSeq
    <3>2. /\ BridgeInv(NewClient) /\ NewClient.state = "booting" /\ ~NewClient.rf
      BY NewBridgeInv DEF NewClient, Unborn
    <3>3. /\ BridgeInv(Close(NewClient)) /\ Close(NewClient).state # "unborn"
          /\ ~Close(NewClient).rf
          /\ \A i \in 1..Len(Close(NewClient).asked) : Close(NewClient).asked[i] = "shutdown"
      BY <3>1, <3>2, CloseInv
    <3>4. QED
      BY <3>1, <3>2, <3>3
  <2> HIDE DEF d
  <2>5. /\ clients' \in [Launches -> Clients] /\ clients'[l] = d
        /\ \A k \in Launches \ {l} : clients'[k] = clients[k]
    BY <1>1, <2>2, <2>4 DEF BridgeInv, TwinTypeInv
  <2>6. \A k \in Launches : BridgeInv(clients'[k])
    BY <1>1, <2>4, <2>5
  <2>7. client' # NoBridge /\ client' = l /\ Bridge' = d
    BY <2>2, <2>5, LaunchesAssumption DEF Bridge, Launches, NoBridge
  <2>8. l \notin {client} /\ \A k \in Launches : k # client
    BY <2>1, LaunchesAssumption DEF Launches, NoBridge
  <2>9. OwnerInv'
    BY <1>1, <2>1, <2>3, <2>4, <2>5, <2>7, <2>8 DEF OwnerInv
  <2>10. TwinTypeInv'
    BY <1>1, <2>1, <2>2, <2>3, <2>5 DEF TwinTypeInv, routing, emulation
  <2>11. FreshInv'
    BY <2>1, <2>3, <2>4, <2>7 DEF FreshInv, emulation
  <2>12. ShadowInv'
    BY <2>1, <2>3 DEF ShadowInv
  <2>13. QED
    BY <2>6, <2>9, <2>10, <2>11, <2>12 DEF TransportInv
<1>4. CASE OpenContinues
  <2>1. /\ opening = "boot" /\ client # NoBridge /\ client \in Launches
        /\ shell = "free" /\ mode = "input" /\ ~configured /\ ~enabled /\ ~open
        /\ ~Bridge.rf /\ \A i \in 1..Len(Bridge.asked) : Bridge.asked[i] = "shutdown"
        /\ closing # "client" /\ Bridge.state # "unborn"
        /\ BridgeInv(Bridge) /\ Bridge \in Clients
        /\ UNCHANGED <<client, closing, routing>> /\ UNCHANGED emulation /\ shell' = shell
    BY <1>1, <1>4 DEF OpenContinues, OwnerInv, FreshInv, TwinTypeInv, Bridge
  <2>2. CASE StillWanted
    <3>1. opening' = "none" /\ open' = TRUE /\ clients' = clients
      BY <1>4, <2>2 DEF OpenContinues
    <3>2. Bridge' = Bridge /\ Bridge.state = "ready" /\ closing = "none"
      BY <2>1, <2>2, <3>1 DEF StillWanted, Bridge
    <3>3. Bridge.asked = << >>
      <4>1. \A i \in 1..Len(Bridge.asked) : Bridge.asked[i] # "shutdown"
        BY <2>1, <3>2 DEF BridgeInv
      <4>2. Bridge.asked \in Seq(Methods)
        BY <2>1 DEF Clients
      <4>3. Bridge.asked # << >> => 1 \in 1..Len(Bridge.asked)
        BY <4>2, RestOfAsked
      <4>4. QED
        BY <2>1, <4>1, <4>3
    <3>4. OwnerInv'
      BY <1>1, <2>1, <3>1, <3>2 DEF OwnerInv
    <3>5. TwinTypeInv'
      BY <1>1, <2>1, <3>1 DEF TwinTypeInv, routing, emulation
    <3>6. FreshInv'
      BY <2>1, <3>1 DEF FreshInv
    <3>7. ShadowInv'
      BY <2>1, <3>1, <3>2, <3>3, EmptyIsSeq DEF ShadowInv, emulation
    <3>8. QED
      BY <1>1, <3>1, <3>4, <3>5, <3>6, <3>7 DEF TransportInv
  <2>3. CASE ~StillWanted
    <3> DEFINE d == Close(Bridge)
    <3>1. opening' = "cleanup" /\ open' = FALSE /\ clients' = [clients EXCEPT ![client] = d]
      BY <1>4, <2>3 DEF OpenContinues, Becomes
    <3>2. /\ BridgeInv(d) /\ d.state # "unborn" /\ ~d.rf
          /\ \A i \in 1..Len(d.asked) : d.asked[i] = "shutdown"
      BY <2>1, CloseInv
    <3> HIDE DEF d
    <3>3. /\ clients' \in [Launches -> Clients] /\ clients'[client] = d /\ Bridge' = d
          /\ \A k \in Launches \ {client} : clients'[k] = clients[k]
      BY <1>1, <2>1, <3>1, <3>2 DEF BridgeInv, TwinTypeInv, Bridge
    <3>4. \A k \in Launches : BridgeInv(clients'[k])
      BY <1>1, <3>2, <3>3
    <3>5. OwnerInv'
      BY <1>1, <2>1, <3>1, <3>2, <3>3 DEF OwnerInv
    <3>6. TwinTypeInv'
      BY <1>1, <2>1, <3>1, <3>3 DEF TwinTypeInv, routing, emulation
    <3>7. FreshInv'
      BY <2>1, <3>1, <3>2, <3>3 DEF FreshInv, emulation
    <3>8. ShadowInv'
      BY <3>1 DEF ShadowInv
    <3>9. QED
      BY <3>4, <3>5, <3>6, <3>7, <3>8 DEF TransportInv
  <2>4. QED
    BY <2>2, <2>3
<1>5. QED
  BY <1>2, <1>3, <1>4

LEMMA CloseKeeps ==
  ASSUME TransportInv, CloseBegins \/ OpeningWaited
  PROVE  TransportInv'
<1>1. /\ TwinTypeInv /\ OwnerInv /\ FreshInv /\ ShadowInv
      /\ \A l \in Launches : BridgeInv(clients[l]) /\ clients[l] \in Clients
  BY DEF TransportInv, BridgeInv
<1>2. /\ UNCHANGED <<client, opening>> /\ UNCHANGED emulation /\ shell' = shell /\ ~open'
      /\ open' \in BOOLEAN /\ active' \in BOOLEAN /\ teardownOnly' \in BOOLEAN
      /\ closing' \in {"none", "opening", "client", "boot"}
      /\ closing' = "client" => opening = "none" /\ client # NoBridge
      /\ closing' = "boot" => opening \in {"boot", "cleanup"}
  <2>1. CASE CloseBegins
    BY <1>1, <2>1 DEF CloseBegins, OwnerInv, TwinTypeInv
  <2>2. CASE OpeningWaited
    BY <1>1, <2>2 DEF OpeningWaited, OwnerInv, TwinTypeInv, routing
  <2>3. QED
    BY <2>1, <2>2
<1>3. \/ clients' = clients
      \/ client # NoBridge /\ clients' = [clients EXCEPT ![client] = Close(Bridge)]
  BY DEF CloseBegins, OpeningWaited, Becomes, Bridge
<1>4. /\ \A k \in Launches : BridgeInv(clients'[k])
      /\ clients' \in [Launches -> Clients]
      /\ \A k \in Launches \ {client} : clients'[k] = clients[k]
      /\ client # NoBridge => Bridge'.state # "unborn"
      /\ client # NoBridge /\ opening # "none" =>
           ~Bridge'.rf /\ \A i \in 1..Len(Bridge'.asked) : Bridge'.asked[i] = "shutdown"
  <2>1. CASE clients' = clients
    BY <1>1, <1>2, <2>1 DEF TwinTypeInv, OwnerInv, FreshInv, Bridge
  <2>2. CASE client # NoBridge /\ clients' = [clients EXCEPT ![client] = Close(Bridge)]
    <3> DEFINE d == Close(Bridge)
    <3>1. /\ client \in Launches /\ Bridge.state # "unborn" /\ BridgeInv(Bridge)
          /\ opening # "none" =>
               ~Bridge.rf /\ \A i \in 1..Len(Bridge.asked) : Bridge.asked[i] = "shutdown"
      BY <1>1, <2>2 DEF TwinTypeInv, OwnerInv, FreshInv, Bridge
    <3>2. /\ BridgeInv(d) /\ d.state # "unborn" /\ d.rf = Bridge.rf
          /\ (\A i \in 1..Len(Bridge.asked) : Bridge.asked[i] = "shutdown")
                => \A i \in 1..Len(d.asked) : d.asked[i] = "shutdown"
      BY <3>1, CloseInv
    <3> HIDE DEF d
    <3>3. /\ clients' \in [Launches -> Clients] /\ clients'[client] = d /\ Bridge' = d
          /\ \A k \in Launches \ {client} : clients'[k] = clients[k]
      BY <1>1, <1>2, <2>2, <3>1, <3>2 DEF BridgeInv, TwinTypeInv, Bridge, d
    <3>4. QED
      BY <1>1, <3>1, <3>2, <3>3
  <2>3. QED
    BY <1>3, <2>1, <2>2
<1>5. TwinTypeInv'
  BY <1>1, <1>2, <1>4 DEF TwinTypeInv, emulation
<1>6. OwnerInv'
  BY <1>1, <1>2, <1>4 DEF OwnerInv
<1>7. FreshInv'
  BY <1>1, <1>2, <1>4 DEF FreshInv, emulation
<1>8. ShadowInv'
  BY <1>2 DEF ShadowInv
<1>9. QED
  BY <1>4, <1>5, <1>6, <1>7, <1>8 DEF TransportInv

LEMMA SettlesKeeps ==
  ASSUME TransportInv, CallSettles
  PROVE  TransportInv'
<1>1. /\ TwinTypeInv /\ OwnerInv /\ FreshInv /\ ShadowInv
      /\ \A l \in Launches : BridgeInv(clients[l]) /\ clients[l] \in Clients
  BY DEF TransportInv, BridgeInv
<1>2. /\ client # NoBridge /\ client \in Launches /\ Bridge.call \in {"ok", "failed"}
      /\ opening = "cleanup" \/ closing \in {"boot", "client"}
      /\ BridgeInv(Bridge) /\ Bridge \in Clients /\ Bridge.state # "unborn"
  BY <1>1 DEF CallSettles, TwinTypeInv, OwnerInv, Bridge
<1>3. ~open /\ ~open' /\ open' \in BOOLEAN /\ shell' = shell
  BY <1>1, <1>2 DEF CallSettles, OwnerInv, TwinTypeInv
<1> DEFINE d == IF Bridge.call = "failed" THEN [Bridge EXCEPT !.call = "none"] ELSE Bridge
<1>4. clients' = [clients EXCEPT ![client] = d]
  BY <1>1, <1>2 DEF CallSettles, Becomes, Bridge, TwinTypeInv
<1>5. BridgeInv(d) /\ d.rf = Bridge.rf /\ d.asked = Bridge.asked /\ d.state = Bridge.state
  <2>1. CASE Bridge.call = "failed"
    <3>1. /\ d \in Clients /\ d.call = "none" /\ d.state = Bridge.state /\ d.asked = Bridge.asked
          /\ d.exit = Bridge.exit /\ d.group = Bridge.group /\ d.rf = Bridge.rf
          /\ d.termination = Bridge.termination
      BY <1>2, <2>1 DEF Clients
    <3>2. Bridge.state = "faulted" /\ Bridge.asked = << >>
      BY <1>2, <2>1 DEF BridgeInv
    <3> HIDE DEF d
    <3>3. BridgeInv(d)
      BY <1>2, <3>1, <3>2, EmptyIsSeq DEF BridgeInv
    <3>4. QED
      BY <3>1, <3>3
  <2>2. CASE Bridge.call # "failed"
    BY <1>2, <2>2
  <2>3. QED
    BY <2>1, <2>2
<1> HIDE DEF d
<1>6. /\ clients' \in [Launches -> Clients] /\ clients'[client] = d
      /\ \A k \in Launches \ {client} : clients'[k] = clients[k]
      /\ \A k \in Launches : BridgeInv(clients'[k])
  BY <1>1, <1>2, <1>4, <1>5 DEF BridgeInv, TwinTypeInv
<1>7. /\ client' = IF Bridge.call = "ok" /\ (opening = "cleanup" \/ closing = "client")
                   THEN NoBridge ELSE client
      /\ opening' = IF opening = "cleanup" THEN "none" ELSE opening
      /\ closing' = IF closing = "boot" THEN "opening"
                    ELSE IF closing = "client" THEN "none" ELSE closing
  BY DEF CallSettles, ClientReleased
<1>8. Bridge.call = "ok" => d.state = "closed"
  BY <1>2, <1>5 DEF BridgeInv
<1>9. \A k \in Launches \ {client'} : clients'[k].state \in {"unborn", "closed"}
  BY <1>1, <1>6, <1>7, <1>8 DEF OwnerInv
<1>10. client' = client => Bridge' = d
  BY <1>6 DEF Bridge
<1>11. OwnerInv'
  BY <1>1, <1>2, <1>3, <1>5, <1>7, <1>9, <1>10 DEF OwnerInv
<1>12. /\ active' \in BOOLEAN /\ teardownOnly' \in BOOLEAN
       /\ \/ UNCHANGED emulation
          \/ mode' = "input" /\ configured' = FALSE /\ enabled' = FALSE
       /\ closing = "client" /\ Bridge.call = "ok"
            => mode' = "input" /\ configured' = FALSE /\ enabled' = FALSE
  <2>1. CASE closing = "client" /\ Bridge.call = "ok"
    BY <2>1 DEF CallSettles, ResetEmulatedSession
  <2>2. CASE ~(closing = "client" /\ Bridge.call = "ok")
    <3>1. UNCHANGED <<emulation, active>> /\ teardownOnly' \in {teardownOnly \/ opening = "cleanup"}
      BY <2>2 DEF CallSettles
    <3>2. teardownOnly' \in BOOLEAN
      BY <3>1, Zenon
    <3>3. QED
      BY <1>1, <2>2, <3>1, <3>2 DEF TwinTypeInv
  <2>3. QED
    BY <2>1, <2>2
<1>13. TwinTypeInv'
  BY <1>1, <1>2, <1>3, <1>6, <1>7, <1>12 DEF TwinTypeInv, emulation
<1>14. FreshInv'
  <2>1. client' = NoBridge \/ opening' # "none" => mode' = "input" /\ ~configured' /\ ~enabled'
    BY <1>1, <1>2, <1>7, <1>12 DEF FreshInv, emulation
  <2>2. opening' # "none" => shell' = "free"
    BY <1>1, <1>3, <1>7 DEF FreshInv
  <2>3. opening' # "none" /\ client' # NoBridge => opening # "none" /\ client' = client
    BY <1>7
  <2>4. QED
    BY <1>1, <1>2, <1>5, <1>10, <2>1, <2>2, <2>3 DEF FreshInv
<1>15. ShadowInv'
  BY <1>3 DEF ShadowInv
<1>16. QED
  BY <1>6, <1>11, <1>13, <1>14, <1>15 DEF TransportInv

-----------------------------------------------------------------------------
(* The shell adapter *)

\* A write forwards a request to the open bridge or it changes the adapter alone.
LEMMA ForwardsKeeps ==
  ASSUME TransportInv, Writable, NEW method \in Methods \ {"shutdown"}, Forwards(method),
         UNCHANGED <<client, open, opening, closing, routing>>,
         shell \in {"free", "quiet", "lost"},
         method \in {"on", "configure"} => mode = "output",
         method = "on" => configured
  PROVE  TransportInv'
<1>1. /\ TwinTypeInv /\ OwnerInv /\ FreshInv /\ ShadowInv /\ open
      /\ \A l \in Launches : BridgeInv(clients[l]) /\ clients[l] \in Clients
  BY DEF TransportInv, BridgeInv, Writable
<1>2. /\ client # NoBridge /\ client \in Launches /\ Bridge.state = "ready"
      /\ opening = "none" /\ closing = "none" /\ Bridge = clients[client]
  BY <1>1 DEF OwnerInv, TwinTypeInv, Bridge
<1> DEFINE d == Request(Bridge, method)
<1>3. /\ clients' = [clients EXCEPT ![client] = d] /\ UNCHANGED emulation
      /\ shell' = IF shell = "lost" THEN "lost" ELSE "busy"
  BY <1>2 DEF Forwards, Becomes
<1>4. /\ BridgeInv(d) /\ d.state = "ready" /\ d.rf = Bridge.rf
      /\ d.asked = Append(Bridge.asked, method)
  BY <1>1, <1>2, RequestInv
<1>5. /\ Len(d.asked) = Len(Bridge.asked) + 1 /\ Len(Bridge.asked) \in Nat
      /\ d.asked[Len(Bridge.asked) + 1] = method
      /\ \A i \in 1..Len(Bridge.asked) : d.asked[i] = Bridge.asked[i]
  <2>1. Bridge.asked \in Seq(Methods)
    BY <1>1, <1>2 DEF Clients
  <2>2. QED
    BY <1>4, <2>1, AppendProperties
<1> HIDE DEF d
<1>6. /\ clients' \in [Launches -> Clients]
      /\ \A k \in Launches : BridgeInv(clients'[k])
      /\ OwnerInv' /\ Bridge' = d
  BY <1>2, <1>3, <1>4, OneBridgeMoves
<1>7. TwinTypeInv'
  BY <1>1, <1>3, <1>6 DEF TwinTypeInv, routing, emulation
<1>8. FreshInv'
  BY <1>2 DEF FreshInv
<1>9. ShadowInv'
  <2>1. /\ enabled <=> Bridge.rf
        /\ enabled => mode = "output" /\ configured
        /\ shell \in {"free", "quiet"} => Len(Bridge.asked) = 0
        /\ \A i \in 1..Len(Bridge.asked) :
              /\ Bridge.asked[i] \in {"on", "configure"} => mode = "output"
              /\ Bridge.asked[i] = "on" => configured
    BY <1>1, EmptyIsSeq DEF ShadowInv
  <2>2. \A i \in 1..Len(d.asked) :
              /\ d.asked[i] \in {"on", "configure"} => mode = "output"
              /\ d.asked[i] = "on" => configured
    <3>1. SUFFICES ASSUME NEW i \in 1..Len(d.asked)
                   PROVE  /\ d.asked[i] \in {"on", "configure"} => mode = "output"
                          /\ d.asked[i] = "on" => configured
      OBVIOUS
    <3>2. i \in 1..Len(Bridge.asked) \/ i = Len(Bridge.asked) + 1
      BY <1>5
    <3>3. QED
      BY <1>5, <2>1, <3>2
  <2>3. shell' = "busy" => Len(d.asked) = 1
    BY <1>3, <1>5, <2>1
  <2>4. shell' \notin {"free", "quiet"}
    BY <1>3
  <2>5. QED
    BY <1>3, <1>4, <1>6, <2>1, <2>2, <2>3, <2>4 DEF ShadowInv, emulation
<1>10. QED
  BY <1>6, <1>7, <1>8, <1>9 DEF TransportInv

\* The same for a write the adapter answers of itself
LEMMA AnsweredHereKeeps ==
  ASSUME TransportInv, Writable,
         UNCHANGED <<clients, client, open, opening, closing, routing>>,
         mode' \in {"input", "output"}, configured' \in BOOLEAN, enabled' \in BOOLEAN,
         shell \in {"free", "quiet", "lost"}, shell' \in {"free", "quiet", "lost"},
         shell = "lost" => shell' = "lost" /\ mode' = mode /\ configured' = configured,
         shell' = "quiet" => ~enabled',
         enabled' <=> enabled,
         enabled => mode' = mode /\ configured' = configured
  PROVE  TransportInv'
<1>1. /\ TwinTypeInv /\ OwnerInv /\ ShadowInv /\ open
      /\ \A l \in Launches : BridgeInv(clients[l])
  BY DEF TransportInv, Writable
<1>2. client # NoBridge /\ opening = "none" /\ Bridge' = Bridge
  BY <1>1 DEF OwnerInv, Bridge
<1>3. TwinTypeInv'
  BY <1>1 DEF TwinTypeInv, routing
<1>4. OwnerInv'
  BY <1>1, <1>2 DEF OwnerInv
<1>5. FreshInv'
  BY <1>2 DEF FreshInv
<1>6. ShadowInv'
  BY <1>1, <1>2, EmptyIsSeq DEF ShadowInv
<1>7. QED
  BY <1>1, <1>3, <1>4, <1>5, <1>6 DEF TransportInv

LEMMA DeviceKeeps ==
  ASSUME TransportInv, Device
  PROVE  TransportInv'
<1>1. /\ TwinTypeInv /\ OwnerInv /\ FreshInv /\ ShadowInv
      /\ \A l \in Launches : BridgeInv(clients[l])
  BY DEF TransportInv
<1>2. ASSUME NEW on \in BOOLEAN, WriteOutput(on)
      PROVE  TransportInv'
  <2>1. /\ Writable /\ UNCHANGED <<client, open, opening, closing, routing>> /\ open
        /\ shell \in {"free", "quiet", "lost"}
        /\ on => shell # "lost" /\ mode = "output" /\ configured
    BY <1>1, <1>2 DEF WriteOutput, TwinTypeInv, Writable
  <2>2. CASE mode = "output" /\ configured /\ on # enabled
    <3>1. CASE on
      <4>1. Forwards("on")
        BY <1>2, <2>2, <3>1 DEF WriteOutput
      <4>2. QED
        BY <2>1, <2>2, <4>1, ForwardsKeeps DEF Methods
    <3>2. CASE ~on
      <4>1. Forwards("off")
        BY <1>2, <2>2, <3>2 DEF WriteOutput
      <4>2. QED
        BY <2>1, <2>2, <4>1, ForwardsKeeps DEF Methods
    <3>3. QED
      BY <3>1, <3>2
  <2>3. CASE ~(mode = "output" /\ configured /\ on # enabled)
    <3>1. /\ enabled' = on /\ UNCHANGED <<mode, configured, clients>>
          /\ shell' = IF shell = "lost" THEN "lost" ELSE IF on THEN "free" ELSE "quiet"
      BY <1>2, <2>3 DEF WriteOutput
    <3>2. enabled \in BOOLEAN /\ configured \in BOOLEAN /\ mode \in {"input", "output"}
          /\ (enabled => mode = "output" /\ configured)
      BY <1>1, <2>1 DEF TwinTypeInv, ShadowInv
    <3>3. enabled' <=> enabled
      <4>1. CASE on
        BY <2>1, <2>3, <3>1, <3>2, <4>1
      <4>2. CASE ~on
        BY <2>3, <3>1, <3>2, <4>2
      <4>3. QED
        BY <4>1, <4>2
    <3>4. QED
      BY <2>1, <3>1, <3>2, <3>3, AnsweredHereKeeps
  <2>4. QED
    BY <2>2, <2>3
<1>3. ASSUME NEW m \in {"input", "output"}, WriteMode(m)
      PROVE  TransportInv'
  <2>1. /\ Writable /\ UNCHANGED <<clients, client, open, opening, closing, routing>>
        /\ shell = "quiet" /\ mode' = m /\ enabled' = FALSE /\ shell' = "free" /\ open
    BY <1>3 DEF WriteMode, Writable
  <2>2. configured' \in BOOLEAN
    BY <1>3, Zenon DEF WriteMode
  <2>3. ~enabled
    BY <1>1, <2>1 DEF ShadowInv
  <2>4. QED
    BY <2>1, <2>2, <2>3, AnsweredHereKeeps
<1>4. ASSUME NEW method \in {"configure", "acquire"}, WriteForwarded(method)
      PROVE  TransportInv'
  BY <1>4, ForwardsKeeps DEF WriteForwarded, Methods
<1>5. CASE DeviceGivesUp
  <2>1. /\ UNCHANGED <<clients, client, open, opening, closing, routing>> /\ UNCHANGED emulation
        /\ shell = "busy" /\ shell' = "lost"
    BY <1>5 DEF DeviceGivesUp
  <2>2. Bridge' = Bridge
    BY <2>1 DEF Bridge
  <2>3. TwinTypeInv'
    BY <1>1, <2>1 DEF TwinTypeInv, emulation, routing
  <2>4. OwnerInv'
    BY <1>1, <2>1, <2>2 DEF OwnerInv
  <2>5. FreshInv'
    BY <1>1, <2>1, <2>2 DEF FreshInv, emulation
  <2>6. ShadowInv'
    BY <1>1, <2>1, <2>2 DEF ShadowInv, emulation
  <2>7. QED
    BY <1>1, <2>1, <2>3, <2>4, <2>5, <2>6 DEF TransportInv
<1>6. QED
  BY <1>2, <1>3, <1>4, <1>5 DEF Device

-----------------------------------------------------------------------------
(* The specification *)

LEMMA TransportInvInit == TwinInit => TransportInv
<1> SUFFICES ASSUME TwinInit PROVE TransportInv
  OBVIOUS
<1>1. \A l \in Launches : clients[l] = Unborn
  BY DEF TwinInit
<1>2. \A l \in Launches : BridgeInv(clients[l]) /\ clients[l].state = "unborn"
  BY <1>1, NewBridgeInv DEF Unborn
<1>3. TwinTypeInv
  BY NewBridgeInv DEF TwinInit, TwinTypeInv, BridgeInv
<1>4. OwnerInv
  BY <1>2 DEF TwinInit, OwnerInv
<1>5. FreshInv /\ ShadowInv
  BY DEF TwinInit, FreshInv, ShadowInv
<1>6. QED
  BY <1>2, <1>3, <1>4, <1>5 DEF TransportInv

LEMMA TransportInvNext == TransportInv /\ [TwinNext]_twinVars => TransportInv'
<1> SUFFICES ASSUME TransportInv, [TwinNext]_twinVars PROVE TransportInv'
  OBVIOUS
<1>1. CASE OpenBegins \/ LaunchFails \/ Launched \/ OpenContinues
  BY <1>1, OpenKeeps
<1>2. CASE CloseBegins \/ OpeningWaited
  BY <1>2, CloseKeeps
<1>3. CASE CallSettles
  BY <1>3, SettlesKeeps
<1>4. CASE Device
  BY <1>4, DeviceKeeps
<1>5. ASSUME NEW l \in Launches, Moves(l) PROVE TransportInv'
  BY <1>5, MovesKeeps, RespondsKeeps, RespondsErrorKeeps DEF Moves
<1>6. CASE UNCHANGED twinVars
  <2>1. Bridge' = Bridge
    BY <1>6 DEF Bridge, twinVars
  <2>2. TwinTypeInv' /\ OwnerInv' /\ FreshInv' /\ ShadowInv'
    BY <1>6, <2>1 DEF twinVars, TransportInv, TwinTypeInv, OwnerInv, FreshInv, ShadowInv
  <2>3. QED
    BY <1>6, <2>2 DEF twinVars, TransportInv
<1>7. QED
  BY <1>1, <1>2, <1>3, <1>4, <1>5, <1>6 DEF TwinNext

LEMMA TransportInvHolds == TwinSpec => []TransportInv
  BY TransportInvInit, TransportInvNext, PTL DEF TwinSpec

\* Whatever open() and close() overtake, the transport holds every process group
\* that is alive, and counts no bridge as closed before its group is gone.
THEOREM GroupsStayOwned == TwinSpec => []GroupsAreOwned
<1>1. TransportInv => GroupsAreOwned
  <2> SUFFICES ASSUME TransportInv PROVE GroupsAreOwned
    OBVIOUS
  <2>1. TwinTypeInv /\ OwnerInv /\ \A l \in Launches : BridgeInv(clients[l])
    BY DEF TransportInv
  <2>2. TwinInv
    BY <2>1 DEF TwinTypeInv, OwnerInv, TwinInv
  <2>3. ASSUME NEW l \in Launches
        PROVE  /\ clients[l].group => l = client
               /\ clients[l].state = "closed" => clients[l].exit # "none" /\ ~clients[l].group
    BY <2>1 DEF OwnerInv, BridgeInv, Unborn
  <2>4. QED
    BY <2>2, <2>3 DEF GroupsAreOwned
<1>2. QED
  BY <1>1, TransportInvHolds, PTL

\* Between the requests the adapter's copy of the output is the firmware's.
THEOREM ShadowStaysTrue == TwinSpec => []ShadowAgrees
<1>1. TransportInv => ShadowAgrees
  <2> SUFFICES ASSUME TransportInv, open PROVE enabled = Bridge.rf
    BY DEF ShadowAgrees
  <2>1. (enabled <=> Bridge.rf) /\ enabled \in BOOLEAN /\ client \in Launches
        /\ clients \in [Launches -> Clients]
    BY DEF TransportInv, TwinTypeInv, ShadowInv, OwnerInv
  <2>2. Bridge.rf \in BOOLEAN
    BY <2>1 DEF Bridge, Clients
  <2>3. QED
    BY <2>1, <2>2
<1>2. QED
  BY <1>1, TransportInvHolds, PTL
==============================================================================
