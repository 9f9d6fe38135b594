-------------------- MODULE AtomizerInstrumentHostProofs --------------------
(***************************************************************************)
(* Proofs about the instrument host, for every set of operations and every *)
(* limit of its queue.                                                     *)
(***************************************************************************)
EXTENDS AtomizerInstrumentHost, SequenceTheorems, FiniteSetTheorems, TLAPS

-----------------------------------------------------------------------------
(* Sequences: what RemoveAt leaves, and how many transitions it leaves *)

LEMMA RemoveAtProperties ==
  ASSUME NEW S, NEW s \in Seq(S), NEW i \in 1..Len(s)
  PROVE  /\ RemoveAt(s, i) \in Seq(S) /\ Len(RemoveAt(s, i)) = Len(s) - 1
         /\ \A j \in 1..(Len(s) - 1) : RemoveAt(s, i)[j] = s[IF j < i THEN j ELSE j + 1]
<1> DEFINE a == SubSeq(s, 1, i - 1)
           b == SubSeq(s, i + 1, Len(s))
<1>1. Len(s) \in Nat /\ i \in Int /\ \A j \in 1..Len(s) : s[j] \in S
  BY LenProperties, ElementOfSeq
<1>2. a \in Seq(S) /\ Len(a) = i - 1 /\ \A j \in 1..(i - 1) : a[j] = s[j]
  <2>1. \A j \in 1..(i - 1) : s[j] \in S
    BY <1>1
  <2>2. /\ a \in Seq(S) /\ Len(a) = IF 1 <= i - 1 THEN i - 1 - 1 + 1 ELSE 0
        /\ \A j \in 1..(i - 1 - 1 + 1) : a[j] = s[1 + j - 1]
    BY <1>1, <2>1, SubSeqProperties
  <2> HIDE DEF a
  <2>3. QED
    BY <1>1, <2>2
<1>3. b \in Seq(S) /\ Len(b) = Len(s) - i /\ \A j \in 1..(Len(s) - i) : b[j] = s[i + j]
  <2>1. \A j \in (i + 1)..Len(s) : s[j] \in S
    BY <1>1
  <2>2. /\ b \in Seq(S) /\ Len(b) = IF i + 1 <= Len(s) THEN Len(s) - (i + 1) + 1 ELSE 0
        /\ \A j \in 1..(Len(s) - (i + 1) + 1) : b[j] = s[i + 1 + j - 1]
    BY <1>1, <2>1, SubSeqProperties
  <2> HIDE DEF b
  <2>3. QED
    BY <1>1, <2>2
<1>4. RemoveAt(s, i) = a \o b
  BY DEF RemoveAt
<1> HIDE DEF a, b
<1>5. /\ a \o b \in Seq(S) /\ Len(a \o b) = Len(a) + Len(b)
      /\ \A j \in 1..(Len(a) + Len(b)) : (a \o b)[j] = IF j <= Len(a) THEN a[j] ELSE b[j - Len(a)]
  BY <1>2, <1>3, ConcatProperties
<1>6. Len(a) + Len(b) = Len(s) - 1
  BY <1>1, <1>2, <1>3
<1>7. ASSUME NEW j \in 1..(Len(s) - 1)
      PROVE  (a \o b)[j] = s[IF j < i THEN j ELSE j + 1]
  <2>1. (a \o b)[j] = IF j <= Len(a) THEN a[j] ELSE b[j - Len(a)]
    BY <1>5, <1>6
  <2>2. CASE j < i
    BY <1>1, <1>2, <2>1, <2>2
  <2>3. CASE ~(j < i)
    <3>1. j - Len(a) \in 1..(Len(s) - i) /\ i + (j - Len(a)) = j + 1 /\ ~(j <= Len(a))
      BY <1>1, <1>2, <2>3
    <3>2. (a \o b)[j] = b[j - Len(a)] /\ b[j - Len(a)] = s[i + (j - Len(a))]
      BY <1>3, <2>1, <3>1
    <3>3. QED
      BY <2>3, <3>1, <3>2
  <2>4. QED
    BY <2>2, <2>3
<1>8. QED
  BY <1>4, <1>5, <1>6, <1>7

LEMMA TailIsRemoveAt ==
  ASSUME NEW S, NEW s \in Seq(S), s # << >>
  PROVE  /\ Tail(s) = RemoveAt(s, 1) /\ Head(s) = s[1] /\ Head(s) \in S
         /\ Len(s) \in Nat \ {0} /\ 1 \in 1..Len(s)
<1>1. Len(s) \in Nat \ {0}
  BY EmptySeq
<1>2. /\ Tail(s) \in Seq(S) /\ Len(Tail(s)) = Len(s) - 1 /\ Head(s) \in S
      /\ \A i \in 1..Len(Tail(s)) : Tail(s)[i] = s[i + 1]
  BY HeadTailProperties
<1>3. /\ RemoveAt(s, 1) \in Seq(S) /\ Len(RemoveAt(s, 1)) = Len(s) - 1
      /\ \A j \in 1..(Len(s) - 1) : RemoveAt(s, 1)[j] = s[IF j < 1 THEN j ELSE j + 1]
  BY <1>1, RemoveAtProperties
<1>4. \A j \in 1..(Len(s) - 1) : Tail(s)[j] = RemoveAt(s, 1)[j]
  BY <1>1, <1>2, <1>3
<1>5. Tail(s) = RemoveAt(s, 1)
  BY <1>2, <1>3, <1>4, SeqEqual
<1>6. Head(s) = s[1]
  OBVIOUS
<1>7. QED
  BY <1>1, <1>2, <1>5, <1>6

LEMMA CountType ==
  ASSUME NEW S, NEW s \in Seq(S)
  PROVE  /\ IsFiniteSet(TransitionsAt(s)) /\ TransitionsIn(s) \in Nat
         /\ TransitionsIn(s) <= Len(s)
<1>1. Len(s) \in Nat /\ DOMAIN s = 1..Len(s)
  BY LenProperties
<1>2. IsFiniteSet(1..Len(s)) /\ Cardinality(1..Len(s)) = Len(s)
  BY <1>1, FS_Interval
<1>3. TransitionsAt(s) \in SUBSET (1..Len(s))
  BY <1>1 DEF TransitionsAt
<1>4. IsFiniteSet(TransitionsAt(s)) /\ Cardinality(TransitionsAt(s)) <= Len(s)
  BY <1>2, <1>3, FS_Subset
<1>5. QED
  BY <1>4, FS_CardinalityType DEF TransitionsIn

LEMMA CountEmpty == TransitionsIn(<< >>) = 0
<1>1. TransitionsAt(<< >>) = {}
  BY DEF TransitionsAt
<1>2. QED
  BY <1>1, FS_EmptySet DEF TransitionsIn

LEMMA CountAppend ==
  ASSUME NEW S, NEW s \in Seq(S), NEW e \in S
  PROVE  TransitionsIn(Append(s, e)) = TransitionsIn(s) + OneIf(e.kind \in Transitions)
<1> DEFINE t == Append(s, e)
           n == Len(s)
<1>1. /\ n \in Nat /\ t \in Seq(S) /\ Len(t) = n + 1 /\ t[n + 1] = e
      /\ \A i \in 1..n : t[i] = s[i]
  BY AppendProperties, LenProperties
<1>2. DOMAIN s = 1..n /\ DOMAIN t = 1..(n + 1)
  BY <1>1, LenProperties
<1>3. IsFiniteSet(TransitionsAt(s)) /\ TransitionsIn(s) \in Nat /\ n + 1 \notin TransitionsAt(s)
  <2>1. n + 1 \notin TransitionsAt(s)
    BY <1>1, <1>2 DEF TransitionsAt
  <2>2. QED
    BY <2>1, CountType
<1> HIDE DEF t, n
<1>4. CASE e.kind \in Transitions
  <2>1. TransitionsAt(t) = TransitionsAt(s) \cup {n + 1}
    BY <1>1, <1>2, <1>4 DEF TransitionsAt
  <2>2. Cardinality(TransitionsAt(s) \cup {n + 1}) = Cardinality(TransitionsAt(s)) + 1
    BY <1>3, FS_AddElement
  <2>3. QED
    BY <1>4, <2>1, <2>2 DEF TransitionsIn, OneIf, t
<1>5. CASE e.kind \notin Transitions
  <2>1. TransitionsAt(t) = TransitionsAt(s)
    BY <1>1, <1>2, <1>5 DEF TransitionsAt
  <2>2. QED
    BY <1>3, <1>5, <2>1 DEF TransitionsIn, OneIf, t
<1>6. QED
  BY <1>4, <1>5

LEMMA CountRemoveAt ==
  ASSUME NEW S, NEW s \in Seq(S), NEW i \in 1..Len(s)
  PROVE  TransitionsIn(RemoveAt(s, i)) = TransitionsIn(s) - OneIf(s[i].kind \in Transitions)
<1> DEFINE t == RemoveAt(s, i)
           n == Len(s)
           At(j) == IF j < i THEN j ELSE j + 1
           f == [j \in TransitionsAt(t) |-> At(j)]
           T == TransitionsAt(s) \ {i}
<1>1. /\ n \in Nat /\ t \in Seq(S) /\ Len(t) = n - 1
      /\ \A j \in 1..(n - 1) : t[j] = s[At(j)]
  BY RemoveAtProperties, LenProperties
<1>2. DOMAIN s = 1..n /\ DOMAIN t = 1..(n - 1)
  BY <1>1, LenProperties
<1> HIDE DEF t, n
<1>3. i \in 1..n
  BY DEF n
<1>4. \A j \in TransitionsAt(t) : j \in 1..(n - 1) /\ At(j) \in T
  BY <1>1, <1>2, <1>3 DEF TransitionsAt
<1>5. \A k \in T : \E j \in TransitionsAt(t) : At(j) = k
  <2>1. SUFFICES ASSUME NEW k \in T PROVE \E j \in TransitionsAt(t) : At(j) = k
    OBVIOUS
  <2>2. k \in 1..n /\ k # i /\ s[k].kind \in Transitions
    BY <1>2 DEF TransitionsAt
  <2> DEFINE j == IF k < i THEN k ELSE k - 1
  <2>3. j \in 1..(n - 1) /\ At(j) = k
    BY <1>1, <1>3, <2>2
  <2>4. j \in TransitionsAt(t)
    BY <1>1, <1>2, <2>2, <2>3 DEF TransitionsAt
  <2>5. QED
    BY <2>3, <2>4
<1>6. \A j, k \in TransitionsAt(t) : At(j) = At(k) => j = k
  BY <1>1, <1>3, <1>4
<1>7. f \in Bijection(TransitionsAt(t), T)
  <2> HIDE DEF At, T
  <2>1. f \in [TransitionsAt(t) -> T] /\ \A j \in TransitionsAt(t) : f[j] = At(j)
    BY <1>4
  <2>2. f \in Surjection(TransitionsAt(t), T)
    BY <1>5, <2>1 DEF Surjection
  <2>3. f \in Injection(TransitionsAt(t), T)
    BY <1>6, <2>1 DEF Injection, IsInjective
  <2>4. QED
    BY <2>2, <2>3 DEF Bijection
<1>8. ExistsBijection(TransitionsAt(t), T)
  BY <1>7 DEF ExistsBijection
<1>9. /\ IsFiniteSet(TransitionsAt(t)) /\ IsFiniteSet(TransitionsAt(s))
      /\ Cardinality(TransitionsAt(s)) \in Nat
  <2>1. IsFiniteSet(TransitionsAt(t))
    BY <1>1, CountType
  <2>2. IsFiniteSet(TransitionsAt(s)) /\ TransitionsIn(s) \in Nat
    BY CountType
  <2>3. QED
    BY <2>1, <2>2 DEF TransitionsIn
<1>10. Cardinality(T) = Cardinality(TransitionsAt(t))
  BY <1>8, <1>9, FS_Bijection
<1>11. Cardinality(T) = IF i \in TransitionsAt(s) THEN Cardinality(TransitionsAt(s)) - 1
                                                  ELSE Cardinality(TransitionsAt(s))
  BY <1>9, FS_RemoveElement
<1>12. i \in TransitionsAt(s) <=> s[i].kind \in Transitions
  BY <1>2, <1>3 DEF TransitionsAt
<1>13. QED
  BY <1>9, <1>10, <1>11, <1>12 DEF TransitionsIn, OneIf, t

\* A sequence whose elements keep their kinds keeps its transitions.
LEMMA CountSame ==
  ASSUME NEW s, NEW t, DOMAIN s = DOMAIN t, \A i \in DOMAIN s : s[i].kind = t[i].kind
  PROVE  TransitionsIn(s) = TransitionsIn(t)
<1>1. TransitionsAt(s) = TransitionsAt(t)
  BY DEF TransitionsAt
<1>2. QED
  BY <1>1 DEF TransitionsIn

-----------------------------------------------------------------------------
(* The inductive invariant *)

Bound == Transitions \cup SessionCalls
Leaving == disconnecting # "none" \/ lifecycle # "open"

\* What may be queued: nothing that belongs to a connection is current any
\* more once the host leaves it.
OpsWhen(leaving) ==
    {op \in [kind : Calls \cup {"pump"}, current : BOOLEAN, wait : {"start"}] :
        leaving /\ op.kind \in Bound => ~op.current}

\* What may wait for a run: the same of transitions; a teardown's waiter knows
\* where its promise stands, and once released that no run is left.
WaitersWhen(leaving, disc, shut, on) ==
    {w \in [who : {"transition", "disconnect", "shutdown", "restart"},
            kind : Transitions \cup {"none"}, current : BOOLEAN, ready : BOOLEAN] :
        /\ w.kind \in Transitions <=> w.who = "transition"
        /\ leaving /\ w.who = "transition" => ~w.current
        /\ w.who = "disconnect" => disc = "waiting"
        /\ w.who = "shutdown" => shut = "waiting"
        /\ w.who \in {"disconnect", "shutdown"} /\ w.ready => ~on}

TeardownWaits(ops) == {i \in DOMAIN ops : ops[i].who \in {"disconnect", "shutdown"}}

Runnings ==
    [kind : Calls \cup {"pump", "teardown", "none"}, current : BOOLEAN,
     wait : {"start", "connect", "configure", "acquire", "feature", "discover",
             "load", "save", "disconnect"}]

QueueInv ==
    /\ normal \in Seq(OpsWhen(Leaving)) /\ safety \in BOOLEAN
    /\ running \in Runnings
    /\ Leaving /\ running.kind \in Bound => ~running.current
    /\ answer \in {"none", "ok", "failed"}

WaiterInv ==
    /\ awaiting \in Seq(WaitersWhen(Leaving, disconnecting, shutdown, run.on))
    /\ \A i, j \in TeardownWaits(awaiting) : i = j
    /\ TeardownWaits(awaiting) # {} => pendingSafety = 0

QueuedOps == Len(normal) + OneIf(running.kind \in Calls \cup {"pump"})
QueuedTransitions == TransitionsIn(normal) + OneIf(running.kind \in Transitions)
TeardownQueued == safety \/ running.kind = "teardown"

CountInv ==
    /\ pending = QueuedOps + TransitionsIn(awaiting) /\ pending <= HostLimit
    /\ pendingSafety = OneIf(TeardownQueued)
    /\ blockers = QueuedTransitions + TransitionsIn(awaiting)
                    + OneIf(disconnecting # "none")

LifeInv ==
    /\ lifecycle \in {"open", "closing", "closed"}
    /\ disconnecting \in {"none", "waiting", "teardown", "ok", "failed"}
    /\ shutdown \in {"none", "waiting", "joined", "teardown", "ok", "failed"}
    /\ shutdown = "none" <=> lifecycle = "open"
    /\ lifecycle = "closed" => shutdown = "ok"
    /\ disconnecting # "none" => shutdown \in {"none", "joined"}
    /\ shutdown = "joined" => disconnecting # "none"

\* Where a teardown stands, and what has to be still by then.
Past(states) == disconnecting \in states \/ shutdown \in states

TeardownInv ==
    /\ ~(safety /\ running.kind = "teardown")
    /\ TeardownQueued => Past({"teardown"})
    /\ Past({"teardown", "ok", "failed"}) => ~run.on
    /\ Past({"ok", "failed"}) /\ running.kind \in Bound => running.wait = "start"

StreamInv ==
    /\ run \in [on : BOOLEAN, stop : BOOLEAN, fault : BOOLEAN,
                pump : {"loop", "submitted", "failed"}]
    /\ streaming \in {"stopped", "running", "faulted"}
    /\ NoStreamThroughTransition

AnswerInv ==
    /\ ContractTypeOK
    /\ startup \in {"not-started", "connected", "failed"}
    /\ running.wait = "connect" => running.kind \in Bound
    /\ running.wait = "disconnect" =>
          /\ running.kind = "teardown"
          /\ answer # "none" => answer = settled
          /\ settled = "ok" => sess = "none" /\ cleanup = "none"

MemoryInv ==
    /\ knownCleanup \in {"none", "driver", "rejected"}
    /\ evented \in BOOLEAN /\ accepted \in BOOLEAN /\ echo \in BOOLEAN
    /\ CleanupStateIsFresh
    /\ sess = "configured" /\ echo /\ ~(running.wait = "acquire" /\ answer = "ok")
          => accepted

Core == QueueInv /\ WaiterInv /\ CountInv /\ LifeInv /\ TeardownInv

HostInv == Core /\ StreamInv /\ AnswerInv /\ MemoryInv

-----------------------------------------------------------------------------
(* Kinds, and sequences of what is queued or waits *)

LEMMA KindsApart ==
  /\ "teardown" \notin Calls /\ "pump" \notin Calls /\ "none" \notin Calls
  /\ Transitions \subseteq Calls /\ SessionCalls \subseteq Calls /\ FreeCalls \subseteq Calls
  /\ Transitions \cap (SessionCalls \cup FreeCalls) = {}
  /\ Bound \subseteq Calls /\ "preference" \notin Bound /\ "discover" \notin Bound
  /\ HostLimit \in Nat \ {0}
BY HostAssumption DEF Calls, Bound

LEMMA SeqWithin ==
  ASSUME NEW S, NEW T, NEW s \in Seq(S), \A i \in 1..Len(s) : s[i] \in T
  PROVE  s \in Seq(T)
<1>1. Len(s) \in Nat /\ s = [i \in 1..Len(s) |-> s[i]]
  BY LenProperties
<1>2. [i \in 1..Len(s) |-> s[i]] \in Seq(T)
  BY <1>1, IsASeq
<1>3. QED
  BY <1>1, <1>2

LEMMA SeqGrows ==
  ASSUME NEW S, NEW T, S \subseteq T, NEW s \in Seq(S)
  PROVE  s \in Seq(T)
<1>1. \A i \in 1..Len(s) : s[i] \in S
  BY ElementOfSeq
<1>2. QED
  BY <1>1, SeqWithin

LEMMA SeqOfLength ==
  ASSUME NEW n \in Nat, NEW T, NEW t \in [1..n -> T]
  PROVE  t \in Seq(T) /\ Len(t) = n /\ DOMAIN t = 1..n
<1>1. [i \in 1..n |-> t[i]] \in Seq(T)
  BY IsASeq
<1>2. t \in Seq(T) /\ DOMAIN t = 1..n
  BY <1>1
<1>3. Len(t) = n
  BY <1>2, LenProperties
<1>4. QED
  BY <1>2, <1>3

\* The epoch advances over the queue.
LEMMA OutdateKeeps ==
  ASSUME NEW l \in BOOLEAN, NEW ops \in Seq(OpsWhen(l))
  PROVE  /\ Outdate(ops) \in Seq(OpsWhen(TRUE)) /\ Len(Outdate(ops)) = Len(ops)
         /\ TransitionsIn(Outdate(ops)) = TransitionsIn(ops)
<1>1. \A i \in 1..Len(ops) : ops[i] \in OpsWhen(l)
  BY ElementOfSeq
<1>2. Len(ops) \in Nat /\ DOMAIN ops = 1..Len(ops)
  BY LenProperties
<1>3. Outdate(ops) = [i \in DOMAIN ops |-> Outdate(ops)[i]]
  BY DEF Outdate
<1>4. \A i \in 1..Len(ops) : Outdate(ops)[i] = [ops[i] EXCEPT !.current = FALSE]
  BY <1>2 DEF Outdate
<1>5. \A i \in 1..Len(ops) : /\ [ops[i] EXCEPT !.current = FALSE] \in OpsWhen(TRUE)
                             /\ [ops[i] EXCEPT !.current = FALSE].kind = ops[i].kind
  BY <1>1 DEF OpsWhen
<1>6. /\ Outdate(ops) \in Seq(OpsWhen(TRUE)) /\ Len(Outdate(ops)) = Len(ops)
      /\ DOMAIN Outdate(ops) = DOMAIN ops
  <2>1. Outdate(ops) \in [1..Len(ops) -> OpsWhen(TRUE)]
    BY <1>2, <1>3, <1>4, <1>5
  <2>2. QED
    BY <1>2, <2>1, SeqOfLength
<1>7. TransitionsIn(Outdate(ops)) = TransitionsIn(ops)
  <2>1. /\ DOMAIN Outdate(ops) = DOMAIN ops
        /\ \A i \in DOMAIN Outdate(ops) : Outdate(ops)[i].kind = ops[i].kind
    BY <1>2, <1>4, <1>5, <1>6
  <2>2. QED
    BY <2>1, CountSame, Zenon
<1>8. QED
  BY <1>6, <1>7

\* The epoch advances over what waits; the run ends for what waits.
OutdateWaiters(ws) == [i \in DOMAIN ws |-> [ws[i] EXCEPT !.current = FALSE]]

LEMMA OutdateWaitersKeeps ==
  ASSUME NEW l \in BOOLEAN, NEW d, NEW s, NEW on \in BOOLEAN,
         NEW ws \in Seq(WaitersWhen(l, d, s, on)),
         NEW d2, NEW s2, d = "waiting" => d2 = "waiting", s = "waiting" => s2 = "waiting"
  PROVE  /\ OutdateWaiters(ws) \in Seq(WaitersWhen(TRUE, d2, s2, on))
         /\ Len(OutdateWaiters(ws)) = Len(ws)
         /\ TransitionsIn(OutdateWaiters(ws)) = TransitionsIn(ws)
         /\ TeardownWaits(OutdateWaiters(ws)) = TeardownWaits(ws)
<1> DEFINE t == OutdateWaiters(ws)
           e(i) == [ws[i] EXCEPT !.current = FALSE]
<1>1. \A i \in 1..Len(ws) : ws[i] \in WaitersWhen(l, d, s, on)
  BY ElementOfSeq
<1>2. Len(ws) \in Nat /\ DOMAIN ws = 1..Len(ws)
  BY LenProperties
<1>4. t = [i \in DOMAIN ws |-> t[i]] /\ \A i \in 1..Len(ws) : t[i] = e(i)
  BY <1>2 DEF OutdateWaiters
<1> HIDE DEF t
<1>5. \A i \in 1..Len(ws) : /\ e(i) \in WaitersWhen(TRUE, d2, s2, on)
                            /\ e(i).kind = ws[i].kind /\ e(i).who = ws[i].who
  BY <1>1 DEF WaitersWhen
<1> HIDE DEF e
<1>6. t \in Seq(WaitersWhen(TRUE, d2, s2, on)) /\ Len(t) = Len(ws) /\ DOMAIN t = DOMAIN ws
  <2>1. t \in [1..Len(ws) -> WaitersWhen(TRUE, d2, s2, on)]
    BY <1>2, <1>4, <1>5
  <2>2. QED
    BY <1>2, <2>1, SeqOfLength
<1>7. TransitionsIn(t) = TransitionsIn(ws)
  <2>1. DOMAIN t = DOMAIN ws /\ \A i \in DOMAIN t : t[i].kind = ws[i].kind
    BY <1>2, <1>4, <1>5, <1>6
  <2>2. QED
    BY <2>1, CountSame, Zenon
<1>8. TeardownWaits(t) = TeardownWaits(ws)
  BY <1>2, <1>4, <1>5, <1>6 DEF TeardownWaits
<1>9. QED
  BY <1>6, <1>7, <1>8 DEF t

LEMMA ReleasedKeeps ==
  ASSUME NEW l \in BOOLEAN, NEW d, NEW s, NEW on \in BOOLEAN,
         NEW ws \in Seq(WaitersWhen(l, d, s, on))
  PROVE  /\ Released(ws) \in Seq(WaitersWhen(l, d, s, FALSE))
         /\ Len(Released(ws)) = Len(ws)
         /\ TransitionsIn(Released(ws)) = TransitionsIn(ws)
         /\ TeardownWaits(Released(ws)) = TeardownWaits(ws)
<1> DEFINE t == Released(ws)
           e(i) == [ws[i] EXCEPT !.ready = TRUE]
<1>1. \A i \in 1..Len(ws) : ws[i] \in WaitersWhen(l, d, s, on)
  BY ElementOfSeq
<1>2. Len(ws) \in Nat /\ DOMAIN ws = 1..Len(ws)
  BY LenProperties
<1>4. t = [i \in DOMAIN ws |-> t[i]] /\ \A i \in 1..Len(ws) : t[i] = e(i)
  BY <1>2 DEF Released
<1> HIDE DEF t
<1>5. \A i \in 1..Len(ws) : /\ e(i) \in WaitersWhen(l, d, s, FALSE)
                            /\ e(i).kind = ws[i].kind /\ e(i).who = ws[i].who
  BY <1>1 DEF WaitersWhen
<1> HIDE DEF e
<1>6. /\ t \in Seq(WaitersWhen(l, d, s, FALSE)) /\ Len(t) = Len(ws)
      /\ DOMAIN t = DOMAIN ws
  <2>1. t \in [1..Len(ws) -> WaitersWhen(l, d, s, FALSE)]
    BY <1>2, <1>4, <1>5
  <2>2. QED
    BY <1>2, <2>1, SeqOfLength
<1>7. TransitionsIn(t) = TransitionsIn(ws)
  <2>1. DOMAIN t = DOMAIN ws /\ \A i \in DOMAIN t : t[i].kind = ws[i].kind
    BY <1>2, <1>4, <1>5, <1>6
  <2>2. QED
    BY <2>1, CountSame, Zenon
<1>8. TeardownWaits(t) = TeardownWaits(ws)
  BY <1>2, <1>4, <1>5, <1>6 DEF TeardownWaits
<1>9. QED
  BY <1>6, <1>7, <1>8 DEF t

\* One more waiter: it is the only one of a teardown, or not one at all.
LEMMA AppendWaiter ==
  ASSUME NEW W, NEW ws \in Seq(W), NEW w \in W,
         \A i, j \in TeardownWaits(ws) : i = j,
         w.who \in {"disconnect", "shutdown"} => TeardownWaits(ws) = {}
  PROVE  /\ Append(ws, w) \in Seq(W)
         /\ \A i, j \in TeardownWaits(Append(ws, w)) : i = j
         /\ w.who \notin {"disconnect", "shutdown"} =>
              TeardownWaits(Append(ws, w)) = TeardownWaits(ws)
         /\ TransitionsIn(Append(ws, w)) = TransitionsIn(ws) + OneIf(w.kind \in Transitions)
<1> DEFINE t == Append(ws, w)
           n == Len(ws)
<1>1. /\ n \in Nat /\ t \in Seq(W) /\ Len(t) = n + 1 /\ t[n + 1] = w
      /\ \A i \in 1..n : t[i] = ws[i]
  BY AppendProperties, LenProperties
<1>2. DOMAIN ws = 1..n /\ DOMAIN t = 1..(n + 1)
  BY <1>1, LenProperties
<1>3. TransitionsIn(t) = TransitionsIn(ws) + OneIf(w.kind \in Transitions)
  BY CountAppend
<1> HIDE DEF t, n
<1>4. CASE w.who \in {"disconnect", "shutdown"}
  <2>1. TeardownWaits(t) \subseteq {n + 1}
    BY <1>1, <1>2, <1>4 DEF TeardownWaits
  <2>2. QED
    BY <1>1, <1>3, <1>4, <2>1 DEF t
<1>5. CASE w.who \notin {"disconnect", "shutdown"}
  <2>1. TeardownWaits(t) = TeardownWaits(ws)
    BY <1>1, <1>2, <1>5 DEF TeardownWaits
  <2>2. QED
    BY <1>1, <1>3, <1>5, <2>1 DEF t
<1>6. QED
  BY <1>4, <1>5

\* A waiter resumes: no other one is that of a teardown if it was.
LEMMA RemoveWaiter ==
  ASSUME NEW W, NEW ws \in Seq(W), NEW k \in 1..Len(ws),
         \A i, j \in TeardownWaits(ws) : i = j
  PROVE  /\ RemoveAt(ws, k) \in Seq(W)
         /\ \A i, j \in TeardownWaits(RemoveAt(ws, k)) : i = j
         /\ ws[k].who \in {"disconnect", "shutdown"} => TeardownWaits(RemoveAt(ws, k)) = {}
         /\ TeardownWaits(ws) = {} => TeardownWaits(RemoveAt(ws, k)) = {}
         /\ TransitionsIn(RemoveAt(ws, k)) = TransitionsIn(ws) - OneIf(ws[k].kind \in Transitions)
<1> DEFINE t == RemoveAt(ws, k)
           n == Len(ws)
           At(j) == IF j < k THEN j ELSE j + 1
<1>1. /\ n \in Nat /\ t \in Seq(W) /\ Len(t) = n - 1
      /\ \A j \in 1..(n - 1) : t[j] = ws[At(j)]
  BY RemoveAtProperties, LenProperties
<1>2. DOMAIN ws = 1..n /\ DOMAIN t = 1..(n - 1) /\ k \in 1..n
  BY <1>1, LenProperties
<1>3. TransitionsIn(t) = TransitionsIn(ws) - OneIf(ws[k].kind \in Transitions)
  BY CountRemoveAt
<1> HIDE DEF t, n
<1>4. ASSUME NEW j \in TeardownWaits(t)
      PROVE  j \in 1..(n - 1) /\ At(j) \in TeardownWaits(ws) /\ At(j) # k
  BY <1>1, <1>2 DEF TeardownWaits
<1>5. \A i, j \in TeardownWaits(t) : i = j
  <2>1. SUFFICES ASSUME NEW i \in TeardownWaits(t), NEW j \in TeardownWaits(t) PROVE i = j
    OBVIOUS
  <2>2. At(i) = At(j) /\ i \in Int /\ j \in Int /\ k \in Int
    BY <1>2, <1>4
  <2>3. QED
    BY <2>2, <1>2, <1>4
<1>6. ws[k].who \in {"disconnect", "shutdown"} => TeardownWaits(t) = {}
  BY <1>2, <1>4 DEF TeardownWaits
<1>7. TeardownWaits(ws) = {} => TeardownWaits(t) = {}
  BY <1>4
<1>8. QED
  BY <1>1, <1>3, <1>5, <1>6, <1>7 DEF t

-----------------------------------------------------------------------------
(* The queue *)

\* #drainOperations: what leaves the queue is what runs.
LEMMA DrainFromEffect ==
  ASSUME NEW l \in BOOLEAN, NEW ops \in Seq(OpsWhen(l)), NEW slot \in BOOLEAN,
         DrainFrom(ops, slot)
  PROVE  /\ normal' \in Seq(OpsWhen(l)) /\ safety' = FALSE
         /\ running' \in Runnings /\ running'.wait = "start"
         /\ l /\ running'.kind \in Bound => ~running'.current
         /\ QueuedOps' = Len(ops) /\ QueuedTransitions' = TransitionsIn(ops)
         /\ TeardownQueued' <=> slot
<1>1. Len(ops) \in Nat /\ TransitionsIn(ops) \in Nat
  BY CountType, LenProperties
<1>2. CASE slot
  <2>1. running' = Op("teardown") /\ normal' = ops /\ safety' = FALSE
    BY <1>2 DEF DrainFrom
  <2>2. running' \in Runnings /\ running'.wait = "start" /\ running'.kind = "teardown"
    BY <2>1 DEF Op, Runnings
  <2>3. QED
    BY <1>1, <1>2, <2>1, <2>2, KindsApart
       DEF QueuedOps, QueuedTransitions, TeardownQueued, OneIf
<1>3. CASE ~slot /\ ops = << >>
  <2>1. running' = NoOp /\ normal' = ops /\ safety' = FALSE
    BY <1>3 DEF DrainFrom
  <2>2. running' \in Runnings /\ running'.wait = "start" /\ running'.kind = "none"
    BY <2>1 DEF NoOp, Runnings
  <2>3. QED
    BY <1>1, <1>3, <2>1, <2>2, KindsApart
       DEF QueuedOps, QueuedTransitions, TeardownQueued, OneIf
<1>4. CASE ~slot /\ ops # << >>
  <2>1. running' = Head(ops) /\ normal' = Tail(ops) /\ safety' = FALSE
    BY <1>4 DEF DrainFrom
  <2>2. /\ Tail(ops) = RemoveAt(ops, 1) /\ Head(ops) = ops[1]
        /\ Head(ops) \in OpsWhen(l) /\ 1 \in 1..Len(ops)
    BY <1>4, TailIsRemoveAt
  <2>3. /\ RemoveAt(ops, 1) \in Seq(OpsWhen(l))
        /\ Len(RemoveAt(ops, 1)) = Len(ops) - 1
    BY <2>2, RemoveAtProperties
  <2>4. TransitionsIn(RemoveAt(ops, 1))
          = TransitionsIn(ops) - OneIf(ops[1].kind \in Transitions)
    BY <2>2, CountRemoveAt
  <2>5. /\ Head(ops) \in Runnings /\ Head(ops).wait = "start"
        /\ Head(ops).kind \in Calls \cup {"pump"}
        /\ l /\ Head(ops).kind \in Bound => ~Head(ops).current
    BY <2>2 DEF OpsWhen, Runnings
  <2>6. Head(ops).kind # "teardown"
    BY <2>5, KindsApart
  <2> DEFINE h == Head(ops)
             r == RemoveAt(ops, 1)
  <2>7. /\ running' = h /\ normal' = r /\ safety' = FALSE /\ r \in Seq(OpsWhen(l))
        /\ Len(r) = Len(ops) - 1
        /\ TransitionsIn(r) = TransitionsIn(ops) - OneIf(h.kind \in Transitions)
        /\ h \in Runnings /\ h.wait = "start" /\ h.kind \in Calls \cup {"pump"}
        /\ l /\ h.kind \in Bound => ~h.current
        /\ h.kind # "teardown"
    BY <2>1, <2>2, <2>3, <2>4, <2>5, <2>6
  <2> HIDE DEF h, r
  <2>8. QED
    BY <1>1, <1>4, <2>7 DEF QueuedOps, QueuedTransitions, TeardownQueued, OneIf
<1>5. QED
  BY <1>2, <1>3, <1>4

\* Draining behind a running operation changes nothing of it.
LEMMA DrainEffect ==
  ASSUME NEW l \in BOOLEAN, NEW ops \in Seq(OpsWhen(l)), NEW slot \in BOOLEAN,
         running \in Runnings, l /\ running.kind \in Bound => ~running.current,
         ~(slot /\ running.kind = "teardown"), Drain(ops, slot)
  PROVE  /\ normal' \in Seq(OpsWhen(l)) /\ safety' \in BOOLEAN
         /\ running' \in Runnings /\ running'.wait = running.wait
         /\ running.wait # "start" => running' = running
         /\ l /\ running'.kind \in Bound => ~running'.current
         /\ QueuedOps' = Len(ops) + OneIf(running.kind \in Calls \cup {"pump"})
         /\ QueuedTransitions' = TransitionsIn(ops) + OneIf(running.kind \in Transitions)
         /\ TeardownQueued' <=> slot \/ running.kind = "teardown"
         /\ ~(safety' /\ running'.kind = "teardown")
<1>1. Len(ops) \in Nat /\ TransitionsIn(ops) \in Nat
  BY CountType, LenProperties
<1>2. CASE running = NoOp
  <2>1. DrainFrom(ops, slot)
    BY <1>2 DEF Drain
  <2>2. /\ normal' \in Seq(OpsWhen(l)) /\ safety' = FALSE
        /\ running' \in Runnings /\ running'.wait = "start"
        /\ l /\ running'.kind \in Bound => ~running'.current
        /\ QueuedOps' = Len(ops) /\ QueuedTransitions' = TransitionsIn(ops)
        /\ TeardownQueued' <=> slot
    BY <2>1, DrainFromEffect
  <2>3. running.kind = "none" /\ running.wait = "start"
    BY <1>2 DEF NoOp
  <2>4. running.kind \notin Calls \cup {"pump"} /\ running.kind \notin Transitions
    BY <2>3, KindsApart
  <2>5. /\ QueuedOps' = Len(ops) + OneIf(running.kind \in Calls \cup {"pump"})
        /\ QueuedTransitions' = TransitionsIn(ops) + OneIf(running.kind \in Transitions)
    BY <1>1, <2>2, <2>4 DEF OneIf
  <2>6. running.kind # "teardown" /\ safety' \in BOOLEAN /\ running'.wait = running.wait
    BY <2>2, <2>3
  <2>7. QED
    BY <2>2, <2>3, <2>5, <2>6, Zenon
<1>3. CASE running # NoOp
  <2>1. normal' = ops /\ safety' = slot /\ running' = running
    BY <1>3 DEF Drain
  <2>2. TeardownQueued' <=> slot \/ running.kind = "teardown"
    BY <2>1 DEF TeardownQueued
  <2>3. /\ QueuedOps' = Len(ops) + OneIf(running.kind \in Calls \cup {"pump"})
        /\ QueuedTransitions' = TransitionsIn(ops) + OneIf(running.kind \in Transitions)
    BY <2>1 DEF QueuedOps, QueuedTransitions
  <2>4. /\ normal' \in Seq(OpsWhen(l)) /\ safety' \in BOOLEAN
        /\ running' \in Runnings /\ running'.wait = running.wait
        /\ l /\ running'.kind \in Bound => ~running'.current
        /\ ~(safety' /\ running'.kind = "teardown")
    BY <2>1
  <2>5. QED
    BY <2>1, <2>2, <2>3, <2>4, Zenon
<1>4. QED
  BY <1>2, <1>3

LEMMA EnqueueEffect ==
  ASSUME QueueInv, TeardownInv, NEW op \in OpsWhen(Leaving), Enqueue(op)
  PROVE  /\ normal' \in Seq(OpsWhen(Leaving)) /\ safety' \in BOOLEAN
         /\ running' \in Runnings /\ running'.wait = running.wait
         /\ running.wait # "start" => running' = running
         /\ Leaving /\ running'.kind \in Bound => ~running'.current
         /\ answer' = answer
         /\ QueuedOps' = QueuedOps + 1
         /\ QueuedTransitions' = QueuedTransitions + OneIf(op.kind \in Transitions)
         /\ TeardownQueued' <=> TeardownQueued
         /\ ~(safety' /\ running'.kind = "teardown")
<1> DEFINE l == Leaving
           ops == Append(normal, op)
<1>1. l \in BOOLEAN /\ normal \in Seq(OpsWhen(l)) /\ op \in OpsWhen(l)
  BY DEF Leaving, QueueInv
<1>2. ops \in Seq(OpsWhen(l)) /\ Len(ops) = Len(normal) + 1
  BY <1>1, AppendProperties
<1>3. TransitionsIn(ops) = TransitionsIn(normal) + OneIf(op.kind \in Transitions)
  BY <1>1, CountAppend
<1>4. /\ safety \in BOOLEAN /\ running \in Runnings /\ ~(safety /\ running.kind = "teardown")
      /\ l /\ running.kind \in Bound => ~running.current
  BY DEF QueueInv, TeardownInv
<1>5. Drain(ops, safety) /\ answer' = answer
  BY DEF Enqueue
<1>6. Len(normal) \in Nat /\ TransitionsIn(normal) \in Nat
  BY <1>1, CountType, LenProperties
<1> HIDE DEF l, ops
<1>7. /\ normal' \in Seq(OpsWhen(l)) /\ safety' \in BOOLEAN
      /\ running' \in Runnings /\ running'.wait = running.wait
      /\ running.wait # "start" => running' = running
      /\ l /\ running'.kind \in Bound => ~running'.current
      /\ QueuedOps' = Len(ops) + OneIf(running.kind \in Calls \cup {"pump"})
      /\ QueuedTransitions' = TransitionsIn(ops) + OneIf(running.kind \in Transitions)
      /\ TeardownQueued' <=> safety \/ running.kind = "teardown"
      /\ ~(safety' /\ running'.kind = "teardown")
  BY <1>1, <1>2, <1>4, <1>5, DrainEffect
<1>8. QueuedOps' = QueuedOps + 1
  BY <1>2, <1>6, <1>7 DEF QueuedOps, OneIf
<1>9. QueuedTransitions' = QueuedTransitions + OneIf(op.kind \in Transitions)
  BY <1>3, <1>6, <1>7 DEF QueuedTransitions, OneIf
<1>10. TeardownQueued' <=> TeardownQueued
  BY <1>7 DEF TeardownQueued
<1>11. QED
  BY <1>5, <1>7, <1>8, <1>9, <1>10 DEF l

-----------------------------------------------------------------------------
(* What the steps have in common.  An operation settles, calls something, or *)
(* is answered.                                                              *)

\* Nothing about the waiters and the promises changes.
LEMMA LifeKept ==
  ASSUME Core, UNCHANGED <<lifecycle, awaiting, disconnecting, shutdown>>,
         run'.on = run.on, TeardownQueued' => TeardownQueued, pendingSafety' = pendingSafety
  PROVE  /\ WaiterInv' /\ LifeInv' /\ (Leaving' <=> Leaving)
         /\ TeardownQueued' => Past({"teardown"})'
         /\ Past({"teardown", "ok", "failed"})' => ~run'.on
         /\ Past({"ok", "failed"})' <=> Past({"ok", "failed"})
<1>1. LifeInv'
  BY DEF Core, LifeInv
<1>2. Leaving' <=> Leaving
  BY DEF Leaving
<1>3. WaiterInv'
  <2>1. /\ awaiting' = awaiting
        /\ WaitersWhen(Leaving, disconnecting, shutdown, run.on)
             = WaitersWhen(Leaving', disconnecting', shutdown', run'.on)
    BY <1>2 DEF WaitersWhen
  <2> DEFINE W == WaitersWhen(Leaving', disconnecting', shutdown', run'.on)
  <2>2. /\ awaiting \in Seq(W) /\ \A i, j \in TeardownWaits(awaiting) : i = j
        /\ TeardownWaits(awaiting) # {} => pendingSafety = 0
    BY <2>1 DEF Core, WaiterInv
  <2>3. awaiting' \in Seq(W)
    BY <2>1, <2>2
  <2>4. /\ \A i, j \in TeardownWaits(awaiting') : i = j
        /\ TeardownWaits(awaiting') # {} => pendingSafety' = 0
    <3> HIDE DEF W
    <3>1. QED
      BY <2>1, <2>2
  <2>5. QED
    BY <2>3, <2>4 DEF WaiterInv
<1>4. /\ TeardownQueued' => Past({"teardown"})'
      /\ Past({"teardown", "ok", "failed"})' => ~run'.on
      /\ Past({"ok", "failed"})' <=> Past({"ok", "failed"})
  <2>1. \A states : Past(states)' <=> Past(states)
    BY DEF Past
  <2>2. QED
    BY <2>1 DEF Core, TeardownInv
<1>5. QED
  BY <1>1, <1>2, <1>3, <1>4

LEMMA SettleKeepsCore ==
  ASSUME Core, Settle, KeepLife, run'.on = run.on, running.kind \in Calls \cup {"pump"}
  PROVE  Core' /\ running'.wait = "start" /\ answer' = "none"
<1>1. /\ normal \in Seq(OpsWhen(Leaving)) /\ Leaving \in BOOLEAN /\ safety \in BOOLEAN
      /\ Len(normal) \in Nat /\ TransitionsIn(normal) \in Nat
      /\ awaiting \in Seq(WaitersWhen(Leaving, disconnecting, shutdown, run.on))
  <2>1. normal \in Seq(OpsWhen(Leaving)) /\ Leaving \in BOOLEAN /\ safety \in BOOLEAN
    BY DEF Core, QueueInv, Leaving
  <2>2. QED
    BY <2>1, CountType, LenProperties DEF Core, WaiterInv
<1>2. TransitionsIn(awaiting) \in Nat
  BY <1>1, CountType
<1>3. /\ normal' \in Seq(OpsWhen(Leaving)) /\ safety' = FALSE
      /\ running' \in Runnings /\ running'.wait = "start"
      /\ Leaving /\ running'.kind \in Bound => ~running'.current
      /\ QueuedOps' = Len(normal) /\ QueuedTransitions' = TransitionsIn(normal)
      /\ TeardownQueued' <=> safety
  BY <1>1, DrainFromEffect DEF Settle
<1>4. running.kind # "teardown" /\ (TeardownQueued <=> safety)
  BY KindsApart DEF TeardownQueued
<1>5. /\ answer' = "none" /\ pending' = pending - 1 /\ pendingSafety' = pendingSafety
      /\ blockers' = blockers - OneIf(running.kind \in Transitions)
  <2>1. blockers \in Int
    BY <1>1, <1>2 DEF Core, CountInv, QueuedTransitions, OneIf
  <2>2. QED
    BY <1>4, <2>1 DEF Settle, OneIf
<1>6. /\ UNCHANGED <<lifecycle, awaiting, disconnecting, shutdown>>
      /\ TeardownQueued' => TeardownQueued
  BY <1>3, <1>4 DEF KeepLife
<1>7. /\ WaiterInv' /\ LifeInv' /\ (Leaving' <=> Leaving)
      /\ TeardownQueued' => Past({"teardown"})'
      /\ Past({"teardown", "ok", "failed"})' => ~run'.on
  BY <1>5, <1>6, LifeKept
<1>8. QueueInv'
  <2>1. Leaving' = Leaving
    BY <1>6 DEF Leaving
  <2>2. QED
    BY <1>3, <1>5, <2>1 DEF QueueInv
<1>9. CountInv'
  <2>1. QueuedOps = QueuedOps' + 1 /\ QueuedOps' \in Nat
    BY <1>1, <1>3 DEF QueuedOps, OneIf
  <2>2. /\ QueuedTransitions = QueuedTransitions' + OneIf(running.kind \in Transitions)
        /\ QueuedTransitions' \in Nat
    BY <1>1, <1>3 DEF QueuedTransitions, OneIf
  <2>3. /\ pending = QueuedOps + TransitionsIn(awaiting) /\ pending <= HostLimit
        /\ pendingSafety = OneIf(TeardownQueued)
        /\ blockers = QueuedTransitions + TransitionsIn(awaiting) + OneIf(disconnecting # "none")
    BY DEF Core, CountInv
  <2>4. pending' = QueuedOps' + TransitionsIn(awaiting) /\ pending' <= HostLimit
    BY <1>2, <1>5, <2>1, <2>3, KindsApart
  <2>5. blockers' = QueuedTransitions' + TransitionsIn(awaiting) + OneIf(disconnecting # "none")
    BY <1>2, <1>5, <2>2, <2>3 DEF OneIf
  <2>6. pendingSafety' = OneIf(TeardownQueued')
    BY <1>3, <1>4, <1>5, <2>3 DEF OneIf
  <2>7. QED
    BY <1>6, <2>4, <2>5, <2>6 DEF CountInv
<1>10. TeardownInv'
  BY <1>3, <1>7 DEF TeardownInv
<1>11. QED
  BY <1>3, <1>5, <1>7, <1>8, <1>9, <1>10 DEF Core

LEMMA AwaitsKeepsCore ==
  ASSUME Core, NEW wait, NEW result \in {"none", "ok", "failed"}, Awaits(wait, result),
         wait \in {"connect", "configure", "acquire", "feature", "discover", "load",
                   "save", "disconnect"},
         KeepLife, run'.on = run.on, running.kind \in Bound => ~Past({"ok", "failed"})
  PROVE  Core' /\ running'.wait = wait /\ running'.kind = running.kind /\ answer' = result
<1>1. /\ running \in Runnings /\ running' = [running EXCEPT !.wait = wait]
      /\ answer' = result
      /\ UNCHANGED <<normal, safety, pending, pendingSafety, blockers>>
  BY DEF Awaits, Core, QueueInv
<1>2. /\ running' \in Runnings /\ running'.wait = wait /\ running'.kind = running.kind
      /\ running'.current = running.current
  BY <1>1 DEF Runnings
<1>3. QueuedOps' = QueuedOps /\ QueuedTransitions' = QueuedTransitions
  BY <1>1, <1>2 DEF QueuedOps, QueuedTransitions
<1>4. TeardownQueued' <=> TeardownQueued
  BY <1>1, <1>2 DEF TeardownQueued
<1>5. UNCHANGED <<lifecycle, awaiting, disconnecting, shutdown>>
  BY DEF KeepLife
<1>6. /\ WaiterInv' /\ LifeInv' /\ (Leaving' <=> Leaving)
      /\ TeardownQueued' => Past({"teardown"})'
      /\ Past({"teardown", "ok", "failed"})' => ~run'.on
      /\ Past({"ok", "failed"})' <=> Past({"ok", "failed"})
  BY <1>1, <1>4, <1>5, LifeKept
<1>7. QueueInv'
  <2>1. Leaving' = Leaving
    BY <1>5 DEF Leaving
  <2>2. QED
    BY <1>1, <1>2, <2>1 DEF Core, QueueInv
<1>8. CountInv'
  <2>1. OneIf(TeardownQueued') = OneIf(TeardownQueued)
    BY <1>4 DEF OneIf
  <2>2. QED
    BY <1>1, <1>3, <1>5, <2>1 DEF Core, CountInv
<1>9. TeardownInv'
  BY <1>1, <1>2, <1>6 DEF Core, TeardownInv
<1>10. QED
  BY <1>1, <1>2, <1>6, <1>7, <1>8, <1>9 DEF Core

LEMMA AnswersKeepCore ==
  ASSUME Core, UNCHANGED <<normal, safety, running, pending, pendingSafety>>,
         answer' \in {"none", "ok", "failed"}, UNCHANGED lifeVars, run'.on = run.on
  PROVE  Core'
<1>1. UNCHANGED <<lifecycle, awaiting, disconnecting, shutdown, blockers>>
  BY DEF lifeVars
<1>2. /\ TeardownQueued' <=> TeardownQueued
      /\ QueuedOps' = QueuedOps /\ QueuedTransitions' = QueuedTransitions
  BY DEF TeardownQueued, QueuedOps, QueuedTransitions
<1>3. /\ WaiterInv' /\ LifeInv' /\ (Leaving' <=> Leaving)
      /\ TeardownQueued' => Past({"teardown"})'
      /\ Past({"teardown", "ok", "failed"})' => ~run'.on
      /\ Past({"ok", "failed"})' <=> Past({"ok", "failed"})
  BY <1>1, <1>2, LifeKept
<1>4. QueueInv'
  <2>1. Leaving' = Leaving
    BY <1>1 DEF Leaving
  <2>2. QED
    BY <2>1 DEF Core, QueueInv
<1>5. CountInv'
  <2>1. OneIf(TeardownQueued') = OneIf(TeardownQueued)
    BY <1>2 DEF OneIf
  <2>2. QED
    BY <1>1, <1>2, <2>1 DEF Core, CountInv
<1>6. TeardownInv'
  BY <1>1, <1>3 DEF Core, TeardownInv
<1>7. QED
  BY <1>3, <1>4, <1>5, <1>6 DEF Core

LEMMA CountersAreNatural ==
  ASSUME Core
  PROVE  /\ blockers \in Nat /\ pending \in Nat /\ pendingSafety \in {0, 1}
         /\ TransitionsIn(awaiting) \in Nat /\ QueuedOps \in Nat /\ QueuedTransitions \in Nat
         /\ QueuedTransitions <= QueuedOps
<1>1. /\ Len(normal) \in Nat /\ TransitionsIn(normal) \in Nat
      /\ TransitionsIn(normal) <= Len(normal) /\ TransitionsIn(awaiting) \in Nat
  BY CountType, LenProperties DEF Core, QueueInv, WaiterInv
<1>2. running.kind \in Transitions => running.kind \in Calls \cup {"pump"}
  BY KindsApart
<1>3. /\ QueuedOps \in Nat /\ QueuedTransitions \in Nat
      /\ QueuedTransitions <= QueuedOps
  BY <1>1, <1>2 DEF QueuedOps, QueuedTransitions, OneIf
<1>4. /\ blockers \in Nat /\ pending \in Nat /\ pendingSafety \in {0, 1}
  BY <1>1, <1>3 DEF Core, CountInv, OneIf
<1>5. QED
  BY <1>1, <1>3, <1>4

LEMMA StreamKept ==
  ASSUME StreamInv, streaming' = streaming, run' = run,
         blockers' > 0 \/ lifecycle' # "open" =>
            blockers > 0 \/ lifecycle # "open" \/ ~run.on
  PROVE  StreamInv'
BY DEF StreamInv, NoStreamThroughTransition

\* A run that has been told to stop is no stream any more.
LEMMA StopKeepsStream ==
  ASSUME StreamInv, RequestStop
  PROVE  StreamInv' /\ run'.on = run.on
<1>1. run \in [on : BOOLEAN, stop : BOOLEAN, fault : BOOLEAN,
               pump : {"loop", "submitted", "failed"}]
  BY DEF StreamInv
<1>2. streaming' \in {"stopped", "running", "faulted"}
  BY DEF StreamInv, RequestStop
<1>3. CASE run.on
  <2>1. run' = [run EXCEPT !.stop = TRUE]
    BY <1>3 DEF RequestStop
  <2>2. /\ run' \in [on : BOOLEAN, stop : BOOLEAN, fault : BOOLEAN,
                     pump : {"loop", "submitted", "failed"}]
        /\ run'.on = run.on /\ run'.stop
    BY <1>1, <2>1
  <2>3. QED
    BY <1>2, <2>2 DEF StreamInv, NoStreamThroughTransition
<1>4. CASE ~run.on
  <2>1. run' = run
    BY <1>4 DEF RequestStop
  <2>2. QED
    BY <1>1, <1>2, <1>4, <2>1 DEF StreamInv, NoStreamThroughTransition
<1>5. QED
  BY <1>3, <1>4

\* The operation under way stays where it is, or one begins.
LEMMA RestKept ==
  ASSUME AnswerInv, MemoryInv, running'.wait = running.wait,
         running.wait # "start" => running'.kind = running.kind,
         answer' = answer, UNCHANGED restVars
  PROVE  AnswerInv' /\ MemoryInv'
<1>1. UNCHANGED <<startup, knownCleanup, evented, accepted, echo, sess, cleanup, settled>>
  BY DEF restVars, measurementVars, contractVars
<1>2. AnswerInv'
  BY <1>1 DEF AnswerInv, ContractTypeOK
<1>3. MemoryInv'
  BY <1>1 DEF MemoryInv, CleanupStateIsFresh
<1>4. QED
  BY <1>2, <1>3

LEMMA RestSettled ==
  ASSUME AnswerInv, MemoryInv, running'.wait = "start", UNCHANGED contractVars,
         startup' \in {"not-started", "connected", "failed"},
         \/ knownCleanup' = cleanup
         \/ running.wait \notin {"connect", "disconnect"} /\ knownCleanup' = knownCleanup,
         evented' \in BOOLEAN /\ accepted' \in BOOLEAN /\ echo' = echo,
         sess = "configured" /\ echo => accepted'
  PROVE  AnswerInv' /\ MemoryInv'
<1>1. UNCHANGED <<sess, cleanup, settled>>
  BY DEF contractVars
<1>2. AnswerInv'
  BY <1>1 DEF AnswerInv, ContractTypeOK
<1>3. knownCleanup' = cleanup /\ cleanup \in {"none", "driver", "rejected"}
  BY DEF MemoryInv, CleanupStateIsFresh, AnswerInv, ContractTypeOK
<1>4. MemoryInv'
  BY <1>1, <1>3 DEF MemoryInv, CleanupStateIsFresh
<1>5. QED
  BY <1>2, <1>4

\* An operation settles: it has told what it knows of the cleanup and of the
\* measurement, if it was of the kind that learns of it.
LEMMA SettleKeepsInv ==
  ASSUME HostInv, Settle, KeepLife, running.kind \in Calls \cup {"pump"},
         run' \in [on : BOOLEAN, stop : BOOLEAN, fault : BOOLEAN,
                   pump : {"loop", "submitted", "failed"}],
         run'.on = run.on, run'.stop = run.stop, streaming' = streaming,
         UNCHANGED contractVars,
         startup' \in {"not-started", "connected", "failed"},
         \/ knownCleanup' = cleanup
         \/ running.wait \notin {"connect", "disconnect"} /\ knownCleanup' = knownCleanup,
         \/ running.wait # "acquire" /\ UNCHANGED measurementVars
         \/ running.wait = "acquire" /\ answer # "none" /\ Accept
  PROVE  HostInv'
<1>1. Core' /\ running'.wait = "start" /\ answer' = "none"
  BY SettleKeepsCore DEF HostInv
<1>2. StreamInv'
  <2>1. blockers' > 0 => blockers > 0
    <3>1. blockers \in Nat
      BY CountersAreNatural DEF HostInv
    <3>2. QED
      BY <3>1 DEF Settle
  <2>2. lifecycle' = lifecycle
    BY DEF KeepLife
  <2>3. QED
    BY <2>1, <2>2 DEF HostInv, StreamInv, NoStreamThroughTransition
<1>3. evented' \in BOOLEAN /\ accepted' \in BOOLEAN /\ echo' = echo
      /\ (sess = "configured" /\ echo => accepted')
  <2>1. /\ evented \in BOOLEAN /\ accepted \in BOOLEAN /\ echo \in BOOLEAN
        /\ sess = "configured" /\ echo /\ ~(running.wait = "acquire" /\ answer = "ok")
             => accepted
    BY DEF HostInv, MemoryInv
  <2>2. QED
    BY <2>1 DEF measurementVars, Accept
<1>4. AnswerInv' /\ MemoryInv'
  BY <1>1, <1>3, RestSettled DEF HostInv
<1>5. QED
  BY <1>1, <1>2, <1>4 DEF HostInv

LEMMA AwaitsKeepsInv ==
  ASSUME HostInv, NEW wait, NEW result \in {"none", "ok", "failed"}, Awaits(wait, result),
         wait \in {"connect", "configure", "acquire", "feature", "discover", "load", "save"},
         KeepLife, UNCHANGED streamVars, running.kind \in Bound => ~Past({"ok", "failed"}),
         UNCHANGED contractVars, UNCHANGED measurementVars, startup' = startup,
         knownCleanup' \in {knownCleanup, cleanup}, wait = "connect" => running.kind \in Bound,
         running.wait \notin {"connect", "acquire", "disconnect"}
  PROVE  HostInv' /\ running'.wait = wait /\ running'.kind = running.kind /\ answer' = result
<1>1. run' = run /\ streaming' = streaming
  BY DEF streamVars
<1>2. Core' /\ running'.wait = wait /\ running'.kind = running.kind /\ answer' = result
  BY <1>1, AwaitsKeepsCore DEF HostInv
<1>3. StreamInv'
  <2>1. blockers' = blockers /\ lifecycle' = lifecycle
    BY DEF Awaits, KeepLife
  <2>2. QED
    BY <1>1, <2>1, StreamKept DEF HostInv
<1>4. UNCHANGED <<sess, cleanup, settled, evented, accepted, echo>>
  BY DEF contractVars, measurementVars
<1>5. AnswerInv'
  BY <1>2, <1>4 DEF HostInv, AnswerInv, ContractTypeOK
<1>6. MemoryInv'
  <2>1. knownCleanup' = cleanup /\ cleanup \in {"none", "driver", "rejected"}
    BY DEF HostInv, MemoryInv, CleanupStateIsFresh, AnswerInv, ContractTypeOK
  <2>2. QED
    BY <1>4, <2>1 DEF HostInv, MemoryInv, CleanupStateIsFresh
<1>7. QED
  BY <1>2, <1>3, <1>5, <1>6 DEF HostInv

-----------------------------------------------------------------------------
(* The steps of an operation *)

LEMMA KindsOfOperations ==
  ASSUME running \in Runnings
  PROVE  /\ running.kind \in {"connect", "configure", "mode", "startup"} =>
              running.kind \in Transitions /\ running.kind \in Bound /\ running.kind \in Calls
         /\ running.kind \in {"acquire", "feature"} =>
              running.kind \in Bound /\ running.kind \in Calls
         /\ running.kind \in {"discover", "preference"} =>
              running.kind \notin Bound /\ running.kind \in Calls
         /\ running.kind \in {"pump", "teardown", "none"} =>
              running.kind \notin Bound /\ running.kind \notin Calls
         /\ running.kind \in Calls => running.kind \notin {"pump", "teardown", "none"}
BY HostAssumption DEF Runnings, Calls, Bound

\* What the queued closure's checks say of the host.
LEMMA AdmittedIsNotLeaving ==
  ASSUME Core, lifecycle = "open", running.kind \in Bound => running.current
  PROVE  running.kind \in Bound => ~Past({"ok", "failed"})
<1>1. running.kind \in Bound => ~Leaving
  BY DEF Core, QueueInv
<1>2. ~Leaving => disconnecting = "none" /\ shutdown = "none"
  BY DEF Leaving, Core, LifeInv
<1>3. QED
  BY <1>1, <1>2 DEF Past

LEMMA EndsAtStartKeeps ==
  ASSUME HostInv, EndsAtStart PROVE HostInv'
<1>1. /\ running.kind \in Calls /\ running.wait = "start" /\ Settle /\ KeepLife
      /\ UNCHANGED <<run, streaming, startup, knownCleanup, contractVars>>
      /\ UNCHANGED measurementVars
  BY DEF EndsAtStart, Starting, streamVars, restVars
<1>2. /\ run \in [on : BOOLEAN, stop : BOOLEAN, fault : BOOLEAN,
                  pump : {"loop", "submitted", "failed"}]
      /\ startup \in {"not-started", "connected", "failed"}
  BY DEF HostInv, StreamInv, AnswerInv
<1>3. QED
  BY <1>1, <1>2, SettleKeepsInv

LEMMA CallsManagerKeeps ==
  ASSUME HostInv, NEW kind, NEW wait, CallsManager(kind, wait),
         wait \in {"connect", "configure", "acquire", "feature", "discover", "load"},
         wait = "connect" => kind = "connect"
  PROVE  HostInv'
<1> DEFINE result == IF wait = "connect" /\ ~Connectable THEN "failed" ELSE "none"
<1>1. /\ running.kind = kind /\ running.wait = "start" /\ Admitted /\ Awaits(wait, result)
      /\ KeepLife /\ UNCHANGED streamVars /\ UNCHANGED <<startup, knownCleanup>>
      /\ UNCHANGED contractVars /\ UNCHANGED measurementVars
  BY DEF CallsManager, Starting, restVars
<1>2. result \in {"none", "ok", "failed"}
  OBVIOUS
<1> HIDE DEF result
<1>3. running.kind \in Bound => ~Past({"ok", "failed"})
  BY <1>1, AdmittedIsNotLeaving DEF Admitted, Bound, HostInv
<1>4. wait = "connect" => running.kind \in Bound
  BY <1>1, KindsOfOperations DEF HostInv, Core, QueueInv
<1>5. QED
  BY <1>1, <1>2, <1>3, <1>4, AwaitsKeepsInv

LEMMA BeginPumpKeeps ==
  ASSUME HostInv, BeginPump PROVE HostInv'
<1>1. /\ running.kind = "pump" /\ running.wait = "start"
      /\ KeepLife /\ UNCHANGED <<streaming, startup, knownCleanup>>
      /\ UNCHANGED contractVars /\ UNCHANGED measurementVars
  BY DEF BeginPump, Starting, restVars
<1>2. /\ run \in [on : BOOLEAN, stop : BOOLEAN, fault : BOOLEAN,
                  pump : {"loop", "submitted", "failed"}]
      /\ startup \in {"not-started", "connected", "failed"}
  BY DEF HostInv, StreamInv, AnswerInv
<1>3. running.kind \notin Bound
  BY <1>1, KindsApart
<1>4. CASE Admitted /\ ~run.stop
  <2>1. Awaits("acquire", "none") /\ UNCHANGED streamVars
    BY <1>1, <1>4 DEF BeginPump, streamVars
  <2>2. QED
    BY <1>1, <1>3, <2>1, AwaitsKeepsInv
<1>5. CASE ~(Admitted /\ ~run.stop)
  <2>1. /\ Settle
        /\ run' = [run EXCEPT !.pump = IF Admitted THEN "loop" ELSE "failed"]
    BY <1>5 DEF BeginPump
  <2>2. /\ run' \in [on : BOOLEAN, stop : BOOLEAN, fault : BOOLEAN,
                     pump : {"loop", "submitted", "failed"}]
        /\ run'.on = run.on /\ run'.stop = run.stop
    BY <1>2, <2>1
  <2>3. QED
    BY <1>1, <1>2, <2>1, <2>2, SettleKeepsInv
<1>6. QED
  BY <1>4, <1>5

LEMMA BeginTeardownKeeps ==
  ASSUME HostInv, BeginTeardown PROVE HostInv'
<1>1. /\ running.kind = "teardown" /\ running.wait = "start" /\ Awaits("disconnect", "none")
      /\ KeepLife /\ UNCHANGED <<run, streaming, startup, knownCleanup>>
      /\ UNCHANGED <<evented, accepted, echo, sess, cleanup>> /\ settled' = "none"
  BY DEF BeginTeardown, Starting, DisconnectCalled, streamVars, measurementVars
<1>2. running.kind \notin Bound
  BY <1>1, KindsApart
<1>3. /\ Core' /\ running'.wait = "disconnect" /\ running'.kind = "teardown"
      /\ answer' = "none"
  BY <1>1, <1>2, AwaitsKeepsCore DEF HostInv
<1>4. StreamInv'
  <2>1. blockers' = blockers /\ lifecycle' = lifecycle
    BY <1>1 DEF Awaits, KeepLife
  <2>2. QED
    BY <1>1, <2>1, StreamKept DEF HostInv
<1>5. AnswerInv'
  BY <1>1, <1>3 DEF HostInv, AnswerInv, ContractTypeOK
<1>6. MemoryInv'
  BY <1>1, <1>3 DEF HostInv, MemoryInv, CleanupStateIsFresh
<1>7. QED
  BY <1>3, <1>4, <1>5, <1>6 DEF HostInv

LEMMA OperationEndsKeeps ==
  ASSUME HostInv, OperationEnds PROVE HostInv'
<1>1. /\ running.kind \in Calls /\ running.wait \in {"configure", "feature", "save", "discover"}
      /\ Settle /\ KeepLife
      /\ UNCHANGED <<run, streaming, startup, knownCleanup, contractVars>>
      /\ UNCHANGED measurementVars
  <2>1. running \in Runnings
    BY DEF HostInv, Core, QueueInv
  <2>2. QED
    BY <2>1, KindsOfOperations DEF OperationEnds, Answered, streamVars, restVars
<1>2. /\ run \in [on : BOOLEAN, stop : BOOLEAN, fault : BOOLEAN,
                  pump : {"loop", "submitted", "failed"}]
      /\ startup \in {"not-started", "connected", "failed"}
  BY DEF HostInv, StreamInv, AnswerInv
<1>3. QED
  BY <1>1, <1>2, SettleKeepsInv

LEMMA ConnectEndsKeeps ==
  ASSUME HostInv, ConnectEnds \/ StartupConnects PROVE HostInv'
<1>1. running \in Runnings /\ answer \in {"none", "ok", "failed"}
  BY DEF HostInv, Core, QueueInv
<1>2. /\ running.kind \in {"connect", "startup"} /\ running.wait = "connect"
      /\ Settle /\ KeepLife
      /\ UNCHANGED <<run, streaming, contractVars>> /\ UNCHANGED measurementVars
      /\ startup' \in {startup, "connected", "failed"} /\ knownCleanup' = cleanup
  BY DEF ConnectEnds, StartupConnects, Answered, streamVars
<1>3. /\ run \in [on : BOOLEAN, stop : BOOLEAN, fault : BOOLEAN,
                  pump : {"loop", "submitted", "failed"}]
      /\ startup' \in {"not-started", "connected", "failed"}
  BY <1>2 DEF HostInv, StreamInv, AnswerInv
<1>4. running.kind \in Calls
  BY <1>1, <1>2, KindsOfOperations
<1>5. QED
  BY <1>2, <1>3, <1>4, SettleKeepsInv

LEMMA AcquireEndsKeeps ==
  ASSUME HostInv, AcquireEnds PROVE HostInv'
<1>1. /\ running.kind \in {"acquire", "pump"} /\ running.wait = "acquire" /\ answer # "none"
      /\ Settle /\ KeepLife /\ Accept
      /\ UNCHANGED <<streaming, startup, knownCleanup, contractVars>>
      /\ run' = IF running.kind = "acquire" THEN run
                ELSE [run EXCEPT !.pump = IF answer = "ok" THEN "loop" ELSE "failed"]
  BY DEF AcquireEnds, Answered
<1>2. /\ run \in [on : BOOLEAN, stop : BOOLEAN, fault : BOOLEAN,
                  pump : {"loop", "submitted", "failed"}]
      /\ startup \in {"not-started", "connected", "failed"}
  BY DEF HostInv, StreamInv, AnswerInv
<1>3. /\ run' \in [on : BOOLEAN, stop : BOOLEAN, fault : BOOLEAN,
                   pump : {"loop", "submitted", "failed"}]
      /\ run'.on = run.on /\ run'.stop = run.stop
  BY <1>1, <1>2
<1>4. running.kind \in Calls \cup {"pump"}
  BY <1>1, KindsOfOperations DEF HostInv, Core, QueueInv
<1>5. QED
  BY <1>1, <1>2, <1>3, <1>4, SettleKeepsInv

LEMMA StartupLooksKeeps ==
  ASSUME HostInv, NEW wait \in {"load", "discover"}, NEW next \in {"discover", "connect"},
         StartupLooks(wait, next)
  PROVE  HostInv'
<1>1. /\ running.kind = "startup" /\ running.wait = wait /\ answer # "none"
      /\ KeepLife /\ UNCHANGED <<run, streaming, knownCleanup>>
      /\ UNCHANGED contractVars /\ UNCHANGED measurementVars
  BY DEF StartupLooks, Answered, streamVars
<1>2. /\ run \in [on : BOOLEAN, stop : BOOLEAN, fault : BOOLEAN,
                  pump : {"loop", "submitted", "failed"}]
      /\ startup \in {"not-started", "connected", "failed"}
  BY DEF HostInv, StreamInv, AnswerInv
<1>3. running.kind \in Bound /\ running.kind \in Calls
  BY <1>1, KindsOfOperations DEF HostInv, Core, QueueInv
<1> DEFINE result == IF next = "connect" /\ ~Connectable THEN "failed" ELSE "none"
<1>4. CASE Awaits(next, result) /\ startup' = startup
  <2>1. ~Past({"ok", "failed"})
    BY <1>1, <1>3 DEF HostInv, Core, TeardownInv
  <2>2. result \in {"none", "ok", "failed"}
    OBVIOUS
  <2> HIDE DEF result
  <2>3. UNCHANGED streamVars
    BY <1>1 DEF streamVars
  <2>4. QED
    BY <1>1, <1>3, <1>4, <2>1, <2>2, <2>3, AwaitsKeepsInv
<1>5. CASE Settle /\ startup' \in {startup, "failed"}
  BY <1>1, <1>2, <1>3, <1>5, SettleKeepsInv
<1>6. QED
  BY <1>4, <1>5 DEF StartupLooks

LEMMA PreferenceLooksKeeps ==
  ASSUME HostInv, PreferenceLooks PROVE HostInv'
<1>1. /\ running.kind = "preference" /\ running.wait = "discover"
      /\ KeepLife /\ UNCHANGED <<run, streaming, startup>>
      /\ UNCHANGED contractVars /\ UNCHANGED measurementVars
      /\ knownCleanup' \in {knownCleanup, cleanup}
      /\ Awaits("save", "none") \/ Settle
  BY DEF PreferenceLooks, Answered, streamVars
<1>2. /\ run \in [on : BOOLEAN, stop : BOOLEAN, fault : BOOLEAN,
                  pump : {"loop", "submitted", "failed"}]
      /\ startup \in {"not-started", "connected", "failed"}
  BY DEF HostInv, StreamInv, AnswerInv
<1>3. running.kind \notin Bound /\ running.kind \in Calls
  BY <1>1, KindsOfOperations DEF HostInv, Core, QueueInv
<1>4. CASE Awaits("save", "none")
  <2>1. UNCHANGED streamVars
    BY <1>1 DEF streamVars
  <2>2. QED
    BY <1>1, <1>3, <1>4, <2>1, AwaitsKeepsInv
<1>5. CASE Settle
  BY <1>1, <1>2, <1>3, <1>5, SettleKeepsInv
<1>6. QED
  BY <1>1, <1>4, <1>5

\* #disconnectOwnedConnections ends: the slot is free again, and whoever asked
\* for the teardown is told.
LEMMA TeardownEndsKeeps ==
  ASSUME HostInv, TeardownEnds
  PROVE  HostInv' /\ running'.wait = "start"
<1>1. /\ running.kind = "teardown" /\ running.wait = "disconnect" /\ answer # "none"
      /\ Settle /\ UNCHANGED <<run, streaming, lifecycle, awaiting, startup>>
      /\ UNCHANGED <<evented, accepted, echo, sess, cleanup, settled>> /\ knownCleanup' = cleanup
  BY DEF TeardownEnds, Answered, streamVars, measurementVars, contractVars
<1>2. /\ answer \in {"ok", "failed"} /\ ~safety /\ TeardownQueued
      /\ running.kind \notin Transitions /\ running.kind \notin Calls \cup {"pump"}
      /\ Past({"teardown"})
  BY <1>1, KindsApart DEF HostInv, Core, QueueInv, TeardownInv, TeardownQueued
<1>3. \/ disconnecting = "teardown" /\ disconnecting' = answer /\ shutdown' = shutdown
         /\ shutdown \in {"none", "joined"}
      \/ disconnecting = "none" /\ disconnecting' = disconnecting
         /\ shutdown = "teardown" /\ shutdown' = answer
  BY <1>2 DEF TeardownEnds, Past, HostInv, Core, LifeInv
<1>4. /\ normal \in Seq(OpsWhen(Leaving)) /\ Leaving \in BOOLEAN /\ safety = FALSE
      /\ Len(normal) \in Nat /\ TransitionsIn(normal) \in Nat
  <2>1. normal \in Seq(OpsWhen(Leaving)) /\ Leaving \in BOOLEAN /\ safety = FALSE
    BY <1>2 DEF HostInv, Core, QueueInv, Leaving
  <2>2. QED
    BY <2>1, CountType, LenProperties
<1>5. /\ normal' \in Seq(OpsWhen(Leaving)) /\ safety' = FALSE
      /\ running' \in Runnings /\ running'.wait = "start"
      /\ Leaving /\ running'.kind \in Bound => ~running'.current
      /\ QueuedOps' = Len(normal) /\ QueuedTransitions' = TransitionsIn(normal)
      /\ ~TeardownQueued'
  <2>1. DrainFrom(normal, safety)
    BY <1>1 DEF Settle
  <2>2. QED
    BY <1>4, <2>1, DrainFromEffect
<1>6. /\ answer' = "none" /\ pendingSafety' = pendingSafety - 1 /\ pending' = pending
      /\ blockers' = blockers
  BY <1>1, <1>2 DEF Settle
<1>7. Leaving' = Leaving
  BY <1>1, <1>2, <1>3 DEF Leaving
<1>8. QueueInv'
  BY <1>5, <1>6, <1>7 DEF QueueInv
<1>9. LifeInv'
  BY <1>1, <1>2, <1>3 DEF HostInv, Core, LifeInv
<1>10. CountInv'
  <2>1. QueuedOps' = QueuedOps /\ QueuedTransitions' = QueuedTransitions
    BY <1>2, <1>4, <1>5 DEF QueuedOps, QueuedTransitions, OneIf
  <2>2. pendingSafety = 1 /\ pendingSafety' = OneIf(TeardownQueued')
    BY <1>2, <1>5, <1>6 DEF HostInv, Core, CountInv, OneIf
  <2>3. (disconnecting' # "none") <=> (disconnecting # "none")
    BY <1>2, <1>3
  <2>4. OneIf(disconnecting' # "none") = OneIf(disconnecting # "none")
    BY <2>3 DEF OneIf
  <2>5. QED
    BY <1>1, <1>6, <2>1, <2>2, <2>4 DEF HostInv, Core, CountInv
<1>11. WaiterInv'
  <2>1. TeardownWaits(awaiting) = {}
    BY <1>2 DEF HostInv, Core, WaiterInv, CountInv, OneIf
  <2> DEFINE W == WaitersWhen(Leaving, disconnecting, shutdown, run.on)
             V == WaitersWhen(Leaving', disconnecting', shutdown', run'.on)
  <2>2. awaiting \in Seq(W) /\ awaiting' = awaiting
    BY <1>1 DEF HostInv, Core, WaiterInv
  <2>3. \A i \in 1..Len(awaiting) : awaiting[i] \in V
    <3>1. \A i \in 1..Len(awaiting) : awaiting[i] \in W
      BY <2>2, ElementOfSeq
    <3>2. W \subseteq V
      BY <1>1, <1>3, <1>7 DEF WaitersWhen
    <3>3. QED
      BY <3>1, <3>2
  <2>4. awaiting' \in Seq(V)
    <3> HIDE DEF W, V
    <3>1. QED
      BY <2>2, <2>3, SeqWithin
  <2>5. QED
    BY <2>1, <2>2, <2>4 DEF WaiterInv
<1>12. TeardownInv'
  <2>1. ~run.on
    BY <1>2 DEF HostInv, Core, TeardownInv, Past
  <2>2. QED
    BY <1>1, <1>5, <2>1 DEF TeardownInv
<1>13. StreamInv'
  BY <1>1, <1>6, StreamKept DEF HostInv
<1>14. AnswerInv'
  BY <1>1, <1>5 DEF HostInv, AnswerInv, ContractTypeOK
<1>15. MemoryInv'
  BY <1>1, <1>5 DEF HostInv, MemoryInv, CleanupStateIsFresh, AnswerInv, ContractTypeOK
<1>16. QED
  BY <1>5, <1>8, <1>9, <1>10, <1>11, <1>12, <1>13, <1>14, <1>15 DEF HostInv, Core

-----------------------------------------------------------------------------
(* What the manager and the store answer, and the manager's events *)

LEMMA LookedKeeps ==
  ASSUME HostInv, Looked PROVE HostInv'
<1>1. /\ running.wait \in {"discover", "load", "save"} /\ answer' \in {"ok", "failed"}
      /\ UNCHANGED <<normal, safety, running, pending, pendingSafety>>
      /\ UNCHANGED lifeVars
      /\ UNCHANGED <<run, streaming, startup, knownCleanup>>
      /\ UNCHANGED <<evented, accepted, echo, sess, cleanup, settled>>
  BY DEF Looked, Calling, Answers, KeepHost, streamVars, measurementVars, contractVars
<1>2. Core'
  BY <1>1, AnswersKeepCore DEF HostInv
<1>3. StreamInv'
  BY <1>1, StreamKept DEF HostInv, lifeVars
<1>4. AnswerInv'
  BY <1>1 DEF HostInv, AnswerInv, ContractTypeOK
<1>5. MemoryInv'
  BY <1>1 DEF HostInv, MemoryInv, CleanupStateIsFresh
<1>6. QED
  BY <1>2, <1>3, <1>4, <1>5 DEF HostInv

\* The manager moves while the host waits for it.
LEMMA ManagerAnswersKeep ==
  ASSUME HostInv,
         ManagerConnects \/ ManagerConfigures \/ ManagerExecutes \/ ManagerAcquires
           \/ ManagerDisconnects
  PROVE  HostInv'
<1>1. /\ UNCHANGED <<run, streaming, startup, knownCleanup>> /\ UNCHANGED lifeVars
      /\ UNCHANGED <<normal, safety, running, pending, pendingSafety>>
  BY DEF ManagerConnects, ManagerConfigures, ManagerExecutes, ManagerAcquires,
         ManagerDisconnects, KeepHost, Answers, streamVars, queueVars
<1>2. ContractTypeOK /\ answer \in {"none", "ok", "failed"}
  BY DEF HostInv, Core, QueueInv, AnswerInv
<1>3. answer' \in {"none", "ok", "failed"} /\ ContractTypeOK'
  <2>1. CASE ManagerConnects
    BY <1>2, <2>1 DEF ManagerConnects, Answers, queueVars, ContractTypeOK, Opens, Retains,
         ClosesRejected, Connectable, contractVars
  <2>2. CASE ManagerConfigures
    BY <1>2, <2>2 DEF ManagerConfigures, Answers, queueVars, ContractTypeOK, Configures,
         Invalidates, contractVars
  <2>3. CASE ManagerExecutes
    BY <1>2, <2>3 DEF ManagerExecutes, Answers, queueVars, ContractTypeOK, Invalidates,
         contractVars
  <2>4. CASE ManagerAcquires
    BY <1>2, <2>4 DEF ManagerAcquires, Answers, queueVars, ContractTypeOK, contractVars
  <2>5. CASE ManagerDisconnects
    BY <1>2, <2>5 DEF ManagerDisconnects, Answers, queueVars, ContractTypeOK,
         DisconnectMoves, SessionCloses, SessionStays, RejectedReleased, RejectedRetained,
         DriversAnswer, contractVars
  <2>6. QED
    BY <2>1, <2>2, <2>3, <2>4, <2>5
<1>4. Core'
  BY <1>1, <1>3, AnswersKeepCore DEF HostInv
<1>5. StreamInv'
  BY <1>1, StreamKept DEF HostInv, lifeVars
<1>6. AnswerInv'
  <2>1. CASE running.wait # "disconnect"
    BY <1>1, <1>3, <2>1 DEF HostInv, AnswerInv
  <2>2. CASE running.wait = "disconnect"
    <3>1. ManagerDisconnects /\ answer = "none"
      BY <2>2 DEF ManagerConnects, ManagerConfigures, ManagerExecutes, ManagerAcquires,
                  ManagerDisconnects, Calling
    <3>2. CASE settled = "none"
      <4>1. DisconnectMoves /\ answer' = answer
        BY <3>1, <3>2 DEF ManagerDisconnects, queueVars
      <4>2. settled' = "ok" => sess' = "none" /\ cleanup' = "none"
        BY <3>2, <4>1 DEF DisconnectMoves, SessionCloses, SessionStays, RejectedReleased,
                          RejectedRetained, DriversAnswer
      <4>3. QED
        BY <1>1, <1>3, <3>1, <4>1, <4>2 DEF HostInv, AnswerInv
    <3>3. CASE settled # "none"
      <4>1. answer' = settled /\ UNCHANGED <<sess, cleanup, settled>>
        BY <3>1, <3>3 DEF ManagerDisconnects, Answers, contractVars
      <4>2. QED
        BY <1>1, <1>3, <4>1 DEF HostInv, AnswerInv
    <3>4. QED
      BY <3>2, <3>3
  <2>3. QED
    BY <2>1, <2>2
<1>7. MemoryInv'
  <2>1. CASE ManagerConnects
    <3>1. /\ running.wait = "connect" /\ UNCHANGED <<evented, accepted, echo>>
          /\ sess' = "configured" => sess = "configured"
      BY <2>1 DEF ManagerConnects, Calling, measurementVars, Opens, Retains, ClosesRejected,
                  contractVars
    <3>2. QED
      BY <1>1, <3>1 DEF HostInv, MemoryInv, CleanupStateIsFresh
  <2>2. CASE ManagerConfigures
    <3>1. cleanup' = cleanup /\ echo' = FALSE /\ UNCHANGED <<evented, accepted>>
      BY <2>2 DEF ManagerConfigures, Invalidates, Configures, contractVars
    <3>2. QED
      BY <1>1, <3>1 DEF HostInv, MemoryInv, CleanupStateIsFresh
  <2>3. CASE ManagerExecutes
    <3>1. /\ running.wait = "feature" /\ cleanup' = cleanup
          /\ sess' = "configured" => sess = "configured"
          /\ UNCHANGED <<evented, accepted, echo>>
      BY <2>3 DEF ManagerExecutes, Calling, Invalidates, contractVars, measurementVars
    <3>2. QED
      BY <1>1, <3>1 DEF HostInv, MemoryInv, CleanupStateIsFresh
  <2>4. CASE ManagerAcquires
    <3>1. /\ running.wait = "acquire" /\ answer = "none"
          /\ UNCHANGED <<sess, cleanup>>
          /\ \/ answer' = "ok" /\ accepted' = FALSE /\ echo' = ~evented /\ evented' = evented
             \/ answer' = "failed" /\ UNCHANGED <<evented, accepted, echo>>
      BY <2>4 DEF ManagerAcquires, Calling, Answers, contractVars, measurementVars
    <3>2. CASE answer' = "ok" /\ accepted' = FALSE /\ echo' = ~evented /\ evented' = evented
      <4>1. echo' \in BOOLEAN /\ accepted' \in BOOLEAN /\ evented' = evented
        BY <3>2, Zenon
      <4>2. QED
        BY <1>1, <3>1, <3>2, <4>1 DEF HostInv, MemoryInv, CleanupStateIsFresh
    <3>3. CASE answer' = "failed" /\ UNCHANGED <<evented, accepted, echo>>
      BY <1>1, <3>1, <3>3 DEF HostInv, MemoryInv, CleanupStateIsFresh
    <3>4. QED
      BY <3>1, <3>2, <3>3
  <2>5. CASE ManagerDisconnects
    <3>1. /\ running.wait = "disconnect" /\ UNCHANGED <<evented, accepted, echo>>
          /\ sess' = "configured" => sess = "configured"
      BY <2>5 DEF ManagerDisconnects, Calling, measurementVars, contractVars, DisconnectMoves,
                  SessionCloses, SessionStays, RejectedReleased, RejectedRetained, DriversAnswer
    <3>2. QED
      BY <1>1, <3>1 DEF HostInv, MemoryInv, CleanupStateIsFresh
  <2>6. QED
    BY <2>1, <2>2, <2>3, <2>4, <2>5
<1>8. QED
  BY <1>4, <1>5, <1>6, <1>7 DEF HostInv

LEMMA FaultKeepsStream ==
  ASSUME StreamInv, FaultStream \/ run' = run, streaming' = streaming, UNCHANGED lifeVars
  PROVE  StreamInv' /\ run'.on = run.on
<1>1. run \in [on : BOOLEAN, stop : BOOLEAN, fault : BOOLEAN,
               pump : {"loop", "submitted", "failed"}]
  BY DEF StreamInv
<1>2. \/ run' = run
      \/ run.on /\ run' = [run EXCEPT !.stop = TRUE, !.fault = TRUE]
  BY DEF FaultStream
<1>3. /\ run' \in [on : BOOLEAN, stop : BOOLEAN, fault : BOOLEAN,
                   pump : {"loop", "submitted", "failed"}]
      /\ run'.on = run.on /\ (run'.stop \/ run' = run)
  BY <1>1, <1>2
<1>4. QED
  BY <1>3 DEF StreamInv, NoStreamThroughTransition, lifeVars

LEMMA EventsKeep ==
  ASSUME HostInv, EventStep PROVE HostInv'
<1>1. /\ UNCHANGED <<normal, safety, running, answer, pending, pendingSafety>>
      /\ UNCHANGED <<streaming, startup, knownCleanup>> /\ UNCHANGED lifeVars
      /\ FaultStream \/ run' = run
  BY DEF EventStep, FaultEvent, MeasurementEvent, queueVars
<1>2. StreamInv' /\ run'.on = run.on
  BY <1>1, FaultKeepsStream DEF HostInv
<1>3. Core'
  <2>1. answer' \in {"none", "ok", "failed"}
    BY <1>1 DEF HostInv, Core, QueueInv
  <2>2. QED
    BY <1>1, <1>2, <2>1, AnswersKeepCore DEF HostInv
<1>4. CASE FaultEvent
  <2>1. /\ UNCHANGED <<evented, accepted, echo, cleanup, settled>> /\ sess # "none"
        /\ sess' \in {sess, "faulted"}
    BY <1>4 DEF FaultEvent, Faults, contractVars, measurementVars
  <2>2. AnswerInv'
    BY <1>1, <2>1 DEF HostInv, AnswerInv, ContractTypeOK
  <2>3. MemoryInv'
    BY <1>1, <2>1 DEF HostInv, MemoryInv, CleanupStateIsFresh
  <2>4. QED
    BY <1>2, <1>3, <2>2, <2>3 DEF HostInv
<1>5. CASE MeasurementEvent
  <2>1. /\ UNCHANGED <<accepted, sess, cleanup, settled>> /\ echo' = FALSE
        /\ evented' \in {evented, TRUE}
    BY <1>5 DEF MeasurementEvent, contractVars
  <2>2. AnswerInv'
    BY <1>1, <2>1 DEF HostInv, AnswerInv, ContractTypeOK
  <2>3. MemoryInv'
    BY <1>1, <2>1 DEF HostInv, MemoryInv, CleanupStateIsFresh
  <2>4. QED
    BY <1>2, <1>3, <2>2, <2>3 DEF HostInv
<1>6. QED
  BY <1>4, <1>5 DEF EventStep

-----------------------------------------------------------------------------
(* Streams, calls, and continuations of `await run.done` *)

\* While the host works for a session, nobody waits for a teardown.
LEMMA NobodyLeaves ==
  ASSUME Core, ~Leaving, NEW on
  PROVE  /\ disconnecting = "none" /\ shutdown = "none" /\ lifecycle = "open"
         /\ WaitersWhen(Leaving, disconnecting, shutdown, run.on)
              \subseteq WaitersWhen(Leaving, disconnecting, shutdown, on)
         /\ TeardownWaits(awaiting) = {} /\ ~TeardownQueued /\ \A states :
              "none" \notin states => ~Past(states)
<1>1. disconnecting = "none" /\ shutdown = "none" /\ lifecycle = "open"
  BY DEF Core, LifeInv, Leaving
<1>2. /\ WaitersWhen(Leaving, disconnecting, shutdown, run.on)
           \subseteq WaitersWhen(Leaving, disconnecting, shutdown, on)
      /\ \A w \in WaitersWhen(Leaving, disconnecting, shutdown, run.on) :
           w.who \notin {"disconnect", "shutdown"}
  BY <1>1 DEF WaitersWhen
<1>3. \A i \in DOMAIN awaiting :
         awaiting[i] \in WaitersWhen(Leaving, disconnecting, shutdown, run.on)
  BY ElementOfSeq, LenProperties DEF Core, WaiterInv
<1>4. TeardownWaits(awaiting) = {}
  BY <1>2, <1>3 DEF TeardownWaits
<1>5. \A states : "none" \notin states => ~Past(states)
  BY <1>1 DEF Past
<1>6. ~TeardownQueued
  BY <1>5 DEF Core, TeardownInv
<1>7. QED
  BY <1>1, <1>2, <1>4, <1>5, <1>6

\* Only who waits changes, and whether a run exists.
LEMMA WaitersChange ==
  ASSUME Core, UNCHANGED queueVars,
         UNCHANGED <<lifecycle, blockers, disconnecting, shutdown>>,
         awaiting' \in Seq(WaitersWhen(Leaving, disconnecting, shutdown, run'.on)),
         \A i, j \in TeardownWaits(awaiting') : i = j,
         TeardownWaits(awaiting') # {} => pendingSafety = 0,
         TransitionsIn(awaiting') = TransitionsIn(awaiting),
         Past({"teardown", "ok", "failed"}) => ~run'.on
  PROVE  Core'
<1>1. /\ UNCHANGED <<normal, safety, running, answer, pending, pendingSafety>>
      /\ Leaving' = Leaving /\ (TeardownQueued' <=> TeardownQueued)
      /\ QueuedOps' = QueuedOps /\ QueuedTransitions' = QueuedTransitions
      /\ \A states : Past(states)' <=> Past(states)
  BY DEF queueVars, Leaving, TeardownQueued, QueuedOps, QueuedTransitions, Past
<1>2. QueueInv'
  BY <1>1 DEF Core, QueueInv
<1>3. WaiterInv'
  BY <1>1 DEF WaiterInv
<1>4. CountInv'
  <2>1. OneIf(TeardownQueued') = OneIf(TeardownQueued)
    BY <1>1 DEF OneIf
  <2>2. QED
    BY <1>1, <2>1 DEF Core, CountInv
<1>5. LifeInv'
  BY DEF Core, LifeInv
<1>6. TeardownInv'
  BY <1>1 DEF Core, TeardownInv
<1>7. QED
  BY <1>2, <1>3, <1>4, <1>5, <1>6 DEF Core

\* An operation that blocks no stream is admitted.
LEMMA EnqueueKeepsCore ==
  ASSUME Core, NEW op \in OpsWhen(Leaving), op.kind \notin Transitions, Enqueue(op),
         pending < HostLimit, pending' = pending + 1, pendingSafety' = pendingSafety,
         UNCHANGED lifeVars, run'.on = run.on
  PROVE  /\ Core' /\ running'.wait = running.wait /\ answer' = answer
         /\ running.wait # "start" => running' = running
<1>1. UNCHANGED <<lifecycle, awaiting, disconnecting, shutdown, blockers>>
  BY DEF lifeVars
<1>2. /\ normal' \in Seq(OpsWhen(Leaving)) /\ safety' \in BOOLEAN
      /\ running' \in Runnings /\ running'.wait = running.wait
      /\ running.wait # "start" => running' = running
      /\ Leaving /\ running'.kind \in Bound => ~running'.current
      /\ answer' = answer
      /\ QueuedOps' = QueuedOps + 1
      /\ QueuedTransitions' = QueuedTransitions + OneIf(op.kind \in Transitions)
      /\ TeardownQueued' <=> TeardownQueued
      /\ ~(safety' /\ running'.kind = "teardown")
  BY EnqueueEffect DEF Core
<1>3. /\ WaiterInv' /\ LifeInv' /\ (Leaving' <=> Leaving)
      /\ TeardownQueued' => Past({"teardown"})'
      /\ Past({"teardown", "ok", "failed"})' => ~run'.on
      /\ Past({"ok", "failed"})' <=> Past({"ok", "failed"})
  BY <1>1, <1>2, LifeKept
<1>4. QueueInv'
  <2>1. Leaving' = Leaving /\ answer \in {"none", "ok", "failed"}
    BY <1>1 DEF Leaving, Core, QueueInv
  <2>2. QED
    BY <1>2, <2>1 DEF QueueInv
<1>5. CountInv'
  <2>1. OneIf(TeardownQueued') = OneIf(TeardownQueued) /\ OneIf(op.kind \in Transitions) = 0
    BY <1>2 DEF OneIf
  <2>2. /\ pending \in Nat /\ QueuedOps \in Nat /\ QueuedTransitions \in Nat
        /\ TransitionsIn(awaiting) \in Nat
    BY CountersAreNatural
  <2>3. pending' <= HostLimit
    BY <2>2, KindsApart
  <2>4. QED
    BY <1>1, <1>2, <2>1, <2>2, <2>3 DEF Core, CountInv
<1>6. TeardownInv'
  BY <1>2, <1>3 DEF Core, TeardownInv
<1>7. QED
  BY <1>2, <1>3, <1>4, <1>5, <1>6 DEF Core

LEMMA StartRunKeeps ==
  ASSUME HostInv, SessionWorkAvailable, ~run.on, StartRun,
         lifecycle' = lifecycle, blockers' = blockers
  PROVE  StreamInv' /\ run'.on
<1>1. run' = NewRun /\ streaming' = "running" /\ blockers = 0 /\ lifecycle = "open"
  BY DEF StartRun, SessionWorkAvailable
<1>2. /\ run' \in [on : BOOLEAN, stop : BOOLEAN, fault : BOOLEAN,
                   pump : {"loop", "submitted", "failed"}] /\ run'.on
  BY <1>1 DEF NewRun
<1>3. QED
  BY <1>1, <1>2 DEF StreamInv, NoStreamThroughTransition

LEMMA WaiterType ==
  ASSUME HostInv, NEW who \in {"transition", "disconnect", "shutdown", "restart"},
         NEW kind \in Transitions \cup {"none"}, NEW l, NEW d, NEW s,
         kind \in Transitions <=> who = "transition",
         who = "transition" => ~l, who = "disconnect" => d = "waiting",
         who = "shutdown" => s = "waiting"
  PROVE  Waiter(who, kind) \in WaitersWhen(l, d, s, run.on)
<1>1. run.on \in BOOLEAN
  BY DEF HostInv, StreamInv
<1>2. (~run.on) \in BOOLEAN
  BY <1>1
<1>3. QED
  BY <1>1, <1>2 DEF Waiter, WaitersWhen

LEMMA StartStreamingKeeps ==
  ASSUME HostInv, StartStreaming PROVE HostInv'
<1>1. /\ SessionWorkAvailable /\ UNCHANGED queueVars /\ UNCHANGED restVars
      /\ UNCHANGED <<lifecycle, blockers, disconnecting, shutdown>>
  BY DEF StartStreaming
<1>2. /\ awaiting \in Seq(WaitersWhen(Leaving, disconnecting, shutdown, run.on))
      /\ \A i, j \in TeardownWaits(awaiting) : i = j
      /\ TeardownWaits(awaiting) # {} => pendingSafety = 0
  BY DEF HostInv, Core, WaiterInv
<1>3. ~Leaving
  BY <1>1 DEF SessionWorkAvailable, Leaving
<1>4. UNCHANGED <<running, answer>>
  BY <1>1 DEF queueVars
<1>5. AnswerInv' /\ MemoryInv'
  BY <1>1, <1>4, RestKept DEF HostInv
<1>6. ~Past({"teardown", "ok", "failed"})
  BY <1>3, NobodyLeaves DEF HostInv
<1>7. CASE MayStart /\ StartRun /\ UNCHANGED awaiting
  <2>1. StreamInv' /\ run'.on
    BY <1>1, <1>7, StartRunKeeps DEF MayStart
  <2>2. WaitersWhen(Leaving, disconnecting, shutdown, run.on)
           \subseteq WaitersWhen(Leaving, disconnecting, shutdown, run'.on)
    BY <1>3, NobodyLeaves DEF HostInv
  <2>3. awaiting \in Seq(WaitersWhen(Leaving, disconnecting, shutdown, run'.on))
    BY <1>2, <2>2, SeqGrows
  <2>4. Core'
    BY <1>1, <1>2, <1>6, <1>7, <2>3, WaitersChange DEF HostInv
  <2>5. QED
    BY <1>5, <2>1, <2>4 DEF HostInv
<1>8. CASE awaiting' = Append(awaiting, Waiter("restart", "none")) /\ UNCHANGED streamVars
  <2> DEFINE w == Waiter("restart", "none")
             W == WaitersWhen(Leaving, disconnecting, shutdown, run.on)
  <2>1. w \in W
    BY <1>3, WaiterType, KindsApart
  <2>2. w.who = "restart" /\ w.kind \notin Transitions
    BY KindsApart DEF Waiter
  <2>3. run' = run /\ streaming' = streaming
    BY <1>8 DEF streamVars
  <2>4. /\ Append(awaiting, w) \in Seq(W)
        /\ \A i, j \in TeardownWaits(Append(awaiting, w)) : i = j
        /\ TeardownWaits(Append(awaiting, w)) = TeardownWaits(awaiting)
        /\ TransitionsIn(Append(awaiting, w)) = TransitionsIn(awaiting) + OneIf(w.kind \in Transitions)
    <3> HIDE DEF w, W
    <3>1. awaiting \in Seq(W)
      BY <1>2 DEF W
    <3>2. QED
      BY <1>2, <2>1, <2>2, <3>1, AppendWaiter
  <2>5. TransitionsIn(awaiting') = TransitionsIn(awaiting)
    BY <1>8, <2>2, <2>4, CountersAreNatural DEF OneIf, HostInv
  <2>6. Core'
    BY <1>1, <1>2, <1>6, <1>8, <2>3, <2>4, <2>5, WaitersChange DEF HostInv
  <2>7. StreamInv'
    BY <1>1, <2>3, StreamKept DEF HostInv
  <2>8. QED
    BY <1>5, <2>6, <2>7 DEF HostInv
<1>9. QED
  BY <1>7, <1>8 DEF StartStreaming

LEMMA StopStreamingKeeps ==
  ASSUME HostInv, StopStreaming PROVE HostInv'
<1>1. /\ RequestStop /\ UNCHANGED lifeVars /\ UNCHANGED restVars
      /\ UNCHANGED <<normal, safety, running, answer, pending, pendingSafety>>
  BY DEF StopStreaming, queueVars
<1>2. StreamInv' /\ run'.on = run.on
  BY <1>1, StopKeepsStream DEF HostInv
<1>3. answer' \in {"none", "ok", "failed"}
  BY <1>1 DEF HostInv, Core, QueueInv
<1>4. Core'
  BY <1>1, <1>2, <1>3, AnswersKeepCore DEF HostInv
<1>5. AnswerInv' /\ MemoryInv'
  BY <1>1, RestKept DEF HostInv
<1>6. QED
  BY <1>2, <1>4, <1>5 DEF HostInv

LEMMA PumpSubmitsKeeps ==
  ASSUME HostInv, PumpSubmits PROVE HostInv'
<1>1. /\ UNCHANGED <<pendingSafety, streaming>> /\ UNCHANGED lifeVars /\ UNCHANGED restVars
      /\ run.on /\ ~run.stop
  BY DEF PumpSubmits
<1>2. run \in [on : BOOLEAN, stop : BOOLEAN, fault : BOOLEAN,
               pump : {"loop", "submitted", "failed"}]
  BY DEF HostInv, StreamInv
<1>3. /\ run' \in [on : BOOLEAN, stop : BOOLEAN, fault : BOOLEAN,
                   pump : {"loop", "submitted", "failed"}]
      /\ run'.on = run.on /\ run'.stop = run.stop
  BY <1>2 DEF PumpSubmits
<1>4. StreamInv'
  BY <1>1, <1>3 DEF HostInv, StreamInv, NoStreamThroughTransition, lifeVars
<1>5. CASE lifecycle = "open" /\ pending < HostLimit
  <2> DEFINE op == Op("pump")
  <2>1. Enqueue(op) /\ pending' = pending + 1
    BY <1>5 DEF PumpSubmits
  <2>2. op \in OpsWhen(Leaving) /\ op.kind \notin Transitions
    BY KindsApart DEF Op, OpsWhen
  <2> HIDE DEF op
  <2>3. /\ Core' /\ running'.wait = running.wait /\ answer' = answer
        /\ running.wait # "start" => running' = running
    BY <1>1, <1>3, <1>5, <2>1, <2>2, EnqueueKeepsCore DEF HostInv
  <2>4. AnswerInv' /\ MemoryInv'
    BY <1>1, <2>3, RestKept DEF HostInv
  <2>5. QED
    BY <1>4, <2>3, <2>4 DEF HostInv
<1>6. CASE ~(lifecycle = "open" /\ pending < HostLimit)
  <2>1. UNCHANGED <<normal, safety, running, answer, pending>>
    BY <1>6 DEF PumpSubmits
  <2>2. answer' \in {"none", "ok", "failed"}
    BY <2>1 DEF HostInv, Core, QueueInv
  <2>3. Core'
    BY <1>1, <1>3, <2>1, <2>2, AnswersKeepCore DEF HostInv
  <2>4. AnswerInv' /\ MemoryInv'
    BY <1>1, <2>1, RestKept DEF HostInv
  <2>5. QED
    BY <1>4, <2>3, <2>4 DEF HostInv
<1>7. QED
  BY <1>5, <1>6

LEMMA PumpEndsKeeps ==
  ASSUME HostInv, PumpEnds PROVE HostInv'
<1>1. /\ UNCHANGED queueVars /\ UNCHANGED restVars
      /\ UNCHANGED <<lifecycle, blockers, disconnecting, shutdown>>
      /\ run' = NoRun /\ awaiting' = Released(awaiting)
      /\ streaming' \in {"faulted", "stopped"}
  BY DEF PumpEnds
<1>2. /\ run' \in [on : BOOLEAN, stop : BOOLEAN, fault : BOOLEAN,
                   pump : {"loop", "submitted", "failed"}] /\ run'.on = FALSE
  BY <1>1 DEF NoRun
<1>3. StreamInv'
  BY <1>1, <1>2 DEF StreamInv, NoStreamThroughTransition
<1>4. /\ Leaving \in BOOLEAN /\ run.on \in BOOLEAN
      /\ awaiting \in Seq(WaitersWhen(Leaving, disconnecting, shutdown, run.on))
      /\ \A i, j \in TeardownWaits(awaiting) : i = j
      /\ TeardownWaits(awaiting) # {} => pendingSafety = 0
  BY DEF HostInv, Core, WaiterInv, StreamInv, Leaving
<1>5. /\ Released(awaiting) \in Seq(WaitersWhen(Leaving, disconnecting, shutdown, FALSE))
      /\ TransitionsIn(Released(awaiting)) = TransitionsIn(awaiting)
      /\ TeardownWaits(Released(awaiting)) = TeardownWaits(awaiting)
  BY <1>4, ReleasedKeeps
<1>6. Core'
  <2>1. /\ awaiting' \in Seq(WaitersWhen(Leaving, disconnecting, shutdown, run'.on))
        /\ TransitionsIn(awaiting') = TransitionsIn(awaiting)
        /\ TeardownWaits(awaiting') = TeardownWaits(awaiting)
    BY <1>1, <1>2, <1>5
  <2>2. QED
    BY <1>1, <1>2, <1>4, <2>1, WaitersChange DEF HostInv
<1>7. AnswerInv' /\ MemoryInv'
  BY <1>1, RestKept DEF HostInv, queueVars
<1>8. QED
  BY <1>3, <1>6, <1>7 DEF HostInv

LEMMA CallTransitionKeeps ==
  ASSUME HostInv, NEW kind \in Transitions, CallTransition(kind) PROVE HostInv'
<1> DEFINE w == Waiter("transition", kind)
           W == WaitersWhen(Leaving, disconnecting, shutdown, run.on)
<1>1. /\ lifecycle = "open" /\ disconnecting = "none" /\ pending < HostLimit
      /\ pending' = pending + 1 /\ blockers' = blockers + 1 /\ RequestStop
      /\ awaiting' = Append(awaiting, w)
      /\ UNCHANGED <<normal, safety, running, answer, pendingSafety>>
      /\ UNCHANGED <<lifecycle, disconnecting, shutdown>> /\ UNCHANGED restVars
  BY DEF CallTransition
<1>2. StreamInv' /\ run'.on = run.on
  BY <1>1, StopKeepsStream DEF HostInv
<1>3. /\ awaiting \in Seq(W) /\ \A i, j \in TeardownWaits(awaiting) : i = j
      /\ TeardownWaits(awaiting) # {} => pendingSafety = 0
  BY DEF HostInv, Core, WaiterInv
<1>4. w \in W /\ w.who = "transition" /\ w.kind \in Transitions
  <2>1. ~Leaving
    BY <1>1 DEF Leaving
  <2>2. w \in W
    BY <2>1, WaiterType
  <2>3. QED
    BY <2>2 DEF Waiter
<1>5. /\ Leaving' = Leaving /\ (TeardownQueued' <=> TeardownQueued)
      /\ QueuedOps' = QueuedOps /\ QueuedTransitions' = QueuedTransitions
      /\ \A states : Past(states)' <=> Past(states)
  BY <1>1 DEF Leaving, TeardownQueued, QueuedOps, QueuedTransitions, Past
<1>6. QueueInv'
  BY <1>1, <1>5 DEF HostInv, Core, QueueInv
<1>7. W = WaitersWhen(Leaving', disconnecting', shutdown', run'.on)
  BY <1>1, <1>2, <1>5
<1> HIDE DEF w, W
<1>8. /\ awaiting' \in Seq(W)
      /\ \A i, j \in TeardownWaits(awaiting') : i = j
      /\ TeardownWaits(awaiting') = TeardownWaits(awaiting)
      /\ TransitionsIn(awaiting') = TransitionsIn(awaiting) + 1
  <2>1. /\ awaiting' \in Seq(W)
        /\ \A i, j \in TeardownWaits(awaiting') : i = j
        /\ TeardownWaits(awaiting') = TeardownWaits(awaiting)
        /\ TransitionsIn(awaiting') = TransitionsIn(awaiting) + OneIf(w.kind \in Transitions)
    BY <1>1, <1>3, <1>4, AppendWaiter
  <2>2. QED
    BY <1>4, <2>1 DEF OneIf
<1>9. WaiterInv'
  BY <1>1, <1>3, <1>7, <1>8 DEF WaiterInv
<1>10. CountInv'
  <2>1. OneIf(TeardownQueued') = OneIf(TeardownQueued)
    BY <1>5 DEF OneIf
  <2>2. /\ pending \in Nat /\ QueuedOps \in Nat /\ QueuedTransitions \in Nat
        /\ TransitionsIn(awaiting) \in Nat
    BY CountersAreNatural DEF HostInv
  <2>3. OneIf(disconnecting # "none") = 0
    BY <1>1 DEF OneIf
  <2>4. /\ HostLimit \in Nat /\ pendingSafety = OneIf(TeardownQueued)
        /\ pending = QueuedOps + TransitionsIn(awaiting)
        /\ blockers = QueuedTransitions + TransitionsIn(awaiting)
                        + OneIf(disconnecting # "none")
    BY HostAssumption DEF HostInv, Core, CountInv
  <2>5. /\ pending < HostLimit /\ pending' = pending + 1 /\ blockers' = blockers + 1
        /\ QueuedOps' = QueuedOps /\ QueuedTransitions' = QueuedTransitions
        /\ TransitionsIn(awaiting') = TransitionsIn(awaiting) + 1
        /\ pendingSafety' = pendingSafety /\ disconnecting' = disconnecting
    BY <1>1, <1>5, <1>8
  <2>6. pending' = QueuedOps' + TransitionsIn(awaiting') /\ pending' <= HostLimit
    BY <2>2, <2>4, <2>5
  <2>7. blockers' = QueuedTransitions' + TransitionsIn(awaiting') + OneIf(disconnecting' # "none")
    BY <2>2, <2>3, <2>4, <2>5
  <2>8. pendingSafety' = OneIf(TeardownQueued')
    BY <2>1, <2>4, <2>5
  <2>9. QED
    BY <2>6, <2>7, <2>8 DEF CountInv
<1>11. LifeInv'
  BY <1>1 DEF HostInv, Core, LifeInv
<1>12. TeardownInv'
  BY <1>1, <1>2, <1>5 DEF HostInv, Core, TeardownInv
<1>13. AnswerInv' /\ MemoryInv'
  BY <1>1, RestKept DEF HostInv
<1>14. QED
  BY <1>2, <1>6, <1>9, <1>10, <1>11, <1>12, <1>13 DEF HostInv, Core

\* Operations that go straight to the queue.
LEMMA CallOperationKeeps ==
  ASSUME HostInv,
         NEW kind, \/ kind \in SessionCalls /\ CallSession(kind)
                   \/ kind \in FreeCalls /\ CallFree(kind)
  PROVE  HostInv'
<1> DEFINE op == Op(kind)
<1>1. /\ pending < HostLimit /\ pending' = pending + 1 /\ Enqueue(op)
      /\ UNCHANGED pendingSafety /\ UNCHANGED <<run, streaming>>
      /\ UNCHANGED lifeVars /\ UNCHANGED restVars
      /\ kind \in SessionCalls => ~Leaving
  <2>1. CASE kind \in SessionCalls /\ CallSession(kind)
    <3>1. disconnecting = "none" /\ lifecycle = "open"
      BY <2>1 DEF CallSession, SessionWorkAvailable
    <3>2. ~Leaving
      BY <3>1 DEF Leaving
    <3>3. QED
      BY <2>1, <3>2 DEF CallSession, streamVars
  <2>2. CASE kind \in FreeCalls /\ CallFree(kind)
    <3>1. kind \notin SessionCalls
      BY <2>2, HostAssumption
    <3>2. QED
      BY <2>2, <3>1 DEF CallFree, streamVars
  <2>3. QED
    BY <2>1, <2>2
<1>2. kind \in Calls /\ kind \notin Transitions /\ (kind \in Bound => kind \in SessionCalls)
  BY KindsApart DEF Bound
<1>3. op \in OpsWhen(Leaving) /\ op.kind \notin Transitions
  BY <1>1, <1>2 DEF Op, OpsWhen
<1> HIDE DEF op
<1>4. /\ Core' /\ running'.wait = running.wait /\ answer' = answer
      /\ running.wait # "start" => running' = running
  BY <1>1, <1>3, EnqueueKeepsCore DEF HostInv
<1>5. AnswerInv' /\ MemoryInv'
  BY <1>1, <1>4, RestKept DEF HostInv
<1>6. StreamInv'
  BY <1>1, StreamKept DEF HostInv, lifeVars
<1>7. QED
  BY <1>4, <1>5, <1>6 DEF HostInv

\* disconnect() and shutdown() leave the connection: what the epoch does.
LEMMA EpochAdvances ==
  ASSUME HostInv, AdvanceEpoch
  PROVE  /\ normal' \in Seq(OpsWhen(TRUE)) /\ safety' = safety /\ running' \in Runnings
         /\ running'.current = FALSE /\ running'.kind = running.kind
         /\ running'.wait = running.wait
         /\ answer' = answer /\ pending' = pending /\ pendingSafety' = pendingSafety
         /\ QueuedOps' = QueuedOps /\ QueuedTransitions' = QueuedTransitions
         /\ (TeardownQueued' <=> TeardownQueued)
<1>1. normal \in Seq(OpsWhen(Leaving)) /\ Leaving \in BOOLEAN /\ running \in Runnings
  BY DEF HostInv, Core, QueueInv, Leaving
<1>2. /\ normal' = Outdate(normal) /\ running' = [running EXCEPT !.current = FALSE]
      /\ UNCHANGED <<safety, answer, pending, pendingSafety>>
  BY DEF AdvanceEpoch
<1>3. /\ Outdate(normal) \in Seq(OpsWhen(TRUE)) /\ Len(Outdate(normal)) = Len(normal)
      /\ TransitionsIn(Outdate(normal)) = TransitionsIn(normal)
  BY <1>1, OutdateKeeps
<1>4. /\ running' \in Runnings /\ running'.current = FALSE /\ running'.kind = running.kind
      /\ running'.wait = running.wait
  BY <1>1, <1>2 DEF Runnings
<1>5. QueuedOps' = QueuedOps /\ QueuedTransitions' = QueuedTransitions
  BY <1>2, <1>3, <1>4 DEF QueuedOps, QueuedTransitions
<1>6. TeardownQueued' <=> TeardownQueued
  BY <1>2, <1>4 DEF TeardownQueued
<1>7. QED
  BY <1>2, <1>3, <1>4, <1>5, <1>6

LEMMA CallDisconnectKeeps ==
  ASSUME HostInv, CallDisconnect PROVE HostInv'
<1> DEFINE outdated == OutdateWaiters(awaiting)
           w == Waiter("disconnect", "none")
           W == WaitersWhen(TRUE, "waiting", shutdown, run.on)
<1>1. /\ lifecycle = "open" /\ disconnecting = "none" /\ disconnecting' = "waiting"
      /\ AdvanceEpoch /\ blockers' = blockers + 1 /\ RequestStop
      /\ awaiting' = Append(outdated, w)
      /\ UNCHANGED <<lifecycle, shutdown>> /\ UNCHANGED restVars
  BY DEF CallDisconnect, OutdateWaiters
<1>2. StreamInv' /\ run'.on = run.on
  BY <1>1, StopKeepsStream DEF HostInv
<1>3. /\ normal' \in Seq(OpsWhen(TRUE)) /\ safety' = safety /\ running' \in Runnings
      /\ running'.current = FALSE /\ running'.kind = running.kind
      /\ running'.wait = running.wait
      /\ answer' = answer /\ pending' = pending /\ pendingSafety' = pendingSafety
      /\ QueuedOps' = QueuedOps /\ QueuedTransitions' = QueuedTransitions
      /\ (TeardownQueued' <=> TeardownQueued)
  BY <1>1, EpochAdvances
<1>4. ~Leaving
  BY <1>1 DEF Leaving
<1>5. shutdown = "none" /\ TeardownWaits(awaiting) = {} /\ ~TeardownQueued
  BY <1>4, NobodyLeaves DEF HostInv
<1>6. /\ outdated \in Seq(W) /\ TransitionsIn(outdated) = TransitionsIn(awaiting)
      /\ TeardownWaits(outdated) = TeardownWaits(awaiting)
  <2>1. /\ awaiting \in Seq(WaitersWhen(Leaving, disconnecting, shutdown, run.on))
        /\ Leaving \in BOOLEAN /\ run.on \in BOOLEAN /\ disconnecting # "waiting"
    BY <1>1 DEF HostInv, Core, WaiterInv, StreamInv, Leaving
  <2>2. QED
    BY <2>1, OutdateWaitersKeeps
<1>7. w \in W /\ w.who = "disconnect" /\ w.kind \notin Transitions
  <2>1. w \in W
    BY WaiterType, KindsApart
  <2>2. QED
    BY <2>1, KindsApart DEF Waiter
<1>8. Leaving'
  BY <1>1 DEF Leaving
<1>9. W = WaitersWhen(Leaving', disconnecting', shutdown', run'.on)
  BY <1>1, <1>2, <1>8 DEF WaitersWhen
<1> HIDE DEF outdated, w, W
<1>10. /\ awaiting' \in Seq(W) /\ \A i, j \in TeardownWaits(awaiting') : i = j
       /\ TransitionsIn(awaiting') = TransitionsIn(awaiting)
  <2>1. /\ awaiting' \in Seq(W) /\ \A i, j \in TeardownWaits(awaiting') : i = j
        /\ TransitionsIn(awaiting') = TransitionsIn(outdated) + OneIf(w.kind \in Transitions)
    BY <1>1, <1>5, <1>6, <1>7, AppendWaiter
  <2>2. TransitionsIn(awaiting) \in Nat
    BY CountersAreNatural DEF HostInv
  <2>3. QED
    BY <1>6, <1>7, <2>1, <2>2 DEF OneIf
<1>11. pendingSafety = 0
  BY <1>5 DEF HostInv, Core, CountInv, OneIf
<1>12. QueueInv'
  BY <1>3, <1>8 DEF HostInv, Core, QueueInv
<1>13. WaiterInv'
  BY <1>3, <1>9, <1>10, <1>11 DEF WaiterInv
<1>14. CountInv'
  <2>1. OneIf(TeardownQueued') = OneIf(TeardownQueued)
    BY <1>3 DEF OneIf
  <2>2. OneIf(disconnecting # "none") = 0 /\ OneIf(disconnecting' # "none") = 1
    BY <1>1 DEF OneIf
  <2>3. QueuedTransitions \in Nat /\ TransitionsIn(awaiting) \in Nat
    BY CountersAreNatural DEF HostInv
  <2>4. QED
    BY <1>1, <1>3, <1>10, <2>1, <2>2, <2>3 DEF HostInv, Core, CountInv
<1>15. LifeInv'
  BY <1>1, <1>5 DEF HostInv, Core, LifeInv
<1>16. TeardownInv'
  <2>1. ~Past({"teardown", "ok", "failed"})' /\ ~Past({"ok", "failed"})'
    BY <1>1, <1>5 DEF Past
  <2>2. QED
    BY <1>3, <1>5, <2>1 DEF HostInv, Core, TeardownInv
<1>17. AnswerInv' /\ MemoryInv'
  BY <1>1, <1>3, RestKept DEF HostInv
<1>18. QED
  BY <1>2, <1>12, <1>13, <1>14, <1>15, <1>16, <1>17 DEF HostInv, Core

LEMMA CallShutdownKeeps ==
  ASSUME HostInv, CallShutdown PROVE HostInv'
<1> DEFINE outdated == OutdateWaiters(awaiting)
           w == Waiter("shutdown", "none")
           W == WaitersWhen(TRUE, disconnecting, shutdown', run.on)
<1>1. /\ shutdown = "none" /\ lifecycle' = "closing"
      /\ AdvanceEpoch /\ RequestStop
      /\ UNCHANGED <<blockers, disconnecting>> /\ UNCHANGED restVars
      /\ \/ disconnecting # "none" /\ shutdown' = "joined" /\ awaiting' = outdated
         \/ disconnecting = "none" /\ shutdown' = "waiting" /\ awaiting' = Append(outdated, w)
  BY DEF CallShutdown, OutdateWaiters
<1>2. run'.on = run.on /\ StreamInv'
  BY <1>1, StopKeepsStream DEF HostInv
<1>3. /\ normal' \in Seq(OpsWhen(TRUE)) /\ safety' = safety /\ running' \in Runnings
      /\ running'.current = FALSE /\ running'.kind = running.kind
      /\ running'.wait = running.wait
      /\ answer' = answer /\ pending' = pending /\ pendingSafety' = pendingSafety
      /\ QueuedOps' = QueuedOps /\ QueuedTransitions' = QueuedTransitions
      /\ (TeardownQueued' <=> TeardownQueued)
  BY <1>1, EpochAdvances
<1>4. lifecycle = "open" /\ shutdown' \in {"joined", "waiting"}
  BY <1>1 DEF HostInv, Core, LifeInv
<1>5. disconnecting = "none" => TeardownWaits(awaiting) = {} /\ ~TeardownQueued
  <2>1. disconnecting = "none" => ~Leaving
    BY <1>4 DEF Leaving
  <2>2. QED
    BY <2>1, NobodyLeaves DEF HostInv
<1>6. /\ outdated \in Seq(W) /\ TransitionsIn(outdated) = TransitionsIn(awaiting)
      /\ TeardownWaits(outdated) = TeardownWaits(awaiting)
  <2>1. /\ awaiting \in Seq(WaitersWhen(Leaving, disconnecting, shutdown, run.on))
        /\ Leaving \in BOOLEAN /\ run.on \in BOOLEAN /\ shutdown # "waiting"
    BY <1>1 DEF HostInv, Core, WaiterInv, StreamInv, Leaving
  <2>2. QED
    BY <2>1, OutdateWaitersKeeps
<1>7. /\ disconnecting = "none" => w \in W
      /\ w.who = "shutdown" /\ w.kind \notin Transitions
  <2>1. disconnecting = "none" => shutdown' = "waiting"
    BY <1>1
  <2>2. disconnecting = "none" => w \in W
    BY <2>1, WaiterType, KindsApart
  <2>3. QED
    BY <2>2, KindsApart DEF Waiter
<1>8. Leaving'
  BY <1>1 DEF Leaving
<1>9. W = WaitersWhen(Leaving', disconnecting', shutdown', run'.on)
  BY <1>1, <1>2, <1>8 DEF WaitersWhen
<1>10. /\ \A i, j \in TeardownWaits(awaiting) : i = j
       /\ TeardownWaits(awaiting) # {} => pendingSafety = 0
       /\ TransitionsIn(awaiting) \in Nat
  BY CountersAreNatural DEF HostInv, Core, WaiterInv
<1>11. disconnecting = "none" => pendingSafety = 0
  BY <1>5 DEF HostInv, Core, CountInv, OneIf
<1> HIDE DEF outdated, w, W
<1>12. /\ awaiting' \in Seq(W) /\ \A i, j \in TeardownWaits(awaiting') : i = j
       /\ TransitionsIn(awaiting') = TransitionsIn(awaiting)
       /\ TeardownWaits(awaiting') # {} => pendingSafety = 0
  <2>1. CASE awaiting' = outdated
    BY <1>6, <1>10, <2>1
  <2>2. CASE disconnecting = "none" /\ awaiting' = Append(outdated, w)
    <3>1. TeardownWaits(outdated) = {} /\ w \in W
      BY <1>5, <1>6, <1>7, <2>2
    <3>2. /\ awaiting' \in Seq(W) /\ \A i, j \in TeardownWaits(awaiting') : i = j
          /\ TransitionsIn(awaiting') = TransitionsIn(outdated) + OneIf(w.kind \in Transitions)
      BY <1>6, <2>2, <3>1, AppendWaiter
    <3>3. QED
      BY <1>6, <1>7, <1>10, <1>11, <2>2, <3>2 DEF OneIf
  <2>3. QED
    BY <1>1, <2>1, <2>2
<1>13. QueueInv'
  BY <1>3, <1>8 DEF HostInv, Core, QueueInv
<1>14. WaiterInv'
  BY <1>3, <1>9, <1>12 DEF WaiterInv
<1>15. CountInv'
  <2>1. OneIf(TeardownQueued') = OneIf(TeardownQueued)
    BY <1>3 DEF OneIf
  <2>2. QED
    BY <1>1, <1>3, <1>12, <2>1 DEF HostInv, Core, CountInv
<1>16. LifeInv'
  BY <1>1 DEF HostInv, Core, LifeInv
<1>17. TeardownInv'
  <2>1. \A states : states \cap {"none", "waiting", "joined"} = {} =>
           (Past(states)' <=> Past(states))
    BY <1>1, <1>4 DEF Past
  <2>2. /\ Past({"teardown"})' <=> Past({"teardown"})
        /\ Past({"teardown", "ok", "failed"})' <=> Past({"teardown", "ok", "failed"})
        /\ Past({"ok", "failed"})' <=> Past({"ok", "failed"})
    BY <2>1
  <2>3. QED
    BY <1>2, <1>3, <2>2 DEF HostInv, Core, TeardownInv
<1>18. AnswerInv' /\ MemoryInv'
  BY <1>1, <1>3, RestKept DEF HostInv
<1>19. QED
  BY <1>2, <1>13, <1>14, <1>15, <1>16, <1>17, <1>18 DEF HostInv, Core

-----------------------------------------------------------------------------
(* Continuations and promises *)

LEMMA TransitionResumesKeeps ==
  ASSUME HostInv, TransitionResumes PROVE HostInv'
<1> DEFINE W == WaitersWhen(Leaving, disconnecting, shutdown, run.on)
<1>1. PICK i \in NextReady :
        /\ awaiting[i].who = "transition"
        /\ Enqueue([kind |-> awaiting[i].kind, current |-> awaiting[i].current,
                    wait |-> "start"])
        /\ awaiting' = RemoveAt(awaiting, i)
  BY DEF TransitionResumes
<1> DEFINE op == [kind |-> awaiting[i].kind, current |-> awaiting[i].current, wait |-> "start"]
<1>2. /\ UNCHANGED <<pending, pendingSafety, lifecycle, blockers, disconnecting, shutdown>>
      /\ UNCHANGED <<run, streaming>> /\ UNCHANGED restVars
  BY DEF TransitionResumes, streamVars
<1>3. /\ awaiting \in Seq(W) /\ \A k, j \in TeardownWaits(awaiting) : k = j
      /\ TeardownWaits(awaiting) # {} => pendingSafety = 0
  BY DEF HostInv, Core, WaiterInv
<1>4. i \in 1..Len(awaiting) /\ awaiting[i] \in W
  BY <1>3, ElementOfSeq, LenProperties DEF NextReady
<1>5. awaiting[i].kind \in Transitions /\ op \in OpsWhen(Leaving) /\ op.kind \in Transitions
  <2>1. /\ awaiting[i].kind \in Transitions /\ awaiting[i].current \in BOOLEAN
        /\ Leaving => ~awaiting[i].current
    BY <1>1, <1>4 DEF WaitersWhen
  <2>2. QED
    BY <2>1, KindsApart DEF OpsWhen
<1>6. Enqueue(op)
  BY <1>1
<1> HIDE DEF op, W
<1>7. /\ normal' \in Seq(OpsWhen(Leaving)) /\ safety' \in BOOLEAN
      /\ running' \in Runnings /\ running'.wait = running.wait
      /\ running.wait # "start" => running' = running
      /\ Leaving /\ running'.kind \in Bound => ~running'.current
      /\ answer' = answer
      /\ QueuedOps' = QueuedOps + 1
      /\ QueuedTransitions' = QueuedTransitions + OneIf(op.kind \in Transitions)
      /\ TeardownQueued' <=> TeardownQueued
      /\ ~(safety' /\ running'.kind = "teardown")
  BY <1>5, <1>6, EnqueueEffect DEF HostInv, Core
<1>8. /\ awaiting' \in Seq(W) /\ \A k, j \in TeardownWaits(awaiting') : k = j
      /\ TeardownWaits(awaiting) = {} => TeardownWaits(awaiting') = {}
      /\ TransitionsIn(awaiting') = TransitionsIn(awaiting)
                                      - OneIf(awaiting[i].kind \in Transitions)
  BY <1>1, <1>3, <1>4, RemoveWaiter
<1>9. Leaving' = Leaving /\ \A states : Past(states)' <=> Past(states)
  BY <1>2 DEF Leaving, Past
<1>10. QueueInv'
  BY <1>7, <1>9 DEF HostInv, Core, QueueInv
<1>11. WaiterInv'
  BY <1>2, <1>3, <1>8, <1>9 DEF WaiterInv, W
<1>12. CountInv'
  <2>1. OneIf(TeardownQueued') = OneIf(TeardownQueued)
    BY <1>7 DEF OneIf
  <2>2. /\ QueuedOps \in Nat /\ QueuedTransitions \in Nat /\ TransitionsIn(awaiting) \in Nat
    BY CountersAreNatural DEF HostInv
  <2>3. /\ QueuedTransitions' = QueuedTransitions + 1
        /\ TransitionsIn(awaiting') = TransitionsIn(awaiting) - 1
    BY <1>5, <1>7, <1>8 DEF OneIf
  <2>4. OneIf(disconnecting # "none") \in Nat
    BY DEF OneIf
  <2>5. QED
    BY <1>2, <1>7, <2>1, <2>2, <2>3, <2>4 DEF HostInv, Core, CountInv
<1>13. LifeInv'
  BY <1>2 DEF HostInv, Core, LifeInv
<1>14. TeardownInv'
  BY <1>2, <1>7, <1>9 DEF HostInv, Core, TeardownInv
<1>15. StreamInv'
  BY <1>2, StreamKept DEF HostInv
<1>16. AnswerInv' /\ MemoryInv'
  BY <1>2, <1>7, RestKept DEF HostInv
<1>17. QED
  BY <1>10, <1>11, <1>12, <1>13, <1>14, <1>15, <1>16 DEF HostInv, Core

\* Nobody but the one who resumes waits for a teardown, so the slot is free.
LEMMA SlotIsTaken ==
  ASSUME HostInv, NEW d, NEW s, ~TeardownQueued, Drain(normal, TRUE),
         UNCHANGED <<answer, pending>>, pendingSafety' = pendingSafety + 1,
         UNCHANGED <<lifecycle, blockers>>, (disconnecting' # "none") = (disconnecting # "none"),
         LifeInv', run'.on = run.on, Past({"teardown"})', ~run.on, ~Past({"ok", "failed"})',
         awaiting' \in Seq(WaitersWhen(Leaving, disconnecting', shutdown', run.on)),
         TeardownWaits(awaiting') = {}, TransitionsIn(awaiting') = TransitionsIn(awaiting)
  PROVE  /\ Core' /\ running'.wait = running.wait
         /\ running.wait # "start" => running' = running
<1>1. Leaving' = Leaving
  BY DEF Leaving
<1>2. /\ normal \in Seq(OpsWhen(Leaving)) /\ Leaving \in BOOLEAN /\ running \in Runnings
      /\ Leaving /\ running.kind \in Bound => ~running.current
      /\ ~safety /\ running.kind # "teardown"
      /\ answer \in {"none", "ok", "failed"}
  BY DEF HostInv, Core, QueueInv, TeardownQueued, Leaving
<1>3. /\ normal' \in Seq(OpsWhen(Leaving)) /\ safety' \in BOOLEAN
      /\ running' \in Runnings /\ running'.wait = running.wait
      /\ running.wait # "start" => running' = running
      /\ Leaving /\ running'.kind \in Bound => ~running'.current
      /\ QueuedOps' = Len(normal) + OneIf(running.kind \in Calls \cup {"pump"})
      /\ QueuedTransitions' = TransitionsIn(normal) + OneIf(running.kind \in Transitions)
      /\ TeardownQueued'
      /\ ~(safety' /\ running'.kind = "teardown")
  BY <1>2, DrainEffect
<1>4. QueueInv'
  BY <1>1, <1>2, <1>3 DEF QueueInv
<1>5. WaiterInv'
  BY <1>1 DEF WaiterInv
<1>6. CountInv'
  <2>1. QueuedOps' = QueuedOps /\ QueuedTransitions' = QueuedTransitions
    BY <1>3 DEF QueuedOps, QueuedTransitions
  <2>2. pendingSafety = 0 /\ pendingSafety' = OneIf(TeardownQueued')
    BY <1>3 DEF HostInv, Core, CountInv, OneIf
  <2>3. QED
    BY <2>1, <2>2 DEF HostInv, Core, CountInv
<1>7. TeardownInv'
  BY <1>3 DEF TeardownInv
<1>8. QED
  BY <1>3, <1>4, <1>5, <1>6, <1>7 DEF Core

LEMMA DisconnectResumesKeeps ==
  ASSUME HostInv, DisconnectResumes
  PROVE  HostInv' /\ disconnecting = "waiting" /\ disconnecting' = "teardown"
<1> DEFINE W == WaitersWhen(Leaving, disconnecting, shutdown, run.on)
           V == WaitersWhen(Leaving, disconnecting', shutdown', run.on)
<1>1. PICK i \in NextReady :
        awaiting[i].who = "disconnect" /\ awaiting' = RemoveAt(awaiting, i)
  BY DEF DisconnectResumes
<1>2. /\ UNCHANGED <<run, streaming, lifecycle, blockers, shutdown>> /\ UNCHANGED restVars
      /\ TakeSafetySlot(disconnecting)
  BY DEF DisconnectResumes, streamVars
<1>3. /\ awaiting \in Seq(W) /\ \A k, j \in TeardownWaits(awaiting) : k = j
      /\ TeardownWaits(awaiting) # {} => pendingSafety = 0
  BY DEF HostInv, Core, WaiterInv
<1>4. i \in 1..Len(awaiting) /\ awaiting[i] \in W /\ awaiting[i].ready
      /\ i \in TeardownWaits(awaiting)
  BY <1>1, <1>3, ElementOfSeq, LenProperties DEF NextReady, TeardownWaits
<1>5. disconnecting = "waiting" /\ ~run.on /\ awaiting[i].kind \notin Transitions
  BY <1>1, <1>4 DEF WaitersWhen
<1>6. pendingSafety = 0 /\ ~TeardownQueued
  <2>1. pendingSafety = 0
    BY <1>3, <1>4
  <2>2. QED
    BY <2>1 DEF HostInv, Core, CountInv, OneIf
<1>7. /\ disconnecting' = "teardown" /\ pendingSafety' = pendingSafety + 1
      /\ Drain(normal, TRUE) /\ UNCHANGED <<answer, pending>>
  <2>1. ~(pendingSafety >= 1)
    BY <1>6
  <2>2. QED
    BY <1>2, <2>1, Zenon DEF TakeSafetySlot
<1>8. shutdown \in {"none", "joined"}
  BY <1>5 DEF HostInv, Core, LifeInv
<1>9. LifeInv'
  BY <1>2, <1>5, <1>7, <1>8 DEF HostInv, Core, LifeInv
<1> HIDE DEF W
<1>10. /\ awaiting' \in Seq(W) /\ TeardownWaits(awaiting') = {}
       /\ TransitionsIn(awaiting') = TransitionsIn(awaiting)
                                       - OneIf(awaiting[i].kind \in Transitions)
  BY <1>1, <1>3, <1>4, RemoveWaiter
<1>11. awaiting' \in Seq(V)
  <2>1. \A k \in 1..Len(awaiting') : awaiting'[k] \in W
    BY <1>10, ElementOfSeq
  <2>2. \A k \in 1..Len(awaiting') : awaiting'[k].who \notin {"disconnect", "shutdown"}
    BY <1>10, LenProperties DEF TeardownWaits
  <2>3. \A k \in 1..Len(awaiting') : awaiting'[k] \in V
    BY <2>1, <2>2 DEF W, WaitersWhen
  <2> HIDE DEF V
  <2>4. QED
    BY <1>10, <2>3, SeqWithin
<1>12. TransitionsIn(awaiting') = TransitionsIn(awaiting)
  BY <1>5, <1>10, CountersAreNatural DEF OneIf, HostInv
<1>13. Past({"teardown"})' /\ ~Past({"ok", "failed"})' /\ run'.on = run.on
       /\ (disconnecting' # "none") = (disconnecting # "none")
  BY <1>2, <1>5, <1>7, <1>8 DEF Past
<1>14. /\ Core' /\ running'.wait = running.wait
       /\ running.wait # "start" => running' = running
  BY <1>2, <1>5, <1>6, <1>7, <1>9, <1>10, <1>11, <1>12, <1>13, SlotIsTaken
<1>15. StreamInv'
  BY <1>2, StreamKept DEF HostInv
<1>16. AnswerInv' /\ MemoryInv'
  BY <1>2, <1>7, <1>14, RestKept DEF HostInv
<1>17. QED
  BY <1>5, <1>7, <1>14, <1>15, <1>16 DEF HostInv

LEMMA ShutdownResumesKeeps ==
  ASSUME HostInv, ShutdownResumes
  PROVE  HostInv' /\ shutdown = "waiting" /\ shutdown' = "teardown"
<1> DEFINE W == WaitersWhen(Leaving, disconnecting, shutdown, run.on)
           V == WaitersWhen(Leaving, disconnecting', shutdown', run.on)
<1>1. PICK i \in NextReady :
        awaiting[i].who = "shutdown" /\ awaiting' = RemoveAt(awaiting, i)
  BY DEF ShutdownResumes
<1>2. /\ UNCHANGED <<run, streaming, lifecycle, blockers, disconnecting>> /\ UNCHANGED restVars
      /\ TakeSafetySlot(shutdown)
  BY DEF ShutdownResumes, streamVars
<1>3. /\ awaiting \in Seq(W) /\ \A k, j \in TeardownWaits(awaiting) : k = j
      /\ TeardownWaits(awaiting) # {} => pendingSafety = 0
  BY DEF HostInv, Core, WaiterInv
<1>4. i \in 1..Len(awaiting) /\ awaiting[i] \in W /\ awaiting[i].ready
      /\ i \in TeardownWaits(awaiting)
  BY <1>1, <1>3, ElementOfSeq, LenProperties DEF NextReady, TeardownWaits
<1>5. shutdown = "waiting" /\ ~run.on /\ awaiting[i].kind \notin Transitions
  BY <1>1, <1>4 DEF WaitersWhen
<1>6. pendingSafety = 0 /\ ~TeardownQueued
  <2>1. pendingSafety = 0
    BY <1>3, <1>4
  <2>2. QED
    BY <2>1 DEF HostInv, Core, CountInv, OneIf
<1>7. /\ shutdown' = "teardown" /\ pendingSafety' = pendingSafety + 1
      /\ Drain(normal, TRUE) /\ UNCHANGED <<answer, pending>>
  <2>1. ~(pendingSafety >= 1)
    BY <1>6
  <2>2. QED
    BY <1>2, <2>1, Zenon DEF TakeSafetySlot
<1>8. disconnecting = "none"
  BY <1>5 DEF HostInv, Core, LifeInv
<1>9. LifeInv'
  BY <1>2, <1>5, <1>7, <1>8 DEF HostInv, Core, LifeInv
<1> HIDE DEF W
<1>10. /\ awaiting' \in Seq(W) /\ TeardownWaits(awaiting') = {}
       /\ TransitionsIn(awaiting') = TransitionsIn(awaiting)
                                       - OneIf(awaiting[i].kind \in Transitions)
  BY <1>1, <1>3, <1>4, RemoveWaiter
<1>11. awaiting' \in Seq(V)
  <2>1. \A k \in 1..Len(awaiting') : awaiting'[k] \in W
    BY <1>10, ElementOfSeq
  <2>2. \A k \in 1..Len(awaiting') : awaiting'[k].who \notin {"disconnect", "shutdown"}
    BY <1>10, LenProperties DEF TeardownWaits
  <2>3. \A k \in 1..Len(awaiting') : awaiting'[k] \in V
    BY <2>1, <2>2 DEF W, WaitersWhen
  <2> HIDE DEF V
  <2>4. QED
    BY <1>10, <2>3, SeqWithin
<1>12. TransitionsIn(awaiting') = TransitionsIn(awaiting)
  BY <1>5, <1>10, CountersAreNatural DEF OneIf, HostInv
<1>13. Past({"teardown"})' /\ ~Past({"ok", "failed"})' /\ run'.on = run.on
       /\ (disconnecting' # "none") = (disconnecting # "none")
  BY <1>2, <1>5, <1>7, <1>8 DEF Past
<1>14. /\ Core' /\ running'.wait = running.wait
       /\ running.wait # "start" => running' = running
  BY <1>2, <1>5, <1>6, <1>7, <1>9, <1>10, <1>11, <1>12, <1>13, SlotIsTaken
<1>15. StreamInv'
  BY <1>2, StreamKept DEF HostInv
<1>16. AnswerInv' /\ MemoryInv'
  BY <1>2, <1>7, <1>14, RestKept DEF HostInv
<1>17. QED
  BY <1>5, <1>7, <1>14, <1>15, <1>16 DEF HostInv

LEMMA RestartResumesKeeps ==
  ASSUME HostInv, RestartResumes PROVE HostInv'
<1> DEFINE W == WaitersWhen(Leaving, disconnecting, shutdown, run.on)
           V == WaitersWhen(Leaving, disconnecting, shutdown, run'.on)
           w == Waiter("restart", "none")
<1>1. PICK i \in NextReady :
        /\ awaiting[i].who = "restart"
        /\ LET rest == RemoveAt(awaiting, i)
           IN  IF SessionWorkAvailable /\ run.on /\ run.stop
                 THEN /\ awaiting' = Append(rest, Waiter("restart", "none"))
                      /\ UNCHANGED streamVars
                 ELSE /\ awaiting' = rest
                      /\ IF SessionWorkAvailable /\ MayStart
                           THEN StartRun ELSE UNCHANGED streamVars
  BY DEF RestartResumes
<1> DEFINE rest == RemoveAt(awaiting, i)
<1>2. /\ UNCHANGED queueVars /\ UNCHANGED restVars
      /\ UNCHANGED <<lifecycle, blockers, disconnecting, shutdown>>
  BY DEF RestartResumes
<1>3. /\ awaiting \in Seq(W) /\ \A k, j \in TeardownWaits(awaiting) : k = j
      /\ TeardownWaits(awaiting) # {} => pendingSafety = 0
  BY DEF HostInv, Core, WaiterInv
<1>4. i \in 1..Len(awaiting) /\ awaiting[i] \in W
  BY <1>3, ElementOfSeq, LenProperties DEF NextReady
<1>5. awaiting[i].kind \notin Transitions
  BY <1>1, <1>4 DEF WaitersWhen
<1> HIDE DEF W
<1>6. /\ rest \in Seq(W) /\ \A k, j \in TeardownWaits(rest) : k = j
      /\ TeardownWaits(awaiting) = {} => TeardownWaits(rest) = {}
      /\ TransitionsIn(rest) = TransitionsIn(awaiting) - OneIf(awaiting[i].kind \in Transitions)
  BY <1>3, <1>4, RemoveWaiter
<1>7. TransitionsIn(rest) = TransitionsIn(awaiting) /\ TransitionsIn(awaiting) \in Nat
  BY <1>5, <1>6, CountersAreNatural DEF OneIf, HostInv
<1>8. AnswerInv' /\ MemoryInv'
  BY <1>2, RestKept DEF HostInv, queueVars
<1>9. CASE SessionWorkAvailable /\ awaiting' = Append(rest, w) /\ UNCHANGED streamVars
  <2>1. run' = run /\ streaming' = streaming
    BY <1>9 DEF streamVars
  <2>2. ~Leaving
    BY <1>9 DEF SessionWorkAvailable, Leaving
  <2>3. w \in W /\ w.who = "restart" /\ w.kind \notin Transitions
    <3>1. w \in W
      BY <2>2, WaiterType, KindsApart DEF W
    <3>2. QED
      BY <3>1, KindsApart DEF Waiter
  <2>4. TeardownWaits(rest) = {} /\ ~Past({"teardown", "ok", "failed"})
    BY <1>6, <2>2, NobodyLeaves DEF HostInv
  <2> HIDE DEF rest, w
  <2>5. /\ awaiting' \in Seq(W) /\ \A k, j \in TeardownWaits(awaiting') : k = j
        /\ TeardownWaits(awaiting') = TeardownWaits(rest)
        /\ TransitionsIn(awaiting') = TransitionsIn(rest) + OneIf(w.kind \in Transitions)
    BY <1>6, <1>9, <2>3, AppendWaiter
  <2>6. TransitionsIn(awaiting') = TransitionsIn(awaiting) /\ awaiting' \in Seq(V)
    BY <1>7, <2>1, <2>3, <2>5 DEF OneIf, W
  <2> HIDE DEF V
  <2>7. Core'
    BY <1>2, <2>4, <2>5, <2>6, WaitersChange DEF HostInv, V
  <2>8. StreamInv'
    BY <1>2, <2>1, StreamKept DEF HostInv
  <2>9. QED
    BY <1>8, <2>7, <2>8 DEF HostInv
<1>10. CASE awaiting' = rest /\ SessionWorkAvailable /\ MayStart /\ StartRun
  <2>1. StreamInv' /\ run'.on
    BY <1>2, <1>10, StartRunKeeps DEF MayStart
  <2>2. ~Leaving
    BY <1>10 DEF SessionWorkAvailable, Leaving
  <2>3. /\ W \subseteq V /\ TeardownWaits(rest) = {}
        /\ ~Past({"teardown", "ok", "failed"})
    BY <1>6, <2>2, NobodyLeaves DEF HostInv, W
  <2> HIDE DEF V, rest
  <2>4. awaiting' \in Seq(V)
    BY <1>6, <1>10, <2>3, SeqGrows
  <2>5. Core'
    BY <1>2, <1>6, <1>7, <1>10, <2>3, <2>4, WaitersChange DEF HostInv, V
  <2>6. QED
    BY <1>8, <2>1, <2>5 DEF HostInv
<1>11. CASE awaiting' = rest /\ UNCHANGED streamVars
  <2>1. run' = run /\ streaming' = streaming
    BY <1>11 DEF streamVars
  <2>2. W = V
    BY <2>1 DEF W
  <2> HIDE DEF V, rest
  <2>3. awaiting' \in Seq(V)
    BY <1>6, <1>11, <2>2
  <2>4. Past({"teardown", "ok", "failed"}) => ~run'.on
    BY <2>1 DEF HostInv, Core, TeardownInv
  <2>5. Core'
    BY <1>2, <1>3, <1>6, <1>7, <1>11, <2>3, <2>4, WaitersChange DEF HostInv, V
  <2>6. StreamInv'
    BY <1>2, <2>1, StreamKept DEF HostInv
  <2>7. QED
    BY <1>8, <2>5, <2>6 DEF HostInv
<1>12. QED
  BY <1>1, <1>9, <1>10, <1>11

\* A promise settles: nobody waits for a teardown, and none is under way.
LEMMA SettledPromise ==
  ASSUME HostInv, UNCHANGED queueVars, UNCHANGED <<run, streaming, awaiting>>, UNCHANGED restVars,
         disconnecting # "waiting", shutdown # "waiting", ~Past({"teardown"}), LifeInv',
         Leaving' => Leaving, Past({"ok", "failed"})' => Past({"ok", "failed"}),
         Past({"teardown", "ok", "failed"})' => Past({"ok", "failed"}),
         blockers' = blockers + OneIf(disconnecting' # "none") - OneIf(disconnecting # "none"),
         lifecycle # "open" \/ (lifecycle' = "open" /\ blockers' <= blockers)
  PROVE  HostInv'
<1> DEFINE W == WaitersWhen(Leaving, disconnecting, shutdown, run.on)
           V == WaitersWhen(Leaving', disconnecting', shutdown', run'.on)
<1>1. /\ UNCHANGED <<normal, safety, running, answer, pending, pendingSafety>>
      /\ (TeardownQueued' <=> TeardownQueued)
      /\ QueuedOps' = QueuedOps /\ QueuedTransitions' = QueuedTransitions
  BY DEF queueVars, TeardownQueued, QueuedOps, QueuedTransitions
<1>2. ~TeardownQueued
  BY DEF HostInv, Core, TeardownInv
<1>3. /\ awaiting \in Seq(W) /\ \A k, j \in TeardownWaits(awaiting) : k = j
      /\ TeardownWaits(awaiting) # {} => pendingSafety = 0
  BY DEF HostInv, Core, WaiterInv
<1>4. W \subseteq V
  BY DEF WaitersWhen
<1>5. awaiting' \in Seq(V)
  <2> HIDE DEF W, V
  <2>1. awaiting \in Seq(V)
    BY <1>3, <1>4, SeqGrows
  <2>2. QED
    BY <2>1
<1>6. WaiterInv'
  <2>1. /\ \A k, j \in TeardownWaits(awaiting') : k = j
        /\ TeardownWaits(awaiting') # {} => pendingSafety' = 0
    <3> HIDE DEF W, V
    <3>1. awaiting' = awaiting /\ pendingSafety' = pendingSafety
      BY <1>1
    <3>2. TeardownWaits(awaiting') = TeardownWaits(awaiting)
      BY <3>1
    <3>3. QED
      BY <1>3, <3>1, <3>2, Zenon
  <2>2. QED
    BY <1>5, <2>1 DEF WaiterInv
<1>7. QueueInv'
  <2>1. OpsWhen(Leaving) \subseteq OpsWhen(Leaving')
    BY DEF OpsWhen
  <2>2. normal \in Seq(OpsWhen(Leaving'))
    BY <2>1, SeqGrows DEF HostInv, Core, QueueInv
  <2>3. QED
    BY <1>1, <2>2 DEF HostInv, Core, QueueInv
<1>8. CountInv'
  <2>1. OneIf(TeardownQueued') = OneIf(TeardownQueued)
    BY <1>1 DEF OneIf
  <2>2. QueuedTransitions \in Nat /\ TransitionsIn(awaiting) \in Nat
    BY CountersAreNatural DEF HostInv
  <2>3. OneIf(disconnecting # "none") \in {0, 1} /\ OneIf(disconnecting' # "none") \in {0, 1}
    BY DEF OneIf
  <2>4. QED
    BY <1>1, <2>1, <2>2, <2>3 DEF HostInv, Core, CountInv
<1>9. TeardownInv'
  <2>1. Past({"ok", "failed"}) => ~run.on
    BY DEF HostInv, Core, TeardownInv, Past
  <2>2. QED
    BY <1>1, <1>2, <2>1 DEF HostInv, Core, TeardownInv
<1>10. StreamInv'
  <2>1. blockers \in Nat /\ blockers' \in Int
    <3>1. blockers \in Nat
      BY CountersAreNatural DEF HostInv
    <3>2. QED
      BY <3>1 DEF OneIf
  <2>2. blockers' > 0 \/ lifecycle' # "open" => blockers > 0 \/ lifecycle # "open"
    BY <2>1
  <2>3. QED
    BY <2>2, StreamKept DEF HostInv
<1>11. AnswerInv' /\ MemoryInv'
  BY <1>1, RestKept DEF HostInv
<1>12. QED
  BY <1>6, <1>7, <1>8, <1>9, <1>10, <1>11 DEF HostInv, Core

LEMMA DisconnectSettlesKeeps ==
  ASSUME HostInv, DisconnectSettles PROVE HostInv'
<1>1. /\ disconnecting \in {"ok", "failed"} /\ disconnecting' = "none"
      /\ blockers' = blockers - 1
      /\ shutdown' = IF shutdown = "joined" THEN disconnecting ELSE shutdown
      /\ UNCHANGED queueVars /\ UNCHANGED <<run, streaming, awaiting, lifecycle>>
      /\ UNCHANGED restVars
  BY DEF DisconnectSettles, streamVars
<1>2. shutdown \in {"none", "joined"} /\ (shutdown = "none" <=> lifecycle = "open")
  BY <1>1 DEF HostInv, Core, LifeInv
<1>3. /\ disconnecting # "waiting" /\ shutdown # "waiting" /\ ~Past({"teardown"})
      /\ Past({"ok", "failed"})
  BY <1>1, <1>2 DEF Past
<1>4. LifeInv'
  BY <1>1, <1>2 DEF HostInv, Core, LifeInv
<1>5. Leaving
  BY <1>1 DEF Leaving
<1>6. blockers' = blockers + OneIf(disconnecting' # "none") - OneIf(disconnecting # "none")
      /\ blockers' <= blockers
  <2>1. OneIf(disconnecting' # "none") = 0 /\ OneIf(disconnecting # "none") = 1
    BY <1>1 DEF OneIf
  <2>2. blockers \in Nat
    BY CountersAreNatural DEF HostInv
  <2>3. QED
    BY <1>1, <2>1, <2>2
<1>7. QED
  BY <1>1, <1>3, <1>4, <1>5, <1>6, SettledPromise

LEMMA ShutdownSettlesKeeps ==
  ASSUME HostInv, ShutdownSettles PROVE HostInv'
<1>1. /\ shutdown \in {"ok", "failed"} /\ lifecycle = "closing"
      /\ lifecycle' = IF shutdown = "ok" THEN "closed" ELSE "open"
      /\ shutdown' = IF shutdown = "ok" THEN shutdown ELSE "none"
      /\ UNCHANGED queueVars /\ UNCHANGED <<run, streaming, awaiting, blockers, disconnecting>>
      /\ UNCHANGED restVars
  BY DEF ShutdownSettles, streamVars
<1>2. disconnecting = "none"
  BY <1>1 DEF HostInv, Core, LifeInv
<1>3. /\ disconnecting # "waiting" /\ shutdown # "waiting" /\ ~Past({"teardown"})
      /\ Past({"ok", "failed"})
  BY <1>1, <1>2 DEF Past
<1>4. LifeInv'
  BY <1>1, <1>2 DEF HostInv, Core, LifeInv
<1>5. Leaving
  BY <1>1 DEF Leaving
<1>6. blockers' = blockers + OneIf(disconnecting' # "none") - OneIf(disconnecting # "none")
  <2>1. OneIf(disconnecting' # "none") = 0 /\ OneIf(disconnecting # "none") = 0
    BY <1>1, <1>2 DEF OneIf
  <2>2. blockers \in Nat
    BY CountersAreNatural DEF HostInv
  <2>3. QED
    BY <1>1, <2>1, <2>2
<1>7. QED
  BY <1>1, <1>3, <1>4, <1>5, <1>6, SettledPromise

-----------------------------------------------------------------------------
(* The invariant *)

LEMMA HostInitially == HostInit => HostInv
<1> SUFFICES ASSUME HostInit PROVE HostInv
  OBVIOUS
<1>1. /\ normal = << >> /\ awaiting = << >> /\ running = NoOp /\ safety = FALSE
      /\ answer = "none" /\ pending = 0 /\ pendingSafety = 0 /\ blockers = 0
      /\ lifecycle = "open" /\ disconnecting = "none" /\ shutdown = "none"
      /\ run = NoRun /\ streaming = "stopped" /\ startup = "not-started"
      /\ knownCleanup = "none" /\ cleanup = "none" /\ sess = "none" /\ settled = "none"
      /\ evented = FALSE /\ accepted = FALSE /\ echo = FALSE
  BY DEF HostInit, ContractInit
<1>2. /\ running \in Runnings /\ running.kind = "none" /\ running.wait = "start"
      /\ ~running.current
  BY <1>1 DEF NoOp, Runnings
<1>3. QueueInv
  <2>1. normal \in Seq(OpsWhen(Leaving))
    BY <1>1
  <2>2. safety \in BOOLEAN /\ answer \in {"none", "ok", "failed"}
    BY <1>1
  <2>3. QED
    BY <1>2, <2>1, <2>2, Zenon DEF QueueInv
<1>4. WaiterInv
  <2>1. TeardownWaits(<< >>) = {}
    BY DEF TeardownWaits
  <2>2. QED
    BY <1>1, <2>1 DEF WaiterInv
<1>5. CountInv
  <2>1. QueuedOps = 0 /\ QueuedTransitions = 0 /\ ~TeardownQueued
    BY <1>1, <1>2, CountEmpty, KindsApart, EmptySeq
       DEF QueuedOps, QueuedTransitions, TeardownQueued, OneIf
  <2>2. QED
    BY <1>1, <2>1, CountEmpty, KindsApart DEF CountInv, OneIf
<1>6. LifeInv
  BY <1>1 DEF LifeInv
<1>7. TeardownInv
  BY <1>1, <1>2 DEF TeardownInv, TeardownQueued, Past
<1>8. StreamInv
  BY <1>1 DEF StreamInv, NoStreamThroughTransition, NoRun
<1>9. AnswerInv
  BY <1>1, <1>2 DEF AnswerInv, ContractTypeOK
<1>10. MemoryInv
  BY <1>1 DEF MemoryInv, CleanupStateIsFresh
<1>11. QED
  BY <1>3, <1>4, <1>5, <1>6, <1>7, <1>8, <1>9, <1>10 DEF HostInv, Core

LEMMA HostStep == HostInv /\ [HostNext]_vars => HostInv'
<1> SUFFICES ASSUME HostInv, [HostNext]_vars PROVE HostInv'
  OBVIOUS
<1>1. CASE CallerStep
  BY <1>1, CallTransitionKeeps, CallOperationKeeps, StartStreamingKeeps, StopStreamingKeeps,
     CallDisconnectKeeps, CallShutdownKeeps DEF CallerStep
<1>2. CASE EventStep
  BY <1>2, EventsKeep
<1>3. CASE Continuation
  BY <1>3, TransitionResumesKeeps, DisconnectResumesKeeps, ShutdownResumesKeeps,
     RestartResumesKeeps DEF Continuation
<1>4. CASE OperationStep
  <2>1. CASE \/ CallsManager("connect", "connect")
             \/ CallsManager("configure", "configure")
             \/ CallsManager("mode", "feature") \/ CallsManager("feature", "feature")
             \/ CallsManager("discover", "discover")
    BY <2>1, CallsManagerKeeps
  <2>2. CASE BeginAcquire \/ BeginStartup
    BY <2>2, CallsManagerKeeps DEF BeginAcquire, BeginStartup
  <2>3. CASE BeginPreference
    BY <2>3, CallsManagerKeeps DEF BeginPreference
  <2>4. CASE EndsAtStart \/ BeginPump \/ BeginTeardown
    BY <2>4, EndsAtStartKeeps, BeginPumpKeeps, BeginTeardownKeeps
  <2>5. CASE OperationEnds \/ ConnectEnds \/ AcquireEnds \/ StartupConnects \/ PreferenceLooks
    BY <2>5, OperationEndsKeeps, ConnectEndsKeeps, AcquireEndsKeeps, PreferenceLooksKeeps
  <2>6. CASE StartupLooks("load", "discover") \/ StartupLooks("discover", "connect")
    BY <2>6, StartupLooksKeeps
  <2>7. CASE TeardownEnds
    BY <2>7, TeardownEndsKeeps
  <2>8. QED
    BY <1>4, <2>1, <2>2, <2>3, <2>4, <2>5, <2>6, <2>7 DEF OperationStep
<1>5. CASE AnswerStep
  BY <1>5, LookedKeeps, ManagerAnswersKeep DEF AnswerStep
<1>6. CASE PumpStep
  BY <1>6, PumpSubmitsKeeps, PumpEndsKeeps DEF PumpStep
<1>7. CASE PromiseStep
  BY <1>7, DisconnectSettlesKeeps, ShutdownSettlesKeeps DEF PromiseStep
<1>8. CASE UNCHANGED vars
  <2>1. /\ UNCHANGED <<normal, safety, running, answer, pending, pendingSafety>>
        /\ UNCHANGED lifeVars /\ UNCHANGED <<run, streaming>> /\ UNCHANGED restVars
    BY <1>8 DEF vars, hostVars, queueVars, streamVars, lifeVars, restVars, measurementVars
  <2>2. Core'
    <3>1. answer' \in {"none", "ok", "failed"}
      BY <2>1 DEF HostInv, Core, QueueInv
    <3>2. QED
      BY <2>1, <3>1, AnswersKeepCore DEF HostInv
  <2>3. StreamInv'
    BY <2>1, StreamKept DEF HostInv, lifeVars
  <2>4. AnswerInv' /\ MemoryInv'
    BY <2>1, RestKept DEF HostInv
  <2>5. QED
    BY <2>2, <2>3, <2>4 DEF HostInv
<1>9. QED
  BY <1>1, <1>2, <1>3, <1>4, <1>5, <1>6, <1>7, <1>8 DEF HostNext

\* The invariant holds throughout.
LEMMA HostAlways == HostSpec => []HostInv
<1>1. HostInit /\ [][HostNext]_vars => []HostInv
  BY HostInitially, HostStep, PTL
<1>2. QED
  BY <1>1, PTL DEF HostSpec, HostSafetySpec

\* TransitionsAreReserved: every admission and every blocker is given back
\* once, the teardown slot is free for who gets to it, and no stream lives
\* through a transition, for any operations and any limit.
THEOREM TransitionsStayReserved == HostSpec => []TransitionsAreReserved
<1>1. HostInv => TransitionsAreReserved
  <2> SUFFICES ASSUME HostInv PROVE TransitionsAreReserved
    OBVIOUS
  <2> DEFINE Queued == [kind : Calls \cup {"pump"}, current : BOOLEAN, wait : {"start"}]
             Waiting == [who : {"transition", "disconnect", "shutdown", "restart"},
                         kind : Transitions \cup {"none"},
                         current : BOOLEAN, ready : BOOLEAN]
  <2>1. normal \in Seq(Queued)
    <3>1. OpsWhen(Leaving) \subseteq Queued
      BY DEF OpsWhen
    <3> HIDE DEF Queued
    <3>2. QED
      BY <3>1, SeqGrows DEF HostInv, Core, QueueInv
  <2>2. awaiting \in Seq(Waiting)
    <3>1. WaitersWhen(Leaving, disconnecting, shutdown, run.on) \subseteq Waiting
      BY DEF WaitersWhen
    <3> HIDE DEF Waiting
    <3>2. QED
      BY <3>1, SeqGrows DEF HostInv, Core, WaiterInv
  <2>3. /\ blockers \in Nat /\ pending \in Nat /\ pendingSafety \in {0, 1}
        /\ TransitionsIn(awaiting) \in Nat /\ QueuedOps \in Nat /\ QueuedTransitions \in Nat
        /\ QueuedTransitions <= QueuedOps /\ HostLimit \in Nat
    BY CountersAreNatural, KindsApart DEF HostInv
  <2>4. /\ pending = QueuedOps + TransitionsIn(awaiting) /\ pending <= HostLimit
        /\ pendingSafety = OneIf(TeardownQueued)
        /\ blockers = QueuedTransitions + TransitionsIn(awaiting) + OneIf(disconnecting # "none")
    BY DEF HostInv, Core, CountInv
  <2>5. OneIf(disconnecting # "none") \in {0, 1}
    BY DEF OneIf
  <2>6. /\ pending \in 0..HostLimit /\ pendingSafety \in 0..1
        /\ blockers \in 0..(HostLimit + 1)
    BY <2>3, <2>4, <2>5
  <2>7. /\ ContractTypeOK /\ lifecycle \in {"open", "closing", "closed"} /\ safety \in BOOLEAN
        /\ running \in Runnings /\ answer \in {"none", "ok", "failed"}
        /\ disconnecting \in {"none", "waiting", "teardown", "ok", "failed"}
        /\ shutdown \in {"none", "waiting", "joined", "teardown", "ok", "failed"}
        /\ run \in [on : BOOLEAN, stop : BOOLEAN, fault : BOOLEAN,
                    pump : {"loop", "submitted", "failed"}]
        /\ streaming \in {"stopped", "running", "faulted"}
        /\ startup \in {"not-started", "connected", "failed"}
        /\ knownCleanup \in {"none", "driver", "rejected"}
        /\ evented \in BOOLEAN /\ accepted \in BOOLEAN /\ echo \in BOOLEAN
    BY DEF HostInv, Core, QueueInv, LifeInv, StreamInv, AnswerInv, MemoryInv
  <2>8. HostTypeOK
    BY <2>1, <2>2, <2>6, <2>7 DEF HostTypeOK, Runnings
  <2>9. pending = Len(normal) + TransitionsIn(awaiting)
                    + OneIf(running.kind \in Calls \cup {"pump"})
    <3>1. Len(normal) \in Nat /\ OneIf(running.kind \in Calls \cup {"pump"}) \in Nat
      BY <2>1, LenProperties DEF OneIf
    <3>2. QED
      BY <2>3, <2>4, <3>1 DEF QueuedOps
  <2>10. blockers = TransitionsIn(normal) + TransitionsIn(awaiting)
                      + OneIf(running.kind \in Transitions)
                      + OneIf(disconnecting # "none")
    <3>1. TransitionsIn(normal) \in Nat /\ OneIf(running.kind \in Transitions) \in Nat
      BY <2>1, CountType DEF OneIf
    <3>2. QED
      BY <2>3, <2>4, <2>5, <3>1 DEF QueuedTransitions
  <2>11. \A i \in DOMAIN awaiting :
            awaiting[i].who \in {"disconnect", "shutdown"} => pendingSafety = 0
    BY DEF HostInv, Core, WaiterInv, TeardownWaits
  <2>12. ReservationsAreExact
    BY <2>4, <2>8, <2>9, <2>10, <2>11 DEF ReservationsAreExact, TeardownQueued
  <2>13. QED
    BY <2>12 DEF TransitionsAreReserved, HostInv, StreamInv
<1>2. QED
  BY <1>1, HostAlways, PTL

\* HostRemembersTruly: what the host shows of the cleanup requirement is the
\* manager's, and no measurement it has returned is novel to it.
THEOREM HostAlwaysRemembersTruly == HostSpec => []HostRemembersTruly
<1>1. HostInv => HostRemembersTruly
  BY DEF HostInv, MemoryInv, HostRemembersTruly, NoMeasurementIsNovelTwice
<1>2. QED
  BY <1>1, HostAlways, PTL

-----------------------------------------------------------------------------
(* The host keeps its contract: every step is a step of HostContract *)

Held == sess # "none" \/ cleanup # "none" \/ run.on
Saving == running.wait = "save"

\* What the contract does not see.
LEMMA ContractSeesNothing ==
  ASSUME UNCHANGED <<lifecycle, disconnecting, shutdown>>, Held' <=> Held, Saving' <=> Saving
  PROVE  UNCHANGED Contract!hostVars
<1>1. AsPromise(disconnecting)' = AsPromise(disconnecting)
      /\ AsPromise(shutdown)' = AsPromise(shutdown)
  BY DEF AsPromise
<1>2. (sess # "none" \/ cleanup # "none" \/ run.on)' = (sess # "none" \/ cleanup # "none" \/ run.on)
  BY Zenon DEF Held
<1>3. (running.wait = "save")' = (running.wait = "save")
  BY Zenon DEF Saving
<1>4. QED
  BY <1>1, <1>2, <1>3 DEF Contract!hostVars

LEMMA ContractAcquires ==
  ASSUME UNCHANGED <<lifecycle, disconnecting, shutdown>>, Held', ~Saving, ~Saving',
         lifecycle # "closed", disconnecting # "ok", shutdown # "ok"
  PROVE  Contract!Acquires
BY Zenon DEF Contract!Acquires, Held, Saving, AsPromise

LEMMA ContractReleases ==
  ASSUME UNCHANGED <<lifecycle, disconnecting, shutdown>>, ~Held', Saving' <=> Saving
  PROVE  Contract!Releases
BY Zenon DEF Contract!Releases, Held, Saving, AsPromise

\* The host takes hold of the instrument only where the contract lets it.
LEMMA HoldMoves ==
  ASSUME UNCHANGED <<lifecycle, disconnecting, shutdown>>, Saving' <=> Saving,
         Held' /\ ~Held => /\ ~Saving /\ lifecycle # "closed"
                           /\ disconnecting # "ok" /\ shutdown # "ok"
  PROVE  [Contract!HostNext]_Contract!hostVars
<1>1. CASE Held' <=> Held
  BY <1>1, ContractSeesNothing
<1>2. CASE Held' /\ ~Held
  BY <1>2, ContractAcquires DEF Contract!HostNext
<1>3. CASE ~Held' /\ Held
  BY <1>3, ContractReleases DEF Contract!HostNext
<1>4. QED
  BY <1>1, <1>2, <1>3, Zenon

LEMMA SettleStarts ==
  ASSUME HostInv, Settle PROVE running'.wait = "start"
<1>1. normal \in Seq(OpsWhen(Leaving)) /\ Leaving \in BOOLEAN /\ safety \in BOOLEAN
  BY DEF HostInv, Core, QueueInv, Leaving
<1>2. DrainFrom(normal, safety)
  BY DEF Settle
<1>3. QED
  BY <1>1, <1>2, DrainFromEffect

LEMMA AwaitsWait ==
  ASSUME HostInv, NEW wait, NEW result, Awaits(wait, result) PROVE running'.wait = wait
BY DEF Awaits, HostInv, Core, QueueInv, Runnings

LEMMA EnqueueWaits ==
  ASSUME HostInv, NEW op \in OpsWhen(Leaving), Enqueue(op) PROVE running'.wait = running.wait
BY EnqueueEffect DEF HostInv, Core

LEMMA CallersKeepContract ==
  ASSUME HostInv, CallerStep PROVE [Contract!HostNext]_Contract!hostVars
<1>1. ASSUME NEW kind \in Transitions, CallTransition(kind)
      PROVE  [Contract!HostNext]_Contract!hostVars
  <2>1. /\ UNCHANGED <<lifecycle, disconnecting, shutdown>> /\ RequestStop
        /\ UNCHANGED <<running, sess, cleanup>>
    BY <1>1 DEF CallTransition, restVars, contractVars
  <2>2. run'.on = run.on
    BY <2>1, StopKeepsStream DEF HostInv
  <2>3. (Held' <=> Held) /\ (Saving' <=> Saving)
    BY <2>1, <2>2 DEF Held, Saving
  <2>4. QED
    BY <2>1, <2>3, HoldMoves
<1>2. ASSUME NEW kind, \/ kind \in SessionCalls /\ CallSession(kind)
                       \/ kind \in FreeCalls /\ CallFree(kind)
      PROVE  [Contract!HostNext]_Contract!hostVars
  <2>1. /\ UNCHANGED <<lifecycle, disconnecting, shutdown>> /\ Enqueue(Op(kind))
        /\ UNCHANGED <<run, sess, cleanup>>
    BY <1>2 DEF CallSession, CallFree, lifeVars, streamVars, restVars, contractVars
  <2>2. kind \in SessionCalls /\ CallSession(kind) => ~Leaving
    BY DEF CallSession, SessionWorkAvailable, Leaving
  <2>3. Op(kind) \in OpsWhen(Leaving)
    BY <1>2, <2>2, KindsApart, HostAssumption DEF Op, OpsWhen, Bound
  <2>4. (Held' <=> Held) /\ (Saving' <=> Saving)
    BY <2>1, <2>3, EnqueueWaits DEF Held, Saving
  <2>5. QED
    BY <2>1, <2>4, HoldMoves
<1>3. ASSUME StartStreaming PROVE [Contract!HostNext]_Contract!hostVars
  <2>1. /\ UNCHANGED <<lifecycle, disconnecting, shutdown>>
        /\ UNCHANGED <<running, sess, cleanup>>
        /\ sess = "configured" \/ run' = run
    BY <1>3 DEF StartStreaming, MayStart, queueVars, streamVars, restVars, contractVars
  <2>2. (Held' <=> Held) /\ (Saving' <=> Saving)
    BY <2>1 DEF Held, Saving
  <2>3. QED
    BY <2>1, <2>2, HoldMoves
<1>4. ASSUME StopStreaming PROVE [Contract!HostNext]_Contract!hostVars
  <2>1. /\ UNCHANGED <<lifecycle, disconnecting, shutdown>> /\ RequestStop
        /\ UNCHANGED <<running, sess, cleanup>>
    BY <1>4 DEF StopStreaming, queueVars, lifeVars, restVars, contractVars
  <2>2. run'.on = run.on
    BY <2>1, StopKeepsStream DEF HostInv
  <2>3. (Held' <=> Held) /\ (Saving' <=> Saving)
    BY <2>1, <2>2 DEF Held, Saving
  <2>4. QED
    BY <2>1, <2>3, HoldMoves
<1>5. ASSUME CallDisconnect PROVE [Contract!HostNext]_Contract!hostVars
  <2>1. /\ lifecycle = "open" /\ disconnecting = "none" /\ disconnecting' = "waiting"
        /\ UNCHANGED <<lifecycle, shutdown, sess, cleanup>> /\ RequestStop /\ AdvanceEpoch
    BY <1>5 DEF CallDisconnect, restVars, contractVars
  <2>2. run'.on = run.on /\ running'.wait = running.wait
    BY <2>1, StopKeepsStream, EpochAdvances DEF HostInv
  <2>3. (Held' <=> Held) /\ (Saving' <=> Saving)
    BY <2>1, <2>2 DEF Held, Saving
  <2>4. /\ AsPromise(disconnecting) = "none" /\ AsPromise(disconnecting)' = "pending"
        /\ AsPromise(shutdown)' = AsPromise(shutdown)
    BY <2>1 DEF AsPromise
  <2>5. Contract!DisconnectCalled
    BY <2>1, <2>3, <2>4, Zenon DEF Contract!DisconnectCalled, Held, Saving
  <2>6. QED
    BY <2>5 DEF Contract!HostNext
<1>6. ASSUME CallShutdown PROVE [Contract!HostNext]_Contract!hostVars
  <2>1. /\ shutdown = "none" /\ lifecycle' = "closing" /\ shutdown' \in {"joined", "waiting"}
        /\ UNCHANGED <<disconnecting, sess, cleanup>> /\ RequestStop /\ AdvanceEpoch
    BY <1>6 DEF CallShutdown, restVars, contractVars
  <2>2. lifecycle = "open"
    BY <2>1 DEF HostInv, Core, LifeInv
  <2>3. run'.on = run.on /\ running'.wait = running.wait
    BY <2>1, StopKeepsStream, EpochAdvances DEF HostInv
  <2>4. (Held' <=> Held) /\ (Saving' <=> Saving)
    BY <2>1, <2>3 DEF Held, Saving
  <2>5. /\ AsPromise(shutdown) = "none" /\ AsPromise(shutdown)' = "pending"
        /\ AsPromise(disconnecting)' = AsPromise(disconnecting)
    BY <2>1 DEF AsPromise
  <2>6. Contract!ShutdownCalled
    BY <2>1, <2>2, <2>4, <2>5, Zenon DEF Contract!ShutdownCalled, Held, Saving
  <2>7. QED
    BY <2>6 DEF Contract!HostNext
<1>7. QED
  BY <1>1, <1>2, <1>3, <1>4, <1>5, <1>6 DEF CallerStep

LEMMA ContinuationsKeepContract ==
  ASSUME HostInv, Continuation PROVE [Contract!HostNext]_Contract!hostVars
<1>1. ASSUME TransitionResumes PROVE [Contract!HostNext]_Contract!hostVars
  <2>1. PICK i \in NextReady :
          /\ awaiting[i].who = "transition"
          /\ Enqueue([kind |-> awaiting[i].kind, current |-> awaiting[i].current,
                      wait |-> "start"])
    BY <1>1 DEF TransitionResumes
  <2> DEFINE op == [kind |-> awaiting[i].kind, current |-> awaiting[i].current, wait |-> "start"]
             W == WaitersWhen(Leaving, disconnecting, shutdown, run.on)
  <2>2. awaiting \in Seq(W) /\ i \in DOMAIN awaiting
    BY DEF HostInv, Core, WaiterInv, NextReady
  <2>3. awaiting[i] \in W
    <3> HIDE DEF W
    <3>1. QED
      BY <2>2, ElementOfSeq, LenProperties
  <2>4. op \in OpsWhen(Leaving)
    <3>1. /\ awaiting[i].kind \in Transitions /\ awaiting[i].current \in BOOLEAN
          /\ Leaving => ~awaiting[i].current
      BY <2>1, <2>3 DEF WaitersWhen
    <3>2. QED
      BY <3>1, KindsApart DEF OpsWhen
  <2>5. /\ UNCHANGED <<lifecycle, disconnecting, shutdown>>
        /\ UNCHANGED <<run, sess, cleanup>>
    BY <1>1 DEF TransitionResumes, streamVars, restVars, contractVars
  <2> HIDE DEF op
  <2>6. running'.wait = running.wait
    BY <2>1, <2>4, EnqueueWaits DEF op
  <2>7. (Held' <=> Held) /\ (Saving' <=> Saving)
    BY <2>5, <2>6 DEF Held, Saving
  <2>8. QED
    BY <2>5, <2>7, HoldMoves
<1>2. ASSUME DisconnectResumes \/ ShutdownResumes
      PROVE  [Contract!HostNext]_Contract!hostVars
  <2>1. /\ UNCHANGED <<lifecycle, run, sess, cleanup>>
        /\ \/ disconnecting = "waiting" /\ disconnecting' = "teardown" /\ shutdown' = shutdown
           \/ shutdown = "waiting" /\ shutdown' = "teardown" /\ disconnecting' = disconnecting
    BY <1>2, DisconnectResumesKeeps, ShutdownResumesKeeps
       DEF DisconnectResumes, ShutdownResumes, streamVars, restVars, contractVars
  <2>2. AsPromise(disconnecting)' = AsPromise(disconnecting)
        /\ AsPromise(shutdown)' = AsPromise(shutdown)
    BY <2>1 DEF AsPromise
  <2>3. running'.wait = running.wait
    <3>1. Drain(normal, TRUE) \/ running' = running
      BY <1>2 DEF DisconnectResumes, ShutdownResumes, TakeSafetySlot, queueVars
    <3>2. CASE running = NoOp /\ DrainFrom(normal, TRUE)
      BY <3>2 DEF DrainFrom, NoOp, Op
    <3>3. QED
      BY <3>1, <3>2 DEF Drain
  <2>4. /\ (sess # "none" \/ cleanup # "none" \/ run.on)'
             = (sess # "none" \/ cleanup # "none" \/ run.on)
        /\ (running.wait = "save")' = (running.wait = "save")
    BY <2>1, <2>3, Zenon
  <2>5. UNCHANGED Contract!hostVars
    BY <2>1, <2>2, <2>4 DEF Contract!hostVars
  <2>6. QED
    BY <2>5
<1>3. ASSUME RestartResumes PROVE [Contract!HostNext]_Contract!hostVars
  <2>1. /\ UNCHANGED <<lifecycle, disconnecting, shutdown>>
        /\ UNCHANGED <<running, sess, cleanup>>
        /\ sess = "configured" \/ run' = run
    BY <1>3 DEF RestartResumes, MayStart, queueVars, streamVars, restVars, contractVars
  <2>2. (Held' <=> Held) /\ (Saving' <=> Saving)
    BY <2>1 DEF Held, Saving
  <2>3. QED
    BY <2>1, <2>2, HoldMoves
<1>4. QED
  BY <1>1, <1>2, <1>3 DEF Continuation

LEMMA OperationsKeepContract ==
  ASSUME HostInv, OperationStep PROVE [Contract!HostNext]_Contract!hostVars
<1>1. ASSUME EndsAtStart \/ BeginPump PROVE [Contract!HostNext]_Contract!hostVars
  <2>1. /\ running.wait = "start"
        /\ Settle \/ Awaits("acquire", "none")
        /\ UNCHANGED <<lifecycle, disconnecting, shutdown>> /\ UNCHANGED <<sess, cleanup>>
    BY <1>1 DEF EndsAtStart, BeginPump, Starting, KeepLife, restVars, contractVars
  <2>2. run'.on = run.on
    BY <1>1 DEF EndsAtStart, BeginPump, streamVars, HostInv, StreamInv
  <2>3. running'.wait \in {"start", "acquire"}
    BY <2>1, SettleStarts, AwaitsWait
  <2>4. (Held' <=> Held) /\ (Saving' <=> Saving)
    BY <2>1, <2>2, <2>3 DEF Held, Saving
  <2>5. QED
    BY <2>1, <2>4, HoldMoves
<1>2. ASSUME NEW kind, NEW wait, wait # "save", CallsManager(kind, wait)
      PROVE  [Contract!HostNext]_Contract!hostVars
  <2>1. /\ running.wait = "start" /\ UNCHANGED <<lifecycle, disconnecting, shutdown>>
        /\ UNCHANGED <<run, sess, cleanup>>
        /\ Awaits(wait, IF wait = "connect" /\ ~Connectable THEN "failed" ELSE "none")
    BY <1>2 DEF CallsManager, Starting, KeepLife, streamVars, restVars, contractVars
  <2>2. running'.wait = wait
    BY <2>1, AwaitsWait
  <2>3. (Held' <=> Held) /\ (Saving' <=> Saving)
    BY <1>2, <2>1, <2>2 DEF Held, Saving
  <2>4. QED
    BY <2>1, <2>3, HoldMoves
<1>3. ASSUME BeginTeardown PROVE [Contract!HostNext]_Contract!hostVars
  <2>1. /\ running.wait = "start" /\ UNCHANGED <<lifecycle, disconnecting, shutdown>>
        /\ UNCHANGED <<run, sess, cleanup>> /\ Awaits("disconnect", "none")
    BY <1>3 DEF BeginTeardown, DisconnectCalled, Starting, KeepLife, streamVars
  <2>2. running'.wait = "disconnect"
    BY <2>1, AwaitsWait
  <2>3. (Held' <=> Held) /\ (Saving' <=> Saving)
    BY <2>1, <2>2 DEF Held, Saving
  <2>4. QED
    BY <2>1, <2>3, HoldMoves
<1>4. ASSUME ConnectEnds \/ StartupConnects \/ AcquireEnds
      PROVE  [Contract!HostNext]_Contract!hostVars
  <2>1. /\ running.wait \in {"connect", "acquire"} /\ Settle
        /\ UNCHANGED <<lifecycle, disconnecting, shutdown>> /\ UNCHANGED <<sess, cleanup>>
    BY <1>4 DEF ConnectEnds, StartupConnects, AcquireEnds, Answered, KeepLife, contractVars
  <2>2. run'.on = run.on
    BY <1>4 DEF ConnectEnds, StartupConnects, AcquireEnds, streamVars, HostInv, StreamInv
  <2>3. (Held' <=> Held) /\ (Saving' <=> Saving)
    BY <2>1, <2>2, SettleStarts DEF Held, Saving
  <2>4. QED
    BY <2>1, <2>3, HoldMoves
<1>5. ASSUME NEW wait \in {"load", "discover"}, NEW next \in {"discover", "connect"},
             StartupLooks(wait, next)
      PROVE  [Contract!HostNext]_Contract!hostVars
  <2>1. /\ running.wait = wait
        /\ Settle \/ Awaits(next, IF next = "connect" /\ ~Connectable THEN "failed" ELSE "none")
        /\ UNCHANGED <<lifecycle, disconnecting, shutdown>>
        /\ UNCHANGED <<run, sess, cleanup>>
    BY <1>5 DEF StartupLooks, Answered, KeepLife, streamVars, contractVars
  <2>2. running'.wait \in {"start", "discover", "connect"}
    BY <2>1, SettleStarts, AwaitsWait
  <2>3. (Held' <=> Held) /\ (Saving' <=> Saving)
    BY <2>1, <2>2 DEF Held, Saving
  <2>4. QED
    BY <2>1, <2>3, HoldMoves
<1>6. ASSUME OperationEnds PROVE [Contract!HostNext]_Contract!hostVars
  <2>1. /\ Settle /\ UNCHANGED <<lifecycle, disconnecting, shutdown>>
        /\ UNCHANGED <<run, sess, cleanup>>
    BY <1>6 DEF OperationEnds, KeepLife, streamVars, restVars, contractVars
  <2>2. ~Saving' /\ (Held' <=> Held)
    BY <2>1, SettleStarts DEF Saving, Held
  <2>3. CASE ~Saving
    BY <2>1, <2>2, <2>3, HoldMoves
  <2>4. CASE Saving
    <3>1. AsPromise(disconnecting)' = AsPromise(disconnecting)
          /\ AsPromise(shutdown)' = AsPromise(shutdown)
      BY <2>1 DEF AsPromise
    <3>2. Contract!StopsSaving
      BY <2>1, <2>2, <2>4, <3>1, Zenon DEF Contract!StopsSaving, Held, Saving
    <3>3. QED
      BY <3>2 DEF Contract!HostNext
  <2>5. QED
    BY <2>3, <2>4
<1>7. ASSUME PreferenceLooks PROVE [Contract!HostNext]_Contract!hostVars
  <2>1. /\ running.wait = "discover" /\ UNCHANGED <<lifecycle, disconnecting, shutdown>>
        /\ UNCHANGED <<run, sess, cleanup>>
        /\ Settle \/ (PreferenceMutationSafe /\ Awaits("save", "none"))
    BY <1>7 DEF PreferenceLooks, Answered, KeepLife, streamVars, contractVars
  <2>2. Held' <=> Held
    BY <2>1 DEF Held
  <2>3. CASE Settle
    <3>1. Saving' <=> Saving
      BY <2>1, <2>3, SettleStarts DEF Saving
    <3>2. QED
      BY <2>1, <2>2, <3>1, HoldMoves
  <2>4. CASE PreferenceMutationSafe /\ Awaits("save", "none")
    <3>1. ~Saving /\ Saving' /\ ~Held
      BY <2>1, <2>4, AwaitsWait DEF Saving, Held, PreferenceMutationSafe
    <3>2. /\ AsPromise(disconnecting)' = AsPromise(disconnecting)
          /\ AsPromise(shutdown)' = AsPromise(shutdown)
          /\ lifecycle = "open" /\ AsPromise(disconnecting) = "none"
      BY <2>1, <2>4 DEF AsPromise, PreferenceMutationSafe
    <3>3. Contract!StartsSaving
      BY <2>1, <2>2, <3>1, <3>2, Zenon DEF Contract!StartsSaving, Held, Saving
    <3>4. QED
      BY <3>3 DEF Contract!HostNext
  <2>5. QED
    BY <2>1, <2>3, <2>4
<1>8. ASSUME TeardownEnds PROVE [Contract!HostNext]_Contract!hostVars
  <2>1. /\ running.kind = "teardown" /\ running.wait = "disconnect" /\ answer # "none"
        /\ UNCHANGED <<lifecycle, run, sess, cleanup>> /\ running'.wait = "start"
    BY <1>8, TeardownEndsKeeps DEF TeardownEnds, Answered, streamVars, contractVars
  <2>2. /\ answer \in {"ok", "failed"} /\ answer = settled /\ Past({"teardown"})
        /\ settled = "ok" => sess = "none" /\ cleanup = "none"
    BY <2>1 DEF HostInv, Core, QueueInv, TeardownInv, TeardownQueued, AnswerInv
  <2>3. ~run.on
    BY <2>2 DEF HostInv, Core, TeardownInv, Past
  <2>4. /\ (Held' <=> Held) /\ ~Saving /\ ~Saving' /\ (answer = "ok" => ~Held)
    BY <2>1, <2>2, <2>3 DEF Held, Saving
  <2>5. CASE disconnecting = "teardown"
    <3>1. disconnecting' = answer /\ shutdown' = shutdown
      BY <1>8, <2>5 DEF TeardownEnds
    <3>2. /\ AsPromise(disconnecting) = "pending" /\ AsPromise(disconnecting)' = answer
          /\ AsPromise(shutdown)' = AsPromise(shutdown)
      BY <2>2, <2>5, <3>1 DEF AsPromise
    <3>3. Contract!TornDown(answer)
      BY <2>2, <2>4, Zenon DEF Contract!TornDown, Held, Saving
    <3>4. /\ (sess # "none" \/ cleanup # "none" \/ run.on)'
               = (sess # "none" \/ cleanup # "none" \/ run.on)
          /\ (running.wait = "save")' = (running.wait = "save")
      BY <2>4, Zenon DEF Held, Saving
    <3>5. Contract!DisconnectTornDown
      BY <2>1, <2>2, <3>2, <3>3, <3>4 DEF Contract!DisconnectTornDown
    <3>6. QED
      BY <3>5 DEF Contract!HostNext
  <2>6. CASE disconnecting # "teardown"
    <3>1. shutdown = "teardown" /\ disconnecting = "none" /\ disconnecting' = "none"
          /\ shutdown' = answer
      BY <1>8, <2>2, <2>6 DEF TeardownEnds, Past, HostInv, Core, LifeInv
    <3>2. /\ AsPromise(shutdown) = "pending" /\ AsPromise(shutdown)' = answer
          /\ AsPromise(disconnecting) = "none" /\ AsPromise(disconnecting)' = "none"
      BY <2>2, <3>1 DEF AsPromise
    <3>3. Contract!TornDown(answer)
      BY <2>2, <2>4, Zenon DEF Contract!TornDown, Held, Saving
    <3>4. /\ (sess # "none" \/ cleanup # "none" \/ run.on)'
               = (sess # "none" \/ cleanup # "none" \/ run.on)
          /\ (running.wait = "save")' = (running.wait = "save")
      BY <2>4, Zenon DEF Held, Saving
    <3>5. Contract!ShutdownTornDown
      BY <2>1, <2>2, <3>2, <3>3, <3>4 DEF Contract!ShutdownTornDown
    <3>6. QED
      BY <3>5 DEF Contract!HostNext
  <2>7. QED
    BY <2>5, <2>6
<1>9. ASSUME BeginAcquire \/ BeginStartup \/ BeginPreference
      PROVE  [Contract!HostNext]_Contract!hostVars
  BY <1>2, <1>9 DEF BeginAcquire, BeginStartup, BeginPreference
<1>10. QED
  BY <1>1, <1>2, <1>3, <1>4, <1>5, <1>6, <1>7, <1>8, <1>9 DEF OperationStep

\* Answers and events: the manager takes and gives up the instrument.
LEMMA AnswersKeepContract ==
  ASSUME HostInv, AnswerStep \/ EventStep PROVE [Contract!HostNext]_Contract!hostVars
<1>1. /\ UNCHANGED <<lifecycle, disconnecting, shutdown>> /\ running' = running
      /\ run'.on = run.on
  <2>1. CASE AnswerStep
    BY <2>1 DEF AnswerStep, Looked, ManagerConnects, ManagerConfigures, ManagerExecutes,
         ManagerAcquires, ManagerDisconnects, Answers, KeepHost, lifeVars, queueVars, streamVars
  <2>2. CASE EventStep
    <3>1. FaultStream \/ run' = run
      BY <2>2 DEF EventStep, FaultEvent, MeasurementEvent
    <3>2. UNCHANGED lifeVars /\ UNCHANGED streaming /\ running' = running
      BY <2>2 DEF EventStep, FaultEvent, MeasurementEvent, queueVars
    <3>3. QED
      BY <3>1, <3>2, FaultKeepsStream DEF HostInv, lifeVars
  <2>3. QED
    BY <2>1, <2>2
<1>2. Saving' <=> Saving
  BY <1>1 DEF Saving
<1>3. CASE ManagerConnects
  <2>1. running.wait = "connect" /\ running.kind \in Bound
    BY <1>3 DEF ManagerConnects, Calling, HostInv, AnswerInv
  <2>2. ~Past({"ok", "failed"})
    BY <2>1 DEF HostInv, Core, TeardownInv
  <2>3. ~Saving /\ lifecycle # "closed" /\ disconnecting # "ok" /\ shutdown # "ok"
    BY <2>1, <2>2 DEF Saving, Past, HostInv, Core, LifeInv
  <2>4. QED
    BY <1>1, <1>2, <2>3, HoldMoves
<1>4. CASE ManagerDisconnects
  <2>1. running.wait = "disconnect" /\ running.kind = "teardown"
    BY <1>4 DEF ManagerDisconnects, Calling, HostInv, AnswerInv
  <2>2. Past({"teardown"})
    BY <2>1 DEF HostInv, Core, TeardownInv, TeardownQueued
  <2>3. ~Saving /\ lifecycle # "closed" /\ disconnecting # "ok" /\ shutdown # "ok"
    BY <2>1, <2>2 DEF Saving, Past, HostInv, Core, LifeInv
  <2>4. QED
    BY <1>1, <1>2, <2>3, HoldMoves
<1>5. CASE Looked \/ ManagerConfigures \/ ManagerExecutes \/ ManagerAcquires \/ EventStep
  <2>1. cleanup' = cleanup /\ (sess' # "none" <=> sess # "none")
    BY <1>5 DEF Looked, ManagerConfigures, ManagerExecutes, ManagerAcquires, EventStep,
         FaultEvent, MeasurementEvent, Configures, Invalidates, Faults, contractVars
  <2>2. Held' <=> Held
    BY <1>1, <2>1 DEF Held
  <2>3. QED
    BY <1>1, <1>2, <2>2, HoldMoves
<1>6. QED
  BY <1>3, <1>4, <1>5 DEF AnswerStep

LEMMA PumpKeepsContract ==
  ASSUME HostInv, PumpStep PROVE [Contract!HostNext]_Contract!hostVars
<1>1. /\ UNCHANGED <<lifecycle, disconnecting, shutdown>> /\ UNCHANGED <<sess, cleanup>>
  BY DEF PumpStep, PumpSubmits, PumpEnds, lifeVars, restVars, contractVars
<1>2. run'.on => run.on
  BY DEF PumpStep, PumpSubmits, PumpEnds, NoRun, HostInv, StreamInv
<1>3. running'.wait = running.wait
  <2>1. Op("pump") \in OpsWhen(Leaving)
    BY KindsApart DEF Op, OpsWhen
  <2>2. Enqueue(Op("pump")) \/ running' = running
    BY DEF PumpStep, PumpSubmits, PumpEnds, queueVars
  <2>3. QED
    BY <2>1, <2>2, EnqueueWaits
<1>4. (Saving' <=> Saving) /\ (Held' => Held)
  BY <1>1, <1>2, <1>3 DEF Saving, Held
<1>5. QED
  BY <1>1, <1>4, HoldMoves

LEMMA PromisesKeepContract ==
  ASSUME HostInv, PromiseStep PROVE [Contract!HostNext]_Contract!hostVars
<1>1. UNCHANGED <<run, sess, cleanup, running>>
  BY DEF PromiseStep, DisconnectSettles, ShutdownSettles, streamVars, queueVars, restVars,
         contractVars
<1>2. /\ (sess # "none" \/ cleanup # "none" \/ run.on)'
           = (sess # "none" \/ cleanup # "none" \/ run.on)
      /\ (running.wait = "save")' = (running.wait = "save")
  BY <1>1, Zenon
<1>3. CASE DisconnectSettles
  <2>1. /\ disconnecting \in {"ok", "failed"} /\ disconnecting' = "none"
        /\ shutdown' = IF shutdown = "joined" THEN disconnecting ELSE shutdown
        /\ UNCHANGED lifecycle
    BY <1>3 DEF DisconnectSettles
  <2>2. shutdown \in {"none", "joined"}
    BY <2>1 DEF HostInv, Core, LifeInv
  <2>3. /\ AsPromise(disconnecting) = disconnecting /\ AsPromise(disconnecting)' = "none"
        /\ AsPromise(shutdown)' = IF AsPromise(shutdown) = "pending"
                                    THEN AsPromise(disconnecting) ELSE AsPromise(shutdown)
    BY <2>1, <2>2 DEF AsPromise
  <2>4. Contract!DisconnectSettles
    BY <1>2, <2>1, <2>3 DEF Contract!DisconnectSettles
  <2>5. QED
    BY <2>4 DEF Contract!HostNext
<1>4. CASE ShutdownSettles
  <2>1. /\ shutdown \in {"ok", "failed"} /\ lifecycle = "closing"
        /\ lifecycle' = IF shutdown = "ok" THEN "closed" ELSE "open"
        /\ shutdown' = IF shutdown = "ok" THEN shutdown ELSE "none"
        /\ UNCHANGED disconnecting
    BY <1>4 DEF ShutdownSettles
  <2>2. /\ AsPromise(disconnecting)' = AsPromise(disconnecting)
        /\ AsPromise(shutdown) = shutdown
        /\ AsPromise(shutdown)' = IF shutdown = "ok" THEN "ok" ELSE "none"
    BY <2>1 DEF AsPromise
  <2>3. Contract!ShutdownSettles
    BY <1>2, <2>1, <2>2 DEF Contract!ShutdownSettles
  <2>4. QED
    BY <2>3 DEF Contract!HostNext
<1>5. QED
  BY <1>3, <1>4 DEF PromiseStep

\* ImplementsHostContract: whatever is called, and whatever the manager and the
\* store answer, the process around the host sees a step of its contract.
THEOREM HostImplementsContract == HostSpec => ImplementsHostContract
<1>1. HostInit => Contract!HostInit
  <2> SUFFICES ASSUME HostInit PROVE Contract!HostInit
    OBVIOUS
  <2>1. /\ lifecycle = "open" /\ running.wait = "start" /\ ~run.on /\ sess = "none"
        /\ cleanup = "none" /\ disconnecting = "none" /\ shutdown = "none"
    BY DEF HostInit, ContractInit, NoOp, NoRun
  <2>2. AsPromise(disconnecting) = "none" /\ AsPromise(shutdown) = "none"
    BY <2>1 DEF AsPromise
  <2>3. QED
    BY <2>1, <2>2 DEF Contract!HostInit
<1>2. HostInv /\ [HostNext]_vars => [Contract!HostNext]_Contract!hostVars
  <2> SUFFICES ASSUME HostInv, [HostNext]_vars PROVE [Contract!HostNext]_Contract!hostVars
    OBVIOUS
  <2>1. CASE HostNext
    BY <2>1, CallersKeepContract, ContinuationsKeepContract, OperationsKeepContract,
       AnswersKeepContract, PumpKeepsContract, PromisesKeepContract DEF HostNext
  <2>2. CASE UNCHANGED vars
    <3>1. /\ UNCHANGED <<lifecycle, disconnecting, shutdown>>
          /\ UNCHANGED <<running, run, sess, cleanup>>
      BY <2>2 DEF vars, hostVars, queueVars, streamVars, lifeVars, contractVars
    <3>2. (Held' <=> Held) /\ (Saving' <=> Saving)
      BY <3>1 DEF Held, Saving
    <3>3. QED
      BY <3>1, <3>2, HoldMoves
  <2>3. QED
    BY <2>1, <2>2
<1>3. QED
  BY <1>1, <1>2, HostAlways, PTL
     DEF HostSpec, HostSafetySpec, ImplementsHostContract, Contract!ContractSpec

=============================================================================
