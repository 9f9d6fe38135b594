------------------------ MODULE RendererProofs ------------------------
(***************************************************************************)
(* Proofs about the renderer: first about its conversation with the main   *)
(* process, for any number of sessions, configurations and commands, then  *)
(* about the evidence it puts on display, for any set of configurations    *)
(* and scenes.                                                             *)
(***************************************************************************)
EXTENDS RendererSession, SignalEvidence, FiniteSetTheorems, FunctionTheorems,
        SequenceTheorems, TLAPS

-----------------------------------------------------------------------------
(* Types *)

AnyConfigs == [rev : Nat, kind : {"none", "swept", "iq"}]
Ats == {"start", "compensate", "unstart", "apply", "pause", "touch", "expired", "acquire",
        "connect", "stop"}
Operations == {"run", "apply", "tap", "capture", "sweep", "connect"}

Owners == [gen : Nat, session : Nat, config : AnyConfigs]
Txns == [op : {"none", "pump", "stop", "abort"} \cup Operations, at : {"none", "body"} \cup Ats,
         gen : Nat, config : AnyConfigs, paused : BOOLEAN, resume : {"no", "tap", "scalar", "iq"},
         receipts : SUBSET {"reply", "result", "invalidated"}]
Calls == [op : {"none", "start", "stop", "apply", "touch", "acquire", "connect"},
          config : AnyConfigs]

Evidences == [session : Nat, rev : Nat]

Renderers ==
    [session : Nat, config : AnyConfigs, fault : BOOLEAN,
     owner : Owners, gen : Nat, touches : Nat, requested : BOOLEAN, continuous : BOOLEAN,
     mode : {"spectrum", "iq"}, txn : Txns, waiting : Seq(Operations), depth : Int,
     pump : {"off", "admission", "acquire", "cadence"}, lease : BOOLEAN,
     retained : SUBSET AnyConfigs,
     stop : {"none", "pending", "gate", "iq"}, abort : Nat, stopFailed : Nat,
     evidence : Evidences, fresh : BOOLEAN,
     call : Calls, asks : SUBSET {"disconnect", "read"}]

Hosts == [session : Nat, sessions : Nat, config : AnyConfigs, revs : Nat,
          fault : BOOLEAN, stream : BOOLEAN, broke : BOOLEAN]

EventTypes == {"measurement", "stream-stopped", "stream-faulted", "connected", "configured",
               "session-state", "feature-result", "invalidated", "faulted", "disconnected"}
ReplyTypes == {"start", "stop", "apply", "touch", "acquire", "connect", "disconnect", "read"}

Events  == [reply : {FALSE}, type : EventTypes, session : Nat, config : AnyConfigs,
            touch : Nat, ok : BOOLEAN]
Replies == [reply : {TRUE}, type : ReplyTypes, session : Nat, config : AnyConfigs,
            touch : Nat, ok : BOOLEAN]
Messages == Events \cup Replies

LEMMA Blanks ==
    /\ NoConfig \in AnyConfigs /\ NoOwner \in Owners /\ NoTxn \in Txns /\ NoCall \in Calls
    /\ NoEvidence \in Evidences
    /\ NoConfig.rev = None /\ NoConfig.kind = "none"
    /\ NoOwner.gen = None /\ NoOwner.config = NoConfig
    /\ NoTxn.op = "none" /\ NoTxn.at = "none" /\ NoTxn.receipts = {} /\ ~NoTxn.paused
    /\ NoTxn.resume = "no" /\ NoTxn.gen = None
    /\ NoCall.op = "none"
    /\ None = 0
BY DEF NoConfig, AnyConfigs, NoOwner, Owners, NoTxn, Txns, Ats, Operations, NoCall, Calls,
       NoEvidence, Evidences, None

\* The type of a renderer after some of its fields have changed
LEMMA Retyped ==
  ASSUME NEW x \in Renderers
  PROVE  /\ x.session \in Nat /\ x.config \in AnyConfigs /\ x.fault \in BOOLEAN
         /\ x.owner \in Owners /\ x.gen \in Nat /\ x.touches \in Nat
         /\ x.requested \in BOOLEAN /\ x.continuous \in BOOLEAN
         /\ x.txn \in Txns /\ x.waiting \in Seq(Operations) /\ x.depth \in Int
         /\ x.lease \in BOOLEAN /\ x.retained \in SUBSET AnyConfigs
         /\ x.abort \in Nat /\ x.stopFailed \in Nat /\ x.fresh \in BOOLEAN
         /\ x.call \in Calls /\ x.asks \in SUBSET {"disconnect", "read"}
BY DEF Renderers

-----------------------------------------------------------------------------
(* The gate: one call at a time, and what the transaction knows of it *)

\* The call that a phase of a transaction waits for
OpOf(at) ==
    CASE at \in {"compensate", "unstart", "pause", "stop"} -> "stop"
      [] at \in {"touch", "expired"} -> "touch"
      [] at \in {"start", "apply", "acquire", "connect"} -> at

Orderly(x) ==
    /\ Held(x) => x.txn.at \in Ats
    /\ x.txn.at \notin {"touch", "expired"} => x.txn.receipts = {}
    /\ x.call # NoCall =>
          Held(x) /\ x.call.op = OpOf(x.txn.at) /\ "reply" \notin x.txn.receipts
    /\ x.txn.op = "pump" => x.txn.at = "acquire"
    /\ x.txn.at = "stop" => x.txn.op \in {"stop", "abort"}

\* What the renderer shows of the instrument stays as it is
Keeps(x, y) ==
    /\ y \in Renderers
    /\ y.session = x.session /\ y.config = x.config /\ y.fault = x.fault
    /\ y.fresh = x.fresh /\ y.asks = x.asks

\* A transaction that has no reply yet goes on waiting for it
Waits(x, y) ==
    Held(x) /\ "reply" \notin x.txn.receipts =>
        /\ Held(y) /\ "reply" \notin y.txn.receipts /\ y.call = x.call
        /\ OpOf(y.txn.at) = OpOf(x.txn.at)

Small(x, y) == Keeps(x, y) /\ (Orderly(x) => Orderly(y) /\ Waits(x, y))
Idling(x) == x \in Renderers /\ x.call = NoCall /\ x.txn.op # "pump" /\ x.txn.receipts = {}
Done(x, y) == Keeps(x, y) /\ Orderly(y)

LEMMA SmallSteps ==
  ASSUME NEW x, NEW y, NEW z
  PROVE  /\ Small(x, y) /\ Small(y, z) => Small(x, z)
         /\ Done(x, y) /\ Small(y, z) => Done(x, z)
         /\ Keeps(x, y) /\ Done(y, z) => Done(x, z)
         /\ Keeps(x, y) /\ Keeps(y, z) => Keeps(x, z)
BY DEF Small, Done, Keeps, Waits

\* A step of the kernel that leaves the gate and the view alone
SameBut(x, y) ==
    /\ y.txn = x.txn /\ y.call = x.call
    /\ y.session = x.session /\ y.config = x.config /\ y.fault = x.fault
    /\ y.fresh = x.fresh /\ y.asks = x.asks

LEMMA SameGate ==
  ASSUME NEW x \in Renderers, NEW y \in Renderers,
         SameBut(x, y)
  PROVE  Small(x, y)
BY DEF SameBut, Small, Keeps, Waits, Orderly, Held

LEMMA PlainSmall ==
  ASSUME NEW x \in Renderers, NEW gen
  PROVE  /\ Small(x, ClearOwnership(x)) /\ Small(x, Release(x, gen))
         /\ Small(x, PumpEnds(x)) /\ Small(x, Unrequest(x))
         /\ Small(x, Complete(x)) /\ Small(x, PumpFails(x))
<1>1. ASSUME NEW y \in Renderers PROVE Small(y, ClearOwnership(y))
  <2>1. ClearOwnership(y) \in Renderers
    BY <1>1, Blanks, Zenon DEF ClearOwnership, Renderers, None
  <2>2. SameBut(y, ClearOwnership(y))
    BY <1>1, Zenon DEF ClearOwnership, Renderers, SameBut
  <2> QED BY <2>1, <2>2, SameGate
<1>2. ASSUME NEW y \in Renderers PROVE Small(y, PumpEnds(y))
  <2>1. PumpEnds(y) \in Renderers
    BY <1>2, ZenonT(40) DEF PumpEnds, Renderers
  <2>2. SameBut(y, PumpEnds(y))
    BY <1>2, Zenon DEF PumpEnds, Renderers, SameBut
  <2> QED BY <2>1, <2>2, SameGate
<1>3. ASSUME NEW y \in Renderers, NEW b \in BOOLEAN, NEW c \in BOOLEAN
      PROVE  /\ [y EXCEPT !.requested = b] \in Renderers
             /\ [y EXCEPT !.continuous = c, !.requested = b] \in Renderers
             /\ [y EXCEPT !.lease = b, !.continuous = c] \in Renderers
             /\ Small(y, [y EXCEPT !.requested = b])
             /\ Small(y, [y EXCEPT !.continuous = c, !.requested = b])
             /\ Small(y, [y EXCEPT !.lease = b, !.continuous = c])
  <2>1. /\ [y EXCEPT !.requested = b] \in Renderers
        /\ [y EXCEPT !.continuous = c, !.requested = b] \in Renderers
        /\ [y EXCEPT !.lease = b, !.continuous = c] \in Renderers
    BY <1>3, ZenonT(40) DEF Renderers
  <2>2. /\ SameBut(y, [y EXCEPT !.requested = b])
        /\ SameBut(y, [y EXCEPT !.continuous = c, !.requested = b])
        /\ SameBut(y, [y EXCEPT !.lease = b, !.continuous = c])
    BY <1>3, Zenon DEF Renderers, SameBut
  <2> QED BY <2>1, <2>2, SameGate
<1>4. Small(x, x)
  BY SameGate DEF SameBut
<1>5. ASSUME NEW y \in Renderers PROVE Small(y, Unrequest(y))
  <2>1. Small(y, [y EXCEPT !.requested = FALSE]) /\ [y EXCEPT !.requested = FALSE] \in Renderers
    BY <1>3
  <2> QED BY <1>2, <1>5, <2>1, SmallSteps DEF Unrequest
<1>6. Small(x, Complete(x))
  <2>1. Unrequest(x) \in Renderers
    BY <1>5 DEF Small, Keeps
  <2> QED BY <1>3, <1>5, <2>1, SmallSteps DEF Complete
<1>7. Small(x, PumpFails(x))
  <2>1. (x.continuous /\ ~x.requested) \in BOOLEAN
    OBVIOUS
  <2> DEFINE y == [x EXCEPT !.continuous = x.continuous /\ ~x.requested, !.requested = FALSE]
  <2>2. y \in Renderers /\ Small(x, y)
    BY <1>3, <2>1
  <2>3. PumpFails(x) = PumpEnds(y)
    BY DEF PumpFails
  <2> QED BY <1>2, <2>2, <2>3, SmallSteps
<1> QED BY <1>1, <1>2, <1>4, <1>5, <1>6, <1>7 DEF Release

\* A message is sent for a transaction in the phase that waits for its answer
LEMMA Sends ==
  ASSUME NEW x, NEW y, Keeps(x, y),
         y.txn.at \in Ats, y.txn.at \notin {"touch", "expired"} => y.txn.receipts = {},
         "reply" \notin y.txn.receipts, y.call.op = OpOf(y.txn.at),
         y.txn.op = "pump" => y.txn.at = "acquire",
         y.txn.at = "stop" => y.txn.op \in {"stop", "abort"}
  PROVE  Done(x, y) /\ (~Held(x) => Small(x, y))
BY Blanks DEF Done, Small, Orderly, Waits, Held, Ats

LEMMA Phases ==
    /\ Ats = {"start", "compensate", "unstart", "apply", "pause", "touch", "expired", "acquire",
              "connect", "stop"}
    /\ \A at \in {"compensate", "unstart", "pause", "stop"} : OpOf(at) = "stop"
    /\ \A at \in {"touch", "expired"} : OpOf(at) = "touch"
    /\ \A at \in {"start", "apply", "acquire", "connect"} : OpOf(at) = at
BY DEF Ats, OpOf

LEMMA Sent ==
  ASSUME NEW x, NEW z \in Renderers, Keeps(x, z), NEW op, NEW c \in AnyConfigs,
         z.txn.at \in Ats, z.txn.receipts = {}, op = OpOf(z.txn.at),
         z.txn.op = "pump" => z.txn.at = "acquire",
         z.txn.at = "stop" => z.txn.op \in {"stop", "abort"}
  PROVE  /\ Done(x, Send(z, op, c)) /\ (~Held(x) => Small(x, Send(z, op, c)))
         /\ Send(z, op, c).txn = z.txn
<1> DEFINE k == [op |-> op, config |-> c]
           y == Send(z, op, c)
<1>1. k \in Calls /\ k.op = op
  BY Phases DEF Calls, OpOf
<1> HIDE DEF k
<1>2. y = [z EXCEPT !.call = k]
  BY DEF Send, k
<1> HIDE DEF y
<1>3. y \in Renderers /\ y.call = k /\ y.txn = z.txn
  BY <1>1, <1>2, Zenon DEF Renderers
<1>4. y.session = z.session /\ y.config = z.config /\ y.fault = z.fault /\ y.fresh = z.fresh
      /\ y.asks = z.asks
  BY <1>2, Zenon DEF Renderers
<1>5. Keeps(x, y)
  BY <1>3, <1>4 DEF Keeps
<1>6. Done(x, y) /\ (~Held(x) => Small(x, y))
  BY <1>1, <1>3, <1>5, Sends
<1> QED BY <1>3, <1>6 DEF y

LEMMA Still ==
  ASSUME NEW x \in Renderers
  PROVE  Small(x, x) /\ Keeps(x, x)
BY DEF Small, Keeps, Waits

LEMMA DrainAbortIsSmall ==
  ASSUME NEW x \in Renderers
  PROVE  Small(x, DrainAbort(x))
<1>1. CASE Held(x) \/ x.abort = None
  BY <1>1, Still DEF DrainAbort
<1>2. CASE ~Held(x) /\ x.abort # None /\ x.owner.gen # x.abort
  <2> DEFINE y == [x EXCEPT !.abort = None]
  <2>1. y \in Renderers
    BY Blanks, Zenon DEF Renderers, None
  <2>2. SameBut(x, y)
    BY Zenon DEF Renderers, SameBut
  <2> HIDE DEF y
  <2>3. Small(x, y)
    BY <2>1, <2>2, SameGate
  <2> QED BY <1>2, <2>3 DEF DrainAbort, y
<1>3. CASE ~Held(x) /\ x.abort # None /\ x.owner.gen = x.abort
  <2> DEFINE t == [NoTxn EXCEPT !.op = "abort", !.at = "stop", !.gen = x.owner.gen]
             z == [x EXCEPT !.abort = None, !.requested = FALSE, !.txn = t]
  <2>1. t \in Txns /\ t.at = "stop" /\ t.op = "abort" /\ t.receipts = {}
    BY Blanks, Retyped DEF NoTxn, Txns, Ats, Owners
  <2>2. DrainAbort(x) = Send(z, "stop", NoConfig)
    BY <1>3 DEF DrainAbort
  <2> HIDE DEF t
  <2>3. z \in Renderers /\ z.txn = t
    BY <2>1, Blanks, Zenon DEF Renderers, None
  <2>4. z.session = x.session /\ z.config = x.config /\ z.fault = x.fault /\ z.fresh = x.fresh
        /\ z.asks = x.asks
    BY Zenon DEF Renderers
  <2> HIDE DEF z
  <2>5. Keeps(x, z)
    BY <2>3, <2>4 DEF Keeps
  <2> QED BY <1>3, <2>1, <2>2, <2>3, <2>5, Sent, Phases, Blanks
<1> QED BY <1>1, <1>2, <1>3

LEMMA DrainStopIsSmall ==
  ASSUME NEW x \in Renderers
  PROVE  Small(x, DrainStop(x))
<1>1. CASE Held(x) \/ x.stop # "pending"
  BY <1>1, Still DEF DrainStop
<1>2. CASE ~Held(x) /\ x.stop = "pending" /\ x.owner # NoOwner
  <2> DEFINE t == [NoTxn EXCEPT !.op = "stop", !.at = "stop", !.gen = x.owner.gen]
             z == [x EXCEPT !.stop = "gate", !.txn = t]
  <2>1. t \in Txns /\ t.at = "stop" /\ t.op = "stop" /\ t.receipts = {}
    BY Blanks, Retyped DEF NoTxn, Txns, Ats, Owners
  <2>2. DrainStop(x) = Send(z, "stop", NoConfig)
    BY <1>2 DEF DrainStop
  <2> HIDE DEF t
  <2>3. z \in Renderers /\ z.txn = t
    BY <2>1, Zenon DEF Renderers
  <2>4. z.session = x.session /\ z.config = x.config /\ z.fault = x.fault /\ z.fresh = x.fresh
        /\ z.asks = x.asks
    BY Zenon DEF Renderers
  <2> HIDE DEF z
  <2>5. Keeps(x, z)
    BY <2>3, <2>4 DEF Keeps
  <2> QED BY <1>2, <2>1, <2>2, <2>3, <2>5, Sent, Phases, Blanks
<1>3. ASSUME NEW y \in Renderers, NEW s \in {"none", "iq"}
      PROVE  Small(y, [y EXCEPT !.stop = s])
  <2>1. [y EXCEPT !.stop = s] \in Renderers
    BY <1>3, Zenon DEF Renderers
  <2>2. SameBut(y, [y EXCEPT !.stop = s])
    BY <1>3, Zenon DEF Renderers, SameBut
  <2> QED BY <2>1, <2>2, SameGate
<1>4. CASE ~Held(x) /\ x.stop = "pending" /\ x.owner = NoOwner /\ x.pump # "off"
  BY <1>3, <1>4 DEF DrainStop
<1>5. CASE ~Held(x) /\ x.stop = "pending" /\ x.owner = NoOwner /\ x.pump = "off"
  <2>1. Small(x, Complete(x)) /\ Complete(x) \in Renderers
    BY PlainSmall DEF Small, Keeps
  <2>2. DrainStop(x) = [Complete(x) EXCEPT !.stop = "none"]
    BY <1>5 DEF DrainStop
  <2> QED BY <1>3, <2>1, <2>2, SmallSteps
<1> QED BY <1>1, <1>2, <1>4, <1>5

LEMMA DrainIsSmall ==
  ASSUME NEW x \in Renderers
  PROVE  Small(x, Drain(x))
<1>1. Small(x, DrainAbort(x)) /\ DrainAbort(x) \in Renderers
  BY DrainAbortIsSmall DEF Small, Keeps
<1> QED BY <1>1, DrainStopIsSmall, SmallSteps DEF Drain

LEMMA PumpTurnIsSmall ==
  ASSUME NEW x \in Renderers
  PROVE  Small(x, PumpTurn(x))
<1>1. CASE ~Current(x)
  BY <1>1, PlainSmall DEF PumpTurn
<1>2. CASE Current(x) /\ x.depth > 0
  <2> DEFINE y == [x EXCEPT !.pump = "admission"]
  <2>1. y \in Renderers
    BY Zenon DEF Renderers
  <2>2. SameBut(x, y)
    BY Zenon DEF Renderers, SameBut
  <2> HIDE DEF y
  <2>3. Small(x, y)
    BY <2>1, <2>2, SameGate
  <2> QED BY <1>2, <2>3 DEF PumpTurn, y
<1>3. CASE Current(x) /\ ~(x.depth > 0) /\ (Held(x) \/ x.config.kind # "iq")
  BY <1>3, PlainSmall DEF PumpTurn
<1>4. CASE Current(x) /\ ~(x.depth > 0) /\ ~(Held(x) \/ x.config.kind # "iq")
  <2> DEFINE t == [NoTxn EXCEPT !.op = "pump", !.at = "acquire", !.config = x.config]
             s == x.retained \cup {x.config}
             z == [x EXCEPT !.pump = "acquire", !.lease = TRUE, !.retained = s, !.txn = t]
  <2>1. t \in Txns /\ t.at = "acquire" /\ t.op = "pump" /\ t.receipts = {}
    BY Blanks, Retyped DEF NoTxn, Txns, Ats, Owners
  <2>2. PumpTurn(x) = Send(z, "acquire", x.config)
    BY <1>4 DEF PumpTurn
  <2>3. s \in SUBSET AnyConfigs
    BY Retyped
  <2> HIDE DEF t, s
  <2>4. z \in Renderers /\ z.txn = t
    BY <2>1, <2>3, Zenon DEF Renderers
  <2>5. z.session = x.session /\ z.config = x.config /\ z.fault = x.fault /\ z.fresh = x.fresh
        /\ z.asks = x.asks
    BY Zenon DEF Renderers
  <2> HIDE DEF z
  <2>6. Keeps(x, z)
    BY <2>4, <2>5 DEF Keeps
  <2> QED BY <1>4, <2>1, <2>2, <2>4, <2>6, Sent, Phases, Blanks, Retyped
<1> QED BY <1>1, <1>2, <1>3, <1>4

LEMMA UnpauseIsSmall ==
  ASSUME NEW x \in Renderers
  PROVE  Small(x, Unpause(x))
<1> DEFINE d == x.depth - 1
           y == [x EXCEPT !.depth = d]
<1>1. d \in Int
  BY Retyped
<1> HIDE DEF d
<1>2. y \in Renderers
  BY <1>1, Zenon DEF Renderers
<1>3. SameBut(x, y)
  BY Zenon DEF Renderers, SameBut
<1>4. Unpause(x) = IF y.depth = 0 /\ y.pump = "admission" THEN PumpTurn(y) ELSE y
  BY DEF Unpause, d
<1> HIDE DEF y
<1> QED BY <1>2, <1>3, <1>4, SameGate, PumpTurnIsSmall, SmallSteps

\* The gate opens when no call is under way
LEMMA EndIsDone ==
  ASSUME NEW x \in Renderers, x.call = NoCall
  PROVE  Done(x, End(x))
<1> DEFINE z == [x EXCEPT !.txn = NoTxn]
           y == Drain(z)
<1>1. z \in Renderers /\ z.txn = NoTxn /\ z.call = NoCall
  BY Blanks, Zenon DEF Renderers
<1>2. z.session = x.session /\ z.config = x.config /\ z.fault = x.fault /\ z.fresh = x.fresh
      /\ z.asks = x.asks
  BY Zenon DEF Renderers
<1>3. End(x) = IF x.txn.paused THEN Unpause(y) ELSE y
  BY DEF End
<1> HIDE DEF z
<1>4. Done(x, z)
  BY <1>1, <1>2, Blanks DEF Done, Keeps, Orderly, Held
<1>5. Small(z, y) /\ y \in Renderers
  BY <1>1, DrainIsSmall DEF Small, Keeps
<1> HIDE DEF y
<1>6. Small(y, Unpause(y))
  BY <1>5, UnpauseIsSmall
<1> QED BY <1>3, <1>4, <1>5, <1>6, SmallSteps

-----------------------------------------------------------------------------
(* The gate: the operations *)

\* The transaction moves to a phase
LEMMA Turned ==
  ASSUME NEW x \in Renderers, NEW t \in Txns
  PROVE  /\ [x EXCEPT !.txn = t] \in Renderers /\ Keeps(x, [x EXCEPT !.txn = t])
         /\ [x EXCEPT !.txn = t].txn = t /\ [x EXCEPT !.txn = t].call = x.call
<1> DEFINE y == [x EXCEPT !.txn = t]
<1>1. y \in Renderers /\ y.txn = t /\ y.call = x.call
  BY Zenon DEF Renderers
<1>2. y.session = x.session /\ y.config = x.config /\ y.fault = x.fault /\ y.fresh = x.fresh
      /\ y.asks = x.asks
  BY Zenon DEF Renderers
<1> QED BY <1>1, <1>2 DEF Keeps

LEMMA EndAfter ==
  ASSUME NEW x, NEW y \in Renderers, Keeps(x, y), y.call = NoCall
  PROVE  Done(x, End(y))
BY EndIsDone, SmallSteps

\* An end after a change of the operator's flags
LEMMA FlagsThenEnd ==
  ASSUME NEW x \in Renderers, x.call = NoCall, NEW a \in BOOLEAN, NEW b \in BOOLEAN
  PROVE  /\ Done(x, End([x EXCEPT !.requested = a, !.continuous = b]))
         /\ Done(x, End([x EXCEPT !.continuous = b]))
         /\ Done(x, End([x EXCEPT !.lease = a, !.continuous = b]))
         /\ \A s \in {"none", "iq"} : Done(x, End([x EXCEPT !.stop = s]))
         /\ \A n \in Nat : Done(x, End([x EXCEPT !.stopFailed = n]))
<1>1. ASSUME NEW y, \/ y = [x EXCEPT !.requested = a, !.continuous = b]
                    \/ y = [x EXCEPT !.continuous = b]
                    \/ y = [x EXCEPT !.lease = a, !.continuous = b]
                    \/ \E s \in {"none", "iq"} : y = [x EXCEPT !.stop = s]
                    \/ \E n \in Nat : y = [x EXCEPT !.stopFailed = n]
      PROVE  Done(x, End(y))
  <2>1. y \in Renderers /\ SameBut(x, y)
    <3>1. CASE y = [x EXCEPT !.requested = a, !.continuous = b]
      BY <3>1, Zenon DEF Renderers, SameBut
    <3>2. CASE y = [x EXCEPT !.continuous = b]
      BY <3>2, Zenon DEF Renderers, SameBut
    <3>3. CASE y = [x EXCEPT !.lease = a, !.continuous = b]
      BY <3>3, Zenon DEF Renderers, SameBut
    <3>4. ASSUME NEW s \in {"none", "iq"}, y = [x EXCEPT !.stop = s]
          PROVE  y \in Renderers /\ SameBut(x, y)
      BY <3>4, Zenon DEF Renderers, SameBut
    <3>5. ASSUME NEW n \in Nat, y = [x EXCEPT !.stopFailed = n]
          PROVE  y \in Renderers /\ SameBut(x, y)
      BY <3>5, Zenon DEF Renderers, SameBut
    <3> QED BY <1>1, <3>1, <3>2, <3>3, <3>4, <3>5
  <2>3. Keeps(x, y) /\ y.call = NoCall
    BY <2>1 DEF Keeps, SameBut
  <2> QED BY <2>1, <2>3, EndAfter
<1> QED BY <1>1

LEMMA SmallCall ==
  ASSUME NEW x \in Renderers, NEW gen
  PROVE  /\ Release(x, gen) \in Renderers /\ Keeps(x, Release(x, gen))
         /\ Release(x, gen).txn = x.txn /\ Release(x, gen).call = x.call
         /\ Complete(x) \in Renderers /\ Keeps(x, Complete(x)) /\ Complete(x).call = x.call
         /\ Unrequest(x) \in Renderers /\ Keeps(x, Unrequest(x)) /\ Unrequest(x).call = x.call
         /\ Complete(x).txn = x.txn /\ Unrequest(x).txn = x.txn
         /\ ClearOwnership(x) \in Renderers /\ Keeps(x, ClearOwnership(x))
         /\ ClearOwnership(x).call = x.call /\ ClearOwnership(x).txn = x.txn
<1>1. ClearOwnership(x).txn = x.txn /\ ClearOwnership(x).call = x.call
  BY Zenon DEF ClearOwnership, Renderers
<1>2. ASSUME NEW y \in Renderers PROVE PumpEnds(y).txn = y.txn /\ PumpEnds(y).call = y.call
  BY <1>2, Zenon DEF PumpEnds, Renderers
<1> DEFINE y == [x EXCEPT !.requested = FALSE]
<1>3. y \in Renderers /\ y.txn = x.txn /\ y.call = x.call
  BY Zenon DEF Renderers
<1>4. Unrequest(x) = IF x.pump \in {"admission", "cadence"} THEN PumpEnds(y) ELSE y
  BY DEF Unrequest
<1> HIDE DEF y
<1>5. Unrequest(x).txn = x.txn /\ Unrequest(x).call = x.call
  BY <1>2, <1>3, <1>4
<1>6. Unrequest(x) \in Renderers
  BY PlainSmall DEF Small, Keeps
<1>7. Complete(x).txn = x.txn /\ Complete(x).call = x.call
  BY <1>5, <1>6, Zenon DEF Complete, Renderers
<1> QED BY <1>1, <1>5, <1>6, <1>7, PlainSmall DEF Small, Keeps, Release

LEMMA RunIsDone ==
  ASSUME NEW x, Idling(x)
  PROVE  Done(x, Run(x))
<1> USE DEF Idling
<1> DEFINE s == x.retained \cup {x.config}
           y == [x EXCEPT !.requested = TRUE, !.continuous = TRUE, !.mode = "spectrum",
                          !.retained = s]
<1>1. s \in SUBSET AnyConfigs
  BY Retyped
<1> HIDE DEF s
<1>2. y \in Renderers
  BY <1>1, Zenon DEF Renderers
<1>3. SameBut(x, y)
  BY Zenon DEF Renderers, SameBut
<1>4. y.gen = x.gen /\ y.owner = x.owner
  BY Zenon DEF Renderers
<1>5. x.owner # NoOwner => Run(x) = End(y)
  BY DEF Run, s
<1> DEFINE gen == x.gen + 1
           o == [gen |-> gen, session |-> x.session, config |-> x.config]
           t == [x.txn EXCEPT !.at = "start", !.gen = gen]
           v == [y EXCEPT !.gen = gen, !.owner = o, !.stopFailed = None, !.txn.at = "start", !.txn.gen = gen]
           z == [y EXCEPT !.gen = gen, !.owner = o, !.stopFailed = None, !.txn = t]
<1>6. x.owner = NoOwner => Run(x) = Send(v, "start", x.config)
  BY DEF Run, s
<1> HIDE DEF y
<1>7. gen \in Nat /\ o \in Owners /\ x.txn \in Txns
  BY Retyped DEF Owners
<1> HIDE DEF gen
<1>8. t \in Txns /\ t.at = "start" /\ t.op = x.txn.op /\ t.receipts = x.txn.receipts
  BY <1>7 DEF Txns, Ats
<1>9. y.txn = x.txn
  BY <1>3 DEF SameBut
<1>10. v = z
  BY <1>2, <1>7, <1>9, Zenon DEF Renderers
<1> HIDE DEF v, o, t
<1>11. z \in Renderers /\ z.txn = t
  BY <1>2, <1>7, <1>8, Blanks, Zenon DEF Renderers, None
<1>12. z.session = y.session /\ z.config = y.config /\ z.fault = y.fault /\ z.fresh = y.fresh
       /\ z.asks = y.asks
  BY <1>2, Zenon DEF Renderers
<1> HIDE DEF z
<1>13. Keeps(x, z) /\ Keeps(x, y) /\ y.call = NoCall
  BY <1>2, <1>3, <1>11, <1>12 DEF Keeps, SameBut
<1>14. Done(x, End(y))
  BY <1>2, <1>13, EndAfter
<1>15. Done(x, Send(z, "start", x.config))
  BY SMTT(40), <1>8, <1>11, <1>13, Sent, Phases, Retyped
<1> QED BY <1>5, <1>6, <1>10, <1>14, <1>15

\* Sends from a phase of a transaction whose other parts may have changed
LEMMA SendFrom ==
  ASSUME NEW x, NEW z \in Renderers, Keeps(x, z), NEW op, NEW c \in AnyConfigs, NEW t \in Txns,
         t.at \in Ats \ {"stop"}, t.receipts = {}, t.op # "pump", op = OpOf(t.at)
  PROVE  Done(x, Send([z EXCEPT !.txn = t], op, c))
<1> DEFINE y == [z EXCEPT !.txn = t]
<1>1. y \in Renderers /\ Keeps(z, y) /\ y.txn = t
  BY Turned
<1> HIDE DEF y
<1>2. Keeps(x, y)
  BY <1>1, SmallSteps
<1>3. Done(x, Send(y, op, c))
  BY <1>1, <1>2, Sent
<1> QED BY <1>3 DEF y

LEMMA TxnAt ==
  ASSUME NEW t \in Txns, t.op # "pump", t.receipts = {}, NEW u,
         \/ \E at \in Ats : u = [t EXCEPT !.at = at]
         \/ \E at \in Ats, c \in AnyConfigs : u = [t EXCEPT !.at = at, !.config = c]
         \/ \E at \in Ats, resume \in {"no", "tap", "scalar", "iq"}, gen \in Nat :
               u = [t EXCEPT !.at = at, !.resume = resume, !.gen = gen]
  PROVE  u \in Txns /\ u.op # "pump" /\ u.receipts = {}
BY DEF Txns

LEMMA InvalidateKeeps ==
  ASSUME NEW x \in Renderers, NEW all \in BOOLEAN
  PROVE  /\ Invalidate(x, all) \in Renderers /\ SameBut(x, Invalidate(x, all))
         /\ Keeps(x, Invalidate(x, all))
<1> DEFINE s == IF all THEN {} ELSE x.retained
           b == x.lease /\ ~all
<1>1. s \in SUBSET AnyConfigs /\ b \in BOOLEAN
  BY Retyped
<1>2. Invalidate(x, all) = [x EXCEPT !.evidence = NoEvidence, !.lease = b, !.retained = s]
  BY DEF Invalidate
<1> HIDE DEF s, b
<1>e. NoEvidence \in Evidences
  BY Blanks
<1>3. [x EXCEPT !.evidence = NoEvidence, !.lease = b, !.retained = s] \in Renderers
  BY <1>1, <1>e, Zenon DEF Renderers
<1>4. SameBut(x, Invalidate(x, all))
  BY <1>2, Zenon DEF Renderers, SameBut
<1> QED BY <1>2, <1>3, <1>4 DEF Keeps, SameBut

LEMMA ApplyIsDone ==
  ASSUME NEW x, Idling(x)
  PROVE  Done(x, Apply(x))
<1> USE DEF Idling
<1>1. CASE ~Connected(x)
  BY <1>1, EndIsDone DEF Apply
<1>2. CASE Connected(x)
  <2> DEFINE y == Invalidate(x, TRUE)
             t == [y.txn EXCEPT !.at = "apply"]
  <2>1. y \in Renderers /\ Keeps(x, y) /\ y.txn = x.txn
    BY InvalidateKeeps DEF SameBut
  <2>2. Apply(x) = Send([y EXCEPT !.txn.at = "apply"], "apply", NoConfig)
    BY <1>2 DEF Apply
  <2> HIDE DEF y
  <2>3. [y EXCEPT !.txn.at = "apply"] = [y EXCEPT !.txn = t]
    BY <2>1, Zenon DEF Renderers
  <2>4. t \in Txns /\ t.at = "apply" /\ t.op # "pump" /\ t.receipts = {}
    <3>1. x.txn \in Txns /\ "apply" \in Ats /\ x.config \in AnyConfigs
      BY Retyped, Phases
    <3>2. t \in Txns /\ t.op # "pump" /\ t.receipts = {}
      BY <2>1, <3>1, TxnAt
    <3> QED BY <2>1, <3>1, <3>2 DEF Txns
  <2> HIDE DEF t
  <2> QED BY <2>1, <2>2, <2>3, <2>4, SendFrom, Blanks, Phases
<1> QED BY <1>1, <1>2

LEMMA TouchIsDone ==
  ASSUME NEW x, Idling(x)
  PROVE  Done(x, Touch(x))
<1> USE DEF Idling
<1>1. CASE ~Connected(x) \/ x.fault
  BY <1>1, EndIsDone DEF Touch
<1>2. CASE ~(~Connected(x) \/ x.fault)
  <2> DEFINE t == [x.txn EXCEPT !.at = "touch"]
             n == x.touches + 1
             y == [x EXCEPT !.touches = n]
  <2>1. Touch(x) = Send([x EXCEPT !.txn.at = "touch", !.touches = n], "touch", NoConfig)
    BY <1>2 DEF Touch
  <2>2. n \in Nat
    BY Retyped
  <2> HIDE DEF n
  <2>3. [x EXCEPT !.txn.at = "touch", !.touches = n] = [y EXCEPT !.txn = t]
    BY Zenon DEF Renderers
  <2>4. y \in Renderers
    BY <2>2, Zenon DEF Renderers
  <2>5. SameBut(x, y)
    BY Zenon DEF Renderers, SameBut
  <2> HIDE DEF y
  <2>6. Keeps(x, y)
    BY <2>4, <2>5 DEF Keeps, SameBut
  <2>7. t \in Txns /\ t.at = "touch" /\ t.op # "pump" /\ t.receipts = {}
    <3>1. x.txn \in Txns /\ "touch" \in Ats /\ x.config \in AnyConfigs
      BY Retyped, Phases
    <3>2. t \in Txns /\ t.op # "pump" /\ t.receipts = {}
      BY <3>1, TxnAt
    <3> QED BY <3>1, <3>2 DEF Txns
  <2> HIDE DEF t
  <2> QED BY <2>1, <2>3, <2>4, <2>6, <2>7, SendFrom, Blanks, Phases
<1> QED BY <1>1, <1>2

\* An operation stops the stream before it goes on
LEMMA PauseIsDone ==
  ASSUME NEW x, Idling(x), NEW resume \in {"tap", "scalar"}
  PROVE  Done(x, Send([x EXCEPT !.txn.at = "pause", !.txn.resume = resume,
                                !.txn.gen = x.owner.gen], "stop", NoConfig))
<1> USE DEF Idling
<1> DEFINE t == [x.txn EXCEPT !.at = "pause", !.resume = resume, !.gen = x.owner.gen]
<1>1. [x EXCEPT !.txn.at = "pause", !.txn.resume = resume, !.txn.gen = x.owner.gen]
        = [x EXCEPT !.txn = t]
  BY Zenon DEF Renderers
<1>2. x.owner.gen \in Nat
  BY Retyped DEF Owners
<1>3. t \in Txns /\ t.at = "pause" /\ t.op # "pump" /\ t.receipts = {}
  <2>1. x.txn \in Txns /\ "pause" \in Ats
    BY Retyped, Phases
  <2>2. t \in Txns /\ t.op # "pump" /\ t.receipts = {}
    BY ZenonT(40), <1>2, <2>1, TxnAt
  <2> QED BY <2>1, <2>2 DEF Txns
<1> HIDE DEF t
<1> QED BY <1>1, <1>3, SendFrom, Blanks, Phases, Still

LEMMA TapIsDone ==
  ASSUME NEW x, Idling(x)
  PROVE  Done(x, Tap(x))
BY TouchIsDone, PauseIsDone DEF Tap

LEMMA PausedFailsIsDone ==
  ASSUME NEW x \in Renderers, x.call = NoCall
  PROVE  Done(x, PausedFails(x))
<1>1. CASE x.txn.resume = "scalar"
  <2> DEFINE b == x.continuous /\ x.owner # NoOwner
  <2>1. b \in BOOLEAN
    BY Retyped
  <2>2. PausedFails(x) = End([x EXCEPT !.requested = FALSE, !.continuous = b])
    BY <1>1 DEF PausedFails
  <2> HIDE DEF b
  <2> QED BY <2>1, <2>2, FlagsThenEnd
<1>2. CASE x.txn.resume = "iq"
  <2>1. PausedFails(x) = End([Unrequest(x) EXCEPT !.lease = FALSE, !.continuous = FALSE])
    BY <1>2 DEF PausedFails
  <2>2. Unrequest(x) \in Renderers /\ Unrequest(x).call = NoCall /\ Keeps(x, Unrequest(x))
    BY SMTT(40), SmallCall
  <2>3. Done(Unrequest(x), PausedFails(x))
    BY <2>1, <2>2, FlagsThenEnd
  <2> QED BY <2>2, <2>3, SmallSteps
<1>3. CASE x.txn.resume \notin {"scalar", "iq"}
  <2>1. PausedFails(x) = End(x)
    BY <1>3 DEF PausedFails
  <2> QED BY <2>1, EndIsDone
<1> QED BY SMTT(40), <1>1, <1>2, <1>3

LEMMA AcquireIsDone ==
  ASSUME NEW x, Idling(x), NEW kind
  PROVE  Done(x, Acquire(x, kind))
<1> USE DEF Idling
<1>1. CASE x.config.kind # kind
  BY <1>1, PausedFailsIsDone DEF Acquire
<1>2. CASE x.config.kind = kind
  <2> DEFINE t == [x.txn EXCEPT !.at = "acquire", !.config = x.config]
             s == x.retained \cup {x.config}
             y == [x EXCEPT !.retained = s]
  <2>1. Acquire(x, kind) = Send([x EXCEPT !.txn.at = "acquire", !.txn.config = x.config,
                                          !.retained = s], "acquire", x.config)
    BY <1>2 DEF Acquire
  <2>2. s \in SUBSET AnyConfigs
    BY Retyped
  <2> HIDE DEF s
  <2>3. [x EXCEPT !.txn.at = "acquire", !.txn.config = x.config, !.retained = s]
           = [y EXCEPT !.txn = t]
    BY Zenon DEF Renderers
  <2>4. y \in Renderers
    BY <2>2, Zenon DEF Renderers
  <2>5. SameBut(x, y)
    BY Zenon DEF Renderers, SameBut
  <2> HIDE DEF y
  <2>6. Keeps(x, y)
    BY <2>4, <2>5 DEF Keeps, SameBut
  <2>7. t \in Txns /\ t.at = "acquire" /\ t.op # "pump" /\ t.receipts = {}
    <3>1. x.txn \in Txns /\ "acquire" \in Ats /\ x.config \in AnyConfigs
      BY Retyped, Phases
    <3>2. t \in Txns /\ t.op # "pump" /\ t.receipts = {}
      BY <3>1, TxnAt
    <3> QED BY <3>1, <3>2 DEF Txns
  <2> HIDE DEF t
  <2> QED BY SMTT(40), <2>1, <2>3, <2>4, <2>6, <2>7, SendFrom, Retyped, Phases
<1> QED BY <1>1, <1>2

LEMMA CaptureIsDone ==
  ASSUME NEW x, Idling(x)
  PROVE  Done(x, Capture(x))
<1> USE DEF Idling
<1>1. CASE ~x.requested
  BY SMTT(40), <1>1, AcquireIsDone DEF Capture
<1>2. CASE x.requested /\ x.owner # NoOwner
  BY <1>2, PauseIsDone DEF Capture
<1>3. CASE x.requested /\ x.owner = NoOwner /\ x.mode = "iq"
  <2> DEFINE t == [x.txn EXCEPT !.resume = "iq"]
             y == [x EXCEPT !.txn = t]
  <2>1. t \in Txns /\ t.op = x.txn.op /\ t.receipts = x.txn.receipts
    BY Retyped DEF Txns
  <2>2. [x EXCEPT !.txn.resume = "iq"] = y
    BY Zenon DEF Renderers
  <2>3. Capture(x) = IF Connected(x) THEN Acquire([x EXCEPT !.txn.resume = "iq"], "iq") ELSE End(x)
    BY <1>3 DEF Capture
  <2> HIDE DEF t
  <2>4. y \in Renderers /\ Keeps(x, y) /\ y.txn = t /\ y.call = NoCall
    BY <2>1, Turned
  <2> HIDE DEF y
  <2>5. Idling(y)
    BY <2>1, <2>4
  <2>6. Done(y, Acquire(y, "iq")) /\ Done(x, End(x))
    BY <2>5, AcquireIsDone, EndIsDone
  <2>7. Done(x, Acquire(y, "iq"))
    BY <2>4, <2>6, SmallSteps
  <2> QED BY <2>2, <2>3, <2>6, <2>7
<1>4. CASE x.requested /\ x.owner = NoOwner /\ x.mode # "iq"
  BY <1>4, AcquireIsDone DEF Capture
<1> QED BY <1>1, <1>2, <1>3, <1>4

LEMMA ConnectIsDone ==
  ASSUME NEW x, Idling(x)
  PROVE  Done(x, Connect(x))
<1> USE DEF Idling
<1> DEFINE y == Invalidate(x, FALSE)
           t == [y.txn EXCEPT !.at = "connect"]
<1>1. y \in Renderers /\ Keeps(x, y) /\ y.txn = x.txn
  BY InvalidateKeeps DEF SameBut
<1>2. Connect(x) = Send([y EXCEPT !.txn.at = "connect"], "connect", NoConfig)
  BY DEF Connect
<1> HIDE DEF y
<1>3. [y EXCEPT !.txn.at = "connect"] = [y EXCEPT !.txn = t]
  BY <1>1, Zenon DEF Renderers
<1>4. t \in Txns /\ t.at = "connect" /\ t.op # "pump" /\ t.receipts = {}
  <2>1. x.txn \in Txns /\ "connect" \in Ats
    BY Retyped, Phases
  <2>2. t \in Txns /\ t.op # "pump" /\ t.receipts = {}
    BY <1>1, <2>1, TxnAt
  <2> QED BY <1>1, <2>1, <2>2 DEF Txns
<1> HIDE DEF t
<1> QED BY <1>1, <1>2, <1>3, <1>4, SendFrom, Blanks, Phases

LEMMA AdmitIsDone ==
  ASSUME NEW x \in Renderers, x.call = NoCall, NEW op \in Operations, NEW paused \in BOOLEAN
  PROVE  Done(x, Admit(x, op, paused))
<1> DEFINE t == [NoTxn EXCEPT !.op = op, !.at = "body", !.paused = paused]
           y == [x EXCEPT !.txn = t]
<1>1. t \in Txns /\ t.op = op /\ t.receipts = {}
  BY DEF NoTxn, Txns, NoConfig, AnyConfigs, None
<1> HIDE DEF t
<1>2. y \in Renderers /\ Keeps(x, y) /\ y.txn = t /\ y.call = NoCall
  BY <1>1, Turned
<1>3. Admit(x, op, paused) = Body(y, op)
  BY DEF Admit, t
<1> HIDE DEF y
<1>4. Idling(y)
  BY <1>1, <1>2 DEF Idling, Operations
<1>5. Body(y, op) \in {Run(y), Apply(y), Tap(y), Capture(y), Acquire(y, "swept"), Connect(y)}
  BY DEF Body, Operations
<1>6. Done(y, Body(y, op))
  BY <1>4, <1>5, RunIsDone, ApplyIsDone, TapIsDone, CaptureIsDone, AcquireIsDone, ConnectIsDone
<1> QED BY <1>2, <1>3, <1>6, SmallSteps

LEMMA TransactIsSmall ==
  ASSUME NEW x \in Renderers, Orderly(x), NEW op \in Operations
  PROVE  Small(x, Transact(x, op))
<1> DEFINE d == x.depth + 1
           y == IF Current(x) THEN [x EXCEPT !.depth = d] ELSE x
           w == Append(y.waiting, op)
           v == [y EXCEPT !.waiting = w]
<1>1. d \in Int
  BY Retyped
<1>2. Transact(x, op) = CASE x.txn.op = "pump" /\ Current(x) -> v
                          [] ~Held(x) -> Admit(y, op, Current(x))
                          [] OTHER -> x
  BY DEF Transact
<1>3. x.txn.op = "pump" => Held(x)
  BY Blanks DEF Held
<1> HIDE DEF d
<1>4. y \in Renderers
  BY <1>1, ZenonT(40) DEF Renderers
<1>5. SameBut(x, y)
  BY Zenon DEF Renderers, SameBut
<1> HIDE DEF y
<1>6. w \in Seq(Operations)
  BY <1>4, Retyped, AppendProperties
<1> HIDE DEF w
<1>7. v \in Renderers
  BY <1>4, <1>6, Zenon DEF Renderers
<1>8. SameBut(y, v)
  BY <1>4, Zenon DEF Renderers, SameBut
<1> HIDE DEF v
<1>9. Small(x, y) /\ Small(y, v)
  BY <1>4, <1>5, <1>7, <1>8, SameGate
<1>10. Current(x) \in BOOLEAN
  BY Retyped DEF Current
<1>11. CASE ~Held(x)
  <2>1. x.call = NoCall /\ y.call = NoCall
    BY <1>5, <1>11 DEF Orderly, SameBut
  <2>2. Done(y, Admit(y, op, Current(x)))
    BY <1>4, <1>10, <2>1, AdmitIsDone
  <2>3. Done(x, Admit(y, op, Current(x)))
    BY <1>9, <2>2, SmallSteps DEF Small
  <2> QED BY <1>2, <1>3, <1>11, <2>3 DEF Done, Small, Waits
<1>12. CASE Held(x)
  BY <1>2, <1>9, <1>12, SmallSteps, Still
<1> QED BY <1>11, <1>12

LEMMA ResumeIsSmall ==
  ASSUME NEW x \in Renderers, Orderly(x)
  PROVE  Small(x, Resume(x))
<1>1. CASE x.waiting = <<>>
  BY <1>1, Still DEF Resume
<1>2. CASE x.waiting # <<>>
  <2> DEFINE d == x.depth - (Len(x.waiting) - 1)
             y == [x EXCEPT !.waiting = <<>>, !.depth = d]
  <2>1. d \in Int /\ Head(x.waiting) \in Operations /\ <<>> \in Seq(Operations)
    BY <1>2, Retyped, HeadTailProperties, LenProperties, EmptySeq
  <2>2. Resume(x) = IF Held(y) THEN Unpause(y) ELSE Admit(y, Head(x.waiting), TRUE)
    BY <1>2 DEF Resume
  <2> HIDE DEF d
  <2>3. y \in Renderers
    BY <2>1, Zenon DEF Renderers
  <2>4. SameBut(x, y)
    BY Zenon DEF Renderers, SameBut
  <2> HIDE DEF y
  <2>5. Small(x, y)
    BY <2>3, <2>4, SameGate
  <2>6. CASE Held(y)
    BY <2>2, <2>3, <2>5, <2>6, UnpauseIsSmall, SmallSteps
  <2>7. CASE ~Held(y)
    <3>1. ~Held(x) /\ y.call = NoCall
      BY <2>4, <2>7 DEF Orderly, SameBut, Held
    <3>2. Done(y, Admit(y, Head(x.waiting), TRUE))
      BY <2>1, <2>3, <3>1, AdmitIsDone
    <3>3. Keeps(x, y)
      BY <2>5 DEF Small
    <3>4. Done(x, Admit(y, Head(x.waiting), TRUE))
      BY <3>2, <3>3, SmallSteps
    <3>5. Done(x, Resume(x))
      BY <2>2, <2>7, <3>4
    <3> QED BY <3>1, <3>5 DEF Done, Small, Waits
  <2> QED BY <2>6, <2>7
<1> QED BY <1>1, <1>2

-----------------------------------------------------------------------------
(* The gate: replies *)

LEMMA RunFailsIsDone ==
  ASSUME NEW x \in Renderers, x.call = NoCall
  PROVE  Done(x, RunFails(x))
<1> DEFINE a == x.requested /\ x.owner # NoOwner
           b == x.continuous /\ x.owner # NoOwner
<1>1. a \in BOOLEAN /\ b \in BOOLEAN
  BY Retyped
<1>2. RunFails(x) = End([x EXCEPT !.requested = a, !.continuous = b])
  BY DEF RunFails
<1> HIDE DEF a, b
<1> QED BY <1>1, <1>2, FlagsThenEnd

LEMMA StopAgainIsDone ==
  ASSUME NEW x, Idling(x), NEW at \in {"compensate", "unstart"}
  PROVE  Done(x, Send([x EXCEPT !.txn.at = at], "stop", NoConfig))
<1> USE DEF Idling
<1> DEFINE t == [x.txn EXCEPT !.at = at]
<1>1. [x EXCEPT !.txn.at = at] = [x EXCEPT !.txn = t]
  BY Zenon DEF Renderers
<1>2. x.txn \in Txns /\ at \in Ats
  BY Retyped, Phases
<1>3. t \in Txns /\ t.op # "pump" /\ t.receipts = {}
  BY <1>2, TxnAt
<1>4. t.at = at
  BY <1>2 DEF Txns
<1> HIDE DEF t
<1> QED BY <1>1, <1>2, <1>3, <1>4, SendFrom, Blanks, Phases, Still

LEMMA StartedIsDone ==
  ASSUME NEW x, Idling(x), NEW m
  PROVE  Done(x, Started(x, m))
BY RunFailsIsDone, StopAgainIsDone, EndIsDone DEF Started, Compensate, Idling

LEMMA PausedIsDone ==
  ASSUME NEW x, Idling(x), NEW m
  PROVE  Done(x, Paused(x, m))
<1> DEFINE y == Release(x, x.txn.gen)
<1>1. y \in Renderers /\ Keeps(x, y) /\ y.txn = x.txn /\ y.call = x.call
  BY SmallCall DEF Idling
<1>2. Paused(x, m) = IF ~m.ok THEN PausedFails(x)
                     ELSE IF x.txn.resume = "tap" THEN Touch(y)
                     ELSE IF ~Connected(y) \/ y.fault THEN PausedFails(y)
                     ELSE Acquire(y, "iq")
  BY DEF Paused
<1> HIDE DEF y
<1>3. Idling(y)
  BY <1>1 DEF Idling
<1>4. Done(x, PausedFails(x))
  BY PausedFailsIsDone DEF Idling
<1>5. Done(y, PausedFails(y)) /\ Done(y, Touch(y)) /\ Done(y, Acquire(y, "iq"))
  BY <1>3, PausedFailsIsDone, TouchIsDone, AcquireIsDone DEF Idling
<1>6. Done(x, PausedFails(y)) /\ Done(x, Touch(y)) /\ Done(x, Acquire(y, "iq"))
  BY <1>1, <1>5, SmallSteps
<1> QED BY <1>2, <1>4, <1>6

\* A receipt that is not the last leaves the tap where it is
LEMMA ReceiptIsOrderly ==
  ASSUME NEW x \in Renderers, Orderly(x), x.txn.at = "touch",
         NEW what \in {"reply", "result", "invalidated"},
         what = "reply" => x.call = NoCall
  PROVE  Done(x, Receipt(x, what)) /\ (what # "reply" => Small(x, Receipt(x, what)))
<1> DEFINE s == x.txn.receipts \cup {what}
           t == [x.txn EXCEPT !.receipts = s]
           y == [x EXCEPT !.txn = t]
<1>1. x.txn \in Txns /\ x.txn.receipts \in SUBSET {"reply", "result", "invalidated"}
  BY Retyped DEF Txns
<1>2. s \in SUBSET {"reply", "result", "invalidated"} /\ ("reply" \in s => what = "reply" \/ "reply" \in x.txn.receipts)
  BY <1>1
<1>3. [x EXCEPT !.txn.receipts = s] = y
  BY Zenon DEF Renderers
<1>4. Receipt(x, what) = IF [x EXCEPT !.txn.receipts = s].txn.receipts # {"reply", "result", "invalidated"}
                         THEN [x EXCEPT !.txn.receipts = s]
                         ELSE IF Connected([x EXCEPT !.txn.receipts = s])
                                 /\ [x EXCEPT !.txn.receipts = s].txn.resume = "tap"
                         THEN End(Complete([x EXCEPT !.txn.receipts = s]))
                         ELSE End([x EXCEPT !.txn.receipts = s])
  BY DEF Receipt
<1> HIDE DEF s
<1>5. t \in Txns /\ t.at = "touch" /\ t.op = x.txn.op /\ t.receipts = s
  BY <1>1, <1>2 DEF Txns
<1> HIDE DEF t
<1>6. y \in Renderers /\ Keeps(x, y) /\ y.txn = t /\ y.call = x.call
  BY <1>5, Turned
<1> HIDE DEF y
<1>7. CASE s # {"reply", "result", "invalidated"}
  <2>1. Receipt(x, what) = y
    BY <1>3, <1>4, <1>5, <1>6, <1>7
  <2>2. Orderly(y)
    BY <1>2, <1>5, <1>6, Blanks, Phases DEF Orderly, Held
  <2>3. Held(y)
    BY <1>5, <1>6, Blanks DEF Held
  <2> QED BY <1>2, <1>5, <1>6, <2>1, <2>2, <2>3 DEF Done, Small, Waits
<1>8. CASE s = {"reply", "result", "invalidated"}
  <2>1. what = "reply" \/ "reply" \in x.txn.receipts
    BY <1>2, <1>8
  <2>2. y.call = NoCall
    BY <1>6, <2>1 DEF Orderly
  <2>3. Receipt(x, what) = IF Connected(y) /\ y.txn.resume = "tap" THEN End(Complete(y)) ELSE End(y)
    BY <1>3, <1>4, <1>5, <1>6, <1>8
  <2>4. Done(y, End(y)) /\ Done(y, End(Complete(y)))
    BY <1>6, <2>2, EndIsDone, SmallCall, EndAfter
  <2>5. Done(x, Receipt(x, what))
    BY <1>6, <2>3, <2>4, SmallSteps
  <2> QED BY <2>1, <2>5 DEF Done, Small, Waits
<1> QED BY <1>7, <1>8

LEMMA RejectIsSmall ==
  ASSUME NEW x \in Renderers, Orderly(x), x.txn.at = "touch"
  PROVE  Small(x, RejectReceipt(x))
<1>1. CASE "reply" \in x.txn.receipts
  <2>1. x.call = NoCall
    BY <1>1 DEF Orderly
  <2>2. Done(x, End(x))
    BY <2>1, EndIsDone
  <2> QED BY <1>1, <2>2 DEF Done, Small, Waits, RejectReceipt
<1>2. CASE "reply" \notin x.txn.receipts
  <2> DEFINE t == [x.txn EXCEPT !.at = "expired"]
             y == [x EXCEPT !.txn = t]
  <2>1. [x EXCEPT !.txn.at = "expired"] = y
    BY Zenon DEF Renderers
  <2>2. x.txn \in Txns
    BY Retyped
  <2>3. t \in Txns /\ t.at = "expired" /\ t.op = x.txn.op /\ t.receipts = x.txn.receipts
    BY <2>2 DEF Txns, Ats
  <2> HIDE DEF t
  <2>4. y \in Renderers /\ Keeps(x, y) /\ y.txn = t /\ y.call = x.call
    BY <2>3, Turned
  <2> HIDE DEF y
  <2>5. Held(x) /\ Held(y)
    BY <2>3, <2>4, Blanks DEF Held
  <2>6. Orderly(y)
    BY <2>3, <2>4, <2>5, Phases DEF Orderly
  <2>7. RejectReceipt(x) = y
    BY <1>2, <2>1 DEF RejectReceipt
  <2> QED BY <2>3, <2>4, <2>5, <2>6, <2>7, Phases DEF Small, Waits
<1> QED BY <1>1, <1>2

LEMMA RecordIsSmall ==
  ASSUME NEW x \in Renderers, NEW m \in Messages
  PROVE  /\ Record(x, m) \in Renderers /\ SameBut(x, Record(x, m)) /\ Small(x, Record(x, m))
         /\ Keeps(x, Record(x, m))
<1> DEFINE v == [session |-> m.session, rev |-> m.config.rev]
<1>1. v \in Evidences
  BY DEF Messages, Events, Replies, AnyConfigs, Evidences
<1>2. Record(x, m) = [x EXCEPT !.evidence = v]
  BY DEF Record
<1> HIDE DEF v
<1>3. [x EXCEPT !.evidence = v] \in Renderers
  BY <1>1, Zenon DEF Renderers
<1>4. SameBut(x, [x EXCEPT !.evidence = v])
  BY Zenon DEF Renderers, SameBut
<1> QED BY <1>2, <1>3, <1>4, SameGate DEF Small

LEMMA AcquiredIsDone ==
  ASSUME NEW x \in Renderers, x.call = NoCall, NEW m \in Messages
  PROVE  Done(x, Acquired(x, m))
<1> DEFINE y == Record(x, m)
<1>1. y \in Renderers /\ Keeps(x, y) /\ y.call = NoCall
  BY RecordIsSmall DEF SameBut
<1>2. Acquired(x, m) \in {PausedFails(x), End(y), PausedFails(y), End(Complete(y))}
  BY DEF Acquired
<1> HIDE DEF y
<1>3. Done(y, End(y)) /\ Done(y, PausedFails(y))
  BY <1>1, EndIsDone, PausedFailsIsDone
<1>4. Done(y, End(Complete(y)))
  BY <1>1, SmallCall, EndAfter
<1>5. Done(x, End(y)) /\ Done(x, PausedFails(y)) /\ Done(x, End(Complete(y)))
  BY <1>1, <1>3, <1>4, SmallSteps
<1>6. Done(x, PausedFails(x))
  BY PausedFailsIsDone
<1> QED BY <1>2, <1>5, <1>6

LEMMA PumpedIsDone ==
  ASSUME NEW x \in Renderers, x.call = NoCall, NEW m \in Messages
  PROVE  Done(x, Pumped(x, m))
<1> DEFINE y == IF Bound(x, m) /\ x.lease /\ m.config = x.config THEN Record(x, m) ELSE x
           v == [y EXCEPT !.txn = NoTxn]
           z == Drain(v)
           w == IF ~Bound(x, m) THEN PumpFails(z)
                ELSE IF Current(z) THEN [z EXCEPT !.pump = "cadence"] ELSE PumpEnds(z)
<1>1. y \in Renderers /\ Keeps(x, y) /\ y.call = NoCall
  BY RecordIsSmall, Still DEF SameBut
<1>2. Pumped(x, m) = Resume(w)
  BY DEF Pumped
<1> HIDE DEF y
<1>3. v \in Renderers /\ Keeps(y, v) /\ v.txn = NoTxn /\ v.call = NoCall
  BY <1>1, Turned, Blanks
<1> HIDE DEF v
<1>4. Orderly(v)
  BY <1>3, Blanks DEF Orderly, Held
<1>5. Keeps(x, v)
  BY <1>1, <1>3, SmallSteps
<1>6. Small(v, z) /\ z \in Renderers
  BY <1>3, DrainIsSmall DEF Small, Keeps
<1> HIDE DEF z
<1>7. [z EXCEPT !.pump = "cadence"] \in Renderers
  BY <1>6, Zenon DEF Renderers
<1>8. SameBut(z, [z EXCEPT !.pump = "cadence"])
  BY <1>6, Zenon DEF Renderers, SameBut
<1>9. Small(z, w)
  BY <1>6, <1>7, <1>8, SameGate, PlainSmall
<1> HIDE DEF w
<1>10. Done(x, w)
  <2>1. Small(v, w)
    BY <1>6, <1>9, SmallSteps
  <2>2. Done(v, w)
    BY <1>4, <2>1 DEF Done, Small
  <2> QED BY <1>5, <2>2, SmallSteps
<1>11. Small(w, Resume(w))
  BY <1>10, ResumeIsSmall DEF Done, Keeps
<1> QED BY <1>2, <1>10, <1>11, SmallSteps

LEMMA StoppedIsDone ==
  ASSUME NEW x \in Renderers, x.call = NoCall, x.txn.op \in {"stop", "abort"}, NEW m \in Messages
  PROVE  Done(x, Stopped(x, m))
<1> DEFINE y == Release(x, x.txn.gen)
<1>1. y \in Renderers /\ Keeps(x, y) /\ y.call = NoCall
  BY SmallCall
<1>2. m.ok \in BOOLEAN /\ x.txn.gen \in Nat
  BY Retyped DEF Messages, Events, Replies, Txns
<1>3. Stopped(x, m) \in {End([Complete(y) EXCEPT !.stop = "none"]), End([x EXCEPT !.stop = "none"]),
                         End([y EXCEPT !.continuous = FALSE]), End([x EXCEPT !.stopFailed = x.txn.gen])}
  BY <1>2 DEF Stopped
<1> HIDE DEF y
<1>4. Complete(y) \in Renderers /\ Keeps(y, Complete(y)) /\ Complete(y).call = NoCall
  BY <1>1, SmallCall
<1>5. Done(Complete(y), End([Complete(y) EXCEPT !.stop = "none"]))
  BY <1>4, FlagsThenEnd
<1>6. Keeps(x, Complete(y))
  BY <1>1, <1>4, SmallSteps
<1>7. Done(x, End([Complete(y) EXCEPT !.stop = "none"]))
  BY SMTT(40), <1>5, <1>6, SmallSteps
<1>8. Done(y, End([y EXCEPT !.continuous = FALSE]))
  BY <1>1, FlagsThenEnd
<1>9. Done(x, End([y EXCEPT !.continuous = FALSE]))
  BY SMTT(40), <1>1, <1>8, SmallSteps
<1>10. Done(x, End([x EXCEPT !.stop = "none"])) /\ Done(x, End([x EXCEPT !.stopFailed = x.txn.gen]))
  BY <1>2, FlagsThenEnd
<1> QED BY <1>3, <1>7, <1>9, <1>10

View(s, c, fault) == [session |-> s, config |-> c, fault |-> fault]
ViewOf(x) == View(x.session, x.config, x.fault)

\* What is accepted supersedes a state read and leaves the gate alone
Supersedes(x, y) == ~y.fresh /\ y.asks = x.asks /\ y.txn = x.txn /\ y.call = x.call

LEMMA Accepts ==
  ASSUME NEW x \in Renderers, NEW s \in Nat, NEW c \in AnyConfigs, NEW f \in BOOLEAN
  PROVE  /\ Accept(x, s, c, f) \in Renderers
         /\ ViewOf(Accept(x, s, c, f)) = View(s, c, f)
         /\ Supersedes(x, Accept(x, s, c, f))
<1> DEFINE y == IF s # x.session THEN Invalidate(x, TRUE) ELSE x
<1>1. y \in Renderers /\ y.asks = x.asks /\ y.txn = x.txn /\ y.call = x.call
  BY InvalidateKeeps DEF SameBut
<1>2. Accept(x, s, c, f) = [y EXCEPT !.session = s, !.config = c, !.fault = f, !.fresh = FALSE]
  BY DEF Accept
<1> HIDE DEF y
<1> DEFINE z == [y EXCEPT !.session = s, !.config = c, !.fault = f, !.fresh = FALSE]
<1>3. z \in Renderers
  BY <1>1, Zenon DEF Renderers
<1>4. z.session = s /\ z.config = c /\ z.fault = f
  BY <1>1, Zenon DEF Renderers
<1>5. ~z.fresh
  BY <1>1, Zenon DEF Renderers
<1>6. z.asks = y.asks /\ z.txn = y.txn /\ z.call = y.call
  BY <1>1, Zenon DEF Renderers
<1> HIDE DEF z
<1>7. ViewOf(z) = View(s, c, f)
  BY <1>4 DEF ViewOf
<1>8. Supersedes(x, z)
  BY <1>1, <1>5, <1>6 DEF Supersedes
<1> QED BY <1>2, <1>3, <1>7, <1>8 DEF z

\* An accepted view, field by field
LEMMA ViewFields ==
  ASSUME NEW y, NEW s, NEW c, NEW f
  PROVE  ViewOf(y) = View(s, c, f) <=> y.session = s /\ y.config = c /\ y.fault = f
BY DEF ViewOf, View

LEMMA SameOrder ==
  ASSUME NEW x, NEW y, y.txn = x.txn, y.call = x.call
  PROVE  (Orderly(x) => Orderly(y)) /\ Waits(x, y)
BY DEF Orderly, Waits, Held

LEMMA ReplyIsDone ==
  ASSUME NEW x \in Renderers, Orderly(x), Held(x), x.call = NoCall, NEW m \in Messages
  PROVE  /\ x.txn.at # "connect" \/ ~m.ok => Done(x, OnReply(x, m))
         /\ x.txn.at = "connect" /\ m.ok =>
              /\ OnReply(x, m) \in Renderers /\ Orderly(OnReply(x, m))
              /\ ViewOf(OnReply(x, m)) = View(m.session, NoConfig, FALSE)
              /\ OnReply(x, m).asks = x.asks
<1>1. x.txn.at \in Ats
  BY DEF Orderly
<1>2. x.txn.at \notin {"touch", "expired", "acquire"} => Idling(x)
  BY DEF Orderly, Idling
<1>3. m.ok \in BOOLEAN /\ m.session \in Nat
  BY DEF Messages, Events, Replies
<1>4. CASE x.txn.at = "start"
  <2>1. OnReply(x, m) = Started(x, m)
    BY <1>4 DEF OnReply
  <2> QED BY <1>2, <1>4, <2>1, StartedIsDone
<1>5. CASE x.txn.at = "compensate"
  <2>1. OnReply(x, m) = RunFails(IF m.ok THEN Release(x, x.txn.gen) ELSE x)
    BY <1>5 DEF OnReply
  <2>2. Done(Release(x, x.txn.gen), RunFails(Release(x, x.txn.gen))) /\ Done(x, RunFails(x))
        /\ Keeps(x, Release(x, x.txn.gen))
    BY RunFailsIsDone, SmallCall
  <2>3. Done(x, RunFails(Release(x, x.txn.gen)))
    BY <2>2, SmallSteps
  <2> QED BY <1>5, <2>1, <2>2, <2>3
<1>6. CASE x.txn.at = "unstart"
  <2> DEFINE y == Release(x, x.txn.gen)
  <2>1. OnReply(x, m) = IF m.ok THEN End(Complete(y)) ELSE RunFails(x)
    BY <1>6 DEF OnReply
  <2>2. y \in Renderers /\ y.call = NoCall /\ Keeps(x, y)
    BY SmallCall
  <2> HIDE DEF y
  <2>3. Done(y, End(Complete(y))) /\ Done(x, RunFails(x))
    BY <2>2, SmallCall, EndAfter, RunFailsIsDone
  <2>4. Done(x, End(Complete(y)))
    BY <2>2, <2>3, SmallSteps
  <2> QED BY <1>6, <2>1, <2>3, <2>4
<1>7. CASE x.txn.at = "apply"
  <2>1. OnReply(x, m) = End(x)
    BY <1>7 DEF OnReply
  <2> QED BY <1>7, <2>1, EndIsDone
<1>8. CASE x.txn.at = "pause"
  <2>1. OnReply(x, m) = Paused(x, m)
    BY <1>8 DEF OnReply
  <2> QED BY <1>2, <1>8, <2>1, PausedIsDone
<1>9. CASE x.txn.at \in {"touch", "expired"}
  <2>1. OnReply(x, m) = Touched(x, m)
    BY <1>9 DEF OnReply
  <2>2. Done(x, End(x)) /\ (x.txn.at = "touch" => Done(x, Receipt(x, "reply")))
    BY EndIsDone, ReceiptIsOrderly
  <2> QED BY <1>9, <2>1, <2>2 DEF Touched
<1>10. CASE x.txn.at = "acquire"
  <2>1. OnReply(x, m) = IF x.txn.op = "pump" THEN Pumped(x, m) ELSE Acquired(x, m)
    BY <1>10 DEF OnReply
  <2> QED BY <1>10, <2>1, PumpedIsDone, AcquiredIsDone
<1>11. CASE x.txn.at = "connect"
  <2> DEFINE y == Accept(x, m.session, NoConfig, FALSE)
  <2>1. OnReply(x, m) = IF m.ok THEN End(y) ELSE End(x)
    BY <1>11, <1>3 DEF OnReply
  <2>2. y \in Renderers /\ ViewOf(y) = View(m.session, NoConfig, FALSE) /\ y.asks = x.asks
        /\ y.call = NoCall
    <3>1. m.session \in Nat /\ NoConfig \in AnyConfigs /\ FALSE \in BOOLEAN
      BY <1>3, Blanks
    <3>2. y \in Renderers /\ ViewOf(y) = View(m.session, NoConfig, FALSE) /\ Supersedes(x, y)
      BY <3>1, Accepts, Zenon
    <3> QED BY <3>2 DEF Supersedes
  <2> HIDE DEF y
  <2>3. Done(y, End(y)) /\ Done(x, End(x))
    BY <2>2, EndIsDone
  <2>4. m.ok => ViewOf(OnReply(x, m)) = ViewOf(y)
    BY <2>1, <2>3 DEF Done, Keeps, ViewOf
  <2> QED BY <1>3, <1>11, <2>1, <2>2, <2>3, <2>4 DEF Done, Keeps
<1>12. CASE x.txn.at = "stop"
  <2>1. OnReply(x, m) = Stopped(x, m)
    BY <1>12 DEF OnReply
  <2>2. x.txn.op \in {"stop", "abort"}
    BY <1>12 DEF Orderly
  <2> QED BY <1>12, <2>1, <2>2, StoppedIsDone
<1> QED BY <1>1, <1>4, <1>5, <1>6, <1>7, <1>8, <1>9, <1>10, <1>11, <1>12, Phases

-----------------------------------------------------------------------------
(* The gate: what is not a reply to it *)

\* The events that say something of session, configuration and fault
Addressed == {"configured", "session-state", "feature-result", "invalidated", "faulted",
              "disconnected"}
Turns(m) == ~m.reply /\ m.type \in Addressed \cup {"connected"}

\* The view an event leads to, in a renderer that shows v
Shift(v, m) ==
    CASE m.type = "connected" -> View(m.session, NoConfig, FALSE)
      [] m.type \in Addressed /\ m.session # v.session -> v
      [] m.type = "configured" /\ m.session = v.session -> View(v.session, m.config, v.fault)
      [] m.type \in {"session-state", "feature-result", "invalidated"} /\ m.session = v.session ->
            View(v.session, NoConfig, v.fault)
      [] m.type = "faulted" /\ m.session = v.session -> View(v.session, NoConfig, TRUE)
      [] m.type = "disconnected" /\ m.session = v.session -> View(None, NoConfig, FALSE)
      [] m.type \notin Addressed \cup {"connected"} -> v

\* What a step that is not of the gate does to the gate
Aside(x, y) == y \in Renderers /\ Orderly(y) /\ Waits(x, y)

LEMMA AsideOfSmall ==
  ASSUME NEW x, NEW y, NEW z, Orderly(x)
  PROVE  /\ Small(x, y) => Aside(x, y) /\ ViewOf(y) = ViewOf(x) /\ y.fresh = x.fresh /\ y.asks = x.asks
         /\ Aside(x, y) /\ Small(y, z) => Aside(x, z) /\ ViewOf(z) = ViewOf(y) /\ z.fresh = y.fresh /\ z.asks = y.asks
BY DEF Aside, Small, Keeps, Waits, ViewOf

LEMMA DisconnectedIsAside ==
  ASSUME NEW x \in Renderers, Orderly(x), NEW m \in Messages, m.ok
  PROVE  /\ Aside(x, Disconnected(x, m)) /\ Disconnected(x, m).asks = x.asks
         /\ ViewOf(Disconnected(x, m)) = View(None, NoConfig, FALSE)
         /\ ~Disconnected(x, m).fresh
<1> DEFINE y == Unrequest(x)
           z == [y EXCEPT !.continuous = FALSE]
           v == Accept(z, None, NoConfig, FALSE)
           w == Invalidate(v, FALSE)
<1>1. Disconnected(x, m) = w
  BY DEF Disconnected
<1>2. y \in Renderers /\ y.call = x.call /\ y.txn = x.txn /\ y.asks = x.asks
  BY SmallCall DEF Keeps
<1> HIDE DEF y
<1>3. z \in Renderers /\ z.call = x.call /\ z.txn = x.txn /\ z.asks = x.asks
  BY <1>2, Zenon DEF Renderers
<1> HIDE DEF z
<1>4. None \in Nat /\ NoConfig \in AnyConfigs /\ FALSE \in BOOLEAN
  BY Blanks
<1>5. v \in Renderers /\ ViewOf(v) = View(None, NoConfig, FALSE) /\ Supersedes(z, v)
  BY <1>3, <1>4, Accepts, Zenon
<1> HIDE DEF v
<1>6. w \in Renderers /\ SameBut(v, w)
  BY <1>4, <1>5, InvalidateKeeps
<1> HIDE DEF w
<1>7. w.txn = x.txn /\ w.call = x.call /\ w.asks = x.asks /\ ~w.fresh /\ ViewOf(w) = ViewOf(v)
  BY <1>3, <1>5, <1>6 DEF SameBut, Supersedes, ViewOf
<1> QED BY <1>1, <1>5, <1>6, <1>7, SameOrder DEF Aside

LEMMA StateReadIsAside ==
  ASSUME NEW x \in Renderers, Orderly(x), NEW m \in Messages
  PROVE  /\ Aside(x, StateRead(x, m)) /\ StateRead(x, m).asks = x.asks
         /\ ViewOf(StateRead(x, m)) = IF x.fresh THEN View(m.session, m.config, ~m.ok) ELSE ViewOf(x)
         /\ ~StateRead(x, m).fresh
<1>1. m.session \in Nat /\ m.config \in AnyConfigs
  BY DEF Messages, Events, Replies
<1>2. CASE x.fresh
  <2> DEFINE f == ~m.ok
             y == Accept(x, m.session, m.config, f)
  <2>1. StateRead(x, m) = y
    BY <1>2 DEF StateRead
  <2>2. f \in BOOLEAN
    OBVIOUS
  <2>3. y \in Renderers /\ ViewOf(y) = View(m.session, m.config, f) /\ Supersedes(x, y)
    BY <1>1, <2>2, Accepts, Zenon
  <2> HIDE DEF y
  <2> QED BY <1>2, <2>1, <2>3, SameOrder DEF Aside, Supersedes
<1>3. CASE ~x.fresh
  <2>2. StateRead(x, m) = x
    BY <1>3 DEF StateRead
  <2> QED BY <1>3, <2>2, Still, AsideOfSmall
<1> QED BY <1>2, <1>3

LEMMA ObserveIsSmall ==
  ASSUME NEW x \in Renderers, Orderly(x), NEW what \in {"result", "invalidated"}, NEW touch
  PROVE  Small(x, Observe(x, what, touch))
BY Still, RejectIsSmall, ReceiptIsOrderly DEF Observe

LEMMA MeasuredIsSmall ==
  ASSUME NEW x \in Renderers, NEW m \in Messages, NEW good
  PROVE  Small(x, Measured(x, m, good))
<1> DEFINE a == x.owner.gen
           y == [x EXCEPT !.abort = a]
<1>1. a \in Nat
  BY Retyped DEF Owners
<1>2. Measured(x, m, good) \in {x, Record(x, m), DrainAbort(y)}
  BY DEF Measured, RequestAbort
<1> HIDE DEF a
<1>3. y \in Renderers
  BY <1>1, Zenon DEF Renderers
<1>4. SameBut(x, y)
  BY Zenon DEF Renderers, SameBut
<1> HIDE DEF y
<1>5. Small(x, y) /\ Small(y, DrainAbort(y))
  BY <1>3, <1>4, SameGate, DrainAbortIsSmall
<1>6. Small(x, DrainAbort(y))
  BY <1>5, SmallSteps
<1> QED BY <1>2, <1>6, Still, RecordIsSmall

LEMMA UnstreamIsSmall ==
  ASSUME NEW x \in Renderers
  PROVE  Small(x, Unstream(x)) /\ Unstream(x).txn = x.txn /\ Unstream(x).call = x.call
<1> DEFINE y == Unrequest(x)
           z == [y EXCEPT !.continuous = FALSE]
<1>1. Small(x, y) /\ y \in Renderers /\ y.txn = x.txn /\ y.call = x.call
  BY PlainSmall, SmallCall
<1> HIDE DEF y
<1>2. z \in Renderers
  BY <1>1, Zenon DEF Renderers
<1>3. SameBut(y, z)
  BY <1>1, Zenon DEF Renderers, SameBut
<1>4. Small(y, z)
  BY <1>1, <1>2, <1>3, SameGate
<1> QED BY <1>1, <1>3, <1>4, SmallSteps DEF Unstream, y, SameBut

\* Accept, as a step that is not of the gate
LEMMA AcceptIsAside ==
  ASSUME NEW x, NEW e, Aside(e, x), NEW s \in Nat, NEW c \in AnyConfigs, NEW f \in BOOLEAN
  PROVE  /\ Aside(e, Accept(x, s, c, f)) /\ ViewOf(Accept(x, s, c, f)) = View(s, c, f)
         /\ Supersedes(x, Accept(x, s, c, f))
<1> DEFINE y == Accept(x, s, c, f)
<1>1. y \in Renderers /\ ViewOf(y) = View(s, c, f) /\ Supersedes(x, y)
  BY Accepts, Zenon DEF Aside
<1> HIDE DEF y
<1>2. Aside(e, y)
  BY <1>1 DEF Aside, Orderly, Waits, Held, Supersedes
<1> QED BY <1>1, <1>2 DEF y

LEMMA OnMeasurement ==
  ASSUME NEW e, NEW m, m.type = "measurement", NEW good
  PROVE  OnEvent(e, m, good) = Measured(e, m, good)
BY DEF OnEvent, Unaddressed

LEMMA EventIsAside ==
  ASSUME NEW e \in Renderers, Orderly(e), NEW m \in Events, NEW good
  PROVE  /\ Aside(e, OnEvent(e, m, good)) /\ OnEvent(e, m, good).asks = e.asks
         /\ ViewOf(OnEvent(e, m, good)) = Shift(ViewOf(e), m)
         /\ OnEvent(e, m, good).fresh <=> (e.fresh /\ m.type = "measurement")
<1> DEFINE x == IF m.type = "measurement" THEN e ELSE [e EXCEPT !.fresh = FALSE]
           y == OnEvent(e, m, good)
           v == ViewOf(e)
<1>1. m.type \in EventTypes /\ m \in Messages /\ m.session \in Nat /\ m.config \in AnyConfigs
  BY DEF Events, Messages
<1>2. None \in Nat /\ NoConfig \in AnyConfigs /\ FALSE \in BOOLEAN /\ TRUE \in BOOLEAN
  BY Blanks
<1>3. CASE m.type = "measurement"
  <2>1. OnEvent(e, m, good) = Measured(e, m, good)
    BY <1>3, OnMeasurement
  <2> HIDE DEF y
  <2>2. Small(e, OnEvent(e, m, good))
    BY <1>1, <2>1, MeasuredIsSmall
  <2>3. /\ Aside(e, OnEvent(e, m, good)) /\ ViewOf(OnEvent(e, m, good)) = v
        /\ OnEvent(e, m, good).fresh = e.fresh /\ OnEvent(e, m, good).asks = e.asks
    BY <2>2, AsideOfSmall
  <2>4. Shift(v, m) = v
    BY <1>3 DEF Shift, Addressed
  <2> QED BY <1>3, <2>3, <2>4
<1>4. CASE m.type # "measurement"
  <2>1. x \in Renderers
    BY <1>4, Zenon DEF Renderers
  <2>2. /\ x.session = e.session /\ x.config = e.config /\ x.fault = e.fault
        /\ x.txn = e.txn /\ x.call = e.call /\ x.asks = e.asks
    BY <1>4, Zenon DEF Renderers
  <2>f. ~x.fresh
    BY <1>4, Zenon DEF Renderers
  <2>3. /\ m.type = "stream-stopped" => y = x
        /\ m.type = "stream-faulted" => y = Invalidate(Unstream(ClearOwnership(x)), FALSE)
        /\ m.type = "connected" => y = Accept(x, m.session, NoConfig, FALSE)
        /\ m.type \in Addressed /\ m.session # x.session => y = x
        /\ m.type = "configured" /\ m.session = x.session =>
              y = IF m.config = x.config THEN x ELSE Accept(x, x.session, m.config, x.fault)
        /\ m.type = "session-state" /\ m.session = x.session => y = Accept(x, x.session, NoConfig, x.fault)
        /\ m.type = "feature-result" /\ m.session = x.session =>
              y = Observe(Accept(x, x.session, NoConfig, x.fault), "result", m.touch)
        /\ m.type = "invalidated" /\ m.session = x.session =>
              y = Observe(Invalidate(Accept(x, x.session, NoConfig, x.fault), TRUE), "invalidated", m.touch)
        /\ m.type = "faulted" /\ m.session = x.session =>
              y = Accept(Invalidate(Unstream(x), TRUE), x.session, NoConfig, TRUE)
        /\ m.type = "disconnected" /\ m.session = x.session =>
              y = Accept(Unstream(ClearOwnership(x)), None, NoConfig, FALSE)
    BY <1>4 DEF OnEvent, Addressed, Unaddressed
  <2> HIDE DEF x, y
  <2>4. Aside(e, x) /\ Orderly(x) /\ ViewOf(x) = v
    BY <2>1, <2>2, SameOrder DEF Aside, ViewOf
  <2>5. x.session \in Nat /\ x.config \in AnyConfigs /\ x.fault \in BOOLEAN
    BY <2>1, Retyped
  <2>6. /\ v.session = x.session /\ v.config = x.config /\ v.fault = x.fault
    BY <2>2 DEF ViewOf, View
  <2> DEFINE Goal(z) == Aside(e, z) /\ z.asks = e.asks /\ ViewOf(z) = Shift(v, m) /\ ~z.fresh
             Superseding(z) == ~z.fresh /\ z.asks = e.asks
  <2>7. ASSUME Shift(v, m) = v PROVE Goal(x)
    BY <2>2, <2>f, <2>4, <2>7
  <2>8. ASSUME NEW s \in Nat, NEW c \in AnyConfigs, NEW f \in BOOLEAN, NEW z, Aside(e, z), z.asks = e.asks
        PROVE  Aside(e, Accept(z, s, c, f)) /\ ViewOf(Accept(z, s, c, f)) = View(s, c, f)
               /\ Superseding(Accept(z, s, c, f))
    <3>1. Aside(e, Accept(z, s, c, f)) /\ ViewOf(Accept(z, s, c, f)) = View(s, c, f)
          /\ Supersedes(z, Accept(z, s, c, f))
      BY <2>8, AcceptIsAside
    <3>2. Superseding(Accept(z, s, c, f))
      BY <2>8, <3>1 DEF Supersedes
    <3> QED BY <3>1, <3>2
  <2> HIDE DEF Superseding
  <2>9. ASSUME NEW z, Aside(e, z), Small(x, z) \/ Small(e, z) PROVE z \in Renderers /\ Orderly(z)
    BY <2>9 DEF Aside
  <2>10. CASE m.type = "stream-stopped"
    <3>1. Shift(v, m) = v
      BY <2>10 DEF Shift, Addressed
    <3> QED BY <1>4, <2>3, <2>7, <2>10, <3>1 DEF y
  <2>11. CASE m.type = "stream-faulted"
    <3>1. Shift(v, m) = v
      BY <2>11 DEF Shift, Addressed
    <3> DEFINE a == ClearOwnership(x)
               b == Unstream(a)
               c == Invalidate(b, FALSE)
    <3>2. Small(x, a) /\ a \in Renderers
      BY <2>1, PlainSmall DEF Small, Keeps
    <3> HIDE DEF a
    <3>3. Small(a, b) /\ b \in Renderers
      BY <3>2, UnstreamIsSmall DEF Small, Keeps
    <3> HIDE DEF b
    <3>4. Small(b, c)
      BY <1>2, <3>3, InvalidateKeeps, SameGate
    <3> HIDE DEF c
    <3>5. Small(x, c)
      BY <3>2, <3>3, <3>4, SmallSteps
    <3>6. Aside(e, c) /\ ViewOf(c) = ViewOf(x) /\ c.fresh = x.fresh /\ c.asks = x.asks
      BY <2>4, <3>5, AsideOfSmall
    <3>7. y = c
      BY <2>3, <2>11 DEF a, b, c
    <3> QED BY <1>4, <2>2, <2>f, <2>4, <3>1, <3>6, <3>7 DEF y
  <2>12. CASE m.type = "connected"
    <3>1. Shift(v, m) = View(m.session, NoConfig, FALSE)
      BY <2>12 DEF Shift, Addressed
    <3>2. y = Accept(x, m.session, NoConfig, FALSE)
      BY <2>3, <2>12
    <3>3. Aside(e, y) /\ ViewOf(y) = View(m.session, NoConfig, FALSE) /\ Superseding(y)
      BY <1>1, <1>2, <2>2, <2>4, <2>8, <3>2, Zenon
    <3>4. Goal(y)
      BY <3>1, <3>3 DEF Superseding
    <3> QED BY <1>4, <3>4 DEF y
  <2>13. CASE m.type \in Addressed /\ m.session # x.session
    <3>1. Shift(v, m) = v
      BY <2>6, <2>13 DEF Shift, Addressed
    <3> QED BY <1>4, <2>3, <2>7, <2>13, <3>1 DEF y
  <2>14. CASE m.type = "configured" /\ m.session = x.session
    <3>1. Shift(v, m) = View(x.session, m.config, x.fault)
      BY <2>6, <2>14 DEF Shift, Addressed
    <3>2. m.config = x.config => Shift(v, m) = v
      BY <2>4, <3>1 DEF ViewOf
    <3>3. CASE m.config = x.config
      BY <1>4, <2>3, <2>7, <2>14, <3>2, <3>3 DEF y
    <3>4. CASE m.config # x.config
      <4>1. y = Accept(x, x.session, m.config, x.fault)
        BY <2>3, <2>14, <3>4
      <4>2. Aside(e, y) /\ ViewOf(y) = View(x.session, m.config, x.fault) /\ Superseding(y)
        BY <1>1, <2>2, <2>4, <2>5, <2>8, <4>1
      <4>3. Goal(y)
        BY <3>1, <4>2 DEF Superseding
      <4> QED BY <1>4, <4>3 DEF y
    <3> QED BY <3>3, <3>4
  <2> DEFINE q == Accept(x, x.session, NoConfig, x.fault)
  <2>15. Aside(e, q) /\ q.asks = e.asks /\ ViewOf(q) = View(x.session, NoConfig, x.fault) /\ ~q.fresh
    <3>1. Aside(e, q) /\ ViewOf(q) = View(x.session, NoConfig, x.fault) /\ Superseding(q)
      BY <1>2, <2>2, <2>4, <2>5, <2>8
    <3> QED BY <3>1 DEF Superseding
  <2> HIDE DEF q
  <2>16. CASE m.type = "session-state" /\ m.session = x.session
    <3>1. Shift(v, m) = View(x.session, NoConfig, x.fault)
      BY <2>6, <2>16 DEF Shift, Addressed
    <3>2. y = q
      BY <2>3, <2>16 DEF q
    <3> QED BY <1>4, <2>15, <3>1, <3>2 DEF y
  <2>17. CASE m.type = "feature-result" /\ m.session = x.session
    <3>1. Shift(v, m) = View(x.session, NoConfig, x.fault)
      BY <2>6, <2>17 DEF Shift, Addressed
    <3>2. y = Observe(q, "result", m.touch)
      BY <2>3, <2>17 DEF q
    <3>3. Small(q, y)
      BY <2>15, <3>2, ObserveIsSmall DEF Aside
    <3>4. Aside(e, y) /\ ViewOf(y) = ViewOf(q) /\ y.fresh = q.fresh /\ y.asks = q.asks
      BY <2>15, <3>3, AsideOfSmall
    <3> QED BY <1>4, <2>15, <3>1, <3>4 DEF y
  <2>18. CASE m.type = "invalidated" /\ m.session = x.session
    <3>1. Shift(v, m) = View(x.session, NoConfig, x.fault)
      BY <2>6, <2>18 DEF Shift, Addressed
    <3> DEFINE a == Invalidate(q, TRUE)
    <3>2. y = Observe(a, "invalidated", m.touch)
      BY <2>3, <2>18 DEF q
    <3>3. Small(q, a) /\ a \in Renderers
      BY <1>2, <2>15, InvalidateKeeps, SameGate DEF Aside
    <3> HIDE DEF a
    <3>4. Aside(e, a) /\ ViewOf(a) = ViewOf(q) /\ a.fresh = q.fresh /\ a.asks = q.asks
      BY <2>15, <3>3, AsideOfSmall
    <3>5. Small(a, y)
      BY <3>2, <3>4, ObserveIsSmall DEF Aside
    <3>6. Aside(e, y) /\ ViewOf(y) = ViewOf(a) /\ y.fresh = a.fresh /\ y.asks = a.asks
      BY <3>4, <3>5, AsideOfSmall
    <3> QED BY <1>4, <2>15, <3>1, <3>4, <3>6 DEF y
  <2>19. CASE m.type = "faulted" /\ m.session = x.session
    <3>1. Shift(v, m) = View(x.session, NoConfig, TRUE)
      BY <2>6, <2>19 DEF Shift, Addressed
    <3> DEFINE b == Unstream(x)
               a == Invalidate(b, TRUE)
    <3>2. y = Accept(a, x.session, NoConfig, TRUE)
      BY <2>3, <2>19
    <3>3. Small(x, b) /\ b \in Renderers
      BY <2>1, UnstreamIsSmall DEF Small, Keeps
    <3> HIDE DEF b
    <3>4. Small(b, a)
      BY <1>2, <3>3, InvalidateKeeps, SameGate
    <3> HIDE DEF a
    <3>5. Aside(e, a) /\ a.asks = e.asks
      BY <2>2, <2>4, <3>3, <3>4, AsideOfSmall, SmallSteps
    <3>6. Aside(e, y) /\ ViewOf(y) = Shift(v, m) /\ Superseding(y)
      BY <1>2, <2>5, <2>8, <3>1, <3>2, <3>5, Zenon
    <3>7. Goal(y)
      BY <3>6 DEF Superseding
    <3> QED BY <1>4, <3>7 DEF y
  <2>20. CASE m.type = "disconnected" /\ m.session = x.session
    <3>1. Shift(v, m) = View(None, NoConfig, FALSE)
      BY <2>6, <2>20 DEF Shift, Addressed
    <3> DEFINE b == ClearOwnership(x)
               a == Unstream(b)
    <3>2. y = Accept(a, None, NoConfig, FALSE)
      BY <2>3, <2>20
    <3>3. Small(x, b) /\ b \in Renderers
      BY <2>1, PlainSmall DEF Small, Keeps
    <3> HIDE DEF b
    <3>4. Small(b, a)
      BY <3>3, UnstreamIsSmall
    <3> HIDE DEF a
    <3>5. Aside(e, a) /\ a.asks = e.asks
      BY <2>2, <2>4, <3>3, <3>4, AsideOfSmall, SmallSteps
    <3>6. Aside(e, y) /\ ViewOf(y) = Shift(v, m) /\ Superseding(y)
      BY <1>2, <2>5, <2>8, <3>1, <3>2, <3>5, Zenon
    <3>7. Goal(y)
      BY <3>6 DEF Superseding
    <3> QED BY <1>4, <3>7 DEF y
  <2> QED BY <1>1, <1>4, <2>10, <2>11, <2>12, <2>13, <2>14, <2>16, <2>17, <2>18, <2>19, <2>20
          DEF EventTypes, Addressed
<1> QED BY <1>3, <1>4

-----------------------------------------------------------------------------
(* What the channel tells: from one view of the instrument to another *)

After(m) ==
    CASE m.type = "configured" -> View(m.session, m.config, FALSE)
      [] m.type = "faulted" -> View(m.session, NoConfig, TRUE)
      [] m.type = "disconnected" -> View(None, NoConfig, FALSE)
      [] m.type \notin {"configured", "faulted", "disconnected"} -> View(m.session, NoConfig, FALSE)

IsReply(m, type) == m.reply /\ m.type = type
Granted(m, type) == IsReply(m, type) /\ m.ok

\* A message leads from one view to the next.
Tells(a, m, b) ==
    IF Turns(m)
    THEN /\ b = After(m)
         /\ (IF m.type = "connected" THEN a.session = None ELSE a.session = m.session)
         /\ m.type \notin {"connected", "faulted", "disconnected"} => ~a.fault
    ELSE /\ b = a
         /\ IsReply(m, "read") => a = View(m.session, m.config, ~m.ok)
         /\ Granted(m, "connect") => a = View(m.session, NoConfig, FALSE) /\ m.session # 1
         /\ Granted(m, "disconnect") => a = View(None, NoConfig, FALSE)

\* In order: every message leads to the view in which the next was sent.
Told(q, a, b) ==
    \E v : /\ v[1] = a /\ v[Len(q) + 1] = b
           /\ \A i \in 1..Len(q) : Tells(v[i], q[i], v[i + 1])

\* Where replies and events overtake each other, of the first session: the last
\* event that says something says all, and a read that is still fresh does, unless
\* an event is to follow it.
LastTurn(q, i) == \A j \in 1..Len(q) : Turns(q[j]) => j <= i

AtOne(m, b, fresh, last) ==
    /\ Turns(m) =>
          /\ m.session = 1 /\ m.type \notin {"connected", "disconnected"}
          /\ m.type = "faulted" => b.fault
          /\ last => After(m) = b
    /\ ~Granted(m, "connect") /\ ~Granted(m, "disconnect")
    /\ IsReply(m, "read") =>
          /\ m.session = 1 /\ (~m.ok => b.fault)
          /\ fresh => View(m.session, m.config, ~m.ok) = b \/ ~last

AtLast(q, a, b, fresh) ==
    /\ \A i \in 1..Len(q) : AtOne(q[i], b, fresh, LastTurn(q, i))
    /\ (\A i \in 1..Len(q) : ~Turns(q[i])) => a = b
    /\ a.fault => b.fault

\* Messages that the main process sends together
Leads(q, a, b) ==
    /\ q \in Seq(Messages) /\ Told(q, a, b)
    /\ a.session = 1 /\ b.session = 1 => AtLast(q, a, b, TRUE)

LEMMA One ==
  ASSUME NEW m \in Messages
  PROVE  <<m>> \in Seq(Messages) /\ Len(<<m>>) = 1 /\ <<m>>[1] = m
OBVIOUS

LEMMA Joined ==
  ASSUME NEW q \in Seq(Messages), NEW s \in Seq(Messages)
  PROVE  /\ q \o s \in Seq(Messages) /\ Len(q \o s) = Len(q) + Len(s)
         /\ Len(q) \in Nat /\ Len(s) \in Nat
         /\ \A i \in 1..Len(q) : (q \o s)[i] = q[i] /\ i \in 1..Len(q \o s)
         /\ \A i \in 1..Len(s) : (q \o s)[Len(q) + i] = s[i] /\ Len(q) + i \in 1..Len(q \o s)
         /\ \A i \in 1..Len(q \o s) : i \in 1..Len(q) \/ \E j \in 1..Len(s) : i = Len(q) + j
<1>1. Len(q) \in Nat /\ Len(s) \in Nat
  BY LenProperties
<1>2. /\ q \o s \in Seq(Messages) /\ Len(q \o s) = Len(q) + Len(s)
      /\ \A i \in 1..(Len(q) + Len(s)) : (q \o s)[i] = IF i <= Len(q) THEN q[i] ELSE s[i - Len(q)]
  BY ConcatProperties
<1>3. ASSUME NEW i \in 1..Len(q) PROVE (q \o s)[i] = q[i] /\ i \in 1..Len(q \o s)
  BY <1>1, <1>2
<1>4. ASSUME NEW i \in 1..Len(s)
      PROVE  (q \o s)[Len(q) + i] = s[i] /\ Len(q) + i \in 1..Len(q \o s)
  <2>1. Len(q) + i \in 1..(Len(q) + Len(s)) /\ ~(Len(q) + i <= Len(q)) /\ Len(q) + i - Len(q) = i
    BY <1>1
  <2> QED BY <1>2, <2>1
<1>5. ASSUME NEW i \in 1..Len(q \o s), i \notin 1..Len(q) PROVE \E j \in 1..Len(s) : i = Len(q) + j
  <2>1. i - Len(q) \in 1..Len(s) /\ i = Len(q) + (i - Len(q))
    BY <1>1, <1>2, <1>5
  <2> QED BY <2>1
<1> QED BY <1>1, <1>2, <1>3, <1>4, <1>5

LEMMA ToldJoined ==
  ASSUME NEW q \in Seq(Messages), NEW s \in Seq(Messages), NEW a, NEW b, NEW c,
         Told(q, a, b), Told(s, b, c)
  PROVE  Told(q \o s, a, c)
<1> DEFINE n == Len(q)
           k == Len(s)
<1>1. PICK v : v[1] = a /\ v[n + 1] = b /\ \A i \in 1..n : Tells(v[i], q[i], v[i + 1])
  BY DEF Told
<1>2. PICK u : u[1] = b /\ u[k + 1] = c /\ \A i \in 1..k : Tells(u[i], s[i], u[i + 1])
  BY DEF Told
<1> DEFINE w == [i \in 1..(n + k + 1) |-> IF i <= n + 1 THEN v[i] ELSE u[i - n]]
<1>3. n \in Nat /\ k \in Nat /\ Len(q \o s) = n + k
  BY Joined
<1> HIDE DEF n, k
<1>9. \A j \in 1..(n + k + 1) : w[j] = IF j <= n + 1 THEN v[j] ELSE u[j - n]
  OBVIOUS
<1> HIDE DEF w
<1>4. \A i \in 1..(n + 1) : w[i] = v[i]
  BY <1>3, <1>9
<1>5. \A i \in 1..(k + 1) : w[n + i] = u[i]
  <2>1. ASSUME NEW i \in 1..(k + 1), NEW j \in 1..(n + k + 1), j = n + i PROVE w[j] = u[i]
    <3>1. j - n = i /\ (j <= n + 1 => i = 1 /\ j = n + 1)
      BY <1>3, <2>1
    <3>2. w[j] = IF j <= n + 1 THEN v[j] ELSE u[j - n]
      BY <1>9
    <3>3. CASE j <= n + 1
      BY <1>1, <1>2, <3>1, <3>2, <3>3
    <3> QED BY <3>1, <3>2, <3>3
  <2>2. \A i \in 1..(k + 1) : n + i \in 1..(n + k + 1)
    BY <1>3
  <2> QED BY <2>1, <2>2
<1>6. w[1] = a /\ w[Len(q \o s) + 1] = c
  <2>1. 1 \in 1..(n + 1) /\ k + 1 \in 1..(k + 1) /\ n + k + 1 = n + (k + 1)
    BY <1>3
  <2> QED BY <1>1, <1>2, <1>3, <1>4, <1>5, <2>1
<1>7. ASSUME NEW i \in 1..Len(q \o s) PROVE Tells(w[i], (q \o s)[i], w[i + 1])
  <2>1. CASE i \in 1..n
    <3>1. i \in 1..(n + 1) /\ i + 1 \in 1..(n + 1)
      BY <1>3, <2>1
    <3>2. (q \o s)[i] = q[i]
      BY <2>1, Joined DEF n
    <3> QED BY <1>1, <1>4, <2>1, <3>1, <3>2
  <2>2. CASE \E j \in 1..k : i = n + j
    <3>1. PICK j \in 1..k : i = n + j
      BY <2>2
    <3>2. j \in 1..(k + 1) /\ j + 1 \in 1..(k + 1) /\ n + j + 1 = n + (j + 1)
      BY <1>3
    <3>3. (q \o s)[i] = s[j]
      BY <3>1, Joined DEF n, k
    <3>4. w[i] = u[j] /\ w[i + 1] = u[j + 1]
      BY <1>5, <3>1, <3>2
    <3> QED BY <1>2, <3>3, <3>4
  <2> QED BY <2>1, <2>2, Joined DEF n, k
<1> QED BY <1>6, <1>7 DEF Told

LEMMA AtLastJoined ==
  ASSUME NEW q \in Seq(Messages), NEW s \in Seq(Messages), NEW a, NEW b, NEW c, NEW fresh,
         AtLast(q, a, b, fresh), AtLast(s, b, c, TRUE)
  PROVE  AtLast(q \o s, a, c, fresh)
<1> DEFINE n == Len(q)
           k == Len(s)
           t == q \o s
<1>1. /\ n \in Nat /\ k \in Nat /\ Len(t) = n + k
      /\ \A i \in 1..n : t[i] = q[i] /\ i \in 1..Len(t)
      /\ \A i \in 1..k : t[n + i] = s[i] /\ n + i \in 1..Len(t)
      /\ \A i \in 1..Len(t) : i \in 1..n \/ \E j \in 1..k : i = n + j
  BY Joined
<1> HIDE DEF n, k, t
<1>2. ASSUME NEW i \in 1..n, LastTurn(t, i) PROVE LastTurn(q, i) /\ \A j \in 1..k : ~Turns(s[j])
  <2>1. ASSUME NEW j \in 1..n, Turns(q[j]) PROVE j <= i
    BY <1>1, <1>2, <2>1 DEF LastTurn
  <2>2. ASSUME NEW j \in 1..k PROVE ~Turns(s[j])
    <3>1. Turns(s[j]) => n + j <= i
      BY <1>1, <1>2 DEF LastTurn
    <3> QED BY <1>1, <3>1
  <2> QED BY <2>1, <2>2 DEF LastTurn, n
<1>3. ASSUME NEW i \in 1..k, LastTurn(t, n + i) PROVE LastTurn(s, i)
  <2>1. ASSUME NEW j \in 1..k, Turns(s[j]) PROVE j <= i
    <3>1. n + j <= n + i
      BY <1>1, <1>3, <2>1 DEF LastTurn
    <3> QED BY <1>1, <3>1
  <2> QED BY <2>1 DEF LastTurn, k
<1>4. (\A j \in 1..k : ~Turns(s[j])) => b = c
  BY DEF AtLast, k
<1>5. b.fault => c.fault
  BY DEF AtLast
<1>6. ASSUME NEW i \in 1..n PROVE AtOne(t[i], c, fresh, LastTurn(t, i))
  <2>1. t[i] = q[i] /\ i \in 1..Len(q)
    BY <1>1 DEF n
  <2>2. LastTurn(t, i) => LastTurn(q, i) /\ b = c
    BY <1>2, <1>4
  <2>3. AtOne(q[i], b, fresh, LastTurn(q, i))
    BY <2>1 DEF AtLast
  <2>4. AtOne(q[i], c, fresh, LastTurn(t, i))
    BY <1>5, <2>2, <2>3 DEF AtOne
  <2> QED BY <2>1, <2>4
<1>7. ASSUME NEW i \in 1..k PROVE AtOne(t[n + i], c, fresh, LastTurn(t, n + i))
  <2>1. t[n + i] = s[i] /\ i \in 1..Len(s)
    BY <1>1 DEF k
  <2>2. LastTurn(t, n + i) => LastTurn(s, i)
    BY <1>3
  <2>3. AtOne(s[i], c, TRUE, LastTurn(s, i))
    BY <2>1 DEF AtLast
  <2>4. AtOne(s[i], c, fresh, LastTurn(t, n + i))
    BY <2>2, <2>3 DEF AtOne
  <2> QED BY <2>1, <2>4
<1>8. (\A i \in 1..Len(t) : ~Turns(t[i])) => a = c
  <2> SUFFICES ASSUME \A i \in 1..Len(t) : ~Turns(t[i]) PROVE a = c
    OBVIOUS
  <2>1. \A i \in 1..n : ~Turns(q[i])
    BY <1>1
  <2>2. \A i \in 1..k : ~Turns(s[i])
    BY <1>1
  <2> QED BY <1>4, <2>1, <2>2 DEF AtLast, n
<1>9. a.fault => c.fault
  BY <1>5 DEF AtLast
<1>10. ASSUME NEW i \in 1..Len(t) PROVE AtOne(t[i], c, fresh, LastTurn(t, i))
  BY <1>1, <1>6, <1>7
<1>11. AtLast(t, a, c, fresh)
  BY <1>8, <1>9, <1>10 DEF AtLast
<1> QED BY <1>11 DEF t

-----------------------------------------------------------------------------
(* What is left of it when a message is taken out *)

Without(q, i) == SubSeq(q, 1, i - 1) \o SubSeq(q, i + 1, Len(q))
Skip(i, j) == IF j < i THEN j ELSE j + 1

LEMMA Removed ==
  ASSUME NEW S, NEW q \in Seq(S), NEW i \in 1..Len(q)
  PROVE  /\ Without(q, i) \in Seq(S) /\ Len(Without(q, i)) = Len(q) - 1 /\ Len(q) \in Nat
         /\ \A j \in 1..Len(Without(q, i)) :
               Without(q, i)[j] = q[Skip(i, j)] /\ Skip(i, j) \in 1..Len(q) /\ Skip(i, j) # i
         /\ \A j \in 1..Len(q) : j # i => \E k \in 1..Len(Without(q, i)) : Skip(i, k) = j
         /\ \A j, k \in 1..Len(Without(q, i)) : Skip(i, j) <= Skip(i, k) <=> j <= k
<1> DEFINE a == SubSeq(q, 1, i - 1)
           b == SubSeq(q, i + 1, Len(q))
           n == Len(q)
<1>1. n \in Nat /\ i \in Int /\ \A j \in 1..n : q[j] \in S
  BY LenProperties, ElementOfSeq
<1>2. a \in Seq(S) /\ Len(a) = i - 1 /\ \A j \in 1..(i - 1) : a[j] = q[j]
  <2>1. \A j \in 1..(i - 1) : q[j] \in S
    BY <1>1
  <2>2. /\ a \in Seq(S) /\ Len(a) = IF 1 <= i - 1 THEN i - 1 - 1 + 1 ELSE 0
        /\ \A j \in 1..(i - 1 - 1 + 1) : a[j] = q[1 + j - 1]
    BY <1>1, <2>1, SubSeqProperties
  <2> HIDE DEF a
  <2> QED BY <1>1, <2>2
<1>3. b \in Seq(S) /\ Len(b) = n - i /\ \A j \in 1..(n - i) : b[j] = q[i + j]
  <2>1. \A j \in (i + 1)..n : q[j] \in S
    BY <1>1
  <2>2. /\ b \in Seq(S) /\ Len(b) = IF i + 1 <= n THEN n - (i + 1) + 1 ELSE 0
        /\ \A j \in 1..(n - (i + 1) + 1) : b[j] = q[i + 1 + j - 1]
    BY <1>1, <2>1, SubSeqProperties
  <2> HIDE DEF b
  <2> QED BY <1>1, <2>2
<1>4. Without(q, i) = a \o b
  BY DEF Without
<1>5. i \in 1..n
  OBVIOUS
<1> HIDE DEF a, b
<1>6. /\ a \o b \in Seq(S) /\ Len(a \o b) = Len(a) + Len(b)
      /\ \A j \in 1..(Len(a) + Len(b)) : (a \o b)[j] = IF j <= Len(a) THEN a[j] ELSE b[j - Len(a)]
  BY <1>2, <1>3, ConcatProperties
<1> DEFINE w == Without(q, i)
<1>7. w \in Seq(S) /\ Len(w) = n - 1
      /\ \A j \in 1..(n - 1) : w[j] = IF j <= i - 1 THEN a[j] ELSE b[j - (i - 1)]
  BY <1>1, <1>2, <1>3, <1>4, <1>5, <1>6
<1> HIDE DEF w, n
<1>8. ASSUME NEW j \in 1..(n - 1)
      PROVE  w[j] = q[Skip(i, j)] /\ Skip(i, j) \in 1..n /\ Skip(i, j) # i
  <2>1. CASE j < i
    BY <1>1, <1>2, <1>5, <1>7, <2>1 DEF Skip
  <2>2. CASE ~(j < i)
    <3>1. j - (i - 1) \in 1..(n - i) /\ i + (j - (i - 1)) = j + 1 /\ ~(j <= i - 1)
      BY <1>1, <1>5, <2>2
    <3>2. w[j] = b[j - (i - 1)] /\ b[j - (i - 1)] = q[i + (j - (i - 1))]
      BY <1>3, <1>7, <3>1
    <3> QED BY <1>1, <1>5, <2>2, <3>1, <3>2 DEF Skip
  <2> QED BY <2>1, <2>2
<1>9. ASSUME NEW j \in 1..n, j # i PROVE \E k \in 1..(n - 1) : Skip(i, k) = j
  <2>1. CASE j < i
    BY <1>1, <1>5, <2>1 DEF Skip
  <2>2. CASE j > i
    <3>1. j - 1 \in 1..(n - 1) /\ Skip(i, j - 1) = j
      BY <1>1, <1>5, <2>2 DEF Skip
    <3> QED BY <3>1
  <2> QED BY <1>1, <1>5, <1>9, <2>1, <2>2
<1>10. \A j, k \in 1..(n - 1) : Skip(i, j) <= Skip(i, k) <=> j <= k
  BY <1>1, <1>5 DEF Skip
<1> QED BY <1>1, <1>7, <1>8, <1>9, <1>10 DEF w, n

\* An event is the oldest of its stream when it is taken.
LEMMA OneTaken ==
  ASSUME NEW q \in Seq(Messages), NEW i \in 1..Len(q), NEW b, NEW fresh, NEW g, g => fresh,
         \A j \in 1..Len(q) : AtOne(q[j], b, fresh, LastTurn(q, j)),
         Turns(q[i]) => ~g /\ \A j \in 1..(i - 1) : q[j].reply
  PROVE  \A k \in 1..Len(Without(q, i)) : AtOne(Without(q, i)[k], b, g, LastTurn(Without(q, i), k))
<1> DEFINE w == Without(q, i)
<1>1. /\ \A j \in 1..Len(w) : w[j] = q[Skip(i, j)] /\ Skip(i, j) \in 1..Len(q) /\ Skip(i, j) # i
      /\ \A j \in 1..Len(q) : j # i => \E k \in 1..Len(w) : Skip(i, k) = j
      /\ \A j, k \in 1..Len(w) : Skip(i, j) <= Skip(i, k) <=> j <= k
      /\ Len(q) \in Nat /\ Len(w) \in Nat
  BY Removed
<1> HIDE DEF w
<1>2. ASSUME NEW k \in 1..Len(w), Turns(w[k]) \/ ~Turns(q[i]), LastTurn(w, k)
      PROVE  LastTurn(q, Skip(i, k))
  <2>1. ASSUME NEW j \in 1..Len(q), Turns(q[j]) PROVE j <= Skip(i, k)
    <3>1. CASE j # i
      <4>1. PICK l \in 1..Len(w) : Skip(i, l) = j
        BY <1>1, <3>1
      <4>2. l <= k
        BY <1>1, <1>2, <2>1, <4>1 DEF LastTurn
      <4> QED BY <1>1, <4>1, <4>2
    <3>2. CASE j = i
      <4>1. Turns(w[k]) /\ ~q[Skip(i, k)].reply
        BY <1>1, <1>2, <2>1, <3>2 DEF Turns
      <4>2. Skip(i, k) \notin 1..(i - 1)
        BY <2>1, <3>2, <4>1
      <4> QED BY <1>1, <3>2, <4>2
    <3> QED BY <3>1, <3>2
  <2> QED BY <2>1 DEF LastTurn
<1>3. ASSUME NEW k \in 1..Len(w) PROVE AtOne(w[k], b, g, LastTurn(w, k))
  <2>1. w[k] = q[Skip(i, k)] /\ AtOne(w[k], b, fresh, LastTurn(q, Skip(i, k)))
    BY <1>1
  <2>2. LastTurn(w, k) => LastTurn(q, Skip(i, k)) \/ (~Turns(w[k]) /\ Turns(q[i]) /\ ~g)
    BY <1>2
  <2> QED BY <2>1, <2>2 DEF AtOne
<1> QED BY <1>3 DEF w

LEMMA NoneLeft ==
  ASSUME NEW q \in Seq(Messages), NEW i \in 1..Len(q),
         \A k \in 1..Len(Without(q, i)) : ~Turns(Without(q, i)[k])
  PROVE  (\A j \in 1..Len(q) : Turns(q[j]) => j = i) /\ LastTurn(q, i)
<1>1. ASSUME NEW j \in 1..Len(q), Turns(q[j]) PROVE j = i
  <2> SUFFICES ASSUME j # i PROVE FALSE
    OBVIOUS
  <2>1. PICK k \in 1..Len(Without(q, i)) : Skip(i, k) = j
    BY Removed
  <2>2. Without(q, i)[k] = q[j]
    BY <2>1, Removed
  <2> QED BY <1>1, <2>2
<1>2. Len(q) \in Nat
  BY LenProperties
<1> QED BY <1>1, <1>2 DEF LastTurn

Views == [session : Nat, config : AnyConfigs, fault : BOOLEAN]

LEMMA SameView ==
  ASSUME NEW a \in Views
  PROVE  a = View(a.session, a.config, a.fault)
BY DEF Views, View

\* An event of the first session turns a view to what it says.
LEMMA Turned1 ==
  ASSUME NEW a \in Views, NEW m \in Events, Turns(m), a.session = m.session,
         m.type # "connected", m.type \notin {"faulted", "disconnected"} => ~a.fault
  PROVE  Shift(a, m) = After(m)
<1>1. m.type \in Addressed /\ ~(m.session # a.session)
  BY DEF Turns
<1>2. CASE m.type = "configured"
  BY <1>1, <1>2 DEF Shift, After, Views, View, Addressed
<1>3. CASE m.type \in {"session-state", "feature-result", "invalidated"}
  BY <1>1, <1>3 DEF Shift, After, Views, View, Addressed
<1>4. CASE m.type = "faulted"
  BY <1>1, <1>4 DEF Shift, After, Views, View, Addressed
<1>5. CASE m.type = "disconnected"
  BY <1>1, <1>5 DEF Shift, After, Views, View, Addressed
<1> QED BY <1>1, <1>2, <1>3, <1>4, <1>5 DEF Addressed

LEMMA TellsShift ==
  ASSUME NEW a \in Views, NEW m \in Messages, NEW b, Tells(a, m, b)
  PROVE  ~m.reply => b = Shift(a, m)
<1> SUFFICES ASSUME ~m.reply PROVE b = Shift(a, m)
  OBVIOUS
<1>1. m \in Events
  BY DEF Messages, Replies
<1>2. CASE Turns(m) /\ m.type # "connected"
  BY <1>1, <1>2, Turned1 DEF Tells
<1>3. CASE m.type = "connected"
  BY <1>3 DEF Tells, Turns, After, Shift, Addressed
<1>4. CASE ~Turns(m)
  <2>1. m.type \notin Addressed \cup {"connected"}
    BY <1>4 DEF Turns
  <2>2. Shift(a, m) = a
    BY <2>1 DEF Shift, Addressed
  <2> QED BY <1>4, <2>2 DEF Tells
<1> QED BY <1>2, <1>3, <1>4

LEMMA ToldTaken ==
  ASSUME NEW q \in Seq(Messages), 1 \in 1..Len(q), NEW a, NEW b, Told(q, a, b)
  PROVE  \E c : Tells(a, q[1], c) /\ Told(Without(q, 1), c, b)
<1>1. PICK v : v[1] = a /\ v[Len(q) + 1] = b /\ \A i \in 1..Len(q) : Tells(v[i], q[i], v[i + 1])
  BY DEF Told
<1> DEFINE w == Without(q, 1)
           n == Len(q)
           u == [i \in 1..n |-> v[i + 1]]
<1>2. n \in Nat /\ n >= 1 /\ Len(w) = n - 1 /\ \A j \in 1..(n - 1) : w[j] = q[j + 1]
  BY Removed DEF Skip
<1>3. \A i \in 1..n : u[i] = v[i + 1]
  OBVIOUS
<1> HIDE DEF w, u, n
<1>4. u[1] = v[2] /\ u[Len(w) + 1] = b
  <2>1. 1 \in 1..n /\ n \in 1..n /\ Len(w) + 1 = n /\ 1 + 1 = 2
    BY <1>2
  <2> QED BY <1>1, <1>3, <2>1 DEF n
<1>5. ASSUME NEW i \in 1..Len(w) PROVE Tells(u[i], w[i], u[i + 1])
  <2>1. i \in 1..(n - 1) /\ i \in 1..n /\ i + 1 \in 1..n
    BY <1>2
  <2> QED BY <1>1, <1>2, <1>3, <2>1 DEF n
<1>6. Told(w, v[2], b)
  BY <1>4, <1>5 DEF Told
<1>7. Tells(a, q[1], v[2])
  BY <1>1
<1> QED BY <1>6, <1>7 DEF w

\* What is left says the same of the view that the message leads to.
LEMMA EventTaken ==
  ASSUME NEW q \in Seq(Messages), NEW i \in 1..Len(q), NEW a \in Views, NEW b \in Views,
         NEW fresh, NEW g, g => fresh /\ q[i].type = "measurement",
         AtLast(q, a, b, fresh), a.session = 1,
         ~q[i].reply, \A j \in 1..(i - 1) : q[j].reply
  PROVE  /\ AtLast(Without(q, i), Shift(a, q[i]), b, g)
         /\ Shift(a, q[i]).session = 1
<1> DEFINE m == q[i]
           w == Without(q, i)
           c == Shift(a, m)
<1>1. m \in Events /\ AtOne(m, b, fresh, LastTurn(q, i)) /\ a.fault \in BOOLEAN
  <2>1. m \in Messages
    BY ElementOfSeq
  <2>2. m \in Events
    BY <2>1 DEF Messages, Replies
  <2> QED BY <2>2 DEF AtLast, Views
<1>2. g => ~Turns(m)
  BY DEF Turns, Addressed
<1>3. \A k \in 1..Len(w) : AtOne(w[k], b, g, LastTurn(w, k))
  BY <1>2, OneTaken DEF AtLast
<1>4. ~Turns(m) => c = a
  <2>1. ~Turns(m) => m.type \notin Addressed \cup {"connected"}
    BY DEF Turns
  <2> QED BY <2>1 DEF Shift, Addressed
<1>5. (\A k \in 1..Len(w) : ~Turns(w[k])) => (\A j \in 1..Len(q) : Turns(q[j]) => j = i) /\ LastTurn(q, i)
  BY NoneLeft
<1>6. CASE ~Turns(m)
  <2>1. (\A k \in 1..Len(w) : ~Turns(w[k])) => \A j \in 1..Len(q) : ~Turns(q[j])
    BY <1>5, <1>6
  <2>2. (\A k \in 1..Len(w) : ~Turns(w[k])) => a = b
    BY <2>1 DEF AtLast
  <2> QED BY <1>3, <1>4, <1>6, <2>2 DEF AtLast
<1>7. CASE Turns(m)
  <2>1. m.session = 1 /\ m.type \notin {"connected", "disconnected"} /\ (m.type = "faulted" => b.fault)
        /\ (LastTurn(q, i) => After(m) = b)
    BY <1>1, <1>7 DEF AtOne
  <2>2. m.type \in {"configured", "faulted", "session-state", "feature-result", "invalidated"}
    BY <1>7, <2>1 DEF Turns, Addressed
  <2>3. c = View(1, IF m.type = "configured" THEN m.config ELSE NoConfig,
                 IF m.type = "faulted" THEN TRUE ELSE a.fault)
    <3>1. CASE m.type = "configured"
      BY <2>1, <3>1 DEF Shift, Addressed
    <3>2. CASE m.type = "faulted"
      BY <2>1, <3>2 DEF Shift, Addressed
    <3>3. CASE m.type \in {"session-state", "feature-result", "invalidated"}
      BY <2>1, <3>3 DEF Shift, Addressed
    <3> QED BY <2>2, <3>1, <3>2, <3>3
  <2> HIDE DEF c
  <2>4. c.session = 1 /\ c.fault = (IF m.type = "faulted" THEN TRUE ELSE a.fault)
        /\ c.config = (IF m.type = "configured" THEN m.config ELSE NoConfig)
    BY <2>3 DEF View
  <2>5. c.fault => b.fault
    BY <2>1, <2>4 DEF AtLast
  <2>6. ASSUME After(m) = b PROVE c = b
    <3>1. CASE m.type = "configured"
      <4>1. b = View(1, m.config, FALSE)
        BY <2>1, <2>6, <3>1 DEF After
      <4>2. ~a.fault
        BY <4>1 DEF AtLast, View
      <4> QED BY <1>1, <2>3, <3>1, <4>1, <4>2
    <3>2. CASE m.type = "faulted"
      BY <2>1, <2>3, <2>6, <3>2 DEF After
    <3>3. CASE m.type \in {"session-state", "feature-result", "invalidated"}
      <4>1. b = View(1, NoConfig, FALSE)
        BY <2>1, <2>6, <3>3 DEF After
      <4>2. ~a.fault
        BY <4>1 DEF AtLast, View
      <4> QED BY <1>1, <2>3, <3>3, <4>1, <4>2
    <3> QED BY <2>2, <3>1, <3>2, <3>3
  <2>7. (\A k \in 1..Len(w) : ~Turns(w[k])) => c = b
    BY <1>5, <2>1, <2>6
  <2>8. AtLast(w, c, b, g)
    BY <1>3, <2>5, <2>7 DEF AtLast
  <2> QED BY <2>4, <2>8 DEF c
<1> QED BY <1>6, <1>7

LEMMA ReplyTaken ==
  ASSUME NEW q \in Seq(Messages), NEW i \in 1..Len(q), NEW a \in Views, NEW b \in Views,
         NEW fresh, AtLast(q, a, b, fresh), q[i].reply
  PROVE  /\ AtLast(Without(q, i), a, b, fresh)
         /\ IsReply(q[i], "read") /\ fresh =>
              /\ AtLast(Without(q, i), View(q[i].session, q[i].config, ~q[i].ok), b, FALSE)
              /\ q[i].session = 1
         /\ ~Granted(q[i], "connect") /\ ~Granted(q[i], "disconnect")
<1> DEFINE m == q[i]
           w == Without(q, i)
           c == View(m.session, m.config, ~m.ok)
<1>1. ~Turns(m) /\ AtOne(m, b, fresh, LastTurn(q, i))
  BY DEF Turns, AtLast
<1>2. ASSUME NEW g, g => fresh PROVE \A k \in 1..Len(w) : AtOne(w[k], b, g, LastTurn(w, k))
  BY <1>1, <1>2, OneTaken DEF AtLast
<1>3. ASSUME \A k \in 1..Len(w) : ~Turns(w[k])
      PROVE  (\A j \in 1..Len(q) : ~Turns(q[j])) /\ LastTurn(q, i)
  BY <1>1, <1>3, NoneLeft
<1>4. AtLast(w, a, b, fresh)
  BY <1>2, <1>3 DEF AtLast
<1>5. ASSUME IsReply(m, "read"), fresh
      PROVE  AtLast(w, c, b, FALSE) /\ m.session = 1
  <2>1. m.session = 1 /\ (~m.ok => b.fault) /\ (c = b \/ ~LastTurn(q, i))
    BY <1>1, <1>5 DEF AtOne
  <2>2. (\A k \in 1..Len(w) : ~Turns(w[k])) => c = b
    BY <1>3, <2>1
  <2>3. c.fault => b.fault
    BY <2>1 DEF View
  <2> HIDE DEF c, w
  <2>4. \A k \in 1..Len(w) : AtOne(w[k], b, FALSE, LastTurn(w, k))
    BY <1>2 DEF w
  <2> QED BY <2>1, <2>2, <2>3, <2>4 DEF AtLast
<1> QED BY <1>1, <1>4, <1>5 DEF AtOne

LEMMA LeadsOne ==
  ASSUME NEW m \in Messages, NEW a \in Views, NEW b \in Views, Tells(a, m, b)
  PROVE  Leads(<<m>>, a, b)
<1> DEFINE q == <<m>>
<1>1. q \in Seq(Messages) /\ Len(q) = 1 /\ q[1] = m
  BY One
<1> HIDE DEF q
<1>4. 1 \in 1..Len(q) /\ \A i \in 1..Len(q) : i = 1
  BY <1>1
<1>2. Told(q, a, b)
  <2> DEFINE v == <<a, b>>
  <2>1. v[1] = a /\ v[2] = b
    OBVIOUS
  <2> HIDE DEF v
  <2>2. \A i \in 1..Len(q) : i = 1
    BY <1>1
  <2>3. v[1] = a /\ v[Len(q) + 1] = b /\ \A i \in 1..Len(q) : Tells(v[i], q[i], v[i + 1])
    BY <1>1, <2>1, <2>2
  <2> QED BY <2>3 DEF Told
<1>3. ASSUME a.session = 1, b.session = 1 PROVE AtLast(q, a, b, TRUE)
  <2>1. None # 1
    BY DEF None
  <2>2. CASE Turns(m)
    <3>1. b = After(m) /\ m.type # "connected" /\ m.session = 1
          /\ (m.type \notin {"faulted", "disconnected"} => ~a.fault)
      BY <1>3, <2>1, <2>2 DEF Tells
    <3>2. m.type # "disconnected"
      BY <1>3, <2>1, <3>1 DEF After, View
    <3>3. m.type = "faulted" => b.fault
      BY <3>1 DEF After, View
    <3>4. ~IsReply(m, "read") /\ ~Granted(m, "connect") /\ ~Granted(m, "disconnect")
      BY <2>2 DEF Turns, IsReply, Granted
    <3>5. AtOne(m, b, TRUE, LastTurn(q, 1))
      BY <3>1, <3>2, <3>3, <3>4 DEF AtOne
    <3>6. a.fault => b.fault
      BY <3>1, <3>2, <3>3
    <3>7. \A i \in 1..Len(q) : AtOne(q[i], b, TRUE, LastTurn(q, i))
      BY <1>1, <1>4, <3>5
    <3>8. ~\A i \in 1..Len(q) : ~Turns(q[i])
      BY <1>1, <1>4, <2>2
    <3> QED BY <3>6, <3>7, <3>8 DEF AtLast
  <2>3. CASE ~Turns(m)
    <3>1. b = a
      BY <2>3 DEF Tells
    <3>2. ~Granted(m, "connect")
      BY <1>3, <2>3 DEF Tells, View
    <3>3. ~Granted(m, "disconnect")
      BY <1>3, <2>1, <2>3 DEF Tells, View
    <3>4. IsReply(m, "read") => m.session = 1 /\ (~m.ok => b.fault) /\ View(m.session, m.config, ~m.ok) = b
      <4> SUFFICES ASSUME IsReply(m, "read")
                   PROVE  m.session = 1 /\ (~m.ok => b.fault) /\ View(m.session, m.config, ~m.ok) = b
        OBVIOUS
      <4>1. b = View(m.session, m.config, ~m.ok)
        BY <2>3, <3>1 DEF Tells
      <4>2. b.session = m.session /\ b.fault = ~m.ok
        BY <4>1, Zenon DEF View
      <4> QED BY <1>3, <4>1, <4>2
    <3>5. AtOne(m, b, TRUE, LastTurn(q, 1))
      BY <2>3, <3>2, <3>3, <3>4 DEF AtOne
    <3>6. \A i \in 1..Len(q) : AtOne(q[i], b, TRUE, LastTurn(q, i))
      BY <1>1, <1>4, <3>5
    <3> QED BY <3>1, <3>6 DEF AtLast
  <2> QED BY <2>2, <2>3
<1> QED BY <1>1, <1>2, <1>3 DEF Leads, q

LEMMA LeadsJoined ==
  ASSUME NEW q, NEW s, NEW a, NEW b, NEW c, Leads(q, a, b), Leads(s, b, c),
         b.session = a.session \/ b.session = c.session
  PROVE  Leads(q \o s, a, c)
<1>1. q \o s \in Seq(Messages)
  BY Joined DEF Leads
<1>2. Told(q \o s, a, c)
  BY ToldJoined DEF Leads
<1>3. ASSUME a.session = 1, c.session = 1 PROVE AtLast(q \o s, a, c, TRUE)
  BY <1>3, AtLastJoined DEF Leads
<1> QED BY <1>1, <1>2, <1>3 DEF Leads

-----------------------------------------------------------------------------
(* The inductive invariant *)

IsGateReply(m) == m.reply /\ m.type \notin {"disconnect", "read"}
Plain(q) == \A i \in 1..Len(q) : ~IsGateReply(q[i])

\* The gate has one call at the host, or one reply on its way, or neither.
Gated1(x, m) == x.call = NoCall /\ Held(x) /\ m.type = OpOf(x.txn.at) /\ "reply" \notin x.txn.receipts

GateOk(x, q) ==
    /\ Orderly(x)
    /\ \A i \in 1..Len(q) : IsGateReply(q[i]) => Gated1(x, q[i])
    /\ \A i, j \in 1..Len(q) : IsGateReply(q[i]) /\ IsGateReply(q[j]) => i = j

HostOk(h) ==
    /\ h \in Hosts /\ h.session \in {None, h.sessions} /\ h.sessions >= 1
    /\ h.session = None => h.config = NoConfig /\ ~h.fault

Agrees(x, h, q, c) ==
    /\ ~c => Told(q, ViewOf(x), ViewOf(h))
    /\ c /\ h.session = 1 => x.session = 1 /\ AtLast(q, ViewOf(x), ViewOf(h), x.fresh)

Good(x, h, q, c) ==
    /\ x \in Renderers /\ q \in Seq(Messages) /\ c \in BOOLEAN
    /\ HostOk(h) /\ GateOk(x, q) /\ Agrees(x, h, q, c)

ConvergeInv == Good(r, host, channel, crossing)

LEMMA ViewTypes ==
    /\ \A x \in Renderers : ViewOf(x) \in Views
    /\ \A h \in Hosts : ViewOf(h) \in Views
    /\ \A s \in Nat, c \in AnyConfigs, f \in BOOLEAN : View(s, c, f) \in Views
BY DEF ViewOf, View, Views, Renderers, Hosts

LEMMA GateSame ==
  ASSUME NEW x, NEW y, NEW q, GateOk(x, q), Orderly(y), Waits(x, y)
  PROVE  GateOk(y, q)
<1>1. ASSUME NEW i \in 1..Len(q), IsGateReply(q[i]) PROVE Gated1(y, q[i])
  <2>1. Gated1(x, q[i])
    BY <1>1 DEF GateOk
  <2> QED BY <2>1 DEF Gated1, Waits
<1> QED BY <1>1 DEF GateOk

LEMMA GateTaken ==
  ASSUME NEW x, NEW q \in Seq(Messages), GateOk(x, q), NEW i \in 1..Len(q)
  PROVE  /\ GateOk(x, Without(q, i))
         /\ IsGateReply(q[i]) => Plain(Without(q, i))
<1> DEFINE w == Without(q, i)
<1>1. /\ \A j \in 1..Len(w) : w[j] = q[Skip(i, j)] /\ Skip(i, j) \in 1..Len(q) /\ Skip(i, j) # i
      /\ \A j, k \in 1..Len(w) : Skip(i, j) <= Skip(i, k) <=> j <= k
      /\ Len(w) \in Nat
  BY Removed
<1> HIDE DEF w
<1>2. ASSUME NEW j \in 1..Len(w), IsGateReply(w[j]) PROVE Gated1(x, w[j])
  BY <1>1, <1>2 DEF GateOk
<1>3. ASSUME NEW j \in 1..Len(w), NEW k \in 1..Len(w), IsGateReply(w[j]), IsGateReply(w[k]) PROVE j = k
  <2>1. Skip(i, j) = Skip(i, k)
    BY <1>1, <1>3 DEF GateOk
  <2> QED BY <1>1, <2>1 DEF Skip
<1>4. ASSUME IsGateReply(q[i]) PROVE Plain(w)
  <2> SUFFICES ASSUME NEW j \in 1..Len(w), IsGateReply(w[j]) PROVE FALSE
    BY DEF Plain
  <2> QED BY <1>1, <1>4 DEF GateOk
<1>5. GateOk(x, w)
  BY <1>2, <1>3 DEF GateOk
<1> QED BY <1>4, <1>5 DEF w

LEMMA GateClosed ==
  ASSUME NEW x, Orderly(x), NEW q, Plain(q)
  PROVE  GateOk(x, q)
BY DEF GateOk, Plain

LEMMA GatePlain ==
  ASSUME NEW x, NEW q \in Seq(Messages), GateOk(x, q), NEW s \in Seq(Messages), Plain(s)
  PROVE  GateOk(x, q \o s)
<1> DEFINE t == q \o s
<1>1. ASSUME NEW i \in 1..Len(t), IsGateReply(t[i]) PROVE i \in 1..Len(q) /\ t[i] = q[i]
  <2>1. i \in 1..Len(q) \/ \E j \in 1..Len(s) : i = Len(q) + j
    BY Joined
  <2>2. ASSUME NEW j \in 1..Len(s), i = Len(q) + j PROVE FALSE
    <3>1. t[i] = s[j]
      BY <2>2, Joined
    <3> QED BY <1>1, <3>1 DEF Plain
  <2>3. i \in 1..Len(q)
    BY <2>1, <2>2
  <2>4. t[i] = q[i]
    BY <2>3, Joined
  <2> QED BY <2>3, <2>4
<1> HIDE DEF t
<1>2. GateOk(x, t)
  BY <1>1 DEF GateOk
<1> QED BY <1>2 DEF t

LEMMA GateAnswered ==
  ASSUME NEW x \in Renderers, NEW q \in Seq(Messages), GateOk(x, q), x.call # NoCall,
         NEW s \in Seq(Messages), Plain(s), NEW m \in Messages, m.type = x.call.op
  PROVE  /\ [x EXCEPT !.call = NoCall] \in Renderers
         /\ ViewOf([x EXCEPT !.call = NoCall]) = ViewOf(x)
         /\ [x EXCEPT !.call = NoCall].fresh = x.fresh
         /\ GateOk([x EXCEPT !.call = NoCall], q \o (s \o <<m>>))
<1> DEFINE y == [x EXCEPT !.call = NoCall]
           u == s \o <<m>>
           t == q \o u
<1>1. y \in Renderers /\ y.call = NoCall
  BY Blanks, Zenon DEF Renderers
<1>2. y.session = x.session /\ y.config = x.config /\ y.fault = x.fault /\ y.fresh = x.fresh
      /\ y.txn = x.txn
  BY Zenon DEF Renderers
<1> HIDE DEF y
<1>3. ViewOf(y) = ViewOf(x)
  BY <1>2 DEF ViewOf
<1>4. Orderly(y) /\ Gated1(y, m)
  BY <1>1, <1>2 DEF GateOk, Orderly, Gated1, Held
<1>5. Plain(q)
  BY DEF GateOk, Gated1, Plain
<1>6. u \in Seq(Messages) /\ Len(u) = Len(s) + 1 /\ Len(s) \in Nat
      /\ \A i \in 1..Len(u) : IsGateReply(u[i]) => i = Len(u) /\ u[i] = m
  <2>1. <<m>> \in Seq(Messages) /\ Len(<<m>>) = 1 /\ <<m>>[1] = m
    BY One
  <2>2. ASSUME NEW i \in 1..Len(u), IsGateReply(u[i]) PROVE i = Len(u) /\ u[i] = m
    <3>1. i \notin 1..Len(s)
      BY <2>2, Joined DEF Plain
    <3>2. PICK j \in 1..Len(<<m>>) : i = Len(s) + j
      BY <2>1, <3>1, Joined
    <3>3. j = 1
      BY <2>1, <3>2
    <3> QED BY <2>1, <3>2, <3>3, Joined
  <2> QED BY <2>1, <2>2, Joined
<1> HIDE DEF u
<1>7. ASSUME NEW i \in 1..Len(t), IsGateReply(t[i]) PROVE i = Len(q) + Len(u) /\ t[i] = m
  <2>1. i \notin 1..Len(q)
    BY <1>5, <1>6, <1>7, Joined DEF Plain
  <2>2. PICK j \in 1..Len(u) : i = Len(q) + j
    BY <1>6, <2>1, Joined
  <2>3. t[i] = u[j]
    BY <1>6, <2>2, Joined
  <2> QED BY <1>6, <1>7, <2>2, <2>3
<1> HIDE DEF t
<1>8. GateOk(y, t)
  BY <1>4, <1>7 DEF GateOk
<1> QED BY <1>1, <1>2, <1>3, <1>8 DEF y, u, t

-----------------------------------------------------------------------------
(* What the main process says *)

LEMMA MakesEvent ==
  ASSUME NEW s \in Nat, NEW c \in AnyConfigs, NEW type \in EventTypes
  PROVE  /\ Event(type, s, c) \in Events
         /\ Event(type, s, c).type = type
         /\ Event(type, s, c).session = s
         /\ Event(type, s, c).config = c
BY Blanks DEF Event, Events, None

LEMMA MakesLifecycle ==
  ASSUME NEW s \in Nat, NEW touch \in Nat, NEW type \in EventTypes
  PROVE  /\ Lifecycle(type, s, touch) \in Events
         /\ Lifecycle(type, s, touch).type = type
         /\ Lifecycle(type, s, touch).session = s
BY Blanks DEF Event, Lifecycle, Events, None

LEMMA MakesReply ==
  ASSUME NEW s \in Nat, NEW c \in AnyConfigs, NEW ok \in BOOLEAN, NEW type \in ReplyTypes
  PROVE  /\ Reply(type, s, c, ok) \in Replies
         /\ Reply(type, s, c, ok).type = type
         /\ Reply(type, s, c, ok).session = s
         /\ Reply(type, s, c, ok).config = c
         /\ Reply(type, s, c, ok).ok = ok
BY Blanks DEF Reply, Replies, None

LEMMA Says ==
  ASSUME NEW m \in Messages
  PROVE  /\ m \in Events => ~m.reply /\ ~IsGateReply(m) /\ m.type \in EventTypes
         /\ m \in Replies => m.reply /\ ~Turns(m) /\ m.type \in ReplyTypes
         /\ m.ok \in BOOLEAN /\ m.session \in Nat /\ m.config \in AnyConfigs
BY DEF Messages, Events, Replies, IsGateReply, Turns

LEMMA EmptyLeads ==
  ASSUME NEW a \in Views
  PROVE  Leads(<<>>, a, a) /\ Plain(<<>>)
<1> DEFINE q == <<>>
<1>1. q \in Seq(Messages) /\ Len(q) = 0
  OBVIOUS
<1> HIDE DEF q
<1>2. \A i \in 1..Len(q) : FALSE
  BY <1>1
<1>3. Told(q, a, a)
  <2> DEFINE v == <<a>>
  <2>1. v[1] = a
    OBVIOUS
  <2> HIDE DEF v
  <2>2. v[1] = a /\ v[Len(q) + 1] = a /\ \A i \in 1..Len(q) : Tells(v[i], q[i], v[i + 1])
    BY <1>1, <1>2, <2>1
  <2> QED BY <2>2 DEF Told
<1>4. AtLast(q, a, a, TRUE)
  BY <1>2 DEF AtLast
<1>5. Plain(q)
  BY <1>2 DEF Plain
<1>6. Leads(q, a, a)
  BY <1>1, <1>3, <1>4 DEF Leads
<1> QED BY <1>5, <1>6 DEF q

\* Events that a step publishes before its answer, if any
Publishes(q, a, b) == Leads(q, a, b) /\ Plain(q)

LEMMA PublishesOne ==
  ASSUME NEW m \in Events, NEW a \in Views, NEW b \in Views, Tells(a, m, b)
  PROVE  Publishes(<<m>>, a, b)
<1>1. m \in Messages
  BY DEF Messages
<1>2. Leads(<<m>>, a, b)
  BY <1>1, LeadsOne
<1>3. Len(<<m>>) = 1 /\ <<m>>[1] = m /\ ~IsGateReply(m)
  BY <1>1, One, Says
<1>4. Plain(<<m>>)
  <2> DEFINE q == <<m>>
  <2>1. \A i \in 1..Len(q) : i = 1
    BY <1>3
  <2> HIDE DEF q
  <2>2. q[1] = m
    BY <1>3 DEF q
  <2> QED BY <1>3, <2>1, <2>2 DEF Plain, q
<1> QED BY <1>2, <1>4 DEF Publishes

LEMMA PublishesJoined ==
  ASSUME NEW q, NEW s, NEW a, NEW b, NEW c, Publishes(q, a, b), Publishes(s, b, c),
         b.session = a.session \/ b.session = c.session
  PROVE  Publishes(q \o s, a, c)
<1>1. Leads(q \o s, a, c)
  BY LeadsJoined DEF Publishes
<1>2. q \in Seq(Messages) /\ s \in Seq(Messages)
  BY DEF Publishes, Leads
<1> DEFINE t == q \o s
<1>3. ASSUME NEW i \in 1..Len(t) PROVE ~IsGateReply(t[i])
  <2>1. CASE i \in 1..Len(q)
    <3>1. t[i] = q[i]
      BY <1>2, <2>1, Joined
    <3> QED BY <2>1, <3>1 DEF Publishes, Plain
  <2>2. CASE \E j \in 1..Len(s) : i = Len(q) + j
    <3>1. PICK j \in 1..Len(s) : i = Len(q) + j
      BY <2>2
    <3>2. t[i] = s[j]
      BY <1>2, <3>1, Joined
    <3> QED BY <3>2 DEF Publishes, Plain
  <2>3. i \in 1..Len(q) \/ \E j \in 1..Len(s) : i = Len(q) + j
    BY <1>2, Joined
  <2> QED BY <2>1, <2>2, <2>3
<1> HIDE DEF t
<1>4. Plain(t)
  BY <1>3 DEF Plain
<1> QED BY <1>1, <1>4 DEF Publishes, t

LEMMA PairOf ==
  ASSUME NEW m \in Messages, NEW n \in Messages
  PROVE  <<m, n>> = <<m>> \o <<n>>
<1> DEFINE s == <<m>>
           t == <<n>>
           u == <<m, n>>
<1>2. /\ s \in Seq(Messages) /\ Len(s) = 1 /\ s[1] = m
      /\ t \in Seq(Messages) /\ Len(t) = 1 /\ t[1] = n
      /\ u \in Seq(Messages) /\ Len(u) = 2 /\ u[1] = m /\ u[2] = n
  OBVIOUS
<1> HIDE DEF s, t, u
<1>3. s \o t \in Seq(Messages) /\ Len(s \o t) = Len(s) + Len(t)
      /\ \A i \in 1..(Len(s) + Len(t)) : (s \o t)[i] = IF i <= Len(s) THEN s[i] ELSE t[i - Len(s)]
  BY <1>2, ConcatProperties
<1> DEFINE w == s \o t
<1>4. w \in Seq(Messages) /\ Len(w) = 2 /\ w[1] = m /\ w[2] = n
  BY <1>2, <1>3
<1> HIDE DEF w
<1>5. \A i \in 1..Len(u) : u[i] = w[i]
  BY <1>2, <1>4
<1>6. u = w
  BY <1>2, <1>4, <1>5, SeqEqual
<1> QED BY <1>6 DEF s, t, u, w

\* A pair of events
LEMMA PublishesPair ==
  ASSUME NEW m \in Events, NEW n \in Events, NEW a \in Views, NEW b \in Views, NEW c \in Views,
         Tells(a, m, b), Tells(b, n, c), b.session = a.session \/ b.session = c.session
  PROVE  Publishes(<<m, n>>, a, c)
<1>1. <<m, n>> = <<m>> \o <<n>>
  BY PairOf DEF Messages
<1> QED BY <1>1, PublishesOne, PublishesJoined

LEMMA EndOfStream ==
  ASSUME NEW type \in {"stream-stopped", "stream-faulted"}, NEW a \in Views
  PROVE  Publishes(StreamEnd(type), a, a)
<1>1. None \in Nat /\ NoConfig \in AnyConfigs
  BY Blanks
<1>2. CASE host.stream
  <2> DEFINE m == Event(type, None, NoConfig)
  <2>1. m \in Events /\ m.type = type
    BY <1>1, MakesEvent DEF EventTypes
  <2>2. StreamEnd(type) = <<m>>
    BY <1>2 DEF StreamEnd
  <2> HIDE DEF m
  <2>3. m.reply = FALSE /\ ~Turns(m)
    BY <2>1 DEF Turns, Addressed, Events
  <2>4. Tells(a, m, a)
    BY <2>3 DEF Tells, IsReply, Granted
  <2> QED BY <2>1, <2>2, <2>4, PublishesOne
<1>3. CASE ~host.stream
  BY <1>3, EmptyLeads DEF StreamEnd, Publishes
<1> QED BY <1>2, <1>3

\* A reply leads nowhere if it is true.
LEMMA ReplyTells ==
  ASSUME NEW m \in Replies, NEW b \in Views,
         m.type = "read" => b = View(m.session, m.config, ~m.ok),
         m.type = "connect" /\ m.ok => b = View(m.session, NoConfig, FALSE) /\ m.session # 1,
         m.type = "disconnect" /\ m.ok => b = View(None, NoConfig, FALSE)
  PROVE  Tells(b, m, b)
<1>1. ~Turns(m)
  BY Says DEF Messages
<1> QED BY <1>1 DEF Tells, IsReply, Granted

LEMMA SayMore ==
  ASSUME NEW x, NEW h, NEW q \in Seq(Messages), NEW c \in BOOLEAN, Agrees(x, h, q, c),
         NEW y, ViewOf(y) = ViewOf(x), y.fresh = x.fresh,
         NEW k, NEW s, Leads(s, ViewOf(h), ViewOf(k)), k.session = h.session \/ k.session # 1
  PROVE  Agrees(y, k, q \o s, c)
<1>0. s \in Seq(Messages)
  BY DEF Leads
<1>1. ASSUME ~c PROVE Told(q \o s, ViewOf(y), ViewOf(k))
  BY <1>0, <1>1, ToldJoined DEF Agrees, Leads
<1>2. ASSUME c, k.session = 1
      PROVE  y.session = 1 /\ AtLast(q \o s, ViewOf(y), ViewOf(k), y.fresh)
  <2>1. h.session = 1 /\ x.session = 1
    BY <1>2 DEF Agrees
  <2>2. y.session = 1
    BY <2>1 DEF ViewOf, View
  <2>3. ViewOf(h).session = 1 /\ ViewOf(k).session = 1
    BY <1>2, <2>1 DEF ViewOf, View
  <2>4. AtLast(s, ViewOf(h), ViewOf(k), TRUE)
    BY <2>3 DEF Leads
  <2>5. AtLast(q, ViewOf(x), ViewOf(h), x.fresh)
    BY <1>2, <2>1 DEF Agrees
  <2>6. AtLast(q \o s, ViewOf(x), ViewOf(k), x.fresh)
    BY <1>0, <2>4, <2>5, AtLastJoined
  <2> QED BY <2>2, <2>6
<1> QED BY <1>1, <1>2 DEF Agrees

\* An answer to the call of the gate, after what the answer publishes
LEMMA AnswerIsGood ==
  ASSUME NEW x, NEW h, NEW q, NEW c, Good(x, h, q, c), x.call # NoCall,
         NEW k, HostOk(k), k.session = h.session \/ k.session # 1,
         NEW p, Publishes(p, ViewOf(h), ViewOf(k)),
         NEW m \in Replies, m.type = x.call.op,
         m.type = "connect" /\ m.ok => ViewOf(k) = View(m.session, NoConfig, FALSE) /\ m.session # 1
  PROVE  Good([x EXCEPT !.call = NoCall], k, q \o (p \o <<m>>), c)
<1> DEFINE y == [x EXCEPT !.call = NoCall]
<1>1. x \in Renderers /\ q \in Seq(Messages) /\ c \in BOOLEAN /\ GateOk(x, q) /\ Agrees(x, h, q, c)
      /\ ViewOf(h) \in Views /\ ViewOf(k) \in Views
  BY ViewTypes DEF Good, HostOk
<1>2. m \in Messages /\ m.type \notin {"read", "disconnect"}
  <2>1. x.call.op = OpOf(x.txn.at) /\ x.txn.at \in Ats
    BY <1>1 DEF GateOk, Orderly
  <2> QED BY <2>1, Phases DEF Messages
<1>3. Tells(ViewOf(k), m, ViewOf(k))
  BY <1>1, <1>2, ReplyTells
<1>4. Leads(<<m>>, ViewOf(k), ViewOf(k))
  BY <1>1, <1>2, <1>3, LeadsOne
<1>5. Leads(p \o <<m>>, ViewOf(h), ViewOf(k))
  BY <1>4, LeadsJoined DEF Publishes
<1>6. p \in Seq(Messages) /\ Plain(p)
  BY DEF Publishes, Leads
<1>7. y \in Renderers /\ ViewOf(y) = ViewOf(x) /\ y.fresh = x.fresh /\ GateOk(y, q \o (p \o <<m>>))
  BY <1>1, <1>2, <1>6, GateAnswered
<1> HIDE DEF y
<1>8. Agrees(y, k, q \o (p \o <<m>>), c)
  BY <1>1, <1>5, <1>7, SayMore
<1>9. q \o (p \o <<m>>) \in Seq(Messages)
  BY <1>1, <1>5, Joined DEF Leads
<1> QED BY <1>1, <1>7, <1>8, <1>9 DEF Good, y

\* What the main process publishes of its own
LEMMA PublishIsGood ==
  ASSUME NEW x, NEW h, NEW q, NEW c, Good(x, h, q, c),
         NEW k, HostOk(k), k.session = h.session \/ k.session # 1,
         NEW y \in Renderers, ViewOf(y) = ViewOf(x), y.fresh = x.fresh, y.txn = x.txn, y.call = x.call,
         NEW p, Publishes(p, ViewOf(h), ViewOf(k))
  PROVE  Good(y, k, q \o p, c)
<1>1. x \in Renderers /\ q \in Seq(Messages) /\ c \in BOOLEAN /\ GateOk(x, q) /\ Agrees(x, h, q, c)
  BY DEF Good
<1>2. Agrees(y, k, q \o p, c)
  BY <1>1, SayMore DEF Publishes
<1>3. p \in Seq(Messages) /\ Plain(p)
  BY DEF Publishes, Leads
<1>4. Orderly(y) /\ Waits(x, y)
  BY <1>1, SameOrder DEF GateOk
<1>5. GateOk(y, q)
  BY <1>1, <1>4, GateSame
<1>6. GateOk(y, q \o p) /\ q \o p \in Seq(Messages)
  BY <1>1, <1>3, <1>5, GatePlain, Joined
<1> QED BY <1>1, <1>2, <1>6 DEF Good

-----------------------------------------------------------------------------
(* The steps of the main process *)

\* The host after it has changed its configuration, its stream and its fault
LEMMA HostChanges ==
  ASSUME HostOk(host), NEW c \in AnyConfigs, NEW n \in Nat, NEW f \in BOOLEAN, NEW s \in BOOLEAN,
         NEW b \in BOOLEAN
  PROVE  /\ host.session \in Nat /\ host.config \in AnyConfigs /\ host.fault \in BOOLEAN
         /\ host.stream \in BOOLEAN /\ host.broke \in BOOLEAN /\ host.sessions \in Nat /\ host.revs \in Nat
         /\ ViewOf(host) = View(host.session, host.config, host.fault)
         /\ Operational => ~host.fault
         /\ \A k : \/ k = host
                   \/ k = [host EXCEPT !.stream = s]
                   \/ k = [host EXCEPT !.stream = s, !.broke = b]
              => HostOk(k) /\ k.session = host.session /\ ViewOf(k) = ViewOf(host)
         /\ \A k : \/ Operational /\ k = [host EXCEPT !.stream = s, !.config = c]
                   \/ Operational /\ k = [host EXCEPT !.stream = s, !.config = c, !.revs = n]
              => HostOk(k) /\ k.session = host.session /\ ViewOf(k) = View(host.session, c, host.fault)
         /\ \A k : \/ Operational /\ k = Faulted(host)
                   \/ Operational /\ k = [Faulted(host) EXCEPT !.broke = b]
              => HostOk(k) /\ k.session = host.session /\ ViewOf(k) = View(host.session, NoConfig, TRUE)
<1>1. /\ host.session \in Nat /\ host.config \in AnyConfigs /\ host.fault \in BOOLEAN
      /\ host.stream \in BOOLEAN /\ host.broke \in BOOLEAN /\ host.sessions \in Nat /\ host.revs \in Nat
  BY DEF HostOk, Hosts
<1>2. ViewOf(host) = View(host.session, host.config, host.fault)
  BY DEF ViewOf
<1>3. Operational => ~host.fault
  BY DEF Operational
<1>4. ASSUME NEW k, \/ k = host
                    \/ k = [host EXCEPT !.stream = s]
                    \/ k = [host EXCEPT !.stream = s, !.broke = b]
      PROVE  HostOk(k) /\ k.session = host.session /\ ViewOf(k) = ViewOf(host)
  BY <1>4 DEF HostOk, Hosts, ViewOf
<1>5. ASSUME NEW k, \/ Operational /\ k = [host EXCEPT !.stream = s, !.config = c]
                    \/ Operational /\ k = [host EXCEPT !.stream = s, !.config = c, !.revs = n]
      PROVE  HostOk(k) /\ k.session = host.session /\ ViewOf(k) = View(host.session, c, host.fault)
  BY <1>5 DEF HostOk, Hosts, ViewOf, Operational
<1>6. ASSUME NEW k, \/ Operational /\ k = Faulted(host)
                    \/ Operational /\ k = [Faulted(host) EXCEPT !.broke = b]
      PROVE  HostOk(k) /\ k.session = host.session /\ ViewOf(k) = View(host.session, NoConfig, TRUE)
  BY <1>6, Blanks DEF HostOk, Hosts, ViewOf, Operational, Faulted
<1> QED BY <1>1, <1>2, <1>3, <1>4, <1>5, <1>6

\* What the end of a configuration publishes
LEMMA EndPublishes ==
  ASSUME NEW s \in Nat, NEW c \in AnyConfigs, NEW d \in AnyConfigs, NEW touch \in Nat
  PROVE  /\ Publishes(<<Event("session-state", s, NoConfig), Event("configured", s, d)>>,
                      View(s, c, FALSE), View(s, d, FALSE))
         /\ Publishes(<<Lifecycle("feature-result", s, touch), Lifecycle("invalidated", s, touch)>>,
                      View(s, c, FALSE), View(s, NoConfig, FALSE))
         /\ Publishes(<<Event("faulted", s, NoConfig)>>, View(s, c, FALSE), View(s, NoConfig, TRUE))
         /\ Publishes(<<Event("disconnected", s, NoConfig)>>, View(s, c, FALSE), View(None, NoConfig, FALSE))
         /\ Publishes(<<Event("disconnected", s, NoConfig)>>, View(s, c, TRUE), View(None, NoConfig, FALSE))
         /\ Publishes(<<Event("connected", s, NoConfig)>>, View(None, NoConfig, FALSE), View(s, NoConfig, FALSE))
<1>1. /\ View(s, c, FALSE) \in Views /\ View(s, NoConfig, FALSE) \in Views /\ View(s, d, FALSE) \in Views
      /\ View(s, NoConfig, TRUE) \in Views /\ View(None, NoConfig, FALSE) \in Views
      /\ View(s, c, TRUE) \in Views
  BY Blanks DEF View, Views, None
<1>2. ASSUME NEW a \in Nat, NEW b \in AnyConfigs, NEW f \in BOOLEAN
      PROVE  View(a, b, f).session = a /\ (View(a, b, f).fault <=> f)
  BY DEF View
<1>3. ASSUME NEW m \in Events, m.type \in Addressed, m.session = s, NEW b,
             NEW f \in BOOLEAN, NEW e \in AnyConfigs, b = After(m),
             m.type \notin {"faulted", "disconnected"} => ~f
      PROVE  Tells(View(s, e, f), m, b)
  <2>1. Turns(m) /\ m.type # "connected"
    BY <1>3 DEF Turns, Events, Addressed
  <2> QED BY <1>2, <1>3, <2>1 DEF Tells
<1> DEFINE state == Event("session-state", s, NoConfig)
           configured == Event("configured", s, d)
           result == Lifecycle("feature-result", s, touch)
           invalidated == Lifecycle("invalidated", s, touch)
           faulted == Event("faulted", s, NoConfig)
           disconnected == Event("disconnected", s, NoConfig)
           connected == Event("connected", s, NoConfig)
<1>4. /\ state \in Events /\ state.type = "session-state" /\ state.session = s
      /\ configured \in Events /\ configured.type = "configured" /\ configured.session = s
      /\ configured.config = d
      /\ result \in Events /\ result.type = "feature-result" /\ result.session = s
      /\ invalidated \in Events /\ invalidated.type = "invalidated" /\ invalidated.session = s
      /\ faulted \in Events /\ faulted.type = "faulted" /\ faulted.session = s
      /\ disconnected \in Events /\ disconnected.type = "disconnected" /\ disconnected.session = s
      /\ connected \in Events /\ connected.type = "connected" /\ connected.session = s
  BY Blanks, MakesEvent, MakesLifecycle DEF EventTypes
<1> HIDE DEF state, configured, result, invalidated, faulted, disconnected, connected
<1>5. /\ After(state) = View(s, NoConfig, FALSE) /\ After(configured) = View(s, d, FALSE)
      /\ After(result) = View(s, NoConfig, FALSE) /\ After(invalidated) = View(s, NoConfig, FALSE)
      /\ After(faulted) = View(s, NoConfig, TRUE) /\ After(disconnected) = View(None, NoConfig, FALSE)
      /\ After(connected) = View(s, NoConfig, FALSE)
  BY <1>4 DEF After
<1>6. /\ Tells(View(s, c, FALSE), state, View(s, NoConfig, FALSE))
      /\ Tells(View(s, NoConfig, FALSE), configured, View(s, d, FALSE))
      /\ Tells(View(s, c, FALSE), result, View(s, NoConfig, FALSE))
      /\ Tells(View(s, NoConfig, FALSE), invalidated, View(s, NoConfig, FALSE))
  BY <1>3, <1>4, <1>5, Blanks DEF Addressed
<1>7. /\ Tells(View(s, c, FALSE), faulted, View(s, NoConfig, TRUE))
      /\ Tells(View(s, c, FALSE), disconnected, View(None, NoConfig, FALSE))
      /\ Tells(View(s, c, TRUE), disconnected, View(None, NoConfig, FALSE))
  BY <1>3, <1>4, <1>5 DEF Addressed
<1>8. Tells(View(None, NoConfig, FALSE), connected, View(s, NoConfig, FALSE))
  <2>1. Turns(connected)
    BY <1>4 DEF Turns, Events
  <2> QED BY <1>4, <1>5, <2>1 DEF Tells, View
<1>9. View(s, NoConfig, FALSE).session = s /\ View(s, c, FALSE).session = s
  BY DEF View
<1>10. /\ Publishes(<<state, configured>>, View(s, c, FALSE), View(s, d, FALSE))
       /\ Publishes(<<result, invalidated>>, View(s, c, FALSE), View(s, NoConfig, FALSE))
       /\ Publishes(<<faulted>>, View(s, c, FALSE), View(s, NoConfig, TRUE))
       /\ Publishes(<<disconnected>>, View(s, c, FALSE), View(None, NoConfig, FALSE))
       /\ Publishes(<<disconnected>>, View(s, c, TRUE), View(None, NoConfig, FALSE))
       /\ Publishes(<<connected>>, View(None, NoConfig, FALSE), View(s, NoConfig, FALSE))
  BY <1>1, <1>4, <1>6, <1>7, <1>8, <1>9, PublishesOne, PublishesPair
<1> QED BY <1>10 DEF state, configured, result, invalidated, faulted, disconnected, connected

LEMMA AnswerStep ==
  ASSUME ConvergeInv, NEW op, op # "none", Answered(op), NEW ok \in BOOLEAN, op = "connect" => ~ok,
         HostOk(host'), host'.session = host.session,
         NEW p, Publishes(p, ViewOf(host), ViewOf(host')),
         NEW given \in AnyConfigs,
         channel' = channel \o (p \o <<Reply(r.call.op, host.session, given, ok)>>)
  PROVE  ConvergeInv'
<1> DEFINE m == Reply(r.call.op, host.session, given, ok)
<1>1. r.call # NoCall /\ r.call.op = op /\ r' = [r EXCEPT !.call = NoCall] /\ crossing' = crossing
  BY Blanks DEF Answered
<1>2. r.call.op \in ReplyTypes
  <2>1. r.call.op = OpOf(r.txn.at) /\ r.txn.at \in Ats
    BY <1>1 DEF ConvergeInv, Good, GateOk, Orderly
  <2> QED BY <2>1, Phases DEF ReplyTypes
<1>3. host.session \in Nat
  BY DEF ConvergeInv, Good, HostOk, Hosts
<1>4. m \in Replies /\ m.type = r.call.op /\ m.ok = ok
  BY <1>2, <1>3, MakesReply
<1>5. ~(m.type = "connect" /\ m.ok)
  BY <1>1, <1>4
<1> HIDE DEF m
<1>6. Good([r EXCEPT !.call = NoCall], host', channel \o (p \o <<m>>), crossing)
  BY <1>1, <1>4, <1>5, AnswerIsGood DEF ConvergeInv
<1> QED BY <1>1, <1>6 DEF ConvergeInv, m

LEMMA Plainly ==
    /\ TRUE \in BOOLEAN /\ FALSE \in BOOLEAN /\ NoConfig \in AnyConfigs
    /\ "start" # "none" /\ "stop" # "none" /\ "apply" # "none" /\ "touch" # "none" /\ "acquire" # "none"
    /\ ("start" = "connect" => ~TRUE) /\ ("stop" = "connect" => ~TRUE) /\ ("apply" = "connect" => ~TRUE)
    /\ ("touch" = "connect" => ~TRUE) /\ ("acquire" = "connect" => ~TRUE)
    /\ ("apply" = "connect" => ~FALSE) /\ ("touch" = "connect" => ~FALSE)
BY Blanks

LEMMA EmptyBefore ==
  ASSUME NEW m \in Messages
  PROVE  <<m>> = <<>> \o <<m>>
BY ConcatEmptySeq, One

LEMMA Bare ==
  ASSUME ConvergeInv, NEW op, op # "none", Answered(op), NEW ok \in BOOLEAN, op = "connect" => ~ok,
         HostOk(host'), host'.session = host.session, ViewOf(host') = ViewOf(host),
         NEW given \in AnyConfigs,
         channel' = channel \o <<Reply(r.call.op, host.session, given, ok)>>
  PROVE  ConvergeInv'
<1>1. r.call # NoCall /\ r.call.op = op
  BY Blanks DEF Answered
<1>2. r.call.op \in ReplyTypes
  <2>1. r.call.op = OpOf(r.txn.at) /\ r.txn.at \in Ats
    BY <1>1 DEF ConvergeInv, Good, GateOk, Orderly
  <2> QED BY <2>1, Phases DEF ReplyTypes
<1>3. host.session \in Nat /\ ViewOf(host) \in Views
  BY ViewTypes DEF ConvergeInv, Good, HostOk, Hosts
<1> DEFINE m == Reply(r.call.op, host.session, given, ok)
<1>4. m \in Messages
  BY <1>2, <1>3, MakesReply DEF Messages
<1> HIDE DEF m
<1>5. channel' = channel \o (<<>> \o <<m>>)
  BY <1>4, EmptyBefore DEF m
<1>6. Publishes(<<>>, ViewOf(host), ViewOf(host'))
  BY <1>3, EmptyLeads DEF Publishes
<1> QED BY <1>5, <1>6, AnswerStep DEF m

LEMMA RefuseStep ==
  ASSUME ConvergeInv, Refuse
  PROVE  ConvergeInv'
<1>1. r.call # NoCall /\ Answered(r.call.op) /\ host' = host
      /\ channel' = channel \o <<Reply(r.call.op, host.session, NoConfig, FALSE)>>
  BY DEF Refuse, Post, Answer
<1>2. r.call.op # "none"
  <2>1. r.call.op = OpOf(r.txn.at) /\ r.txn.at \in Ats
    BY <1>1 DEF ConvergeInv, Good, GateOk, Orderly
  <2> QED BY <2>1, Phases
<1> QED BY <1>1, <1>2, Blanks, Bare DEF ConvergeInv, Good

LEMMA StartsStep ==
  ASSUME ConvergeInv, Starts
  PROVE  ConvergeInv'
<1>1. Answered("start") /\ host' = [host EXCEPT !.stream = TRUE]
      /\ channel' = channel \o <<Reply(r.call.op, host.session, NoConfig, TRUE)>>
  BY DEF Starts, Post, Answer
<1>2. HostOk(host)
  BY DEF ConvergeInv, Good
<1>3. HostOk(host') /\ host'.session = host.session /\ ViewOf(host') = ViewOf(host)
  BY <1>1, <1>2, Blanks, HostChanges, Zenon
<1> QED BY <1>1, <1>3, Plainly, Bare, Zenon

LEMMA AcquiresStep ==
  ASSUME ConvergeInv, Acquires
  PROVE  ConvergeInv'
<1>1. Answered("acquire") /\ host' = host /\ r.call.op = "acquire"
      /\ channel' = channel \o <<Reply("acquire", host.session, host.config, TRUE)>>
  BY DEF Acquires, Post, Answered
<1>2. HostOk(host) /\ host.config \in AnyConfigs
  BY DEF ConvergeInv, Good, HostOk, Hosts
<1> QED BY <1>1, <1>2, Bare

LEMMA StopsStep ==
  ASSUME ConvergeInv, Stops
  PROVE  ConvergeInv'
<1>1. Answered("stop") /\ host' = [host EXCEPT !.stream = FALSE]
      /\ channel' = channel \o (StreamEnd("stream-stopped") \o <<Reply(r.call.op, host.session, NoConfig, TRUE)>>)
  BY DEF Stops, Post, Answer
<1>2. HostOk(host) /\ ViewOf(host) \in Views
  BY ViewTypes DEF ConvergeInv, Good, HostOk
<1>3. HostOk(host') /\ host'.session = host.session /\ ViewOf(host') = ViewOf(host)
  BY <1>1, <1>2, Blanks, HostChanges, Zenon
<1>4. Publishes(StreamEnd("stream-stopped"), ViewOf(host), ViewOf(host'))
  BY <1>2, <1>3, EndOfStream
<1> QED BY <1>1, <1>3, <1>4, Plainly, AnswerStep, Zenon

\* The stream ends, then the configuration does.
LEMMA AfterStream ==
  ASSUME NEW a \in Views, NEW b, NEW p, Publishes(p, a, b)
  PROVE  Publishes(StreamEnd("stream-stopped") \o p, a, b)
BY EndOfStream, PublishesJoined

LEMMA AppliesStep ==
  ASSUME ConvergeInv, Applies
  PROVE  ConvergeInv'
<1>1. Answered("apply") /\ Operational
  BY DEF Applies
<1>2. HostOk(host) /\ ViewOf(host) \in Views
  BY ViewTypes DEF ConvergeInv, Good, HostOk
<1>3. /\ host.session \in Nat /\ host.config \in AnyConfigs /\ host.revs \in Nat
      /\ ViewOf(host) = View(host.session, host.config, FALSE)
  <2>1. host.session \in Nat /\ host.config \in AnyConfigs /\ host.fault \in BOOLEAN /\ host.revs \in Nat
    BY <1>2 DEF HostOk, Hosts
  <2>2. host.fault = FALSE
    BY <1>1, <2>1 DEF Operational
  <2> QED BY <2>1, <2>2 DEF ViewOf
<1>4. NoConfig \in AnyConfigs /\ None \in Nat
  BY Blanks
<1>5. ASSUME NEW kind \in Kinds,
             host' = [host EXCEPT !.stream = FALSE, !.config = [rev |-> host.revs + 1, kind |-> kind], !.revs = @ + 1],
             channel' = channel \o (StreamEnd("stream-stopped")
                  \o <<Event("session-state", host.session, NoConfig),
                       Event("configured", host.session, [rev |-> host.revs + 1, kind |-> kind])>> \o Answer(TRUE))
      PROVE  ConvergeInv'
  <2> DEFINE d == [rev |-> host.revs + 1, kind |-> kind]
             n == host.revs + 1
  <2>1. d \in AnyConfigs /\ n \in Nat
    BY <1>3 DEF AnyConfigs, Kinds
  <2>2. host' = [host EXCEPT !.stream = FALSE, !.config = d, !.revs = n]
    BY <1>5
  <2>a. channel' = channel \o (StreamEnd("stream-stopped")
                  \o <<Event("session-state", host.session, NoConfig),
                       Event("configured", host.session, d)>> \o Answer(TRUE))
    BY <1>5
  <2> HIDE DEF d, n
  <2>3. HostOk(host') /\ host'.session = host.session /\ ViewOf(host') = View(host.session, d, host.fault)
    BY <1>1, <1>2, <2>1, <2>2, HostChanges, Zenon
  <2>4. ViewOf(host') = View(host.session, d, FALSE)
    BY <1>1, <1>2, <2>3 DEF Operational, HostOk, Hosts
  <2> DEFINE p == <<Event("session-state", host.session, NoConfig), Event("configured", host.session, d)>>
  <2>5. Publishes(p, ViewOf(host), ViewOf(host'))
    BY <1>3, <1>4, <2>1, <2>4, EndPublishes
  <2>6. Publishes(StreamEnd("stream-stopped") \o p, ViewOf(host), ViewOf(host'))
    BY <1>2, <2>5, AfterStream
  <2> QED BY <1>1, <2>a, <2>3, <2>6, Plainly, AnswerStep, Zenon DEF Answer
<1>6. ASSUME host' = [host EXCEPT !.stream = FALSE, !.config = NoConfig],
             channel' = channel \o (StreamEnd("stream-stopped") \o Invalidating(None) \o Answer(TRUE))
      PROVE  ConvergeInv'
  <2>3. HostOk(host') /\ host'.session = host.session /\ ViewOf(host') = View(host.session, NoConfig, host.fault)
    BY <1>1, <1>2, <1>4, <1>6, HostChanges, Zenon
  <2>4. ViewOf(host') = View(host.session, NoConfig, FALSE)
    BY <1>1, <1>2, <2>3 DEF Operational, HostOk, Hosts
  <2>5. Publishes(Invalidating(None), ViewOf(host), ViewOf(host'))
    BY <1>3, <1>4, <2>4, EndPublishes DEF Invalidating
  <2>6. Publishes(StreamEnd("stream-stopped") \o Invalidating(None), ViewOf(host), ViewOf(host'))
    BY <1>2, <2>5, AfterStream
  <2> QED BY <1>1, <1>6, <2>3, <2>6, Plainly, AnswerStep, Zenon DEF Answer
<1>7. ASSUME host' = [host EXCEPT !.stream = FALSE],
             channel' = channel \o (StreamEnd("stream-stopped") \o Answer(FALSE))
      PROVE  ConvergeInv'
  <2>1. HostOk(host') /\ host'.session = host.session /\ ViewOf(host') = ViewOf(host)
    BY <1>2, <1>4, <1>7, HostChanges, Zenon
  <2>2. Publishes(StreamEnd("stream-stopped"), ViewOf(host), ViewOf(host'))
    BY <1>2, <2>1, EndOfStream
  <2> QED BY <1>1, <1>4, <1>7, <2>1, <2>2, AnswerStep DEF Answer
<1>8. ASSUME host' = Faulted(host),
             channel' = channel \o (StreamEnd("stream-stopped") \o Faults \o Answer(FALSE))
      PROVE  ConvergeInv'
  <2>1. HostOk(host') /\ host'.session = host.session /\ ViewOf(host') = View(host.session, NoConfig, TRUE)
    BY <1>1, <1>2, <1>4, <1>8, HostChanges, Zenon
  <2>2. Publishes(Faults, ViewOf(host), ViewOf(host'))
    BY <1>3, <1>4, <2>1, EndPublishes DEF Faults
  <2>3. Publishes(StreamEnd("stream-stopped") \o Faults, ViewOf(host), ViewOf(host'))
    BY <1>2, <2>2, AfterStream
  <2> QED BY <1>1, <1>4, <1>8, <2>1, <2>3, AnswerStep DEF Answer
<1> QED BY <1>5, <1>6, <1>7, <1>8 DEF Applies, Post

LEMMA TouchesStep ==
  ASSUME ConvergeInv, Touches
  PROVE  ConvergeInv'
<1>1. Answered("touch") /\ Operational
  BY DEF Touches
<1>2. HostOk(host) /\ ViewOf(host) \in Views /\ r.touches \in Nat
  BY ViewTypes, Retyped DEF ConvergeInv, Good, HostOk
<1>3. /\ host.session \in Nat /\ host.config \in AnyConfigs
      /\ ViewOf(host) = View(host.session, host.config, FALSE)
  <2>1. host.session \in Nat /\ host.config \in AnyConfigs /\ host.fault \in BOOLEAN
    BY <1>2 DEF HostOk, Hosts
  <2>2. host.fault = FALSE
    BY <1>1, <2>1 DEF Operational
  <2> QED BY <2>1, <2>2 DEF ViewOf
<1>4. NoConfig \in AnyConfigs /\ None \in Nat
  BY Blanks
<1>5. ASSUME host' = [host EXCEPT !.stream = FALSE, !.config = NoConfig],
             channel' = channel \o (StreamEnd("stream-stopped") \o Invalidating(r.touches) \o Answer(TRUE))
      PROVE  ConvergeInv'
  <2>1. HostOk(host') /\ host'.session = host.session /\ ViewOf(host') = View(host.session, NoConfig, host.fault)
    BY <1>1, <1>2, <1>4, <1>5, HostChanges, Zenon
  <2>2. ViewOf(host') = View(host.session, NoConfig, FALSE)
    BY <1>1, <1>2, <2>1 DEF Operational, HostOk, Hosts
  <2>3. Publishes(Invalidating(r.touches), ViewOf(host), ViewOf(host'))
    BY <1>2, <1>3, <1>4, <2>2, EndPublishes DEF Invalidating
  <2>4. Publishes(StreamEnd("stream-stopped") \o Invalidating(r.touches), ViewOf(host), ViewOf(host'))
    BY <1>2, <2>3, AfterStream
  <2> QED BY <1>1, <1>5, <2>1, <2>4, Plainly, AnswerStep, Zenon DEF Answer
<1>6. ASSUME host' = Faulted(host),
             channel' = channel \o (StreamEnd("stream-stopped") \o Faults \o Answer(FALSE))
      PROVE  ConvergeInv'
  <2>1. HostOk(host') /\ host'.session = host.session /\ ViewOf(host') = View(host.session, NoConfig, TRUE)
    BY <1>1, <1>2, <1>4, <1>6, HostChanges, Zenon
  <2>2. Publishes(Faults, ViewOf(host), ViewOf(host'))
    BY <1>3, <1>4, <2>1, EndPublishes DEF Faults
  <2>3. Publishes(StreamEnd("stream-stopped") \o Faults, ViewOf(host), ViewOf(host'))
    BY <1>2, <2>2, AfterStream
  <2> QED BY <1>1, <1>6, <2>1, <2>3, Plainly, AnswerStep, Zenon DEF Answer
<1> QED BY <1>5, <1>6 DEF Touches, Post

LEMMA ConnectsStep ==
  ASSUME ConvergeInv, Connects
  PROVE  ConvergeInv'
<1> DEFINE s == host.sessions + 1
           k == [host EXCEPT !.session = s, !.sessions = s, !.fault = FALSE, !.config = NoConfig]
           e == Event("connected", s, NoConfig)
           m == Reply("connect", s, NoConfig, TRUE)
<1>1. /\ Answered("connect") /\ host.session = None /\ host' = k
      /\ channel' = channel \o <<e, m>>
  BY DEF Connects, Post
<1>2. HostOk(host) /\ ViewOf(host) = View(None, NoConfig, FALSE)
  <2>1. HostOk(host)
    BY DEF ConvergeInv, Good
  <2>2. host.config = NoConfig /\ host.fault = FALSE
    BY <1>1, <2>1 DEF HostOk, Hosts
  <2> QED BY <1>1, <2>1, <2>2 DEF ViewOf
<1>3. s \in Nat /\ s # 1 /\ s >= 1 /\ NoConfig \in AnyConfigs /\ None \in Nat /\ s # None
  BY <1>2, Blanks DEF HostOk, Hosts, None
<1>4. e \in Events /\ m \in Replies /\ m.type = "connect" /\ m.session = s
  <2>1. e \in Events
    BY <1>3, MakesEvent DEF EventTypes
  <2> HIDE DEF e, s
  <2>2. m \in Replies /\ m.type = "connect" /\ m.session = s
    BY <1>3, Blanks DEF Reply, Replies, ReplyTypes, None
  <2> QED BY <2>1, <2>2
<1>5. Publishes(<<e>>, View(None, NoConfig, FALSE), View(s, NoConfig, FALSE))
  BY <1>3, EndPublishes
<1>a. <<e, m>> = <<e>> \o <<m>>
  BY <1>4, PairOf DEF Messages
<1> HIDE DEF s, e, m
<1>6. HostOk(k) /\ k.session = s /\ ViewOf(k) = View(s, NoConfig, FALSE)
  BY <1>2, <1>3, Blanks DEF HostOk, Hosts, ViewOf
<1> HIDE DEF k
<1>7. r.call # NoCall /\ r.call.op = "connect" /\ r' = [r EXCEPT !.call = NoCall] /\ crossing' = crossing
  BY <1>1, Blanks DEF Answered
<1>8. Publishes(<<e>>, ViewOf(host), ViewOf(k))
  BY <1>2, <1>5, <1>6
<1>9. Good([r EXCEPT !.call = NoCall], k, channel \o (<<e>> \o <<m>>), crossing)
  BY <1>3, <1>4, <1>6, <1>7, <1>8, AnswerIsGood DEF ConvergeInv
<1> QED BY <1>1, <1>7, <1>9, <1>a DEF ConvergeInv

\* A reply outside the gate, after what it publishes
LEMMA ReplyAsideStep ==
  ASSUME ConvergeInv, NEW op, r' = [r EXCEPT !.asks = @ \ {op}], crossing' = crossing,
         HostOk(host'), host'.session = host.session \/ host'.session # 1,
         NEW p, Publishes(p, ViewOf(host), ViewOf(host')),
         NEW m \in Replies, m.type \in {"disconnect", "read"}, Tells(ViewOf(host'), m, ViewOf(host')),
         channel' = channel \o (p \o <<m>>)
  PROVE  ConvergeInv'
<1> DEFINE t == r.asks \ {op}
           y == [r EXCEPT !.asks = t]
<1>1. r \in Renderers /\ t \in SUBSET {"disconnect", "read"}
  BY Retyped DEF ConvergeInv, Good
<1>2. r' = y
  OBVIOUS
<1> HIDE DEF t
<1>3. y \in Renderers /\ y.session = r.session /\ y.config = r.config /\ y.fault = r.fault
      /\ y.fresh = r.fresh /\ y.txn = r.txn /\ y.call = r.call
  BY <1>1, Zenon DEF Renderers
<1> HIDE DEF y
<1>4. ViewOf(y) = ViewOf(r)
  BY <1>3 DEF ViewOf
<1>5. m \in Messages /\ ~IsGateReply(m) /\ ViewOf(host') \in Views
  BY ViewTypes DEF Messages, IsGateReply, HostOk
<1>6. Leads(<<m>>, ViewOf(host'), ViewOf(host'))
  BY <1>5, LeadsOne
<1>7. Plain(<<m>>)
  <2> DEFINE q == <<m>>
  <2>1. q[1] = m /\ \A i \in 1..Len(q) : i = 1
    BY <1>5, One
  <2> HIDE DEF q
  <2> QED BY <1>5, <2>1 DEF Plain, q
<1>8. Publishes(p \o <<m>>, ViewOf(host), ViewOf(host'))
  <2>1. Publishes(<<m>>, ViewOf(host'), ViewOf(host'))
    BY <1>6, <1>7 DEF Publishes
  <2> QED BY <2>1, PublishesJoined
<1>9. Good(y, host', channel \o (p \o <<m>>), crossing)
  BY <1>3, <1>4, <1>8, PublishIsGood DEF ConvergeInv
<1> QED BY <1>2, <1>9 DEF ConvergeInv

LEMMA DisconnectsStep ==
  ASSUME ConvergeInv, Disconnects
  PROVE  ConvergeInv'
<1>1. HostOk(host) /\ ViewOf(host) \in Views /\ host.session \in Nat /\ host.config \in AnyConfigs
      /\ host.fault \in BOOLEAN /\ ViewOf(host) = View(host.session, host.config, host.fault)
  BY ViewTypes DEF ConvergeInv, Good, HostOk, Hosts, ViewOf
<1>2. NoConfig \in AnyConfigs /\ None \in Nat /\ None # 1
  BY Blanks
<1>3. r' = [r EXCEPT !.asks = @ \ {"disconnect"}] /\ crossing' = crossing
  BY DEF Disconnects
<1> DEFINE k == [Faulted(host) EXCEPT !.session = None, !.fault = FALSE]
           m(ok) == Reply("disconnect", None, NoConfig, ok)
           d == IF host.session = None THEN <<>> ELSE <<Event("disconnected", host.session, NoConfig)>>
<1>4. ASSUME host' = k,
             channel' = channel \o (StreamEnd("stream-stopped") \o d \o <<m(TRUE)>>)
      PROVE  ConvergeInv'
  <2>1. HostOk(k) /\ k.session = None /\ ViewOf(k) = View(None, NoConfig, FALSE)
    <3>1. k \in Hosts
      <4> DEFINE h == Faulted(host)
      <4>1. h \in Hosts
        BY <1>1, Blanks DEF HostOk, Hosts, Faulted
      <4> HIDE DEF h
      <4>2. [h EXCEPT !.session = None, !.fault = FALSE] \in Hosts
        BY <1>2, <4>1, Plainly, Zenon DEF Hosts
      <4> QED BY <4>2 DEF h
    <3>2. k.session = None /\ k.config = NoConfig /\ k.fault = FALSE /\ k.sessions = host.sessions
      BY <1>1, Zenon DEF HostOk, Hosts, Faulted
    <3> HIDE DEF k
    <3> QED BY <1>1, <3>1, <3>2 DEF HostOk, ViewOf
  <2> HIDE DEF k
  <2>2. Publishes(d, ViewOf(host), ViewOf(k))
    <3>1. CASE host.session = None
      <4>1. host.config = NoConfig /\ host.fault = FALSE
        BY <1>1, <3>1 DEF HostOk
      <4>2. ViewOf(k) = ViewOf(host)
        BY <1>1, <2>1, <3>1, <4>1
      <4> QED BY <1>1, <3>1, <4>2, EmptyLeads DEF Publishes
    <3>2. CASE host.session # None
      <4>1. ViewOf(host) = View(host.session, host.config, FALSE) \/ ViewOf(host) = View(host.session, host.config, TRUE)
        BY <1>1
      <4>2. Publishes(<<Event("disconnected", host.session, NoConfig)>>, ViewOf(host), ViewOf(k))
        BY <1>1, <1>2, <2>1, <4>1, EndPublishes
      <4> QED BY <3>2, <4>2
    <3> QED BY <3>1, <3>2
  <2> HIDE DEF d
  <2>3. Publishes(StreamEnd("stream-stopped") \o d, ViewOf(host), ViewOf(k))
    BY <1>1, <2>2, AfterStream
  <2>4. m(TRUE) \in Replies /\ m(TRUE).type = "disconnect"
    BY Blanks DEF Reply, Replies, ReplyTypes, None
  <2>5. Tells(ViewOf(k), m(TRUE), ViewOf(k))
    <3>1. ViewOf(k) \in Views
      BY <2>1, ViewTypes DEF HostOk
    <3> HIDE DEF m
    <3> QED BY <2>1, <2>4, <3>1, ReplyTells
  <2> DEFINE reply == m(TRUE)
  <2> HIDE DEF m
  <2> QED BY <1>2, <1>3, <1>4, <2>1, <2>3, <2>4, <2>5, ReplyAsideStep
<1>5. ASSUME Operational, host' = Faulted(host),
             channel' = channel \o (StreamEnd("stream-stopped") \o Faults \o <<m(FALSE)>>)
      PROVE  ConvergeInv'
  <2>1. HostOk(host') /\ host'.session = host.session /\ ViewOf(host') = View(host.session, NoConfig, TRUE)
    BY <1>1, <1>2, <1>5, Plainly, HostChanges, Zenon
  <2>2. ViewOf(host) = View(host.session, host.config, FALSE)
    BY <1>1, <1>5 DEF Operational
  <2>3. Publishes(Faults, ViewOf(host), ViewOf(host'))
    BY <1>1, <1>2, <2>1, <2>2, EndPublishes DEF Faults
  <2>4. Publishes(StreamEnd("stream-stopped") \o Faults, ViewOf(host), ViewOf(host'))
    BY <1>1, <2>3, AfterStream
  <2>5. m(FALSE) \in Replies /\ m(FALSE).type = "disconnect" /\ ~m(FALSE).ok
    BY Blanks DEF Reply, Replies, ReplyTypes, None
  <2> HIDE DEF m
  <2>6. Tells(ViewOf(host'), m(FALSE), ViewOf(host'))
    <3>1. ViewOf(host') \in Views
      BY <2>1, ViewTypes DEF HostOk
    <3> QED BY <2>5, <3>1, ReplyTells
  <2> QED BY <1>3, <1>5, <2>1, <2>4, <2>5, <2>6, ReplyAsideStep
<1> QED BY <1>4, <1>5 DEF Disconnects, Post

LEMMA ReadsStep ==
  ASSUME ConvergeInv, ReadsState
  PROVE  ConvergeInv'
<1> DEFINE f == ~host.fault
           m == Reply("read", host.session, host.config, f)
<1>1. HostOk(host) /\ ViewOf(host) \in Views /\ host.session \in Nat /\ host.config \in AnyConfigs
      /\ f \in BOOLEAN /\ host.fault \in BOOLEAN
      /\ ViewOf(host) = View(host.session, host.config, host.fault)
  BY ViewTypes DEF ConvergeInv, Good, HostOk, Hosts, ViewOf
<1>2. r' = [r EXCEPT !.asks = @ \ {"read"}] /\ crossing' = crossing /\ host' = host
      /\ channel' = channel \o <<m>>
  BY DEF ReadsState, Post
<1>a. ~f = host.fault
  BY <1>1
<1> HIDE DEF f
<1>3. m \in Replies /\ m.type = "read" /\ m.session = host.session /\ m.config = host.config /\ m.ok = f
  BY <1>1, MakesReply DEF ReplyTypes
<1> HIDE DEF m
<1>4. ViewOf(host) = View(m.session, m.config, ~m.ok)
  BY <1>1, <1>3, <1>a
<1>5. Tells(ViewOf(host), m, ViewOf(host))
  BY <1>1, <1>3, <1>4, ReplyTells
<1>6. channel' = channel \o (<<>> \o <<m>>)
  BY <1>2, <1>3, EmptyBefore DEF Messages
<1>7. Publishes(<<>>, ViewOf(host), ViewOf(host))
  BY <1>1, EmptyLeads DEF Publishes
<1> QED BY <1>1, <1>2, <1>3, <1>5, <1>6, <1>7, ReplyAsideStep

LEMMA PublishStep ==
  ASSUME ConvergeInv, r' = r, crossing' = crossing, HostOk(host'), host'.session = host.session,
         NEW p, Publishes(p, ViewOf(host), ViewOf(host')), channel' = channel \o p
  PROVE  ConvergeInv'
<1>1. r \in Renderers
  BY DEF ConvergeInv, Good
<1>2. Good(r, host', channel \o p, crossing)
  BY <1>1, PublishIsGood DEF ConvergeInv
<1> QED BY <1>2 DEF ConvergeInv

LEMMA MeasuresStep ==
  ASSUME ConvergeInv, Measures
  PROVE  ConvergeInv'
<1> DEFINE m == Event("measurement", host.session, host.config)
<1>1. HostOk(host) /\ ViewOf(host) \in Views /\ host.session \in Nat /\ host.config \in AnyConfigs
  BY ViewTypes DEF ConvergeInv, Good, HostOk, Hosts
<1>2. m \in Events /\ m.type = "measurement"
  BY <1>1, MakesEvent DEF EventTypes
<1>3. r' = r /\ crossing' = crossing /\ host' = host /\ channel' = channel \o <<m>>
  BY DEF Measures, Post
<1> HIDE DEF m
<1>4. ~Turns(m) /\ m.reply = FALSE
  BY <1>2 DEF Turns, Addressed, Events
<1>5. Tells(ViewOf(host), m, ViewOf(host))
  BY <1>4 DEF Tells, IsReply, Granted
<1>6. Publishes(<<m>>, ViewOf(host), ViewOf(host))
  BY <1>1, <1>2, <1>5, PublishesOne
<1> QED BY <1>1, <1>3, <1>6, PublishStep

LEMMA FaultSteps ==
  ASSUME ConvergeInv, StreamFaults \/ SessionFaults
  PROVE  ConvergeInv'
<1>1. HostOk(host) /\ ViewOf(host) \in Views /\ host.session \in Nat /\ host.config \in AnyConfigs
      /\ host.fault \in BOOLEAN /\ host.broke \in BOOLEAN /\ host.stream \in BOOLEAN
      /\ ViewOf(host) = View(host.session, host.config, host.fault)
  BY ViewTypes DEF ConvergeInv, Good, HostOk, Hosts, ViewOf
<1>2. TRUE \in BOOLEAN /\ FALSE \in BOOLEAN /\ NoConfig \in AnyConfigs /\ None \in Nat
  BY Blanks
<1>3. CASE StreamFaults
  <2>1. r' = r /\ crossing' = crossing /\ host' = [host EXCEPT !.stream = FALSE, !.broke = TRUE]
        /\ channel' = channel \o StreamEnd("stream-faulted")
    BY <1>3 DEF StreamFaults, Post
  <2>2. HostOk(host') /\ host'.session = host.session /\ ViewOf(host') = ViewOf(host)
    BY <1>1, <1>2, <2>1, HostChanges, Zenon
  <2>3. Publishes(StreamEnd("stream-faulted"), ViewOf(host), ViewOf(host'))
    BY <1>1, <2>2, EndOfStream
  <2> QED BY <2>1, <2>2, <2>3, PublishStep
<1>4. CASE SessionFaults
  <2> DEFINE b == host.broke \/ host.stream
  <2>1. r' = r /\ crossing' = crossing /\ Operational /\ host' = [Faulted(host) EXCEPT !.broke = b]
        /\ channel' = channel \o (Faults \o StreamEnd("stream-faulted"))
    BY <1>4 DEF SessionFaults, Post, Faulted
  <2>2. b \in BOOLEAN
    BY <1>1
  <2> HIDE DEF b
  <2>3. HostOk(host') /\ host'.session = host.session /\ ViewOf(host') = View(host.session, NoConfig, TRUE)
    BY <1>1, <1>2, <2>1, <2>2, HostChanges, Zenon
  <2>4. ViewOf(host) = View(host.session, host.config, FALSE)
    BY <1>1, <2>1 DEF Operational
  <2>5. Publishes(Faults, ViewOf(host), ViewOf(host'))
    BY <1>1, <1>2, <2>3, <2>4, EndPublishes DEF Faults
  <2>6. Publishes(StreamEnd("stream-faulted"), ViewOf(host'), ViewOf(host'))
    <3>1. ViewOf(host') \in Views
      BY <2>3, ViewTypes DEF HostOk
    <3> QED BY <3>1, EndOfStream
  <2>7. Publishes(Faults \o StreamEnd("stream-faulted"), ViewOf(host), ViewOf(host'))
    BY <2>5, <2>6, PublishesJoined
  <2> QED BY <2>1, <2>3, <2>7, PublishStep
<1> QED BY <1>3, <1>4

-----------------------------------------------------------------------------
(* The steps of the renderer *)

LEMMA QuietStep ==
  ASSUME ConvergeInv, Small(r, r'), UNCHANGED <<host, channel, crossing>>
  PROVE  ConvergeInv'
<1>1. r \in Renderers /\ channel \in Seq(Messages) /\ HostOk(host) /\ crossing \in BOOLEAN
      /\ GateOk(r, channel) /\ Agrees(r, host, channel, crossing)
  BY DEF ConvergeInv, Good
<1>2. Orderly(r') /\ Waits(r, r') /\ r' \in Renderers /\ ViewOf(r') = ViewOf(r) /\ r'.fresh = r.fresh
      /\ r'.session = r.session
  BY <1>1 DEF Small, Keeps, GateOk, ViewOf
<1>3. GateOk(r', channel)
  BY <1>1, <1>2, GateSame
<1>4. Agrees(r', host, channel, crossing)
  BY <1>1, <1>2 DEF Agrees
<1> QED BY <1>1, <1>2, <1>3, <1>4 DEF ConvergeInv, Good

LEMMA AskStep ==
  ASSUME ConvergeInv, NEW op \in {"disconnect", "read"}, Ask(op)
  PROVE  ConvergeInv'
<1> DEFINE t == r.asks \cup {op}
           f == op = "read" \/ r.fresh
           y == [r EXCEPT !.asks = t, !.fresh = f]
<1>1. r \in Renderers /\ channel \in Seq(Messages) /\ HostOk(host) /\ crossing \in BOOLEAN
      /\ GateOk(r, channel) /\ Agrees(r, host, channel, crossing)
  BY DEF ConvergeInv, Good
<1>2. r' = y /\ UNCHANGED <<host, channel, crossing>>
      /\ \A i \in 1..Len(channel) : channel[i].type # op
  BY DEF Ask, Commanded
<1>3. t \in SUBSET {"disconnect", "read"} /\ f \in BOOLEAN /\ (op # "read" => f = r.fresh)
  BY <1>1, Retyped
<1> HIDE DEF t, f
<1>4. y \in Renderers /\ y.session = r.session /\ y.config = r.config /\ y.fault = r.fault
      /\ y.txn = r.txn /\ y.call = r.call /\ y.fresh = f
  BY <1>1, <1>3, Zenon DEF Renderers
<1> HIDE DEF y
<1>5. Orderly(y) /\ Waits(r, y)
  BY <1>1, <1>4, SameOrder DEF GateOk
<1>6. GateOk(y, channel)
  BY <1>1, <1>5, GateSame
<1>7. ViewOf(y) = ViewOf(r)
  BY <1>4 DEF ViewOf
<1>8. ASSUME crossing, host.session = 1
      PROVE  y.session = 1 /\ AtLast(channel, ViewOf(y), ViewOf(host), y.fresh)
  <2>1. r.session = 1 /\ AtLast(channel, ViewOf(r), ViewOf(host), r.fresh)
    BY <1>1, <1>8 DEF Agrees
  <2>2. CASE op = "read"
    <3>1. \A i \in 1..Len(channel) : ~IsReply(channel[i], "read")
      BY <1>2, <2>2 DEF IsReply
    <3>2. AtLast(channel, ViewOf(r), ViewOf(host), y.fresh)
      BY <2>1, <3>1 DEF AtLast, AtOne
    <3> QED BY <1>4, <1>7, <2>1, <3>2
  <2>3. CASE op # "read"
    BY <1>3, <1>4, <1>7, <2>1, <2>3
  <2> QED BY <2>2, <2>3
<1>9. Agrees(y, host, channel, crossing)
  BY <1>1, <1>7, <1>8 DEF Agrees
<1> QED BY <1>1, <1>2, <1>4, <1>6, <1>9 DEF ConvergeInv, Good

LEMMA CommandStep ==
  ASSUME ConvergeInv, Command
  PROVE  ConvergeInv'
<1>1. r \in Renderers /\ Orderly(r) /\ r.config \in AnyConfigs
  BY Retyped DEF ConvergeInv, Good, GateOk
<1>2. ASSUME NEW op \in Operations, Gated(op) PROVE ConvergeInv'
  <2>1. r' = Transact(r, op) /\ UNCHANGED <<host, channel, crossing>>
    BY <1>2 DEF Gated, Commanded
  <2> QED BY <1>1, <2>1, TransactIsSmall, QuietStep
<1>3. ASSUME PressRun PROVE ConvergeInv'
  <2>1. UNCHANGED <<host, channel, crossing>> /\ (r' = RunIq(r) \/ r' = Transact(r, "run"))
    BY <1>3 DEF PressRun, Commanded
  <2>2. "run" \in Operations
    BY DEF Operations
  <2> DEFINE s == r.retained \cup {r.config}
             y == [r EXCEPT !.requested = TRUE, !.continuous = TRUE, !.mode = "iq", !.retained = s]
  <2>3. s \in SUBSET AnyConfigs
    BY <1>1, Retyped
  <2>4. RunIq(r) = PumpTurn(y)
    BY DEF RunIq
  <2> HIDE DEF s
  <2>5. y \in Renderers
    BY <1>1, <2>3, Plainly, Zenon DEF Renderers
  <2>6. SameBut(r, y)
    BY <1>1, Zenon DEF Renderers, SameBut
  <2> HIDE DEF y
  <2>7. Small(r, y) /\ Small(y, PumpTurn(y))
    BY <1>1, <2>5, <2>6, SameGate, PumpTurnIsSmall
  <2>8. Small(r, RunIq(r))
    BY <2>4, <2>7, SmallSteps
  <2> QED BY <1>1, <2>1, <2>2, <2>8, TransactIsSmall, QuietStep
<1>4. ASSUME PressStop PROVE ConvergeInv'
  <2> DEFINE u == Unrequest(r)
             y == [u EXCEPT !.stop = "pending"]
  <2>1. UNCHANGED <<host, channel, crossing>> /\ r' = DrainStop(y)
    BY <1>4 DEF PressStop, Commanded
  <2>2. u \in Renderers /\ Small(r, u)
    BY <1>1, PlainSmall, SmallCall
  <2> HIDE DEF u
  <2>3. y \in Renderers
    BY <2>2, Zenon DEF Renderers
  <2>4. SameBut(u, y)
    BY <2>2, Zenon DEF Renderers, SameBut
  <2> HIDE DEF y
  <2>5. Small(u, y) /\ Small(y, DrainStop(y))
    BY <2>2, <2>3, <2>4, SameGate, DrainStopIsSmall
  <2>6. Small(r, y)
    BY <2>2, <2>5, SmallSteps
  <2>7. Small(r, DrainStop(y))
    BY <2>5, <2>6, SmallSteps
  <2> QED BY <2>1, <2>7, QuietStep
<1>5. ASSUME PressConnect PROVE ConvergeInv'
  BY <1>2, <1>5 DEF PressConnect, Operations
<1>6. ASSUME NEW op \in {"apply", "tap", "capture", "sweep"}, Gated(op) PROVE ConvergeInv'
  BY <1>2, <1>6 DEF Operations
<1>7. ASSUME Ask("disconnect") \/ Ask("read") PROVE ConvergeInv'
  BY <1>7, AskStep
<1> QED BY <1>3, <1>4, <1>5, <1>6, <1>7 DEF Command

LEMMA TimerSteps ==
  ASSUME ConvergeInv, CadenceEnds \/ ReceiptTimesOut
  PROVE  ConvergeInv'
<1>1. r \in Renderers /\ Orderly(r)
  BY DEF ConvergeInv, Good, GateOk
<1>2. CASE CadenceEnds
  BY <1>1, <1>2, PumpTurnIsSmall, QuietStep DEF CadenceEnds
<1>3. CASE ReceiptTimesOut
  BY <1>1, <1>3, RejectIsSmall, QuietStep DEF ReceiptTimesOut
<1> QED BY <1>2, <1>3

LEMMA EventStep ==
  ASSUME ConvergeInv, DeliverEvent
  PROVE  ConvergeInv'
<1>1. PICK i \in 1..Len(channel), good \in BOOLEAN :
        Deliverable(i, FALSE) /\ Taken(i) /\ r' = OnEvent(r, channel[i], good)
  BY DEF DeliverEvent
<1> DEFINE m == channel[i]
           w == Without(channel, i)
<1>2. r \in Renderers /\ channel \in Seq(Messages) /\ HostOk(host) /\ crossing \in BOOLEAN
      /\ GateOk(r, channel) /\ Orderly(r) /\ Agrees(r, host, channel, crossing)
  BY DEF ConvergeInv, Good, GateOk
<1>3. channel' = w /\ UNCHANGED <<host, crossing>>
  BY <1>1 DEF Taken, Without
<1>4. \A j \in 1..Len(channel) : channel[j] \in Messages
  BY <1>2, ElementOfSeq
<1>5. ~m.reply /\ m \in Messages /\ m \in Events
  <2>1. ~m.reply /\ m \in Messages
    BY <1>1, <1>4 DEF Deliverable, Oldest
  <2> QED BY <2>1 DEF Messages, Replies
<1>6. \A j \in 1..(i - 1) : channel[j].reply
  <2>1. Len(channel) \in Nat
    BY <1>2, LenProperties
  <2> SUFFICES ASSUME NEW j \in 1..(i - 1) PROVE channel[j].reply
    OBVIOUS
  <2>2. channel[j].reply # FALSE
    BY <1>1, Zenon DEF Deliverable, Oldest
  <2>3. channel[j] \in Messages
    BY <1>4, <2>1
  <2> QED BY <2>2, <2>3 DEF Messages, Events, Replies
<1>7. crossing \/ i = 1
  BY <1>1 DEF Deliverable
<1> DEFINE y == OnEvent(r, m, good)
<1>8. r' = y
  BY <1>1
<1> HIDE DEF m, w
<1>9. /\ Aside(r, y) /\ ViewOf(y) = Shift(ViewOf(r), m)
      /\ y.fresh <=> (r.fresh /\ m.type = "measurement")
  BY <1>2, <1>5, EventIsAside
<1> HIDE DEF y
<1>10. GateOk(r, w) /\ w \in Seq(Messages)
  BY <1>2, GateTaken, Removed DEF w
<1>11. GateOk(y, w) /\ y \in Renderers
  BY <1>9, <1>10, GateSame DEF Aside
<1>12. ViewOf(r) \in Views /\ ViewOf(host) \in Views
  BY <1>2, ViewTypes DEF HostOk
<1>13. ASSUME ~crossing PROVE Told(w, ViewOf(y), ViewOf(host))
  <2>1. Told(channel, ViewOf(r), ViewOf(host)) /\ i = 1
    BY <1>2, <1>7, <1>13 DEF Agrees
  <2>2. 1 \in 1..Len(channel)
    BY <2>1
  <2>3. PICK c : Tells(ViewOf(r), channel[1], c) /\ Told(Without(channel, 1), c, ViewOf(host))
    BY <1>2, <2>1, <2>2, ToldTaken
  <2>4. c = Shift(ViewOf(r), m)
    BY <1>5, <1>12, <2>1, <2>3, TellsShift DEF m
  <2> QED BY <1>9, <2>1, <2>3, <2>4 DEF w
<1>14. ASSUME crossing, host.session = 1
       PROVE  y.session = 1 /\ AtLast(w, ViewOf(y), ViewOf(host), y.fresh)
  <2>1. r.session = 1 /\ AtLast(channel, ViewOf(r), ViewOf(host), r.fresh)
    BY <1>2, <1>14 DEF Agrees
  <2>2. ViewOf(r).session = 1
    BY <2>1 DEF ViewOf, View
  <2>3. AtLast(w, Shift(ViewOf(r), m), ViewOf(host), y.fresh) /\ Shift(ViewOf(r), m).session = 1
    BY <1>2, <1>5, <1>6, <1>9, <1>12, <2>1, <2>2, EventTaken DEF m, w
  <2>4. ViewOf(y).session = y.session
    BY DEF ViewOf, View
  <2> QED BY <1>9, <2>3, <2>4
<1>15. Agrees(y, host, w, crossing)
  BY <1>13, <1>14 DEF Agrees
<1> QED BY <1>2, <1>3, <1>8, <1>10, <1>11, <1>15 DEF ConvergeInv, Good

LEMMA ReplyStep ==
  ASSUME ConvergeInv, DeliverReply
  PROVE  ConvergeInv'
<1>1. PICK i \in 1..Len(channel) :
        /\ Deliverable(i, TRUE) /\ Taken(i)
        /\ r' = CASE channel[i].type = "disconnect" -> Disconnected(r, channel[i])
                  [] channel[i].type = "read" -> StateRead(r, channel[i])
                  [] OTHER -> OnReply(r, channel[i])
  BY DEF DeliverReply
<1> DEFINE m == channel[i]
           w == Without(channel, i)
<1>2. r \in Renderers /\ channel \in Seq(Messages) /\ HostOk(host) /\ crossing \in BOOLEAN
      /\ GateOk(r, channel) /\ Orderly(r) /\ Agrees(r, host, channel, crossing)
  BY DEF ConvergeInv, Good, GateOk
<1>3. channel' = w /\ UNCHANGED <<host, crossing>>
  BY <1>1 DEF Taken, Without
<1>4. m \in Messages
  BY <1>2, ElementOfSeq
<1>5. m.reply /\ m \in Replies /\ (crossing \/ i = 1)
  <2>1. m.reply /\ (crossing \/ i = 1)
    BY <1>1 DEF Deliverable, Oldest
  <2> QED BY <1>4, <2>1 DEF Messages, Events
<1>6. /\ m.type = "disconnect" => r' = Disconnected(r, m)
      /\ m.type = "read" => r' = StateRead(r, m)
      /\ m.type \notin {"disconnect", "read"} => r' = OnReply(r, m)
  BY <1>1
<1> HIDE DEF m, w
<1>7. GateOk(r, w) /\ w \in Seq(Messages) /\ (IsGateReply(m) => Plain(w))
  BY <1>2, GateTaken, Removed DEF m, w
<1>8. ViewOf(r) \in Views /\ ViewOf(host) \in Views
  BY <1>2, ViewTypes DEF HostOk
<1>9. ASSUME ~crossing
      PROVE  /\ Told(w, ViewOf(r), ViewOf(host))
             /\ IsReply(m, "read") => ViewOf(r) = View(m.session, m.config, ~m.ok)
             /\ Granted(m, "connect") => ViewOf(r) = View(m.session, NoConfig, FALSE)
             /\ Granted(m, "disconnect") => ViewOf(r) = View(None, NoConfig, FALSE)
  <2>1. Told(channel, ViewOf(r), ViewOf(host)) /\ i = 1
    BY <1>2, <1>5, <1>9 DEF Agrees
  <2>2. 1 \in 1..Len(channel)
    BY <2>1
  <2>3. PICK c : Tells(ViewOf(r), channel[1], c) /\ Told(Without(channel, 1), c, ViewOf(host))
    BY <1>2, <2>1, <2>2, ToldTaken
  <2>4. Tells(ViewOf(r), m, c) /\ ~Turns(m)
    BY <1>5, <2>1, <2>3 DEF m, Turns
  <2>5. c = ViewOf(r)
    BY <2>4 DEF Tells
  <2> QED BY <2>1, <2>3, <2>4, <2>5 DEF w, Tells
<1>10. ASSUME crossing, host.session = 1
       PROVE  /\ r.session = 1 /\ AtLast(w, ViewOf(r), ViewOf(host), r.fresh)
              /\ IsReply(m, "read") /\ r.fresh =>
                   AtLast(w, View(m.session, m.config, ~m.ok), ViewOf(host), FALSE) /\ m.session = 1
              /\ ~Granted(m, "connect") /\ ~Granted(m, "disconnect")
  <2>1. r.session = 1 /\ AtLast(channel, ViewOf(r), ViewOf(host), r.fresh)
    BY <1>2, <1>10 DEF Agrees
  <2>2. channel[i].reply
    BY <1>5 DEF m
  <2>3. /\ AtLast(w, ViewOf(r), ViewOf(host), r.fresh)
        /\ IsReply(m, "read") /\ r.fresh =>
             AtLast(w, View(m.session, m.config, ~m.ok), ViewOf(host), FALSE) /\ m.session = 1
        /\ ~Granted(m, "connect") /\ ~Granted(m, "disconnect")
    BY <1>2, <1>8, <2>1, <2>2, ReplyTaken, Zenon DEF m, w
  <2> QED BY <2>1, <2>3
<1> DEFINE y == r'
<1>11. SUFFICES y \in Renderers /\ GateOk(y, w) /\ Agrees(y, host, w, crossing)
  BY <1>2, <1>3, <1>7 DEF ConvergeInv, Good
<1>12. ASSUME NEW z \in Renderers, GateOk(z, w), ViewOf(z) = ViewOf(r), z.fresh = r.fresh
       PROVE  Agrees(z, host, w, crossing)
  <2>1. z.session = r.session
    BY <1>12 DEF ViewOf, View
  <2> QED BY <1>9, <1>10, <1>12, <2>1 DEF Agrees
<1>13. CASE m.type = "disconnect"
  <2>1. CASE m.ok
    <3>1. Aside(r, y) /\ ViewOf(y) = View(None, NoConfig, FALSE)
      BY <1>2, <1>4, <1>6, <1>13, <2>1, DisconnectedIsAside
    <3>2. Granted(m, "disconnect")
      BY <1>5, <1>13, <2>1 DEF Granted, IsReply
    <3>3. GateOk(y, w)
      BY <1>7, <3>1, GateSame DEF Aside
    <3>4. ~crossing => Told(w, ViewOf(y), ViewOf(host))
      BY <1>9, <3>1, <3>2
    <3> QED BY <1>10, <3>1, <3>2, <3>3, <3>4 DEF Agrees, Aside
  <2>2. CASE ~m.ok
    <3>1. y = r
      BY <1>6, <1>13, <2>2 DEF Disconnected
    <3> QED BY <1>2, <1>7, <1>12, <3>1
  <2> QED BY <2>1, <2>2
<1>14. CASE m.type = "read"
  <2>1. /\ Aside(r, y) /\ ~y.fresh
        /\ ViewOf(y) = IF r.fresh THEN View(m.session, m.config, ~m.ok) ELSE ViewOf(r)
    BY <1>2, <1>4, <1>6, <1>14, StateReadIsAside
  <2>2. GateOk(y, w) /\ y \in Renderers
    BY <1>7, <2>1, GateSame DEF Aside
  <2>3. IsReply(m, "read")
    BY <1>5, <1>14 DEF IsReply
  <2>4. ~crossing => Told(w, ViewOf(y), ViewOf(host))
    BY <1>9, <2>1, <2>3
  <2>5. ASSUME crossing, host.session = 1
        PROVE  y.session = 1 /\ AtLast(w, ViewOf(y), ViewOf(host), y.fresh)
    <3>1. ViewOf(y).session = y.session
      BY DEF ViewOf, View
    <3>2. CASE r.fresh
      <4>1. AtLast(w, ViewOf(y), ViewOf(host), FALSE) /\ m.session = 1
        BY <1>10, <2>1, <2>3, <2>5, <3>2
      <4>2. ViewOf(y).session = m.session
        BY <2>1, <3>2 DEF View
      <4>3. AtLast(w, ViewOf(y), ViewOf(host), y.fresh)
        BY <2>1, <4>1 DEF AtLast, AtOne
      <4> QED BY <3>1, <4>1, <4>2, <4>3
    <3>3. CASE ~r.fresh
      <4>1. AtLast(w, ViewOf(y), ViewOf(host), r.fresh) /\ ViewOf(y) = ViewOf(r) /\ r.session = 1
        BY <1>10, <2>1, <2>5, <3>3
      <4>2. AtLast(w, ViewOf(y), ViewOf(host), y.fresh)
        BY <2>1, <3>3, <4>1 DEF AtLast, AtOne
      <4>3. y.session = r.session
        BY <4>1 DEF ViewOf, View
      <4> QED BY <4>1, <4>2, <4>3
    <3> QED BY <3>2, <3>3
  <2> QED BY <2>2, <2>4, <2>5 DEF Agrees
<1>15. CASE m.type \notin {"disconnect", "read"}
  <2>1. IsGateReply(m) /\ r' = OnReply(r, m)
    BY <1>5, <1>6, <1>15 DEF IsGateReply
  <2>2. r.call = NoCall /\ Held(r) /\ m.type = OpOf(r.txn.at) /\ Plain(w)
    BY <1>2, <1>7, <2>1 DEF GateOk, Gated1, m
  <2>3. CASE r.txn.at # "connect" \/ ~m.ok
    <3>1. Done(r, y)
      BY <1>2, <1>4, <2>1, <2>2, <2>3, ReplyIsDone
    <3>2. y \in Renderers /\ Orderly(y) /\ ViewOf(y) = ViewOf(r) /\ y.fresh = r.fresh
      BY <3>1 DEF Done, Keeps, ViewOf
    <3>3. GateOk(y, w)
      BY <2>2, <3>2, GateClosed
    <3> QED BY <1>12, <3>2, <3>3
  <2>4. CASE r.txn.at = "connect" /\ m.ok
    <3>1. y \in Renderers /\ Orderly(y) /\ ViewOf(y) = View(m.session, NoConfig, FALSE)
      BY <1>2, <1>4, <2>1, <2>2, <2>4, ReplyIsDone
    <3>2. Granted(m, "connect")
      BY <1>5, <2>2, <2>4, Phases DEF Granted, IsReply
    <3>3. GateOk(y, w)
      BY <2>2, <3>1, GateClosed
    <3>4. ~crossing => Told(w, ViewOf(y), ViewOf(host))
      BY <1>9, <3>1, <3>2
    <3> QED BY <1>10, <3>1, <3>2, <3>3, <3>4 DEF Agrees
  <2> QED BY <2>3, <2>4
<1> QED BY <1>13, <1>14, <1>15

-----------------------------------------------------------------------------
(* Theorems *)

LEMMA ConvergeInit == Init => ConvergeInv
<1> SUFFICES ASSUME Init PROVE ConvergeInv
  OBVIOUS
<1>1. PICK kind \in Kinds :
        /\ r = RendererInit([rev |-> 1, kind |-> kind])
        /\ host = [session |-> 1, sessions |-> 1, config |-> [rev |-> 1, kind |-> kind], revs |-> 1,
                   fault |-> FALSE, stream |-> FALSE, broke |-> FALSE]
  BY DEF Init
<1>2. channel = <<>> /\ crossing \in BOOLEAN
  BY DEF Init
<1> DEFINE c == [rev |-> 1, kind |-> kind]
<1>3. c \in AnyConfigs
  BY DEF AnyConfigs, Kinds
<1> HIDE DEF c
<1>4. r = RendererInit(c) /\ host = [session |-> 1, sessions |-> 1, config |-> c, revs |-> 1,
                                     fault |-> FALSE, stream |-> FALSE, broke |-> FALSE]
  BY <1>1 DEF c
<1>5. r \in Renderers /\ r.session = 1 /\ r.config = c /\ r.fault = FALSE /\ r.txn = NoTxn /\ r.call = NoCall
  BY <1>3, <1>4, Blanks DEF RendererInit, Renderers
<1>6. HostOk(host) /\ ViewOf(host) = View(1, c, FALSE)
  BY <1>3, <1>4, Blanks DEF HostOk, Hosts, ViewOf
<1>7. Orderly(r)
  BY <1>5, Blanks DEF Orderly, Held
<1>8. ViewOf(r) = ViewOf(host) /\ ViewOf(r) \in Views
  BY <1>5, <1>6, ViewTypes DEF ViewOf
<1>9. Leads(channel, ViewOf(r), ViewOf(r)) /\ Plain(channel) /\ channel \in Seq(Messages)
  BY <1>2, <1>8, EmptyLeads
<1>10. GateOk(r, channel)
  BY <1>7, <1>9, GateClosed
<1>11. Agrees(r, host, channel, crossing)
  <2>1. Told(channel, ViewOf(r), ViewOf(host))
    BY <1>8, <1>9 DEF Leads
  <2>2. AtLast(channel, ViewOf(r), ViewOf(host), r.fresh)
    BY <1>2, <1>8 DEF AtLast
  <2> QED BY <1>5, <2>1, <2>2 DEF Agrees
<1> QED BY <1>2, <1>5, <1>6, <1>9, <1>10, <1>11 DEF ConvergeInv, Good

LEMMA ConvergeNext == ConvergeInv /\ [Next]_vars => ConvergeInv'
<1> SUFFICES ASSUME ConvergeInv, [Next]_vars PROVE ConvergeInv'
  OBVIOUS
<1>1. CASE UNCHANGED vars
  BY <1>1 DEF vars, ConvergeInv
<1>2. CASE Command
  BY <1>2, CommandStep
<1>3. CASE CadenceEnds \/ ReceiptTimesOut
  BY <1>3, TimerSteps
<1>4. CASE Answers
  BY <1>4, StartsStep, StopsStep, AppliesStep, TouchesStep, AcquiresStep, ConnectsStep, RefuseStep DEF Answers
<1>5. CASE Disconnects \/ ReadsState
  BY <1>5, DisconnectsStep, ReadsStep
<1>6. CASE Measures \/ StreamFaults \/ SessionFaults
  BY <1>6, MeasuresStep, FaultSteps
<1>7. CASE DeliverReply
  BY <1>7, ReplyStep
<1>8. CASE DeliverEvent
  BY <1>8, EventStep
<1> QED BY <1>1, <1>2, <1>3, <1>4, <1>5, <1>6, <1>7, <1>8 DEF Next, MainStep

LEMMA ConvergeSafe == ConvergeInv => ViewConverges
<1> SUFFICES ASSUME ConvergeInv, channel = <<>>, crossing => host.session = 1
             PROVE  r.session = host.session /\ r.config = host.config /\ r.fault = host.fault
  BY DEF ViewConverges, Quiet
<1>1. Agrees(r, host, channel, crossing) /\ r \in Renderers /\ host \in Hosts
  BY DEF ConvergeInv, Good, HostOk
<1>2. Len(channel) = 0
  OBVIOUS
<1>3. ViewOf(r) = ViewOf(host)
  <2>1. CASE crossing
    BY <1>1, <1>2, <2>1 DEF Agrees, AtLast
  <2>2. CASE ~crossing
    <3>1. PICK v : v[1] = ViewOf(r) /\ v[Len(channel) + 1] = ViewOf(host)
      BY <1>1, <2>2 DEF Agrees, Told
    <3> QED BY <1>2, <3>1
  <2> QED BY <2>1, <2>2
<1> QED BY <1>3 DEF ViewOf, View

\* Gate order: one call at a time is at the host or its reply on the way, and
\* the transaction that waits for it knows what it asked for
\* (runInstrumentTransaction); the events since say all that the renderer does not
\* show (handleValidatedInstrumentEvent).
THEOREM GateIsOrderly == Spec => []ConvergeInv
<1>1. Init => ConvergeInv
  BY ConvergeInit
<1>2. ConvergeInv /\ [Next]_vars => ConvergeInv'
  BY ConvergeNext
<1> QED BY <1>1, <1>2, PTL DEF Spec

\* When everything is delivered the renderer shows the session, configuration and
\* fault of the main process, for any number of sessions, configurations and
\* commands (acceptInstrumentStateSnapshot, handleValidatedInstrumentEvent).
THEOREM RendererConverges == Spec => []ViewConverges
<1>1. ConvergeInv => ViewConverges
  BY ConvergeSafe
<1> QED BY <1>1, GateIsOrderly, PTL

-----------------------------------------------------------------------------
(* The evidence on the screen: what every piece of the kernel keeps of it *)

\* While an operation is applied there is no evidence, and none can come of the
\* stream: no configuration of a sweep is retained.
Withdrawn(x) == x.evidence = NoEvidence /\ \A c \in x.retained : c.kind = "iq"

\* An owner is a stream's, a one-shot acquisition is of the configuration on display,
\* and no run waits for the pump.
Apt(x) ==
    /\ x.evidence # NoEvidence =>
          x.evidence.session = x.session /\ x.config.rev \in {None, x.evidence.rev}
    /\ x.txn.at = "apply" => Withdrawn(x)
    /\ x.txn.at = "acquire" => x.config \in {NoConfig, x.txn.config}
    /\ x.owner.config.kind # "iq"
    /\ \A i \in 1..Len(x.waiting) : x.waiting[i] # "run"

Proper(x) == x \in Renderers /\ Apt(x)

\* The two agree on all that Apt reads.
Alike(x, y) ==
    /\ y.evidence = x.evidence /\ y.session = x.session /\ y.config = x.config
    /\ y.txn = x.txn /\ y.owner = x.owner /\ y.waiting = x.waiting /\ y.retained = x.retained

LEMMA AlikeProper ==
  ASSUME NEW x, Proper(x), NEW y \in Renderers, Alike(x, y)
  PROVE  Proper(y)
BY DEF Proper, Apt, Alike, Withdrawn

LEMMA TxnProper ==
  ASSUME NEW x, Proper(x), NEW t \in Txns,
         t.at = "apply" => Withdrawn(x), t.at = "acquire" => x.config \in {NoConfig, t.config}
  PROVE  Proper([x EXCEPT !.txn = t])
<1> DEFINE y == [x EXCEPT !.txn = t]
<1>1. y \in Renderers /\ y.txn = t /\ x \in Renderers
  BY Zenon DEF Proper, Renderers
<1>2. /\ y.evidence = x.evidence /\ y.session = x.session /\ y.config = x.config
      /\ y.owner = x.owner /\ y.waiting = x.waiting /\ y.retained = x.retained
  BY <1>1, Zenon DEF Renderers
<1> HIDE DEF y
<1>3. Apt(y)
  BY <1>1, <1>2 DEF Proper, Apt, Withdrawn
<1> QED BY <1>1, <1>3 DEF Proper, y

LEMMA SendProper ==
  ASSUME NEW x, Proper(x), NEW c \in AnyConfigs,
         NEW op \in {"none", "start", "stop", "apply", "touch", "acquire", "connect"}
  PROVE  Proper(Send(x, op, c))
<1> DEFINE k == [op |-> op, config |-> c]
<1>1. k \in Calls
  BY DEF Calls
<1>2. Send(x, op, c) = [x EXCEPT !.call = k] /\ x \in Renderers
  BY DEF Send, Proper
<1> HIDE DEF k
<1>3. [x EXCEPT !.call = k] \in Renderers
  BY <1>1, <1>2, ZenonT(40) DEF Renderers
<1>4. Alike(x, [x EXCEPT !.call = k])
  BY <1>2, Zenon DEF Renderers, Alike
<1> QED BY <1>2, <1>3, <1>4, AlikeProper

\* Flags and counters of the kernel
LEMMA FlagProper ==
  ASSUME NEW x, Proper(x)
  PROVE  /\ \A a \in BOOLEAN :
               /\ Proper([x EXCEPT !.requested = a])
               /\ Proper([x EXCEPT !.continuous = a])
               /\ Proper([x EXCEPT !.fresh = a])
         /\ \A a \in BOOLEAN, b \in BOOLEAN :
               /\ Proper([x EXCEPT !.requested = a, !.continuous = b])
               /\ Proper([x EXCEPT !.continuous = b, !.requested = a])
               /\ Proper([x EXCEPT !.lease = a, !.continuous = b])
         /\ \A a \in BOOLEAN :
               /\ Proper([x EXCEPT !.pump = "off", !.lease = a])
         /\ \A n \in Nat :
               /\ Proper([x EXCEPT !.touches = n])
               /\ Proper([x EXCEPT !.abort = n])
               /\ Proper([x EXCEPT !.stopFailed = n])
         /\ \A d \in Int :
               /\ Proper([x EXCEPT !.depth = d])
         /\ \A s \in {"none", "pending", "gate", "iq"} :
               /\ Proper([x EXCEPT !.stop = s])
               /\ Proper([x EXCEPT !.stop = s, !.requested = FALSE, !.continuous = FALSE])
         /\ \A p \in {"off", "admission", "acquire", "cadence"} :
               /\ Proper([x EXCEPT !.pump = p])
<1>1. x \in Renderers
  BY DEF Proper
<1>2. ASSUME NEW a \in BOOLEAN
      PROVE  Proper([x EXCEPT !.requested = a])
  <2>1. [x EXCEPT !.requested = a] \in Renderers
    BY <1>1, <1>2, Zenon DEF Renderers
  <2>2. Alike(x, [x EXCEPT !.requested = a])
    BY <1>1, Zenon DEF Renderers, Alike
  <2> QED BY <2>1, <2>2, AlikeProper, Zenon
<1>3. ASSUME NEW a \in BOOLEAN
      PROVE  Proper([x EXCEPT !.continuous = a])
  <2>1. [x EXCEPT !.continuous = a] \in Renderers
    BY <1>1, <1>3, Zenon DEF Renderers
  <2>2. Alike(x, [x EXCEPT !.continuous = a])
    BY <1>1, Zenon DEF Renderers, Alike
  <2> QED BY <2>1, <2>2, AlikeProper, Zenon
<1>4. ASSUME NEW a \in BOOLEAN
      PROVE  Proper([x EXCEPT !.fresh = a])
  <2>1. [x EXCEPT !.fresh = a] \in Renderers
    BY <1>1, <1>4, Zenon DEF Renderers
  <2>2. Alike(x, [x EXCEPT !.fresh = a])
    BY <1>1, Zenon DEF Renderers, Alike
  <2> QED BY <2>1, <2>2, AlikeProper, Zenon
<1>5. ASSUME NEW a \in BOOLEAN, NEW b \in BOOLEAN
      PROVE  Proper([x EXCEPT !.requested = a, !.continuous = b])
  <2>1. [x EXCEPT !.requested = a, !.continuous = b] \in Renderers
    BY <1>1, <1>5, Zenon DEF Renderers
  <2>2. Alike(x, [x EXCEPT !.requested = a, !.continuous = b])
    BY <1>1, Zenon DEF Renderers, Alike
  <2> QED BY <2>1, <2>2, AlikeProper, Zenon
<1>6. ASSUME NEW a \in BOOLEAN, NEW b \in BOOLEAN
      PROVE  Proper([x EXCEPT !.continuous = b, !.requested = a])
  <2>1. [x EXCEPT !.continuous = b, !.requested = a] \in Renderers
    BY <1>1, <1>6, Zenon DEF Renderers
  <2>2. Alike(x, [x EXCEPT !.continuous = b, !.requested = a])
    BY <1>1, Zenon DEF Renderers, Alike
  <2> QED BY <2>1, <2>2, AlikeProper, Zenon
<1>7. ASSUME NEW a \in BOOLEAN, NEW b \in BOOLEAN
      PROVE  Proper([x EXCEPT !.lease = a, !.continuous = b])
  <2>1. [x EXCEPT !.lease = a, !.continuous = b] \in Renderers
    BY <1>1, <1>7, Zenon DEF Renderers
  <2>2. Alike(x, [x EXCEPT !.lease = a, !.continuous = b])
    BY <1>1, Zenon DEF Renderers, Alike
  <2> QED BY <2>1, <2>2, AlikeProper, Zenon
<1>8. ASSUME NEW a \in BOOLEAN
      PROVE  Proper([x EXCEPT !.pump = "off", !.lease = a])
  <2>1. [x EXCEPT !.pump = "off", !.lease = a] \in Renderers
    BY <1>1, <1>8, Zenon DEF Renderers
  <2>2. Alike(x, [x EXCEPT !.pump = "off", !.lease = a])
    BY <1>1, Zenon DEF Renderers, Alike
  <2> QED BY <2>1, <2>2, AlikeProper, Zenon
<1>9. ASSUME NEW n \in Nat
      PROVE  Proper([x EXCEPT !.touches = n])
  <2>1. [x EXCEPT !.touches = n] \in Renderers
    BY <1>1, <1>9, Zenon DEF Renderers
  <2>2. Alike(x, [x EXCEPT !.touches = n])
    BY <1>1, Zenon DEF Renderers, Alike
  <2> QED BY <2>1, <2>2, AlikeProper, Zenon
<1>10. ASSUME NEW n \in Nat
      PROVE  Proper([x EXCEPT !.abort = n])
  <2>1. [x EXCEPT !.abort = n] \in Renderers
    BY <1>1, <1>10, Zenon DEF Renderers
  <2>2. Alike(x, [x EXCEPT !.abort = n])
    BY <1>1, Zenon DEF Renderers, Alike
  <2> QED BY <2>1, <2>2, AlikeProper, Zenon
<1>11. ASSUME NEW n \in Nat
      PROVE  Proper([x EXCEPT !.stopFailed = n])
  <2>1. [x EXCEPT !.stopFailed = n] \in Renderers
    BY <1>1, <1>11, Zenon DEF Renderers
  <2>2. Alike(x, [x EXCEPT !.stopFailed = n])
    BY <1>1, Zenon DEF Renderers, Alike
  <2> QED BY <2>1, <2>2, AlikeProper, Zenon
<1>12. ASSUME NEW d \in Int
      PROVE  Proper([x EXCEPT !.depth = d])
  <2>1. [x EXCEPT !.depth = d] \in Renderers
    BY <1>1, <1>12, Zenon DEF Renderers
  <2>2. Alike(x, [x EXCEPT !.depth = d])
    BY <1>1, Zenon DEF Renderers, Alike
  <2> QED BY <2>1, <2>2, AlikeProper, Zenon
<1>13. ASSUME NEW s \in {"none", "pending", "gate", "iq"}
      PROVE  Proper([x EXCEPT !.stop = s])
  <2>1. [x EXCEPT !.stop = s] \in Renderers
    BY <1>1, <1>13, Zenon DEF Renderers
  <2>2. Alike(x, [x EXCEPT !.stop = s])
    BY <1>1, Zenon DEF Renderers, Alike
  <2> QED BY <2>1, <2>2, AlikeProper, Zenon
<1>14. ASSUME NEW s \in {"none", "pending", "gate", "iq"}
      PROVE  Proper([x EXCEPT !.stop = s, !.requested = FALSE, !.continuous = FALSE])
  <2>1. [x EXCEPT !.stop = s, !.requested = FALSE, !.continuous = FALSE] \in Renderers
    BY <1>1, <1>14, Zenon DEF Renderers
  <2>2. Alike(x, [x EXCEPT !.stop = s, !.requested = FALSE, !.continuous = FALSE])
    BY <1>1, Zenon DEF Renderers, Alike
  <2> QED BY <2>1, <2>2, AlikeProper, Zenon
<1>15. ASSUME NEW p \in {"off", "admission", "acquire", "cadence"}
      PROVE  Proper([x EXCEPT !.pump = p])
  <2>1. [x EXCEPT !.pump = p] \in Renderers
    BY <1>1, <1>15, Zenon DEF Renderers
  <2>2. Alike(x, [x EXCEPT !.pump = p])
    BY <1>1, Zenon DEF Renderers, Alike
  <2> QED BY <2>1, <2>2, AlikeProper, Zenon
<1> QED BY <1>2, <1>3, <1>4, <1>5, <1>6, <1>7, <1>8, <1>9, <1>10, <1>11, <1>12, <1>13, <1>14, <1>15

LEMMA ReleaseProper ==
  ASSUME NEW x, Proper(x), NEW gen
  PROVE  Proper(ClearOwnership(x)) /\ Proper(Release(x, gen))
<1> DEFINE y == ClearOwnership(x)
<1>1. x \in Renderers /\ y \in Renderers
  BY PlainSmall DEF Proper, Small, Keeps
<1>2. y.owner = NoOwner
  BY <1>1, Zenon DEF ClearOwnership, Renderers
<1>3. /\ y.evidence = x.evidence /\ y.session = x.session /\ y.config = x.config
      /\ y.txn = x.txn /\ y.waiting = x.waiting /\ y.retained = x.retained
  BY <1>1, Zenon DEF ClearOwnership, Renderers
<1> HIDE DEF y
<1>4. Apt(y)
  BY <1>2, <1>3, Blanks DEF Proper, Apt, Withdrawn
<1> QED BY <1>1, <1>4 DEF Proper, y, Release

LEMMA RunEndsProper ==
  ASSUME NEW x, Proper(x)
  PROVE  Proper(PumpEnds(x)) /\ Proper(Unrequest(x)) /\ Proper(Complete(x)) /\ Proper(PumpFails(x))
         /\ Proper(Unstream(x))
<1>1. ASSUME NEW y, Proper(y) PROVE Proper(PumpEnds(y))
  <2> DEFINE z == [y EXCEPT !.pump = "off", !.lease = FALSE]
  <2>1. Proper(z)
    BY <1>1, FlagProper
  <2>2. PumpEnds(y) = IF y.stop = "iq"
                      THEN [z EXCEPT !.stop = "none", !.requested = FALSE, !.continuous = FALSE] ELSE z
    BY SMTT(40) DEF PumpEnds
  <2> HIDE DEF z
  <2> QED BY ZenonT(40), <2>1, <2>2, FlagProper
<1>2. Proper([x EXCEPT !.requested = FALSE])
  BY FlagProper
<1>3. Proper(Unrequest(x))
  BY SMTT(40), <1>1, <1>2 DEF Unrequest
<1>4. Proper(Complete(x)) /\ Proper(Unstream(x))
  BY <1>3, FlagProper DEF Complete, Unstream
<1> DEFINE b == x.continuous /\ ~x.requested
<1>5. b \in BOOLEAN
  BY Retyped DEF Proper
<1>6. PumpFails(x) = PumpEnds([x EXCEPT !.continuous = b, !.requested = FALSE])
  BY SMTT(40) DEF PumpFails
<1> HIDE DEF b
<1>7. Proper(PumpFails(x))
  BY <1>1, <1>5, <1>6, FlagProper
<1> QED BY SMTT(40), <1>1, <1>3, <1>4, <1>7

LEMMA DrainProper ==
  ASSUME NEW x, Proper(x)
  PROVE  Proper(DrainAbort(x)) /\ Proper(DrainStop(x)) /\ Proper(Drain(x))
<1>1. ASSUME NEW y, Proper(y) PROVE Proper(DrainAbort(y))
  <2>1. CASE Held(y) \/ y.abort = None
    BY SMTT(40), <1>1, <2>1 DEF DrainAbort
  <2>2. CASE ~(Held(y) \/ y.abort = None) /\ y.owner.gen # y.abort
    BY <1>1, <2>2, FlagProper, Blanks DEF DrainAbort
  <2>3. CASE ~(Held(y) \/ y.abort = None) /\ y.owner.gen = y.abort
    <3> DEFINE t == [NoTxn EXCEPT !.op = "abort", !.at = "stop", !.gen = y.owner.gen]
               a == [y EXCEPT !.abort = None]
               b == [a EXCEPT !.requested = FALSE]
    <3>1. y \in Renderers /\ t \in Txns /\ t.at = "stop"
      BY <1>1, Blanks, Retyped DEF Proper, NoTxn, Txns, Ats, Owners
    <3>2. DrainAbort(y) = Send([y EXCEPT !.abort = None, !.requested = FALSE, !.txn = t], "stop", NoConfig)
      BY <2>3 DEF DrainAbort
    <3> HIDE DEF t
    <3>3. [y EXCEPT !.abort = None, !.requested = FALSE, !.txn = t] = [b EXCEPT !.txn = t]
      BY <3>1, Zenon DEF Renderers
    <3>4. Proper(a)
      BY ZenonT(40), <1>1, FlagProper, Blanks
    <3> HIDE DEF a
    <3>5. Proper(b)
      BY <3>4, FlagProper
    <3> HIDE DEF b
    <3>6. Proper([b EXCEPT !.txn = t])
      BY <3>1, <3>5, TxnProper
    <3> QED BY <3>2, <3>3, <3>6, SendProper, Blanks
  <2> QED BY <2>1, <2>2, <2>3
<1>2. ASSUME NEW y, Proper(y) PROVE Proper(DrainStop(y))
  <2>1. CASE Held(y) \/ y.stop # "pending"
    BY <1>2, <2>1 DEF DrainStop
  <2>2. CASE ~(Held(y) \/ y.stop # "pending") /\ y.owner # NoOwner
    <3> DEFINE t == [NoTxn EXCEPT !.op = "stop", !.at = "stop", !.gen = y.owner.gen]
               a == [y EXCEPT !.stop = "gate"]
    <3>1. y \in Renderers /\ t \in Txns /\ t.at = "stop"
      BY <1>2, Blanks, Retyped DEF Proper, NoTxn, Txns, Ats, Owners
    <3>2. DrainStop(y) = Send([y EXCEPT !.stop = "gate", !.txn = t], "stop", NoConfig)
      BY <2>2 DEF DrainStop
    <3> HIDE DEF t
    <3>3. [y EXCEPT !.stop = "gate", !.txn = t] = [a EXCEPT !.txn = t]
      BY <3>1, ZenonT(40) DEF Renderers
    <3>4. Proper(a)
      BY ZenonT(40), <1>2, FlagProper
    <3> HIDE DEF a
    <3>6. Proper([a EXCEPT !.txn = t])
      BY <3>1, <3>4, TxnProper
    <3> QED BY <3>2, <3>3, <3>6, SendProper, Blanks
  <2>3. CASE ~(Held(y) \/ y.stop # "pending") /\ ~(y.owner # NoOwner)
    <3>1. Proper(Complete(y))
      BY <1>2, RunEndsProper
    <3> QED BY <1>2, <2>3, <3>1, FlagProper DEF DrainStop
  <2> QED BY <2>1, <2>2, <2>3
<1> QED BY <1>1, <1>2 DEF Drain

LEMMA PumpTurnProper ==
  ASSUME NEW x, Proper(x)
  PROVE  Proper(PumpTurn(x))
<1>1. CASE ~Current(x) \/ x.depth > 0 \/ Held(x) \/ x.config.kind # "iq"
  <2>1. PumpTurn(x) \in {PumpEnds(x), [x EXCEPT !.pump = "admission"], PumpFails(x)}
    BY SMTT(40), <1>1 DEF PumpTurn
  <2>2. Proper([x EXCEPT !.pump = "admission"])
    BY FlagProper
  <2> QED BY <2>1, <2>2, RunEndsProper
<1>2. CASE ~(~Current(x) \/ x.depth > 0 \/ Held(x) \/ x.config.kind # "iq")
  <2> DEFINE t == [NoTxn EXCEPT !.op = "pump", !.at = "acquire", !.config = x.config]
             s == x.retained \cup {x.config}
             y == [x EXCEPT !.pump = "acquire", !.lease = TRUE, !.retained = s, !.txn = t]
  <2>1. x \in Renderers /\ t \in Txns /\ t.at = "acquire" /\ t.config = x.config /\ s \in SUBSET AnyConfigs
    <3>1. x \in Renderers
      BY Zenon DEF Proper
    <3>2. x.config \in AnyConfigs /\ x.retained \in SUBSET AnyConfigs
      BY <3>1 DEF Renderers
    <3>3. s \in SUBSET AnyConfigs
      BY <3>2
    <3>4. t \in Txns /\ t.at = "acquire" /\ t.config = x.config
      BY <3>2 DEF NoTxn, NoConfig, None, Txns, Ats
    <3> QED BY <3>1, <3>3, <3>4
  <2>2. PumpTurn(x) = Send(y, "acquire", x.config)
    BY <1>2 DEF PumpTurn
  <2> HIDE DEF t, s
  <2>3. y \in Renderers /\ y.txn = t
    BY <2>1, Zenon DEF Renderers
  <2>4. /\ y.evidence = x.evidence /\ y.session = x.session /\ y.config = x.config
        /\ y.owner = x.owner /\ y.waiting = x.waiting
    BY <2>1, Zenon DEF Renderers
  <2> HIDE DEF y
  <2>5. Proper(y)
    BY <2>1, <2>3, <2>4 DEF Proper, Apt
  <2> QED BY <2>1, <2>2, <2>5, SendProper, Retyped
<1> QED BY <1>1, <1>2

LEMMA EndProper ==
  ASSUME NEW x, Proper(x)
  PROVE  Proper(End(x)) /\ Proper(Unpause(x))
<1>1. ASSUME NEW y, Proper(y) PROVE Proper(Unpause(y))
  <2> DEFINE d == y.depth - 1
             z == [y EXCEPT !.depth = d]
  <2>1. d \in Int
    BY <1>1, Retyped DEF Proper
  <2>2. Unpause(y) = IF z.depth = 0 /\ z.pump = "admission" THEN PumpTurn(z) ELSE z
    BY SMTT(40) DEF Unpause
  <2> HIDE DEF d
  <2>3. Proper(z)
    BY <1>1, <2>1, FlagProper
  <2> HIDE DEF z
  <2> QED BY <2>2, <2>3, PumpTurnProper
<1>2. Proper([x EXCEPT !.txn = NoTxn])
  BY TxnProper, Blanks
<1> QED BY <1>1, <1>2, DrainProper DEF End

LEMMA InvalidateProper ==
  ASSUME NEW x, Proper(x), NEW all \in BOOLEAN
  PROVE  /\ Proper(Invalidate(x, all)) /\ Invalidate(x, all).evidence = NoEvidence
         /\ all => Withdrawn(Invalidate(x, all))
<1> DEFINE s == IF all THEN {} ELSE x.retained
           b == x.lease /\ ~all
           y == [x EXCEPT !.evidence = NoEvidence, !.lease = b, !.retained = s]
<1>1. x \in Renderers /\ Invalidate(x, all) = y /\ y \in Renderers
  BY InvalidateKeeps DEF Proper, Invalidate
<1>2. s \subseteq x.retained /\ (all => s = {})
  OBVIOUS
<1> HIDE DEF s, b
<1>3. y.evidence = NoEvidence /\ y.retained = s
  BY <1>1, Zenon DEF Renderers
<1>4. /\ y.session = x.session /\ y.config = x.config /\ y.txn = x.txn
      /\ y.owner = x.owner /\ y.waiting = x.waiting
  BY <1>1, Zenon DEF Renderers
<1> HIDE DEF y
<1>5. Apt(y) /\ (all => Withdrawn(y))
  BY <1>2, <1>3, <1>4 DEF Proper, Apt, Withdrawn
<1> QED BY <1>1, <1>3, <1>5 DEF Proper

\* A transaction moves to a phase and sends its message
LEMMA PhaseProper ==
  ASSUME NEW x, Proper(x), NEW at \in Ats \ {"apply", "acquire"}, NEW c \in AnyConfigs,
         NEW op \in {"none", "start", "stop", "apply", "touch", "acquire", "connect"}
  PROVE  /\ Proper([x EXCEPT !.txn.at = at]) /\ Proper(Send([x EXCEPT !.txn.at = at], op, c))
         /\ \A resume \in {"no", "tap", "scalar", "iq"}, gen \in Nat :
               Proper(Send([x EXCEPT !.txn.at = at, !.txn.resume = resume, !.txn.gen = gen], op, c))
<1>1. x \in Renderers /\ x.txn \in Txns
  BY Retyped DEF Proper
<1>2. Proper([x EXCEPT !.txn.at = at])
  <2> DEFINE t == [x.txn EXCEPT !.at = at]
  <2>1. t \in Txns /\ t.at = at
    BY <1>1 DEF Txns
  <2>2. [x EXCEPT !.txn.at = at] = [x EXCEPT !.txn = t]
    BY <1>1, Zenon DEF Renderers
  <2> HIDE DEF t
  <2>3. Proper([x EXCEPT !.txn = t])
    BY <2>1, TxnProper
  <2> QED BY <2>2, <2>3
<1>3. ASSUME NEW resume \in {"no", "tap", "scalar", "iq"}, NEW gen \in Nat
      PROVE  Proper(Send([x EXCEPT !.txn.at = at, !.txn.resume = resume, !.txn.gen = gen], op, c))
  <2> DEFINE t == [x.txn EXCEPT !.at = at, !.resume = resume, !.gen = gen]
  <2>1. t \in Txns /\ t.at = at
    BY <1>1 DEF Txns
  <2>2. [x EXCEPT !.txn.at = at, !.txn.resume = resume, !.txn.gen = gen] = [x EXCEPT !.txn = t]
    BY <1>1, Zenon DEF Renderers
  <2> HIDE DEF t
  <2>3. Proper([x EXCEPT !.txn = t])
    BY <2>1, TxnProper
  <2> QED BY <2>2, <2>3, SendProper
<1>4. Proper(Send([x EXCEPT !.txn.at = at], op, c))
  BY <1>2, SendProper
<1> QED BY <1>2, <1>3, <1>4

LEMMA RunProper ==
  ASSUME NEW x, Proper(x), x.config.kind # "iq", x.txn.at \notin {"apply", "acquire"}
  PROVE  Proper(Run(x))
<1> DEFINE s == x.retained \cup {x.config}
           y == [x EXCEPT !.requested = TRUE, !.continuous = TRUE, !.mode = "spectrum",
                          !.retained = s]
<1>1. x \in Renderers /\ s \in SUBSET AnyConfigs
  BY Retyped DEF Proper
<1> HIDE DEF s
<1>2. y \in Renderers
  BY <1>1, Zenon DEF Renderers
<1>3. /\ y.evidence = x.evidence /\ y.session = x.session /\ y.config = x.config /\ y.gen = x.gen
      /\ y.txn = x.txn /\ y.owner = x.owner /\ y.waiting = x.waiting
  BY <1>1, Zenon DEF Renderers
<1>4. x.owner # NoOwner => Run(x) = End(y)
  BY DEF Run, s
<1> DEFINE gen == x.gen + 1
           o == [gen |-> gen, session |-> x.session, config |-> x.config]
           t == [x.txn EXCEPT !.at = "start", !.gen = gen]
           v == [y EXCEPT !.gen = gen, !.owner = o, !.stopFailed = None, !.txn.at = "start", !.txn.gen = gen]
           z == [y EXCEPT !.gen = gen, !.owner = o, !.stopFailed = None, !.txn = t]
<1>5. x.owner = NoOwner => Run(x) = Send(v, "start", x.config)
  BY DEF Run, s
<1> HIDE DEF y
<1>6. Proper(y)
  BY <1>2, <1>3 DEF Proper, Apt
<1>7. gen \in Nat /\ o \in Owners /\ x.txn \in Txns /\ o.config = x.config
  BY <1>1, Retyped DEF Owners
<1> HIDE DEF gen
<1>8. t \in Txns /\ t.at = "start"
  BY <1>7 DEF Txns, Ats
<1>9. v = z
  BY <1>2, <1>3, <1>7, Zenon DEF Renderers
<1> HIDE DEF v, o, t
<1>10. z \in Renderers /\ z.txn = t /\ z.owner = o
  BY <1>2, <1>7, <1>8, Blanks, Zenon DEF Renderers, None
<1>11. /\ z.evidence = y.evidence /\ z.session = y.session /\ z.config = y.config
       /\ z.waiting = y.waiting
  BY <1>2, Zenon DEF Renderers
<1> HIDE DEF z
<1>12. Proper(z)
  BY <1>3, <1>6, <1>7, <1>8, <1>10, <1>11 DEF Proper, Apt
<1>13. Proper(Send(z, "start", x.config)) /\ Proper(End(y))
  BY <1>1, <1>6, <1>12, SendProper, EndProper, Retyped
<1> QED BY <1>4, <1>5, <1>9, <1>13

LEMMA ApplyProper ==
  ASSUME NEW x, Proper(x)
  PROVE  Proper(Apply(x))
<1>1. CASE ~Connected(x)
  BY <1>1, EndProper DEF Apply
<1>2. CASE Connected(x)
  <2> DEFINE y == Invalidate(x, TRUE)
             t == [y.txn EXCEPT !.at = "apply"]
  <2>1. Proper(y) /\ Withdrawn(y)
    BY InvalidateProper
  <2>2. Apply(x) = Send([y EXCEPT !.txn.at = "apply"], "apply", NoConfig)
    BY <1>2 DEF Apply
  <2> HIDE DEF y
  <2>3. y \in Renderers /\ y.txn \in Txns
    BY <2>1, Retyped DEF Proper
  <2>4. [y EXCEPT !.txn.at = "apply"] = [y EXCEPT !.txn = t]
    BY <2>3, Zenon DEF Renderers
  <2>5. t \in Txns /\ t.at = "apply"
    BY <2>3 DEF Txns, Ats
  <2> HIDE DEF t
  <2>6. Proper([y EXCEPT !.txn = t])
    BY <2>1, <2>5, TxnProper
  <2> QED BY <2>2, <2>4, <2>6, SendProper, Blanks
<1> QED BY <1>1, <1>2

LEMMA TouchProper ==
  ASSUME NEW x, Proper(x)
  PROVE  Proper(Touch(x)) /\ Proper(Tap(x))
<1>1. Proper(Touch(x))
  <2>1. CASE ~Connected(x) \/ x.fault
    BY <2>1, EndProper DEF Touch
  <2>2. CASE ~(~Connected(x) \/ x.fault)
    <3> DEFINE n == x.touches + 1
               y == [x EXCEPT !.touches = n]
    <3>1. Touch(x) = Send([x EXCEPT !.txn.at = "touch", !.touches = n], "touch", NoConfig)
      BY <2>2 DEF Touch
    <3>2. n \in Nat /\ x \in Renderers
      BY Retyped DEF Proper
    <3> HIDE DEF n
    <3>3. [x EXCEPT !.txn.at = "touch", !.touches = n] = [y EXCEPT !.txn.at = "touch"]
      BY <3>2, ZenonT(40) DEF Renderers
    <3>4. Proper(y)
      BY <3>2, FlagProper
    <3> HIDE DEF y
    <3>5. "touch" \in Ats \ {"apply", "acquire"} /\ NoConfig \in AnyConfigs
      BY Phases, Blanks
    <3>6. Proper(Send([y EXCEPT !.txn.at = "touch"], "touch", NoConfig))
      BY <3>4, <3>5, PhaseProper, Zenon
    <3> QED BY <3>1, <3>3, <3>6
  <2> QED BY <2>1, <2>2
<1>2. x.owner.gen \in Nat
  BY SMTT(40), Retyped DEF Proper, Owners
<1>3. Proper(Send([x EXCEPT !.txn.at = "pause", !.txn.resume = "tap", !.txn.gen = x.owner.gen],
                  "stop", NoConfig))
  BY <1>2, PhaseProper, Blanks, Phases
<1> QED BY <1>1, <1>3 DEF Tap

LEMMA PausedFailsProper ==
  ASSUME NEW x, Proper(x)
  PROVE  Proper(PausedFails(x)) /\ Proper(RunFails(x))
<1> DEFINE a == x.requested /\ x.owner # NoOwner
           b == x.continuous /\ x.owner # NoOwner
           y == [Unrequest(x) EXCEPT !.lease = FALSE, !.continuous = FALSE]
<1>1. a \in BOOLEAN /\ b \in BOOLEAN
  BY Retyped DEF Proper
<1>2. PausedFails(x) \in {End([x EXCEPT !.requested = FALSE, !.continuous = b]), End(y), End(x)}
  BY DEF PausedFails
<1>3. RunFails(x) = End([x EXCEPT !.requested = a, !.continuous = b])
  BY SMTT(40) DEF RunFails
<1>4. Proper(y)
  BY ZenonT(40), RunEndsProper, FlagProper
<1> HIDE DEF a, b, y
<1>5. Proper([x EXCEPT !.requested = FALSE, !.continuous = b])
      /\ Proper([x EXCEPT !.requested = a, !.continuous = b])
  BY <1>1, FlagProper
<1> QED BY <1>2, <1>3, <1>4, <1>5, EndProper

LEMMA AcquireProper ==
  ASSUME NEW x, Proper(x), NEW kind
  PROVE  Proper(Acquire(x, kind))
<1>1. CASE x.config.kind # kind
  BY <1>1, PausedFailsProper DEF Acquire
<1>2. CASE x.config.kind = kind
  <2> DEFINE t == [x.txn EXCEPT !.at = "acquire", !.config = x.config]
             s == x.retained \cup {x.config}
             z == [x EXCEPT !.txn = t, !.retained = s]
  <2>1. Acquire(x, kind) = Send([x EXCEPT !.txn.at = "acquire", !.txn.config = x.config,
                                          !.retained = s], "acquire", x.config)
    BY <1>2 DEF Acquire
  <2>2. x \in Renderers /\ s \in SUBSET AnyConfigs /\ x.txn \in Txns /\ x.config \in AnyConfigs
    BY Retyped DEF Proper
  <2> HIDE DEF s
  <2>3. [x EXCEPT !.txn.at = "acquire", !.txn.config = x.config, !.retained = s] = z
    BY <2>2, Zenon DEF Renderers
  <2>4. t \in Txns /\ t.at = "acquire" /\ t.config = x.config
    BY <2>2 DEF Txns, Ats
  <2> HIDE DEF t
  <2>5. z \in Renderers /\ z.txn = t
    BY <2>2, <2>4, Zenon DEF Renderers
  <2>6. /\ z.evidence = x.evidence /\ z.session = x.session /\ z.config = x.config
        /\ z.owner = x.owner /\ z.waiting = x.waiting
    BY <2>2, Zenon DEF Renderers
  <2> HIDE DEF z
  <2>7. Proper(z)
    BY <2>4, <2>5, <2>6 DEF Proper, Apt
  <2> QED BY <2>1, <2>2, <2>3, <2>7, SendProper
<1> QED BY <1>1, <1>2

LEMMA CaptureProper ==
  ASSUME NEW x, Proper(x), x.txn.at = "body"
  PROVE  Proper(Capture(x))
<1> DEFINE t == [x.txn EXCEPT !.resume = "iq"]
<1>1. x \in Renderers /\ x.owner.gen \in Nat
  BY Retyped DEF Proper, Owners
<1>2. t \in Txns /\ t.at = "body"
  BY <1>1, Retyped DEF Txns
<1>3. [x EXCEPT !.txn.resume = "iq"] = [x EXCEPT !.txn = t]
  BY <1>1, Zenon DEF Renderers
<1> HIDE DEF t
<1>4. Proper([x EXCEPT !.txn.resume = "iq"])
  BY <1>2, <1>3, TxnProper
<1>5. Proper(Send([x EXCEPT !.txn.at = "pause", !.txn.resume = "scalar", !.txn.gen = x.owner.gen],
                  "stop", NoConfig))
  BY <1>1, PhaseProper, Blanks, Phases
<1>6. Proper(Acquire(x, "iq")) /\ Proper(Acquire([x EXCEPT !.txn.resume = "iq"], "iq")) /\ Proper(End(x))
  BY <1>4, AcquireProper, EndProper
<1> QED BY <1>5, <1>6 DEF Capture

LEMMA ConnectProper ==
  ASSUME NEW x, Proper(x)
  PROVE  Proper(Connect(x))
<1> DEFINE y == Invalidate(x, FALSE)
<1>1. Proper(y)
  BY InvalidateProper
<1>2. Connect(x) = Send([y EXCEPT !.txn.at = "connect"], "connect", NoConfig)
  BY DEF Connect
<1> HIDE DEF y
<1>3. "connect" \in Ats \ {"apply", "acquire"} /\ NoConfig \in AnyConfigs
  BY Phases, Blanks
<1>4. Proper(Send([y EXCEPT !.txn.at = "connect"], "connect", NoConfig))
  BY <1>1, <1>3, PhaseProper, Zenon
<1> QED BY <1>2, <1>4

\* A run is admitted with the configuration of a sweep only.
LEMMA AdmitProper ==
  ASSUME NEW x, Proper(x), NEW op \in Operations, op = "run" => x.config.kind # "iq",
         NEW paused \in BOOLEAN
  PROVE  Proper(Admit(x, op, paused))
<1> DEFINE t == [NoTxn EXCEPT !.op = op, !.at = "body", !.paused = paused]
           y == [x EXCEPT !.txn = t]
<1>1. t \in Txns /\ t.at = "body" /\ x \in Renderers
  BY DEF NoTxn, Txns, NoConfig, AnyConfigs, None, Proper
<1> HIDE DEF t
<1>2. Proper(y)
  BY <1>1, TxnProper
<1>3. y.txn = t /\ y.config = x.config
  BY <1>1, Zenon DEF Renderers
<1>4. Admit(x, op, paused) = Body(y, op)
  BY DEF Admit, t
<1> HIDE DEF y
<1>5. op # "run" => Body(y, op) \in {Apply(y), Tap(y), Capture(y), Acquire(y, "swept"), Connect(y)}
  BY DEF Body, Operations
<1>6. op = "run" => Body(y, op) = Run(y)
  BY DEF Body
<1>7. Proper(Apply(y)) /\ Proper(Tap(y)) /\ Proper(Capture(y)) /\ Proper(Acquire(y, "swept"))
      /\ Proper(Connect(y))
  BY <1>1, <1>2, <1>3, ApplyProper, TouchProper, CaptureProper, AcquireProper, ConnectProper
<1>8. op = "run" => Proper(Run(y))
  BY <1>1, <1>2, <1>3, RunProper
<1> QED BY <1>4, <1>5, <1>6, <1>7, <1>8

LEMMA TransactProper ==
  ASSUME NEW x, Proper(x), NEW op \in Operations,
         op = "run" => x.config.kind # "iq" /\ ~Current(x)
  PROVE  Proper(Transact(x, op))
<1> DEFINE d == x.depth + 1
           y == IF Current(x) THEN [x EXCEPT !.depth = d] ELSE x
           w == Append(y.waiting, op)
           v == [y EXCEPT !.waiting = w]
<1>1. d \in Int /\ x \in Renderers /\ Current(x) \in BOOLEAN
  BY Retyped DEF Proper, Current
<1>2. Transact(x, op) \in {v, Admit(y, op, Current(x)), x} /\ (Transact(x, op) = v => Current(x) \/ v \in {Admit(y, op, Current(x)), x})
  BY DEF Transact
<1> HIDE DEF d
<1>3. Proper(y) /\ y.config = x.config
  BY <1>1, FlagProper, Zenon DEF Renderers
<1> HIDE DEF y
<1>4. Proper(Admit(y, op, Current(x)))
  BY <1>1, <1>3, AdmitProper
<1>5. y \in Renderers /\ y.waiting \in Seq(Operations)
  BY <1>3, Retyped DEF Proper
<1>6. w \in Seq(Operations) /\ Len(w) = Len(y.waiting) + 1 /\ Len(y.waiting) \in Nat
      /\ \A i \in 1..Len(w) : w[i] = IF i <= Len(y.waiting) THEN y.waiting[i] ELSE op
  BY <1>5, AppendProperties, LenProperties
<1> HIDE DEF w
<1>7. v \in Renderers /\ v.waiting = w
  BY <1>5, <1>6, Zenon DEF Renderers
<1>8. /\ v.evidence = y.evidence /\ v.session = y.session /\ v.config = y.config
      /\ v.txn = y.txn /\ v.owner = y.owner /\ v.retained = y.retained
  BY <1>5, Zenon DEF Renderers
<1> HIDE DEF v
<1>9. ASSUME Current(x), NEW i \in 1..Len(w) PROVE w[i] # "run"
  <2>1. \A k \in 1..Len(y.waiting) : y.waiting[k] # "run"
    BY <1>3 DEF Proper, Apt
  <2> QED BY <1>6, <1>9, <2>1
<1>10. Current(x) => Proper(v)
  BY <1>3, <1>7, <1>8, <1>9 DEF Proper, Apt, Withdrawn
<1> QED BY <1>2, <1>4, <1>10

LEMMA ResumeProper ==
  ASSUME NEW x, Proper(x)
  PROVE  Proper(Resume(x))
<1>1. CASE x.waiting = <<>>
  BY <1>1 DEF Resume
<1>2. CASE x.waiting # <<>>
  <2> DEFINE d == x.depth - (Len(x.waiting) - 1)
             y == [x EXCEPT !.waiting = <<>>, !.depth = d]
  <2>1. d \in Int /\ Head(x.waiting) \in Operations /\ <<>> \in Seq(Operations) /\ x \in Renderers
        /\ Len(x.waiting) \in Nat \ {0} /\ Head(x.waiting) = x.waiting[1]
    BY <1>2, Retyped, HeadTailProperties, LenProperties, EmptySeq DEF Proper
  <2>2. Resume(x) = IF Held(y) THEN Unpause(y) ELSE Admit(y, Head(x.waiting), TRUE)
    BY <1>2 DEF Resume
  <2>3. Head(x.waiting) # "run"
    BY <2>1 DEF Proper, Apt
  <2> HIDE DEF d
  <2>4. y \in Renderers /\ y.waiting = <<>>
    BY <2>1, Zenon DEF Renderers
  <2>5. /\ y.evidence = x.evidence /\ y.session = x.session /\ y.config = x.config
        /\ y.txn = x.txn /\ y.owner = x.owner /\ y.retained = x.retained
    BY <2>1, Zenon DEF Renderers
  <2> HIDE DEF y
  <2>6. Proper(y)
    BY <2>4, <2>5 DEF Proper, Apt, Withdrawn
  <2> QED BY <2>1, <2>2, <2>3, <2>6, EndProper, AdmitProper
<1> QED BY <1>1, <1>2

LEMMA AcceptProper ==
  ASSUME NEW x, Proper(x), NEW s \in Nat, NEW c \in AnyConfigs, NEW f \in BOOLEAN,
         c = NoConfig \/ c = x.config \/ (x.evidence = NoEvidence /\ x.txn.at # "acquire")
  PROVE  Proper(Accept(x, s, c, f))
<1> DEFINE y == IF s # x.session THEN Invalidate(x, TRUE) ELSE x
           z == [y EXCEPT !.session = s, !.config = c, !.fault = f, !.fresh = FALSE]
<1>1. Proper(y) /\ (s # x.session => y.evidence = NoEvidence)
  BY InvalidateProper
<1>2. y.evidence \in {x.evidence, NoEvidence} /\ y.config = x.config /\ y.txn = x.txn /\ y.owner = x.owner
  <2>1. x \in Renderers
    BY DEF Proper
  <2>2. Invalidate(x, TRUE).evidence = NoEvidence /\ SameBut(x, Invalidate(x, TRUE))
        /\ Invalidate(x, TRUE).owner = x.owner
    BY <2>1, InvalidateProper, InvalidateKeeps, ZenonT(40) DEF Invalidate, Renderers
  <2> QED BY <2>2 DEF SameBut
<1>3. s = x.session \/ y.evidence = NoEvidence
  BY <1>1
<1>4. s = x.session => y.session = s
  OBVIOUS
<1>5. Accept(x, s, c, f) = z
  BY DEF Accept
<1> HIDE DEF y
<1>6. y \in Renderers
  BY <1>1 DEF Proper
<1>7. z \in Renderers
  BY <1>6, Zenon DEF Renderers
<1>8. z.session = s /\ z.config = c
  BY <1>6, Zenon DEF Renderers
<1>9. /\ z.evidence = y.evidence /\ z.txn = y.txn /\ z.owner = y.owner
      /\ z.waiting = y.waiting /\ z.retained = y.retained
  BY <1>6, Zenon DEF Renderers
<1> HIDE DEF z
<1>10. Apt(z)
  BY <1>1, <1>2, <1>3, <1>4, <1>8, <1>9, Blanks DEF Proper, Apt, Withdrawn
<1> QED BY <1>5, <1>7, <1>10 DEF Proper

\* What is recorded is of the session and of the configuration on the screen.
LEMMA RecordProper ==
  ASSUME NEW x, Proper(x), NEW m \in Messages, m.session = x.session,
         x.config \in {NoConfig, m.config}, x.txn.at # "apply"
  PROVE  /\ Proper(Record(x, m)) /\ Record(x, m).config = x.config /\ Record(x, m).session = x.session
         /\ Record(x, m).txn = x.txn
<1> DEFINE v == [session |-> m.session, rev |-> m.config.rev]
           y == [x EXCEPT !.evidence = v]
<1>1. v.session = m.session /\ v.rev = m.config.rev
  OBVIOUS
<1>2. x \in Renderers /\ Record(x, m) = y /\ y \in Renderers
  BY RecordIsSmall DEF Proper, Record
<1> HIDE DEF v
<1>3. y.evidence = v
  BY <1>2, Zenon DEF Renderers
<1>4. /\ y.session = x.session /\ y.config = x.config /\ y.txn = x.txn
      /\ y.owner = x.owner /\ y.waiting = x.waiting
  BY <1>2, Zenon DEF Renderers
<1> HIDE DEF y
<1>5. Apt(y)
  BY <1>1, <1>3, <1>4, Blanks DEF Proper, Apt
<1> QED BY <1>2, <1>4, <1>5 DEF Proper

LEMMA StartedProper ==
  ASSUME NEW x, Proper(x), NEW m
  PROVE  Proper(Started(x, m))
<1>1. /\ Proper(Send([x EXCEPT !.txn.at = "compensate"], "stop", NoConfig))
      /\ Proper(Send([x EXCEPT !.txn.at = "unstart"], "stop", NoConfig))
  <2>1. {"compensate", "unstart"} \subseteq Ats \ {"apply", "acquire"} /\ NoConfig \in AnyConfigs
    BY Phases, Blanks
  <2> QED BY <2>1, PhaseProper, Zenon
<1> QED BY <1>1, PausedFailsProper, EndProper DEF Started, Compensate

LEMMA PausedProper ==
  ASSUME NEW x, Proper(x), NEW m
  PROVE  Proper(Paused(x, m))
<1> DEFINE y == Release(x, x.txn.gen)
<1>1. Proper(y)
  BY ReleaseProper
<1>2. Paused(x, m) \in {PausedFails(x), Touch(y), PausedFails(y), Acquire(y, "iq")}
  BY DEF Paused
<1> HIDE DEF y
<1> QED BY <1>1, <1>2, PausedFailsProper, TouchProper, AcquireProper

LEMMA ReceiptProper ==
  ASSUME NEW x, Proper(x), NEW what \in {"reply", "result", "invalidated"}
  PROVE  Proper(Receipt(x, what)) /\ Proper(RejectReceipt(x))
<1> DEFINE s == x.txn.receipts \cup {what}
           t == [x.txn EXCEPT !.receipts = s]
           y == [x EXCEPT !.txn.receipts = s]
<1>1. x \in Renderers /\ x.txn \in Txns /\ x.txn.receipts \in SUBSET {"reply", "result", "invalidated"}
  BY Retyped DEF Proper, Txns
<1>2. Receipt(x, what) \in {y, End(Complete(y)), End(y)}
  BY DEF Receipt
<1>3. y = [x EXCEPT !.txn = t]
  BY <1>1, Zenon DEF Renderers
<1>4. t \in Txns /\ t.at = x.txn.at /\ t.config = x.txn.config
  <2>1. s \in SUBSET {"reply", "result", "invalidated"}
    BY <1>1
  <2> HIDE DEF s
  <2> QED BY <1>1, <2>1 DEF Txns
<1> HIDE DEF t
<1>5. Proper([x EXCEPT !.txn = t])
  <2>1. (t.at = "apply" => Withdrawn(x)) /\ (t.at = "acquire" => x.config \in {NoConfig, t.config})
    BY <1>4 DEF Proper, Apt
  <2> QED BY <1>4, <2>1, TxnProper
<1> HIDE DEF y
<1>6. Proper(y)
  BY <1>3, <1>5
<1>7. Proper(Receipt(x, what))
  BY <1>2, <1>6, EndProper, RunEndsProper
<1>8. Proper([x EXCEPT !.txn.at = "expired"])
  <2>1. "expired" \in Ats \ {"apply", "acquire"} /\ NoConfig \in AnyConfigs
    BY Phases, Blanks
  <2> QED BY <2>1, PhaseProper, Zenon
<1> QED BY <1>7, <1>8, EndProper DEF RejectReceipt

LEMMA AcquiredProper ==
  ASSUME NEW x, Proper(x), x.txn.at = "acquire", NEW m \in Messages
  PROVE  Proper(Acquired(x, m)) /\ Proper(Pumped(x, m))
<1>1. x.config \in {NoConfig, x.txn.config}
  BY DEF Proper, Apt
<1>2. Bound(x, m) => Proper(Record(x, m))
  BY <1>1, RecordProper DEF Bound
<1>3. Proper(Acquired(x, m))
  <2> DEFINE y == Record(x, m)
  <2>1. Acquired(x, m) \in {PausedFails(x), End(y), PausedFails(y), End(Complete(y))}
        /\ (~Bound(x, m) => Acquired(x, m) = PausedFails(x))
    BY DEF Acquired
  <2> HIDE DEF y
  <2>2. Bound(x, m) => Proper(y)
    BY <1>2 DEF y
  <2> QED BY <2>1, <2>2, PausedFailsProper, EndProper, RunEndsProper
<1>4. Proper(Pumped(x, m))
  <2> DEFINE y == IF Bound(x, m) /\ x.lease /\ m.config = x.config THEN Record(x, m) ELSE x
             z == Drain([y EXCEPT !.txn = NoTxn])
  <2>1. Proper(y)
    BY <1>2
  <2>2. Pumped(x, m) \in {Resume(PumpFails(z)), Resume([z EXCEPT !.pump = "cadence"]), Resume(PumpEnds(z))}
    BY DEF Pumped
  <2> HIDE DEF y
  <2>3. Proper([y EXCEPT !.txn = NoTxn])
    BY <2>1, TxnProper, Blanks
  <2>4. Proper(z)
    BY SMTT(40), <2>3, DrainProper
  <2> HIDE DEF z
  <2>5. Proper([z EXCEPT !.pump = "cadence"])
    BY <2>4, FlagProper
  <2> QED BY <2>2, <2>4, <2>5, RunEndsProper, ResumeProper
<1> QED BY <1>3, <1>4

LEMMA StoppedProper ==
  ASSUME NEW x, Proper(x), x.txn.op \in {"stop", "abort"}, NEW m \in Messages
  PROVE  Proper(Stopped(x, m))
<1> DEFINE y == Release(x, x.txn.gen)
<1>1. Proper(y)
  BY ReleaseProper
<1>2. m.ok \in BOOLEAN /\ x.txn.gen \in Nat
  BY Retyped DEF Proper, Messages, Events, Replies, Txns
<1>3. Stopped(x, m) \in {End([Complete(y) EXCEPT !.stop = "none"]), End([x EXCEPT !.stop = "none"]),
                         End([y EXCEPT !.continuous = FALSE]), End([x EXCEPT !.stopFailed = x.txn.gen])}
  BY <1>2 DEF Stopped
<1> HIDE DEF y
<1>4. Proper(Complete(y))
  BY <1>1, RunEndsProper
<1>5. /\ Proper([Complete(y) EXCEPT !.stop = "none"]) /\ Proper([x EXCEPT !.stop = "none"])
      /\ Proper([y EXCEPT !.continuous = FALSE]) /\ Proper([x EXCEPT !.stopFailed = x.txn.gen])
  BY <1>1, <1>2, <1>4, FlagProper
<1> QED BY <1>3, <1>5, EndProper

LEMMA ReplyProper ==
  ASSUME NEW x, Proper(x), Orderly(x), Held(x), NEW m \in Messages
  PROVE  Proper(OnReply(x, m))
<1>1. x.txn.at \in Ats /\ m.ok \in BOOLEAN /\ m.session \in Nat
  BY DEF Orderly, Messages, Events, Replies
<1> DEFINE y == Release(x, x.txn.gen)
<1>2. /\ x.txn.at = "start" => OnReply(x, m) = Started(x, m)
      /\ x.txn.at = "compensate" => OnReply(x, m) \in {RunFails(y), RunFails(x)}
      /\ x.txn.at = "unstart" => OnReply(x, m) \in {End(Complete(y)), RunFails(x)}
      /\ x.txn.at = "apply" => OnReply(x, m) = End(x)
      /\ x.txn.at = "pause" => OnReply(x, m) = Paused(x, m)
      /\ x.txn.at \in {"touch", "expired"} => OnReply(x, m) \in {End(x), Receipt(x, "reply")}
      /\ x.txn.at = "acquire" => OnReply(x, m) \in {Pumped(x, m), Acquired(x, m)}
      /\ x.txn.at = "connect" => OnReply(x, m) \in {End(Accept(x, m.session, NoConfig, FALSE)), End(x)}
      /\ x.txn.at = "stop" => OnReply(x, m) = Stopped(x, m)
  BY DEF OnReply, Touched
<1>3. Proper(y)
  BY ReleaseProper
<1> HIDE DEF y
<1>4. Proper(Accept(x, m.session, NoConfig, FALSE))
  BY <1>1, AcceptProper, Blanks
<1>5. Proper(Complete(y))
  BY <1>3, RunEndsProper
<1>6. x.txn.at = "stop" => Proper(Stopped(x, m))
  BY StoppedProper DEF Orderly
<1>7. x.txn.at = "acquire" => Proper(Pumped(x, m)) /\ Proper(Acquired(x, m))
  BY AcquiredProper
<1>8. /\ Proper(Started(x, m)) /\ Proper(RunFails(y)) /\ Proper(RunFails(x)) /\ Proper(End(Complete(y)))
      /\ Proper(End(x)) /\ Proper(Paused(x, m)) /\ Proper(Receipt(x, "reply"))
      /\ Proper(End(Accept(x, m.session, NoConfig, FALSE)))
  BY <1>3, <1>4, <1>5, StartedProper, PausedFailsProper, EndProper, PausedProper, ReceiptProper
<1>9. x.txn.at \in {"start", "compensate", "unstart", "apply", "pause", "touch", "expired", "acquire",
                    "connect", "stop"}
  BY <1>1, Phases
<1> QED BY <1>2, <1>6, <1>7, <1>8, <1>9

LEMMA AsideProper ==
  ASSUME NEW x, Proper(x), NEW m \in Messages
  PROVE  /\ Proper(Disconnected(x, m))
         /\ (x.fresh => m.config = x.config) => Proper(StateRead(x, m))
<1>1. Proper(Disconnected(x, m))
  <2> DEFINE z == [Unrequest(x) EXCEPT !.continuous = FALSE]
             v == Accept(z, None, NoConfig, FALSE)
  <2>1. Proper(z)
    BY RunEndsProper DEF Unstream
  <2>2. Disconnected(x, m) \in {x, Invalidate(v, FALSE)}
    BY DEF Disconnected
  <2> HIDE DEF z
  <2>3. Proper(v)
    BY <2>1, AcceptProper, Blanks
  <2> HIDE DEF v
  <2> QED BY <2>2, <2>3, InvalidateProper
<1>2. ASSUME x.fresh => m.config = x.config PROVE Proper(StateRead(x, m))
  <2> DEFINE f == ~m.ok
  <2>1. m.session \in Nat /\ m.config \in AnyConfigs /\ f \in BOOLEAN
    BY DEF Messages, Events, Replies
  <2>2. StateRead(x, m) = IF x.fresh THEN Accept(x, m.session, m.config, f) ELSE x
    BY DEF StateRead
  <2> HIDE DEF f
  <2> QED BY <1>2, <2>1, <2>2, AcceptProper
<1> QED BY <1>1, <1>2

LEMMA MeasuredProper ==
  ASSUME NEW x, Proper(x), NEW m \in Messages, NEW good
  PROVE  Proper(Measured(x, m, good))
<1> DEFINE y == [x EXCEPT !.abort = x.owner.gen]
<1>1. Measured(x, m, good) \in {x, Record(x, m), DrainAbort(y)}
  BY DEF Measured, RequestAbort
<1>2. CASE ~(m.session = x.session /\ m.config = x.config /\ m.config \in x.retained /\ m.config = x.owner.config)
  <2>1. Measured(x, m, good) \in {x, RequestAbort(x)}
    BY <1>2 DEF Measured
  <2>2. RequestAbort(x) \in {x, DrainAbort(y)}
    BY DEF RequestAbort
  <2>3. x.owner.gen \in Nat
    BY SMTT(40), Retyped DEF Proper, Owners
  <2>4. Proper(y)
    BY ZenonT(40), <2>3, FlagProper
  <2> HIDE DEF y
  <2> QED BY <2>1, <2>2, <2>4, DrainProper
<1>3. x.owner.gen \in Nat
  BY Retyped DEF Proper, Owners
<1>4. Proper(y)
  BY <1>3, FlagProper
<1> HIDE DEF y
<1>5. Proper(DrainAbort(y))
  BY <1>4, DrainProper
<1>7. CASE m.session = x.session /\ m.config = x.config /\ m.config \in x.retained /\ m.config = x.owner.config
  <2>1. x.txn.at # "apply"
    BY <1>7 DEF Proper, Apt, Withdrawn
  <2>2. Proper(Record(x, m))
    BY <1>7, <2>1, RecordProper
  <2> QED BY <1>1, <1>5, <2>2
<1> QED BY <1>2, <1>7

\* A new configuration is told while the operation that applied it waits for its
\* reply.
LEMMA EventProper ==
  ASSUME NEW e, Proper(e), NEW m \in Events, NEW good, m.type = "configured" => e.txn.at = "apply"
  PROVE  Proper(OnEvent(e, m, good))
<1>1. m.type \in EventTypes /\ m \in Messages /\ m.session \in Nat /\ m.config \in AnyConfigs
  BY DEF Events, Messages
<1>2. CASE m.type = "measurement"
  BY <1>1, <1>2, OnMeasurement, MeasuredProper
<1>3. CASE m.type # "measurement"
  <2> DEFINE x == IF m.type = "measurement" THEN e ELSE [e EXCEPT !.fresh = FALSE]
             q == Accept(x, x.session, NoConfig, x.fault)
             y == OnEvent(e, m, good)
  <2>1. Proper(x) /\ x.txn = e.txn
    <3>1. e \in Renderers
      BY DEF Proper
    <3>2. x.txn = e.txn
      BY <3>1, ZenonT(40) DEF Renderers
    <3>3. Proper([e EXCEPT !.fresh = FALSE])
      BY FlagProper
    <3> QED BY <1>3, <3>2, <3>3
  <2>2. /\ m.type = "stream-stopped" => y = x
        /\ m.type = "stream-faulted" => y = Invalidate(Unstream(ClearOwnership(x)), FALSE)
        /\ m.type = "connected" => y = Accept(x, m.session, NoConfig, FALSE)
        /\ m.type \in Addressed /\ m.session # x.session => y = x
        /\ m.type = "configured" /\ m.session = x.session =>
              y = IF m.config = x.config THEN x ELSE Accept(x, x.session, m.config, x.fault)
        /\ m.type = "session-state" /\ m.session = x.session => y = q
        /\ m.type = "feature-result" /\ m.session = x.session => y = Observe(q, "result", m.touch)
        /\ m.type = "invalidated" /\ m.session = x.session =>
              y = Observe(Invalidate(q, TRUE), "invalidated", m.touch)
        /\ m.type = "faulted" /\ m.session = x.session =>
              y = Accept(Invalidate(Unstream(x), TRUE), x.session, NoConfig, TRUE)
        /\ m.type = "disconnected" /\ m.session = x.session =>
              y = Accept(Unstream(ClearOwnership(x)), None, NoConfig, FALSE)
    BY <1>3 DEF OnEvent, Addressed, Unaddressed
  <2> HIDE DEF x, y
  <2>3. x.session \in Nat /\ x.fault \in BOOLEAN
    BY <2>1, Retyped DEF Proper
  <2>4. Proper(q) /\ Proper(Accept(x, m.session, NoConfig, FALSE))
    BY <1>1, <2>1, <2>3, AcceptProper, Blanks
  <2> HIDE DEF q
  <2>5. ASSUME NEW z, Proper(z), NEW what \in {"result", "invalidated"}
        PROVE  Proper(Observe(z, what, m.touch))
    BY <2>5, ReceiptProper DEF Observe
  <2>6. Proper(Invalidate(q, TRUE))
    BY <2>4, InvalidateProper
  <2>7. Proper(Observe(q, "result", m.touch)) /\ Proper(Observe(Invalidate(q, TRUE), "invalidated", m.touch))
    BY <2>4, <2>5, <2>6
  <2>8. Proper(ClearOwnership(x)) /\ Proper(Unstream(x))
    BY <2>1, ReleaseProper, RunEndsProper
  <2>9. Proper(Unstream(ClearOwnership(x))) /\ Proper(Invalidate(Unstream(x), TRUE))
    BY <2>8, RunEndsProper, InvalidateProper
  <2>10. /\ Proper(Invalidate(Unstream(ClearOwnership(x)), FALSE))
         /\ Proper(Accept(Invalidate(Unstream(x), TRUE), x.session, NoConfig, TRUE))
         /\ Proper(Accept(Unstream(ClearOwnership(x)), None, NoConfig, FALSE))
    BY <2>3, <2>9, InvalidateProper, AcceptProper, Blanks
  <2>11. ASSUME m.type = "configured" PROVE Proper(Accept(x, x.session, m.config, x.fault))
    <3>1. x.evidence = NoEvidence /\ x.txn.at # "acquire"
      BY <2>1, <2>11 DEF Proper, Apt, Withdrawn
    <3> QED BY <1>1, <2>1, <2>3, <3>1, AcceptProper
  <2> QED BY <1>1, <1>3, <2>1, <2>2, <2>4, <2>7, <2>10, <2>11 DEF y, EventTypes, Addressed
<1> QED BY <1>2, <1>3

-----------------------------------------------------------------------------
(* The evidence on the screen: the channel *)

\* In order, the reply of the operation that set a configuration is behind its
\* event.
Due(q) == \A i \in 1..Len(q) : ~q[i].reply /\ q[i].type = "configured" =>
    \E j \in (i + 1)..Len(q) : q[j].reply /\ q[j].type = "apply"

Quietly(s) == s \in Seq(Messages) /\ Due(s)

LEMMA QuietlyJoined ==
  ASSUME NEW q, NEW s, Quietly(q), Quietly(s)
  PROVE  Quietly(q \o s)
<1> DEFINE t == q \o s
<1>1. /\ q \in Seq(Messages) /\ s \in Seq(Messages) /\ t \in Seq(Messages)
      /\ Len(t) = Len(q) + Len(s) /\ Len(q) \in Nat /\ Len(s) \in Nat
      /\ \A i \in 1..Len(q) : t[i] = q[i] /\ i \in 1..Len(t)
      /\ \A i \in 1..Len(s) : t[Len(q) + i] = s[i] /\ Len(q) + i \in 1..Len(t)
      /\ \A i \in 1..Len(t) : i \in 1..Len(q) \/ \E j \in 1..Len(s) : i = Len(q) + j
  BY Joined DEF Quietly
<1> HIDE DEF t
<1>2. ASSUME NEW i \in 1..Len(t), ~t[i].reply, t[i].type = "configured"
      PROVE  \E j \in (i + 1)..Len(t) : t[j].reply /\ t[j].type = "apply"
  <2>1. CASE i \in 1..Len(q)
    <3>1. PICK j \in (i + 1)..Len(q) : q[j].reply /\ q[j].type = "apply"
      BY <1>1, <1>2, <2>1 DEF Quietly, Due
    <3>2. j \in (i + 1)..Len(t) /\ t[j] = q[j]
      BY <1>1, <2>1
    <3> QED BY <3>1, <3>2
  <2>2. ASSUME NEW k \in 1..Len(s), i = Len(q) + k
        PROVE  \E j \in (i + 1)..Len(t) : t[j].reply /\ t[j].type = "apply"
    <3>1. t[i] = s[k]
      BY <1>1, <2>2
    <3>2. PICK j \in (k + 1)..Len(s) : s[j].reply /\ s[j].type = "apply"
      BY <1>2, <2>2, <3>1 DEF Quietly, Due
    <3>3. Len(q) + j \in (i + 1)..Len(t) /\ t[Len(q) + j] = s[j]
      BY <1>1, <2>2
    <3> QED BY <3>2, <3>3
  <2> QED BY <1>1, <2>1, <2>2
<1> QED BY <1>1, <1>2 DEF Quietly, Due, t

LEMMA QuietlyOne ==
    /\ Quietly(<<>>)
    /\ \A m \in Messages : m.reply \/ m.type # "configured" => Quietly(<<m>>)
    /\ \A m \in Messages, n \in Messages :
          (m.reply \/ m.type # "configured") /\ (n.reply \/ n.type # "configured") => Quietly(<<m, n>>)
<1>1. Quietly(<<>>)
  BY EmptySeq DEF Quietly, Due
<1>2. ASSUME NEW m \in Messages, m.reply \/ m.type # "configured" PROVE Quietly(<<m>>)
  <2>1. <<m>> \in Seq(Messages) /\ Len(<<m>>) = 1 /\ <<m>>[1] = m
    BY One
  <2> QED BY <1>2, <2>1 DEF Quietly, Due
<1>3. ASSUME NEW m \in Messages, NEW n \in Messages,
             m.reply \/ m.type # "configured", n.reply \/ n.type # "configured"
      PROVE  Quietly(<<m, n>>)
  BY <1>2, <1>3, PairOf, QuietlyJoined
<1> QED BY <1>1, <1>2, <1>3

LEMMA QuietlyAnswered ==
  ASSUME NEW p \in Seq(Messages), NEW m \in Messages, m.reply, m.type = "apply"
  PROVE  Quietly(p \o <<m>>)
<1> DEFINE s == <<m>>
           t == p \o s
<1>1. s \in Seq(Messages) /\ Len(s) = 1 /\ s[1] = m
  BY One
<1> HIDE DEF s
<1>2. /\ t \in Seq(Messages) /\ Len(t) = Len(p) + 1 /\ Len(p) \in Nat
      /\ \A i \in 1..Len(t) : i # Len(t) => i + 1 <= Len(t)
      /\ t[Len(t)] = m
  <2>1. /\ t \in Seq(Messages) /\ Len(t) = Len(p) + Len(s) /\ Len(p) \in Nat
        /\ \A i \in 1..Len(s) : t[Len(p) + i] = s[i]
    BY <1>1, Joined
  <2> HIDE DEF t
  <2>2. 1 \in 1..Len(s)
    BY <1>1
  <2>3. t[Len(p) + 1] = s[1]
    BY <2>1, <2>2
  <2> QED BY <1>1, <2>1, <2>3
<1> HIDE DEF t
<1>3. Due(t)
  <2> SUFFICES ASSUME NEW i \in 1..Len(t), ~t[i].reply
               PROVE  Len(t) \in (i + 1)..Len(t) /\ t[Len(t)].reply /\ t[Len(t)].type = "apply"
    BY DEF Due
  <2>1. i # Len(t)
    BY <1>2
  <2> QED BY <1>2, <2>1
<1> QED BY <1>2, <1>3 DEF Quietly, t, s

LEMMA QuietlyTaken ==
  ASSUME NEW q, Quietly(q), Len(q) # 0
  PROVE  Quietly(Without(q, 1))
<1> DEFINE w == Without(q, 1)
<1>1. 1 \in 1..Len(q) /\ q \in Seq(Messages)
  BY LenProperties DEF Quietly
<1>2. /\ w \in Seq(Messages) /\ Len(w) = Len(q) - 1 /\ Len(q) \in Nat
      /\ \A j \in 1..Len(w) : w[j] = q[j + 1] /\ j + 1 \in 1..Len(q)
  <2>1. \A j \in 1..Len(w) : Skip(1, j) = j + 1
    BY DEF Skip
  <2> HIDE DEF w
  <2> QED BY <1>1, <2>1, Removed DEF w
<1> HIDE DEF w
<1>3. ASSUME NEW i \in 1..Len(w), ~w[i].reply, w[i].type = "configured"
      PROVE  \E j \in (i + 1)..Len(w) : w[j].reply /\ w[j].type = "apply"
  <2>1. PICK j \in ((i + 1) + 1)..Len(q) : q[j].reply /\ q[j].type = "apply"
    BY <1>2, <1>3 DEF Quietly, Due
  <2>2. j - 1 \in (i + 1)..Len(w) /\ w[j - 1] = q[j]
    BY <1>2
  <2> QED BY <2>1, <2>2
<1> QED BY <1>2, <1>3 DEF Quietly, Due, w

-----------------------------------------------------------------------------
(* The evidence on the screen: the steps *)

ScreenInv == ConvergeInv /\ (~crossing => Proper(r) /\ Due(channel))

LEMMA CommandKeeps ==
  ASSUME Proper(r), Command
  PROVE  Proper(r') /\ channel' = channel
<1>1. r \in Renderers /\ r.config \in AnyConfigs
  BY Retyped DEF Proper
<1>2. ASSUME NEW op \in {"apply", "tap", "capture", "sweep", "connect"}, Gated(op)
      PROVE  Proper(r') /\ channel' = channel
  BY <1>2, TransactProper DEF Gated, Commanded, Operations
<1>3. ASSUME PressRun PROVE Proper(r') /\ channel' = channel
  <2>1. channel' = channel /\ ~Current(r)
        /\ r' = IF r.config.kind = "iq" THEN RunIq(r) ELSE Transact(r, "run")
    BY <1>3 DEF PressRun, Commanded, Current
  <2>2. CASE r.config.kind # "iq"
    BY <2>1, <2>2, TransactProper DEF Operations
  <2>3. CASE r.config.kind = "iq"
    <3> DEFINE s == r.retained \cup {r.config}
               y == [r EXCEPT !.requested = TRUE, !.continuous = TRUE, !.mode = "iq", !.retained = s]
    <3>1. s \in SUBSET AnyConfigs
      BY <1>1, Retyped
    <3>2. RunIq(r) = PumpTurn(y)
      BY DEF RunIq
    <3>3. (\A c \in r.retained : c.kind = "iq") => \A c \in s : c.kind = "iq"
      BY <2>3
    <3> HIDE DEF s
    <3>4. y \in Renderers
      BY <1>1, <3>1, Plainly, Zenon DEF Renderers
    <3>5. y.retained = s
      BY <1>1, Zenon DEF Renderers
    <3>6. /\ y.evidence = r.evidence /\ y.session = r.session /\ y.config = r.config
          /\ y.txn = r.txn /\ y.owner = r.owner /\ y.waiting = r.waiting
      BY <1>1, Zenon DEF Renderers
    <3> HIDE DEF y
    <3>7. Proper(y)
      BY <3>3, <3>4, <3>5, <3>6 DEF Proper, Apt, Withdrawn
    <3> QED BY <2>1, <2>3, <3>2, <3>7, PumpTurnProper
  <2> QED BY <2>2, <2>3
<1>4. ASSUME PressStop PROVE Proper(r') /\ channel' = channel
  <2> DEFINE y == [Unrequest(r) EXCEPT !.stop = "pending"]
  <2>1. channel' = channel /\ r' = DrainStop(y)
    BY SMTT(40), <1>4 DEF PressStop, Commanded
  <2>2. Proper(y)
    BY RunEndsProper, FlagProper
  <2> HIDE DEF y
  <2> QED BY <2>1, <2>2, DrainProper
<1>5. ASSUME NEW op \in {"disconnect", "read"}, Ask(op) PROVE Proper(r') /\ channel' = channel
  <2> DEFINE t == r.asks \cup {op}
             f == op = "read" \/ r.fresh
             y == [r EXCEPT !.asks = t, !.fresh = f]
  <2>1. r' = y /\ channel' = channel
    BY <1>5 DEF Ask, Commanded
  <2>2. t \in SUBSET {"disconnect", "read"} /\ f \in BOOLEAN
    BY <1>1, Retyped
  <2> HIDE DEF t, f
  <2>3. y \in Renderers
    BY <1>1, <2>2, Zenon DEF Renderers
  <2>4. Alike(r, y)
    BY <1>1, Zenon DEF Renderers, Alike
  <2> QED BY <2>1, <2>3, <2>4, AlikeProper
<1> QED BY <1>2, <1>3, <1>4, <1>5 DEF Command, PressConnect

\* A call is answered, an ask is taken.
LEMMA AnsweredKeeps ==
  ASSUME Proper(r)
  PROVE  /\ \A op : Answered(op) => Proper(r')
         /\ \A op : r' = [r EXCEPT !.asks = @ \ {op}] => Proper(r')
<1>1. r \in Renderers
  BY DEF Proper
<1>2. ASSUME NEW op, Answered(op) PROVE Proper(r')
  <2>1. r' = [r EXCEPT !.call = NoCall]
    BY <1>2 DEF Answered
  <2>2. [r EXCEPT !.call = NoCall] \in Renderers
    BY <1>1, Blanks, Zenon DEF Renderers
  <2>3. Alike(r, [r EXCEPT !.call = NoCall])
    BY <1>1, Zenon DEF Renderers, Alike
  <2> QED BY <2>1, <2>2, <2>3, AlikeProper
<1>3. ASSUME NEW op, r' = [r EXCEPT !.asks = @ \ {op}] PROVE Proper(r')
  <2> DEFINE t == r.asks \ {op}
             y == [r EXCEPT !.asks = t]
  <2>1. r' = y
    BY <1>3
  <2>2. t \in SUBSET {"disconnect", "read"}
    BY <1>1, Retyped
  <2> HIDE DEF t
  <2>3. y \in Renderers
    BY <1>1, <2>2, Zenon DEF Renderers
  <2>4. Alike(r, y)
    BY <1>1, Zenon DEF Renderers, Alike
  <2> QED BY <2>1, <2>3, <2>4, AlikeProper
<1> QED BY <1>2, <1>3

\* What the main process posts, piece by piece
LEMMA Pieces ==
  ASSUME host.session \in Nat
  PROVE  /\ \A n \in Nat, c \in AnyConfigs, ok \in BOOLEAN, op \in ReplyTypes :
              Quietly(<<Reply(op, n, c, ok)>>)
         /\ \A n \in Nat, c \in AnyConfigs, type \in EventTypes \ {"configured"} :
              Quietly(<<Event(type, n, c)>>)
         /\ \A type \in EventTypes \ {"configured"} : Quietly(StreamEnd(type))
         /\ Quietly(Faults) /\ \A touch \in Nat : Quietly(Invalidating(touch))
<1>1. None \in Nat /\ NoConfig \in AnyConfigs
  BY Blanks
<1>2. ASSUME NEW n \in Nat, NEW c \in AnyConfigs, NEW type \in EventTypes \ {"configured"}
      PROVE  Quietly(<<Event(type, n, c)>>)
  <2>1. Event(type, n, c) \in Messages /\ Event(type, n, c).type = type
    BY MakesEvent DEF Messages
  <2> QED BY <2>1, QuietlyOne
<1>3. ASSUME NEW n \in Nat, NEW c \in AnyConfigs, NEW ok \in BOOLEAN, NEW op \in ReplyTypes
      PROVE  Quietly(<<Reply(op, n, c, ok)>>)
  <2>1. Reply(op, n, c, ok) \in Messages /\ Reply(op, n, c, ok).reply
    BY MakesReply DEF Messages, Replies
  <2> QED BY <2>1, QuietlyOne
<1>4. ASSUME NEW type \in EventTypes \ {"configured"} PROVE Quietly(StreamEnd(type))
  BY <1>1, <1>2, QuietlyOne DEF StreamEnd
<1>5. Quietly(Faults)
  BY <1>1, <1>2 DEF Faults, EventTypes
<1>6. ASSUME NEW touch \in Nat PROVE Quietly(Invalidating(touch))
  <2> DEFINE a == Lifecycle("feature-result", host.session, touch)
             b == Lifecycle("invalidated", host.session, touch)
  <2>1. a \in Messages /\ a.type = "feature-result" /\ b \in Messages /\ b.type = "invalidated"
    BY MakesLifecycle DEF Messages, EventTypes
  <2> HIDE DEF a, b
  <2>2. Quietly(<<a, b>>)
    BY <2>1, QuietlyOne
  <2> QED BY <2>2 DEF Invalidating, a, b
<1> QED BY <1>2, <1>3, <1>4, <1>5, <1>6

LEMMA MainKeeps ==
  ASSUME Proper(r), HostOk(host), Orderly(r), MainStep
  PROVE  Proper(r') /\ \E s : channel' = channel \o s /\ Quietly(s)
<1>1. host.session \in Nat /\ host.sessions \in Nat /\ host.revs \in Nat /\ host.config \in AnyConfigs
      /\ host.fault \in BOOLEAN /\ None \in Nat /\ NoConfig \in AnyConfigs
  BY Blanks DEF HostOk, Hosts
<1>2. \A n \in Nat, c \in AnyConfigs, ok \in BOOLEAN, op \in ReplyTypes : Quietly(<<Reply(op, n, c, ok)>>)
  BY <1>1, Pieces
<1>3. \A n \in Nat, c \in AnyConfigs, type \in EventTypes \ {"configured"} :
        Quietly(<<Event(type, n, c)>>) /\ Quietly(StreamEnd(type))
  BY <1>1, Pieces
<1>4. Quietly(Faults) /\ \A touch \in Nat : Quietly(Invalidating(touch))
  BY <1>1, Pieces
<1>5. Quietly(StreamEnd("stream-stopped")) /\ Quietly(StreamEnd("stream-faulted"))
  BY <1>1, <1>3 DEF EventTypes
<1>6. ASSUME r.call # NoCall
      PROVE  r.call.op \in ReplyTypes /\ \A ok \in BOOLEAN : Quietly(Answer(ok))
  <2>1. r.call.op = OpOf(r.txn.at) /\ r.txn.at \in Ats
    BY <1>6 DEF Orderly
  <2>2. r.call.op \in ReplyTypes
    BY <2>1, Phases DEF ReplyTypes
  <2> QED BY <1>1, <1>2, <2>2 DEF Answer
<1>7. ASSUME NEW op, op # "none", Answered(op)
      PROVE  r.call # NoCall /\ r.call.op = op /\ Proper(r') /\ \A ok \in BOOLEAN : Quietly(Answer(ok))
  <2>1. r.call # NoCall /\ r.call.op = op
    BY <1>7, Blanks DEF Answered
  <2> QED BY <1>6, <1>7, <2>1, AnsweredKeeps
<1>8. CASE Refuse
  BY <1>6, <1>8, AnsweredKeeps DEF Refuse, Post
<1>9. CASE Starts
  <2>1. Answered("start") /\ channel' = channel \o Answer(TRUE)
    BY <1>9 DEF Starts, Post
  <2> QED BY <1>7, <2>1
<1>10. CASE Stops
  <2>1. Answered("stop") /\ channel' = channel \o (StreamEnd("stream-stopped") \o Answer(TRUE))
    BY <1>10 DEF Stops, Post
  <2>2. Proper(r') /\ Quietly(Answer(TRUE))
    BY <1>7, <2>1
  <2> QED BY <1>5, <2>1, <2>2, QuietlyJoined
<1>11. CASE Acquires
  <2>1. Answered("acquire") /\ channel' = channel \o <<Reply("acquire", host.session, host.config, TRUE)>>
    BY <1>11 DEF Acquires, Post
  <2>2. Proper(r')
    BY <1>7, <2>1
  <2>3. Quietly(<<Reply("acquire", host.session, host.config, TRUE)>>)
    BY <1>1, <1>2 DEF ReplyTypes
  <2> QED BY <2>1, <2>2, <2>3
<1>12. CASE Connects
  <2> DEFINE a == Event("connected", host.sessions + 1, NoConfig)
             b == Reply("connect", host.sessions + 1, NoConfig, TRUE)
  <2>1. Answered("connect") /\ channel' = channel \o <<a, b>>
    BY <1>12 DEF Connects, Post
  <2>2. host.sessions + 1 \in Nat
    BY <1>1
  <2>3. a \in Messages /\ a.type = "connected"
    BY <1>1, <2>2, MakesEvent DEF Messages, EventTypes
  <2>4. b \in Messages /\ b.reply
    <3>1. "connect" \in ReplyTypes
      BY DEF ReplyTypes
    <3>2. b \in Replies
      BY <1>1, <2>2, <3>1, MakesReply
    <3> QED BY <3>2 DEF Messages, Replies
  <2> HIDE DEF a, b
  <2>5. Quietly(<<a, b>>)
    BY <2>3, <2>4, QuietlyOne
  <2> QED BY <1>7, <2>1, <2>5
<1>13. CASE Touches
  <2>1. Answered("touch") /\ r.touches \in Nat
    BY <1>13, Retyped DEF Touches, Proper
  <2>2. \/ channel' = channel \o ((StreamEnd("stream-stopped") \o Invalidating(r.touches)) \o Answer(TRUE))
        \/ channel' = channel \o ((StreamEnd("stream-stopped") \o Faults) \o Answer(FALSE))
    BY <1>13 DEF Touches, Post
  <2>3. Quietly(Answer(TRUE)) /\ Quietly(Answer(FALSE)) /\ Proper(r')
    BY <1>7, <2>1
  <2>4. /\ Quietly((StreamEnd("stream-stopped") \o Invalidating(r.touches)) \o Answer(TRUE))
        /\ Quietly((StreamEnd("stream-stopped") \o Faults) \o Answer(FALSE))
    BY <1>4, <1>5, <2>1, <2>3, QuietlyJoined
  <2> QED BY <2>2, <2>3, <2>4
<1>14. CASE Applies
  <2>1. Answered("apply")
    BY <1>14 DEF Applies
  <2>2. Quietly(Answer(TRUE)) /\ Quietly(Answer(FALSE)) /\ Proper(r') /\ r.call.op = "apply"
    BY <1>7, <2>1
  <2>3. \/ channel' = channel \o ((StreamEnd("stream-stopped") \o Invalidating(None)) \o Answer(TRUE))
        \/ channel' = channel \o (StreamEnd("stream-stopped") \o Answer(FALSE))
        \/ channel' = channel \o ((StreamEnd("stream-stopped") \o Faults) \o Answer(FALSE))
        \/ \E kind \in Kinds :
             channel' = channel \o ((StreamEnd("stream-stopped")
                          \o <<Event("session-state", host.session, NoConfig),
                               Event("configured", host.session, [rev |-> host.revs + 1, kind |-> kind])>>)
                          \o Answer(TRUE))
    BY <1>14 DEF Applies, Post
  <2>4. /\ Quietly((StreamEnd("stream-stopped") \o Invalidating(None)) \o Answer(TRUE))
        /\ Quietly(StreamEnd("stream-stopped") \o Answer(FALSE))
        /\ Quietly((StreamEnd("stream-stopped") \o Faults) \o Answer(FALSE))
    BY <1>1, <1>4, <1>5, <2>2, QuietlyJoined
  <2>5. ASSUME NEW kind \in Kinds
        PROVE  Quietly((StreamEnd("stream-stopped")
                          \o <<Event("session-state", host.session, NoConfig),
                               Event("configured", host.session, [rev |-> host.revs + 1, kind |-> kind])>>)
                          \o Answer(TRUE))
    <3> DEFINE d == [rev |-> host.revs + 1, kind |-> kind]
               a == Event("session-state", host.session, NoConfig)
               b == Event("configured", host.session, d)
               m == Reply("apply", host.session, NoConfig, TRUE)
               p == StreamEnd("stream-stopped")
    <3>1. d \in AnyConfigs
      BY <1>1 DEF AnyConfigs, Kinds
    <3> HIDE DEF d
    <3>2. a \in Messages /\ b \in Messages
      BY <1>1, <3>1, MakesEvent DEF Messages, EventTypes
    <3>3. m \in Messages /\ m.reply /\ m.type = "apply"
      <4>1. "apply" \in ReplyTypes
        BY DEF ReplyTypes
      <4>2. m \in Replies
        BY <1>1, <4>1, MakesReply
      <4>3. m.type = "apply"
        BY DEF Reply
      <4> QED BY <4>2, <4>3 DEF Messages, Replies
    <3>4. Answer(TRUE) = <<m>>
      BY <2>2 DEF Answer
    <3> HIDE DEF a, b, m, p
    <3>5. p \in Seq(Messages) /\ <<a, b>> \in Seq(Messages)
      BY <1>5, <3>2 DEF Quietly, p
    <3>6. p \o <<a, b>> \in Seq(Messages)
      BY <3>5, Joined
    <3>7. Quietly((p \o <<a, b>>) \o <<m>>)
      BY <3>3, <3>6, QuietlyAnswered
    <3> QED BY <3>4, <3>7 DEF a, b, p, d
  <2> QED BY <2>2, <2>3, <2>4, <2>5
<1>15. CASE Disconnects
  <2> DEFINE e == IF host.session = None THEN <<>> ELSE <<Event("disconnected", host.session, NoConfig)>>
             m(ok) == <<Reply("disconnect", None, NoConfig, ok)>>
  <2>1. r' = [r EXCEPT !.asks = @ \ {"disconnect"}]
        /\ \/ channel' = channel \o ((StreamEnd("stream-stopped") \o e) \o m(TRUE))
           \/ channel' = channel \o ((StreamEnd("stream-stopped") \o Faults) \o m(FALSE))
    BY <1>15 DEF Disconnects, Post
  <2>2. Quietly(e) /\ Quietly(m(TRUE)) /\ Quietly(m(FALSE))
    BY <1>1, <1>2, <1>3, QuietlyOne DEF EventTypes, ReplyTypes
  <2>3. Proper(r')
    BY <2>1, AnsweredKeeps
  <2> HIDE DEF e, m
  <2>4. Quietly((StreamEnd("stream-stopped") \o e) \o m(TRUE))
        /\ Quietly((StreamEnd("stream-stopped") \o Faults) \o m(FALSE))
    BY <1>4, <1>5, <2>2, QuietlyJoined
  <2> QED BY <2>1, <2>3, <2>4
<1>16. CASE ReadsState
  <2> DEFINE f == ~host.fault
  <2>1. r' = [r EXCEPT !.asks = @ \ {"read"}]
        /\ channel' = channel \o <<Reply("read", host.session, host.config, f)>>
    BY <1>16 DEF ReadsState, Post
  <2>2. Quietly(<<Reply("read", host.session, host.config, f)>>)
    BY <1>1, <1>2 DEF ReplyTypes
  <2> HIDE DEF f
  <2> QED BY <2>1, <2>2, AnsweredKeeps
<1>17. CASE Measures
  <2>1. r' = r /\ channel' = channel \o <<Event("measurement", host.session, host.config)>>
    BY <1>17 DEF Measures, Post
  <2>2. Quietly(<<Event("measurement", host.session, host.config)>>)
    BY <1>1, <1>3 DEF EventTypes
  <2> QED BY <2>1, <2>2
<1>18. CASE StreamFaults
  BY <1>5, <1>18 DEF StreamFaults, Post
<1>19. CASE SessionFaults
  <2>1. r' = r /\ channel' = channel \o (Faults \o StreamEnd("stream-faulted"))
    BY <1>19 DEF SessionFaults, Post
  <2> QED BY <1>4, <1>5, <2>1, QuietlyJoined
<1> QED BY <1>8, <1>9, <1>10, <1>11, <1>12, <1>13, <1>14, <1>15, <1>16, <1>17, <1>18, <1>19
        DEF MainStep, Answers

LEMMA DeliveryKeeps ==
  ASSUME ConvergeInv, ~crossing, Proper(r), Due(channel), DeliverReply \/ DeliverEvent
  PROVE  Proper(r') /\ Due(channel')
<1> DEFINE m == channel[1]
<1>1. /\ channel \in Seq(Messages) /\ GateOk(r, channel) /\ Orderly(r)
      /\ Told(channel, ViewOf(r), ViewOf(host)) /\ Quietly(channel)
  BY DEF ConvergeInv, Good, GateOk, Agrees, Quietly
<1>2. /\ 1 \in 1..Len(channel) /\ channel' = Without(channel, 1)
      /\ \/ /\ m.reply
            /\ \/ m.type = "disconnect" /\ r' = Disconnected(r, m)
               \/ m.type = "read" /\ r' = StateRead(r, m)
               \/ m.type \notin {"disconnect", "read"} /\ r' = OnReply(r, m)
         \/ ~m.reply /\ \E good \in BOOLEAN : r' = OnEvent(r, m, good)
  <2>1. CASE DeliverReply
    <3>1. PICK i \in 1..Len(channel) :
            /\ Deliverable(i, TRUE) /\ Taken(i)
            /\ r' = CASE channel[i].type = "disconnect" -> Disconnected(r, channel[i])
                      [] channel[i].type = "read" -> StateRead(r, channel[i])
                      [] OTHER -> OnReply(r, channel[i])
      BY <2>1 DEF DeliverReply
    <3>2. i = 1 /\ channel[i].reply /\ channel' = Without(channel, i)
      BY <3>1 DEF Deliverable, Oldest, Taken, Without
    <3> QED BY <3>1, <3>2
  <2>2. CASE DeliverEvent
    <3>1. PICK i \in 1..Len(channel), good \in BOOLEAN :
            Deliverable(i, FALSE) /\ Taken(i) /\ r' = OnEvent(r, channel[i], good)
      BY <2>2 DEF DeliverEvent
    <3>2. i = 1 /\ ~channel[i].reply /\ channel' = Without(channel, i)
      BY <3>1 DEF Deliverable, Oldest, Taken, Without
    <3> QED BY <3>1, <3>2
  <2> QED BY <2>1, <2>2
<1>3. m \in Messages
  BY <1>1, <1>2, ElementOfSeq
<1>4. Due(channel')
  <2>1. Len(channel) # 0
    BY <1>2
  <2> QED BY <1>1, <1>2, <2>1, QuietlyTaken DEF Quietly
<1>5. PICK c : Tells(ViewOf(r), m, c)
  BY <1>1, <1>2, ToldTaken
<1>6. CASE m.reply
  <2>1. m.type = "read" => m.config = r.config
    BY <1>5, <1>6 DEF Tells, Turns, IsReply, ViewOf, View
  <2>2. m.type \notin {"disconnect", "read"} => Held(r)
    BY <1>1, <1>2, <1>6 DEF GateOk, IsGateReply, Gated1
  <2> HIDE DEF m
  <2>3. Proper(Disconnected(r, m)) /\ (m.type = "read" => Proper(StateRead(r, m)))
    BY <1>3, <2>1, AsideProper
  <2>4. m.type \notin {"disconnect", "read"} => Proper(OnReply(r, m))
    BY <1>1, <1>3, <2>2, ReplyProper
  <2> QED BY <1>2, <1>4, <1>6, <2>3, <2>4
<1>7. CASE ~m.reply
  <2>1. m \in Events
    BY <1>3, <1>7 DEF Messages, Replies
  <2>2. ASSUME m.type = "configured" PROVE r.txn.at = "apply"
    <3>1. PICK j \in 2..Len(channel) : channel[j].reply /\ channel[j].type = "apply"
      BY <1>2, <1>7, <2>2 DEF Due
    <3>2. j \in 1..Len(channel)
      OBVIOUS
    <3>3. Held(r) /\ "apply" = OpOf(r.txn.at)
      BY <1>1, <3>1, <3>2 DEF GateOk, IsGateReply, Gated1
    <3> QED BY <1>1, <3>3, Phases DEF Orderly
  <2> HIDE DEF m
  <2>3. \A good \in BOOLEAN : Proper(OnEvent(r, m, good))
    BY <2>1, <2>2, EventProper
  <2> QED BY <1>2, <1>4, <1>7, <2>3
<1> QED BY <1>3, <1>6, <1>7

LEMMA ScreenInit == Init => ScreenInv
<1> SUFFICES ASSUME Init PROVE ScreenInv
  OBVIOUS
<1>1. ConvergeInv
  BY ConvergeInit
<1>2. PICK kind \in Kinds : r = RendererInit([rev |-> 1, kind |-> kind])
  BY DEF Init
<1>3. r.evidence = NoEvidence /\ r.txn = NoTxn /\ r.owner = NoOwner /\ r.waiting = <<>>
  BY <1>2 DEF RendererInit
<1>4. Proper(r)
  BY <1>1, <1>3, Blanks DEF Proper, Apt, ConvergeInv, Good
<1>5. Due(channel)
  BY DEF Init, Due
<1> QED BY <1>1, <1>4, <1>5 DEF ScreenInv

LEMMA ScreenNext == ScreenInv /\ [Next]_vars => ScreenInv'
<1> SUFFICES ASSUME ScreenInv, [Next]_vars PROVE ScreenInv'
  OBVIOUS
<1>1. ConvergeInv /\ ConvergeInv'
  BY ConvergeNext DEF ScreenInv
<1>2. CASE UNCHANGED vars
  BY <1>1, <1>2 DEF vars, ScreenInv
<1>3. CASE Next
  <2>1. crossing' = crossing
    BY <1>3 DEF Next, Command, PressRun, PressStop, PressConnect, Gated, Ask, Commanded, CadenceEnds,
            ReceiptTimesOut, MainStep, Answers, Starts, Stops, Applies, Touches, Acquires, Connects,
            Refuse, Answered, Disconnects, ReadsState, Measures, StreamFaults, SessionFaults,
            DeliverReply, DeliverEvent, Taken
  <2> SUFFICES ASSUME ~crossing PROVE Proper(r') /\ Due(channel')
    BY <1>1, <2>1 DEF ScreenInv
  <2>2. /\ Proper(r) /\ Due(channel) /\ Orderly(r) /\ HostOk(host) /\ channel \in Seq(Messages)
    BY <1>1 DEF ScreenInv, ConvergeInv, Good, GateOk
  <2>3. CASE Command
    BY <2>2, <2>3, CommandKeeps
  <2>4. CASE CadenceEnds
    BY <2>2, <2>4, PumpTurnProper DEF CadenceEnds
  <2>5. CASE ReceiptTimesOut
    BY <2>2, <2>5, ReceiptProper DEF ReceiptTimesOut
  <2>6. CASE MainStep
    <3>1. Proper(r') /\ \E s : channel' = channel \o s /\ Quietly(s)
      BY <2>2, <2>6, MainKeeps
    <3>2. Quietly(channel)
      BY <2>2 DEF Quietly
    <3> QED BY <3>1, <3>2, QuietlyJoined DEF Quietly
  <2>7. CASE DeliverReply \/ DeliverEvent
    BY <1>1, <2>2, <2>7, DeliveryKeeps
  <2> QED BY SMTT(40), <1>3, <2>3, <2>4, <2>5, <2>6, <2>7 DEF Next
<1> QED BY <1>2, <1>3

\* Evidence on the screen is of the session and configuration it is shown with,
\* for any number of sessions, configurations and commands
\* (invalidateAcquiredEvidence, processContinuousMeasurement, recordSweepEvidence).
THEOREM ScreenIsCurrent == Spec => []EvidenceIsCurrent
<1>1. ScreenInv => EvidenceIsCurrent
  BY DEF ScreenInv, EvidenceIsCurrent, Proper, Apt
<1> QED BY <1>1, ScreenInit, ScreenNext, PTL DEF Spec

-----------------------------------------------------------------------------
(* What is on display: the classifier *)

\* What evidence is judged by
Now == [no |-> session.no, config |-> config, names |-> born, at |-> clock.id]

Later(now, next) ==
  /\ next.no = now.no /\ next.config = now.config
  /\ now.names \subseteq next.names
  /\ now.at \in Nat /\ next.at \in Nat /\ now.at <= next.at

\* Evidence of the present session and configuration, a row's origin being the
\* one it is known by
About(e, now) ==
  /\ e.id \in Nat /\ e.id <= now.at
  /\ \/ /\ e.source = "iq" /\ now.config \in IqNames
        /\ e.scope = <<now.no, "iq", now.config>>
     \/ /\ e.source = "scalar" /\ now.config \in SweepNames
        /\ e.scope = <<now.no, now.config, e.scope[3]>>
        /\ e.scope[3][1] = "signal" => <<e.scope[3], e.data.origin>> \in now.names

IsShown(s) ==
  /\ DOMAIN s = {"source", "pending", "samples", "issue"}
  /\ s.pending \in BOOLEAN

IsJob(j) ==
  /\ DOMAIN j = {"evidence", "current", "phase", "answer"}
  /\ j.current \in BOOLEAN /\ j.phase \in {"asked", "settled", "handled"}

IsClassifier(c) ==
  /\ DOMAIN c = {"latest", "job", "completed", "scope", "consensus", "disposed", "worker",
                 "shown"}
  /\ c.job = NoJob \/ IsJob(c.job)
  /\ IsShown(c.shown)

Live(c) == Working(c) /\ c.job.current

Scoped(c, now) ==
  \/ /\ c.scope = Nowhere /\ c.latest = NoSubmission /\ ~Live(c)
     /\ c.consensus = <<>> /\ c.shown = NothingShown
  \/ /\ now.config \in IqNames /\ c.scope = <<now.no, "iq", now.config>>
     /\ c.shown.source = "iq"
  \/ /\ now.config \in SweepNames /\ c.scope = <<now.no, now.config, c.scope[3]>>
     /\ c.shown.source = "scalar"

\* The samples of the consensus, which is what is shown
Sampled(c, now) ==
  /\ c.shown.samples = c.consensus
  /\ c.consensus \in Seq(Range(c.consensus))
  /\ \A i \in DOMAIN c.consensus : About(c.consensus[i], now) /\ c.consensus[i].scope = c.scope
  /\ \A i, j \in DOMAIN c.consensus : i < j => c.consensus[i].id < c.consensus[j].id

\* What waits is newer than what is worked on, and that than the samples.
Ahead(c) ==
  /\ \A i \in DOMAIN c.consensus :
       /\ c.latest # NoSubmission => c.consensus[i].id < c.latest.id
       /\ Live(c) /\ c.job.phase # "handled" => c.consensus[i].id < c.job.evidence.id
  /\ Live(c) /\ c.latest # NoSubmission => c.job.evidence.id < c.latest.id

\* What is worked on, waits and is shown belongs together ...
Fits(c, now) ==
  /\ IsClassifier(c) /\ Scoped(c, now) /\ Sampled(c, now) /\ Ahead(c)
  /\ c.latest # NoSubmission => About(c.latest, now) /\ c.latest.scope = c.scope
  /\ Live(c) => About(c.job.evidence, now) /\ c.job.evidence.scope = c.scope

\* ... and a wait is for something.
WaitsForWork(c) == c.shown.pending => c.latest # NoSubmission \/ Live(c)

ClassifierOK(c, now) == Fits(c, now) /\ WaitsForWork(c)

LEMMA AboutLater ==
  ASSUME NEW e, NEW now, NEW next, About(e, now), Later(now, next)
  PROVE  About(e, next)
BY DEF About, Later

LEMMA ClassifierLater ==
  ASSUME NEW c, NEW now, NEW next, ClassifierOK(c, now), Later(now, next)
  PROVE  ClassifierOK(c, next)
<1>1. Scoped(c, next)
  BY DEF ClassifierOK, Fits, Scoped, Later
<1>2. Sampled(c, next)
  BY AboutLater DEF ClassifierOK, Fits, Sampled
<1> QED BY <1>1, <1>2, AboutLater DEF ClassifierOK, Fits

LEMMA Nothing ==
  /\ NoSubmission.source = "none" /\ NoJob.phase = "none"
  /\ IsShown(NothingShown) /\ NothingShown.samples = <<>> /\ ~NothingShown.pending
  /\ NothingShown.source = "none"
BY DEF NoSubmission, NoJob, IsShown, NothingShown

LEMMA JobsOutdated ==
  ASSUME NEW j, j = NoJob \/ IsJob(j)
  PROVE  /\ Outdated(j) = NoJob \/ (IsJob(Outdated(j)) /\ ~Outdated(j).current)
         /\ j # NoJob => Outdated(j) # NoJob /\ Outdated(j).evidence = j.evidence
BY Nothing DEF Outdated, IsJob

LEMMA ResetOK ==
  ASSUME NEW c, NEW now, IsClassifier(c)
  PROVE  ClassifierOK(Reset(c), now)
<1> DEFINE d == Reset(c)
           j == Outdated(c.job)
<1>1. j = NoJob \/ (IsJob(j) /\ ~j.current)
  BY JobsOutdated DEF IsClassifier
<1> HIDE DEF j
<1>2. d = [c EXCEPT !.job = j, !.latest = NoSubmission, !.completed = Nowhere,
                    !.scope = Nowhere, !.consensus = <<>>, !.shown = NothingShown]
  BY DEF Reset, j
<1>3. /\ d.latest = NoSubmission /\ d.job = j /\ d.scope = Nowhere /\ d.consensus = <<>>
      /\ d.shown = NothingShown /\ DOMAIN d = DOMAIN c
  BY <1>2 DEF IsClassifier
<1> HIDE DEF d
<1>4. IsClassifier(d) /\ ~Live(d) /\ d.consensus = <<>> /\ d.shown = NothingShown
      /\ d.scope = Nowhere /\ d.latest = NoSubmission
  BY <1>1, <1>3, Nothing DEF IsClassifier, Live, Working
<1>5. <<>> \in Seq(Range(<<>>)) /\ DOMAIN <<>> = {}
  OBVIOUS
<1> QED BY <1>4, <1>5, Nothing DEF ClassifierOK, Fits, WaitsForWork, Scoped, Sampled, Ahead, d

\* A job taken from what waits
LEMMA TakenOK ==
  ASSUME NEW c, NEW now, ClassifierOK(c, now), c.latest # NoSubmission,
         NEW d, DOMAIN d = DOMAIN c, d.latest = NoSubmission, d.scope = c.scope,
         d.consensus = c.consensus, d.shown = c.shown,
         IsJob(d.job), d.job # NoJob, d.job.current, d.job.evidence = c.latest
  PROVE  ClassifierOK(d, now)
<1>1. IsClassifier(d) /\ Live(d)
  BY DEF IsClassifier, Live, Working, Fits, ClassifierOK
<1>2. About(c.latest, now) /\ c.latest.scope = c.scope
  BY DEF Fits, ClassifierOK
<1>3. Scoped(d, now)
  BY DEF Fits, Scoped, ClassifierOK
<1>4. Sampled(d, now)
  BY DEF Fits, Sampled, ClassifierOK
<1>5. Ahead(d)
  BY DEF Fits, Ahead, ClassifierOK
<1> QED BY <1>1, <1>2, <1>3, <1>4, <1>5 DEF ClassifierOK, Fits, WaitsForWork

LEMMA DrainedOK ==
  ASSUME NEW c, NEW now, NEW rejects, ClassifierOK(c, now)
  PROVE  ClassifierOK(Drained(c, rejects), now)
<1>1. CASE c.disposed \/ Working(c) \/ c.latest = NoSubmission
  BY <1>1 DEF Drained
<1>2. CASE ~(c.disposed \/ Working(c) \/ c.latest = NoSubmission)
  <2> DEFINE d == Drained(c, rejects)
             Job(phase, answer) == [evidence |-> c.latest, current |-> TRUE,
                                    phase |-> phase, answer |-> answer]
  <2>1. PICK phase \in {"asked", "settled"}, answer \in {"none", "error"} :
          \/ d = [c EXCEPT !.latest = NoSubmission, !.job = Job(phase, answer)]
          \/ d = [c EXCEPT !.latest = NoSubmission, !.job = Job(phase, answer), !.worker = TRUE]
    <3>1. \/ d = [c EXCEPT !.latest = NoSubmission, !.job = Job("settled", "none")]
          \/ d = [c EXCEPT !.latest = NoSubmission, !.job = Job("settled", "error")]
          \/ d = [c EXCEPT !.latest = NoSubmission, !.job = Job("asked", "none"), !.worker = TRUE]
      BY <1>2, Zenon DEF Drained
    <3> HIDE DEF d, Job
    <3> QED BY <3>1, Zenon
  <2> DEFINE j == Job(phase, answer)
  <2>2. j.evidence = c.latest /\ j.current = TRUE /\ IsJob(j) /\ j # NoJob
    BY Nothing DEF IsJob
  <2> HIDE DEF d, j
  <2>3. /\ d.latest = NoSubmission /\ d.job = j /\ d.scope = c.scope
        /\ d.consensus = c.consensus /\ d.shown = c.shown /\ DOMAIN d = DOMAIN c
    BY <2>1 DEF ClassifierOK, Fits, IsClassifier, j
  <2> QED BY <2>2, <2>3, <1>2, TakenOK DEF d
<1> QED BY <1>1, <1>2

\* Evidence newer than any before
Fresh(e, before, now) ==
  /\ Later(before, now) /\ About(e, now) /\ e.id > before.at

\* Of two pieces of evidence of one scope, the source is the same.
LEMMA SourceOfScope ==
  ASSUME NEW c, NEW e, NEW now, About(e, now), e.scope = c.scope, Scoped(c, now)
  PROVE  e.source = c.shown.source \/ c.scope = Nowhere
BY EvidenceAssumption DEF About, Scoped

LEMMA ScopeNames ==
  ASSUME NEW e, NEW now, About(e, now)
  PROVE  /\ e.scope # Nowhere
         /\ e # NoSubmission
         /\ Key(e) # Nowhere
         /\ \/ /\ now.config \in IqNames /\ e.scope = <<now.no, "iq", now.config>>
               /\ e.source = "iq"
            \/ /\ now.config \in SweepNames /\ e.scope = <<now.no, now.config, e.scope[3]>>
               /\ e.source = "scalar"
<1>1. e # NoSubmission
  BY Nothing DEF About
<1>2. ASSUME NEW x, NEW y, NEW z PROVE <<x, y, z>> # <<>> /\ <<x, y>> # <<>>
  OBVIOUS
<1> QED BY <1>1, <1>2 DEF About, Nowhere, Key

\* What a submission of new evidence in the present scope leaves: e waits.
LEMMA WaitingOK ==
  ASSUME NEW c, NEW e, NEW before, NEW now, Fits(c, before), Fresh(e, before, now),
         e.scope = c.scope,
         NEW d, DOMAIN d = DOMAIN c, d.latest = e, d.scope = c.scope, d.job = c.job,
         d.consensus = c.consensus, IsShown(d.shown), d.shown.samples = c.shown.samples,
         d.shown.source \in {c.shown.source, e.source}
  PROVE  ClassifierOK(d, now)
<1>1. IsClassifier(d) /\ (Live(d) <=> Live(c))
  BY DEF IsClassifier, Live, Working, Fits
<1>2. c.scope # Nowhere /\ e # NoSubmission
  BY ScopeNames DEF Fresh
<1>3. Scoped(d, now)
  BY <1>2, ScopeNames, EvidenceAssumption DEF Fits, Scoped, Fresh, Later
<1>4. Sampled(d, now)
  BY AboutLater DEF Fits, Sampled, Fresh
<1>5. ASSUME NEW f, About(f, before) PROVE f.id < e.id
  BY <1>5 DEF Fresh, Later, About
<1>6. Ahead(d)
  BY <1>1, <1>5 DEF Fits, Ahead, Sampled
<1> QED BY <1>1, <1>2, <1>3, <1>4, <1>6, AboutLater DEF ClassifierOK, Fits, WaitsForWork, Fresh

\* submit in the present scope; either nothing is there that could be a
\* duplicate, or what is there is in order.
LEMMA EnqueuedOK ==
  ASSUME NEW c, NEW e, NEW before, NEW now, NEW rejects, Fits(c, before),
         Fresh(e, before, now), e.scope = c.scope,
         \/ WaitsForWork(c)
         \/ c.latest = NoSubmission /\ ~Live(c) /\ c.completed = Nowhere
  PROVE  ClassifierOK(Enqueued(c, e, rejects), now)
<1> DEFINE first == c.shown.samples = <<>> /\ ~c.shown.pending
           shown == IF first \/ c.shown.issue # "none"
                      THEN [c.shown EXCEPT !.source = e.source,
                              !.pending = first \/ @, !.issue = "none"]
                      ELSE c.shown
           d == [c EXCEPT !.latest = e, !.shown = shown]
           duplicate == \/ /\ Working(c) /\ c.job.current
                           /\ Key(c.job.evidence) = Key(e)
                        \/ c.latest # NoSubmission /\ Key(c.latest) = Key(e)
                        \/ c.completed = Key(e)
<1>1. CASE duplicate
  <2>1. Enqueued(c, e, rejects) = c
    BY <1>1, Zenon DEF Enqueued
  <2>2. WaitsForWork(c)
    BY <1>1, ScopeNames DEF Fresh, Live
  <2> QED BY <2>1, <2>2, ClassifierLater DEF ClassifierOK, Fresh
<1>2. CASE ~duplicate
  <2>1. Enqueued(c, e, rejects) = Drained(d, rejects)
    BY <1>2, Zenon DEF Enqueued
  <2>2. /\ IsShown(shown) /\ shown.samples = c.shown.samples
        /\ shown.source \in {c.shown.source, e.source}
    <3>1. IsShown(c.shown) /\ first \in BOOLEAN
      BY DEF Fits, IsClassifier
    <3> HIDE DEF first
    <3> QED BY <3>1 DEF IsShown
  <2> HIDE DEF shown
  <2>3. /\ DOMAIN d = DOMAIN c /\ d.latest = e /\ d.scope = c.scope /\ d.job = c.job
        /\ d.consensus = c.consensus /\ d.shown = shown
    BY DEF Fits, IsClassifier
  <2> HIDE DEF d
  <2>4. ClassifierOK(d, now)
    BY <2>2, <2>3, WaitingOK
  <2> QED BY <2>1, <2>4, DrainedOK
<1> QED BY <1>1, <1>2

\* A new scope: nothing of the old one is left.
LEMMA RescopedOK ==
  ASSUME NEW c, NEW e, NEW before, NEW now, ClassifierOK(c, before), Fresh(e, before, now),
         NEW rejects, ~c.disposed
  PROVE  ClassifierOK(Submitted(c, e, rejects), now)
<1>1. CASE e.scope = c.scope
  BY <1>1, EnqueuedOK DEF Submitted, ClassifierOK
<1>2. CASE e.scope # c.scope
  <2> DEFINE shown == [NothingShown EXCEPT !.source = e.source, !.pending = TRUE]
             j == Outdated(c.job)
             d == [c EXCEPT !.scope = e.scope, !.job = j,
                     !.consensus = <<>>, !.latest = NoSubmission, !.completed = Nowhere,
                     !.shown = shown]
  <2>1. Submitted(c, e, rejects) = Enqueued(d, e, rejects)
    BY <1>2, Zenon DEF Submitted
  <2>2. /\ IsShown(shown) /\ shown.samples = <<>> /\ shown.source = e.source
    BY DEF IsShown, NothingShown
  <2>3. j = NoJob \/ (IsJob(j) /\ ~j.current)
    BY JobsOutdated DEF IsClassifier, ClassifierOK, Fits
  <2> HIDE DEF shown, j
  <2>4. /\ d.latest = NoSubmission /\ d.job = j /\ d.scope = e.scope /\ d.consensus = <<>>
        /\ d.shown = shown /\ DOMAIN d = DOMAIN c /\ d.completed = Nowhere
    BY DEF IsClassifier, ClassifierOK, Fits
  <2> HIDE DEF d
  <2>5. IsClassifier(d) /\ ~Live(d)
    BY <2>2, <2>3, <2>4, Nothing DEF IsClassifier, Live, Working, ClassifierOK, Fits
  <2>6. <<>> \in Seq(Range(<<>>)) /\ DOMAIN <<>> = {}
    OBVIOUS
  <2>7. Scoped(d, before)
    BY <2>2, <2>4, ScopeNames DEF Scoped, Fresh, Later
  <2>8. Fits(d, before)
    BY <2>2, <2>4, <2>5, <2>6, <2>7 DEF Fits, Sampled, Ahead
  <2> QED BY <2>1, <2>4, <2>5, <2>8, EnqueuedOK
<1> QED BY <1>1, <1>2

LEMMA SubmittedOK ==
  ASSUME NEW c, NEW e, NEW before, NEW now, ClassifierOK(c, before), Fresh(e, before, now),
         NEW rejects
  PROVE  ClassifierOK(Submitted(c, e, rejects), now)
<1>1. CASE c.disposed
  BY <1>1, ClassifierLater DEF Submitted, Fresh
<1> QED BY <1>1, RescopedOK

\* The job moves on, nothing else does.
LEMMA MovedOK ==
  ASSUME NEW c, NEW now, ClassifierOK(c, now), Working(c),
         NEW d, DOMAIN d = DOMAIN c, d.latest = c.latest, d.scope = c.scope,
         d.consensus = c.consensus, d.shown = c.shown, IsJob(d.job), d.job # NoJob,
         d.job.evidence = c.job.evidence, d.job.current = c.job.current,
         d.job.phase # "handled" => c.job.phase # "handled"
  PROVE  ClassifierOK(d, now)
<1>1. IsClassifier(d) /\ (Live(d) <=> Live(c))
  BY DEF IsClassifier, Live, Working, Fits, ClassifierOK
<1>2. Scoped(d, now) /\ Sampled(d, now) /\ Ahead(d)
  BY <1>1 DEF Fits, Scoped, Sampled, Ahead, ClassifierOK
<1> QED BY <1>1, <1>2 DEF ClassifierOK, Fits, WaitsForWork

LEMMA SettledOK ==
  ASSUME NEW c, NEW now, ClassifierOK(c, now), NEW answer
  PROVE  /\ ClassifierOK(Settled(c, answer), now)
         /\ DOMAIN Settled(c, answer) = DOMAIN c
<1>1. CASE c.job.phase # "asked"
  BY <1>1 DEF Settled
<1>2. CASE c.job.phase = "asked"
  <2> DEFINE e == [c EXCEPT !.job.phase = "settled"]
             d == [e EXCEPT !.job.answer = answer]
  <2>1. Working(c) /\ IsJob(c.job)
    BY <1>2, Nothing DEF Working, ClassifierOK, Fits, IsClassifier
  <2>2. Settled(c, answer) = d
    BY <1>2, <2>1 DEF Settled, ClassifierOK, Fits, IsClassifier, IsJob
  <2>3. /\ DOMAIN e = DOMAIN c /\ e.latest = c.latest /\ e.scope = c.scope
        /\ e.consensus = c.consensus /\ e.shown = c.shown
        /\ DOMAIN e.job = DOMAIN c.job /\ e.job.phase = "settled"
        /\ e.job.evidence = c.job.evidence /\ e.job.current = c.job.current
    BY <2>1 DEF ClassifierOK, Fits, IsClassifier, IsJob
  <2> HIDE DEF e
  <2>4. /\ DOMAIN d = DOMAIN c /\ d.latest = c.latest /\ d.scope = c.scope
        /\ d.consensus = c.consensus /\ d.shown = c.shown
        /\ DOMAIN d.job = DOMAIN c.job /\ d.job.phase = "settled"
        /\ d.job.evidence = c.job.evidence /\ d.job.current = c.job.current
    BY <2>1, <2>3 DEF ClassifierOK, Fits, IsClassifier, IsJob
  <2> HIDE DEF d
  <2>5. IsJob(d.job) /\ d.job # NoJob
    BY <2>1, <2>4, Nothing DEF IsJob
  <2> QED BY <1>2, <2>1, <2>2, <2>4, <2>5, MovedOK
<1> QED BY <1>1, <1>2

LEMMA AnsweredOK ==
  ASSUME NEW c, NEW now, ClassifierOK(c, now), NEW answer
  PROVE  ClassifierOK(JobAnswered(c, answer), now)
BY SettledOK DEF JobAnswered

\* Whether there is a worker, and whether the controller is disposed of, says
\* nothing about the evidence.
LEMMA SameEvidence ==
  ASSUME NEW c, NEW now, ClassifierOK(c, now), NEW d, DOMAIN d = DOMAIN c,
         d.latest = c.latest, d.job = c.job, d.scope = c.scope, d.consensus = c.consensus,
         d.shown = c.shown
  PROVE  ClassifierOK(d, now)
BY DEF ClassifierOK, Fits, WaitsForWork, IsClassifier, Scoped, Sampled, Ahead, Live, Working

LEMMA WorkerFailedOK ==
  ASSUME NEW c, NEW now, ClassifierOK(c, now)
  PROVE  ClassifierOK(WorkerFailed(c), now)
<1> DEFINE s == Settled(c, "error")
           d == [s EXCEPT !.worker = FALSE]
<1>1. ClassifierOK(s, now)
  BY SettledOK
<1> HIDE DEF s
<1>2. /\ DOMAIN d = DOMAIN s /\ d.latest = s.latest /\ d.job = s.job /\ d.scope = s.scope
      /\ d.consensus = s.consensus /\ d.shown = s.shown
  BY <1>1 DEF ClassifierOK, Fits, IsClassifier
<1>3. d = WorkerFailed(c)
  BY DEF WorkerFailed, s
<1> HIDE DEF d
<1> QED BY <1>1, <1>2, <1>3, SameEvidence

LEMMA DisposedOK ==
  ASSUME NEW c, NEW now, ClassifierOK(c, now)
  PROVE  ClassifierOK(Disposed(c), now)
<1>1. CASE c.disposed
  BY <1>1 DEF Disposed
<1>2. CASE ~c.disposed
  <2> DEFINE s == Settled(Reset(c), "error")
             d == [s EXCEPT !.disposed = TRUE, !.worker = FALSE]
  <2>1. ClassifierOK(s, now)
    BY SettledOK, ResetOK DEF ClassifierOK, Fits
  <2>2. d = Disposed(c)
    BY <1>2 DEF Disposed
  <2> HIDE DEF s
  <2>3. /\ DOMAIN d = DOMAIN s /\ d.latest = s.latest /\ d.job = s.job /\ d.scope = s.scope
        /\ d.consensus = s.consensus /\ d.shown = s.shown
    BY <2>1 DEF ClassifierOK, Fits, IsClassifier
  <2> HIDE DEF d
  <2> QED BY <2>1, <2>2, <2>3, SameEvidence
<1> QED BY <1>1, <1>2

LEMMA NotPending ==
  ASSUME NEW s, s = [NothingShown EXCEPT !.pending = FALSE]
  PROVE  s = NothingShown
<1>1. DOMAIN s = DOMAIN NothingShown /\ s = [x \in DOMAIN NothingShown |-> s[x]]
  BY DEF NothingShown
<1>2. \A x \in DOMAIN NothingShown : s[x] = NothingShown[x]
  BY DEF NothingShown
<1>3. NothingShown = [x \in DOMAIN NothingShown |-> NothingShown[x]]
  BY DEF NothingShown
<1> QED BY <1>1, <1>2, <1>3

\* The job is over, and what it was for is shown as waiting only if something
\* else is there.
LEMMA FinishedOK ==
  ASSUME NEW c, NEW now, ClassifierOK(c, now), Working(c), NEW rejects
  PROVE  ClassifierOK(Finished(c, rejects), now)
<1> DEFINE idle == c.job.current /\ c.latest = NoSubmission
           e == [c EXCEPT !.job = NoJob]
           d == [e EXCEPT !.shown.pending = IF idle THEN FALSE ELSE @]
<1>1. Finished(c, rejects) = Drained(d, rejects)
  <2>1. e.shown = c.shown
    BY DEF ClassifierOK, Fits, IsClassifier
  <2> QED BY <2>1, Zenon DEF Finished
<1>2. idle \in BOOLEAN /\ c.shown.pending \in BOOLEAN /\ IsShown(c.shown)
  BY DEF ClassifierOK, Fits, IsClassifier, IsJob, IsShown, Working
<1>3. /\ DOMAIN e = DOMAIN c /\ e.latest = c.latest /\ e.job = NoJob /\ e.scope = c.scope
      /\ e.consensus = c.consensus /\ e.shown = c.shown
  BY DEF ClassifierOK, Fits, IsClassifier
<1> HIDE DEF e
<1>4. /\ DOMAIN d = DOMAIN c /\ d.latest = c.latest /\ d.job = NoJob /\ d.scope = c.scope
      /\ d.consensus = c.consensus /\ IsShown(d.shown)
      /\ d.shown.source = c.shown.source /\ d.shown.samples = c.shown.samples
      /\ d.shown.pending = IF idle THEN FALSE ELSE c.shown.pending
  BY <1>2, <1>3 DEF ClassifierOK, Fits, IsClassifier, IsShown
<1>10. ASSUME c.shown = NothingShown PROVE d.shown = NothingShown
  <2>1. (IF idle THEN FALSE ELSE e.shown.pending) = FALSE
    BY <1>2, <1>3, <1>10, Nothing
  <2>2. d = [e EXCEPT !.shown.pending = FALSE]
    BY <2>1
  <2>3. d.shown = [NothingShown EXCEPT !.pending = FALSE]
    BY <1>3, <1>10, <2>2 DEF ClassifierOK, Fits, IsClassifier
  <2> QED BY <2>3, NotPending
<1> HIDE DEF d
<1>5. ~Live(d) /\ IsClassifier(d)
  BY <1>4, Nothing DEF Live, Working, IsClassifier, ClassifierOK, Fits
<1>6. Scoped(d, now)
  BY <1>4, <1>5, <1>10, Nothing DEF ClassifierOK, Fits, Scoped
<1>7. Sampled(d, now) /\ Ahead(d)
  BY <1>4, <1>5 DEF ClassifierOK, Fits, Sampled, Ahead
<1>8. WaitsForWork(d)
  BY <1>4 DEF ClassifierOK, WaitsForWork, Live
<1>9. ClassifierOK(d, now)
  BY <1>4, <1>5, <1>6, <1>7, <1>8 DEF ClassifierOK, Fits
<1> QED BY <1>1, <1>9, DrainedOK

LEMMA SeqWithinRange ==
  ASSUME NEW S, NEW t \in Seq(S)
  PROVE  t \in Seq(Range(t))
<1>1. Len(t) \in Nat /\ t \in [1..Len(t) -> S]
  OBVIOUS
<1>2. t \in [1..Len(t) -> Range(t)]
  BY <1>1 DEF Range
<1> QED BY <1>1, <1>2, SeqDef

\* The samples after a result: some of the latest, and the new one.
Trailing(s, kept, e) == Append(SubSeq(s, Len(s) - kept + 1, Len(s)), e)

LEMMA TrailingSamples ==
  ASSUME NEW s, s \in Seq(Range(s)), NEW kept, kept \in 0..Len(s), NEW e, NEW t,
         t = Trailing(s, kept, e)
  PROVE  /\ t \in Seq(Range(t)) /\ Len(t) = kept + 1 /\ DOMAIN t = 1..(kept + 1)
         /\ t[kept + 1] = e
         /\ \A i \in 1..kept : t[i] = s[Len(s) - kept + i] /\ Len(s) - kept + i \in DOMAIN s
<1> DEFINE S == Range(s)
           m == Len(s) - kept + 1
           u == SubSeq(s, m, Len(s))
<1> HIDE DEF S
<1>1. m \in Int /\ Len(s) \in Nat /\ kept \in Nat /\ DOMAIN s = 1..Len(s) /\ s \in Seq(S)
  BY DEF S
<1>2. \A i \in m..Len(s) : s[i] \in S
  BY <1>1
<1>3. /\ u \in Seq(S) /\ Len(u) = kept
      /\ \A i \in 1..kept : u[i] = s[Len(s) - kept + i]
  <2>1. /\ u \in Seq(S) /\ Len(u) = IF m <= Len(s) THEN Len(s) - m + 1 ELSE 0
        /\ \A i \in 1..(Len(s) - m + 1) : u[i] = s[m + i - 1]
    <3> HIDE DEF m
    <3> QED BY <1>1, <1>2, SubSeqProperties
  <2> QED BY SMTT(40), <1>1, <2>1
<1> HIDE DEF u
<1>4. u \in Seq(S \cup {e})
  BY <1>3
<1>5. /\ t \in Seq(S \cup {e}) /\ Len(t) = kept + 1 /\ t[kept + 1] = e
      /\ \A i \in 1..kept : t[i] = u[i]
  <2>1. t = Append(u, e) /\ e \in S \cup {e}
    BY DEF u, Trailing
  <2>2. /\ Append(u, e) \in Seq(S \cup {e}) /\ Len(Append(u, e)) = Len(u) + 1
        /\ \A i \in 1..Len(u) : Append(u, e)[i] = u[i]
        /\ Append(u, e)[Len(u) + 1] = e
    BY <2>1, <1>4, AppendProperties
  <2> QED BY <2>1, <2>2, <1>3
<1>6. t \in Seq(Range(t))
  BY <1>5, SeqWithinRange
<1> QED BY <1>1, <1>3, <1>5, <1>6

\* Another label on what is shown
LEMMA RelabelledOK ==
  ASSUME NEW c, NEW now, ClassifierOK(c, now), c.scope # Nowhere, NEW source, NEW issue,
         source = c.shown.source
  PROVE  ClassifierOK([c EXCEPT !.shown.source = source, !.shown.issue = issue], now)
<1> DEFINE b == [c EXCEPT !.shown.source = source]
           d == [b EXCEPT !.shown.issue = issue]
<1>1. d = [c EXCEPT !.shown.source = source, !.shown.issue = issue]
  BY DEF ClassifierOK, Fits, IsClassifier
<1>2. /\ DOMAIN b = DOMAIN c /\ b.latest = c.latest /\ b.job = c.job /\ b.scope = c.scope
      /\ b.consensus = c.consensus /\ DOMAIN b.shown = DOMAIN c.shown
      /\ b.shown.source = source /\ b.shown.pending = c.shown.pending
      /\ b.shown.samples = c.shown.samples
  BY DEF ClassifierOK, Fits, IsClassifier, IsShown
<1> HIDE DEF b
<1>3. /\ DOMAIN d = DOMAIN c /\ d.latest = c.latest /\ d.job = c.job /\ d.scope = c.scope
      /\ d.consensus = c.consensus /\ DOMAIN d.shown = DOMAIN c.shown
      /\ d.shown.source = c.shown.source /\ d.shown.pending = c.shown.pending
      /\ d.shown.samples = c.shown.samples
  BY <1>2 DEF ClassifierOK, Fits, IsClassifier, IsShown
<1> HIDE DEF d
<1>4. IsClassifier(d) /\ (Live(d) <=> Live(c))
  BY <1>3 DEF ClassifierOK, Fits, IsClassifier, IsShown, Live, Working
<1>5. Scoped(d, now) /\ Sampled(d, now) /\ Ahead(d)
  BY <1>3, <1>4 DEF ClassifierOK, Fits, Scoped, Sampled, Ahead
<1>6. ClassifierOK(d, now)
  BY <1>3, <1>4, <1>5 DEF ClassifierOK, Fits, WaitsForWork
<1> QED BY <1>1, <1>6

\* The projection shows other samples, another source, another issue.
LEMMA HandledOK ==
  ASSUME NEW c, NEW now, ClassifierOK(c, now), c.job.phase = "settled",
         NEW kept \in 0..Len(c.consensus)
  PROVE  ClassifierOK(Handled(c, kept), now)
<1> DEFINE e == c.job.evidence
           n == Len(c.consensus)
           samples == Append(SubSeq(c.consensus, n - kept + 1, n), e)
           done == [c EXCEPT !.job.phase = "handled"]
<1>1. Working(c) /\ IsJob(c.job)
  BY Nothing DEF Working, ClassifierOK, Fits, IsClassifier
<1>2. /\ DOMAIN done = DOMAIN c /\ done.latest = c.latest /\ done.scope = c.scope
      /\ done.consensus = c.consensus /\ done.shown = c.shown
      /\ DOMAIN done.job = DOMAIN c.job /\ done.job.phase = "handled"
      /\ done.job.evidence = c.job.evidence /\ done.job.current = c.job.current
  BY <1>1 DEF ClassifierOK, Fits, IsClassifier, IsJob
<1>3. IsJob(done.job) /\ done.job # NoJob
  BY <1>1, <1>2, Nothing DEF IsJob
<1>4. ClassifierOK(done, now)
  <2> HIDE DEF done
  <2> QED BY <1>1, <1>2, <1>3, MovedOK
<1>5. CASE ~Admissible(c)
  BY <1>4, <1>5, Zenon DEF Handled
<1>6. CASE Admissible(c)
  <2>1. Live(c) /\ About(e, now) /\ e.scope = c.scope
    BY <1>1, <1>6 DEF Admissible, Live, ClassifierOK, Fits
  <2>2. c.scope # Nowhere /\ e.source = c.shown.source
    BY <2>1, ScopeNames, SourceOfScope DEF ClassifierOK, Fits
  <2>3. CASE c.job.answer = "ok"
    <3> DEFINE shown == [source |-> e.source, pending |-> FALSE, samples |-> samples,
                         issue |-> "none"]
               d == [done EXCEPT !.completed = Key(e), !.consensus = samples,
                                 !.shown = shown]
    <3>1. Handled(c, kept) = d
      BY <1>6, <2>3, Zenon DEF Handled
    <3>2. /\ IsShown(shown) /\ shown.samples = samples /\ ~shown.pending
          /\ shown.source = e.source
      BY DEF IsShown
    <3> HIDE DEF shown, done, samples
    <3>3. /\ DOMAIN d = DOMAIN c /\ d.latest = c.latest /\ d.scope = c.scope
          /\ d.consensus = samples /\ d.shown = shown /\ d.job = done.job
      BY <1>2 DEF ClassifierOK, Fits, IsClassifier
    <3> HIDE DEF d
    <3>4. IsClassifier(d) /\ Live(d)
      BY <1>1, <1>2, <1>3, <2>1, <3>2, <3>3
         DEF IsClassifier, ClassifierOK, Fits, Live, Working
    <3>5. /\ c.consensus \in Seq(Range(c.consensus))
          /\ \A i \in DOMAIN c.consensus :
               /\ About(c.consensus[i], now) /\ c.consensus[i].scope = c.scope
               /\ c.consensus[i].id < e.id
          /\ \A i, j \in DOMAIN c.consensus : i < j => c.consensus[i].id < c.consensus[j].id
      BY <2>1 DEF ClassifierOK, Fits, Sampled, Ahead
    <3>6. /\ samples \in Seq(Range(samples)) /\ DOMAIN samples = 1..(kept + 1)
          /\ samples[kept + 1] = e
          /\ \A i \in 1..kept : /\ samples[i] = c.consensus[n - kept + i]
                                /\ n - kept + i \in DOMAIN c.consensus
      <4> DEFINE s == c.consensus
      <4>1. samples = Trailing(s, kept, e)
        BY DEF samples, Trailing
      <4>2. s \in Seq(Range(s)) /\ kept \in 0..Len(s)
        BY <3>5
      <4> HIDE DEF s
      <4>3. /\ samples \in Seq(Range(samples)) /\ DOMAIN samples = 1..(kept + 1)
            /\ samples[kept + 1] = e
            /\ \A i \in 1..kept : /\ samples[i] = s[Len(s) - kept + i]
                                  /\ Len(s) - kept + i \in DOMAIN s
        <5> HIDE DEF e
        <5>1. samples \in Seq(Range(samples)) BY <4>1, <4>2, TrailingSamples
        <5>2. samples[kept + 1] = e BY <4>1, <4>2, TrailingSamples
        <5>3. DOMAIN samples = 1..(kept + 1) BY <4>1, <4>2, TrailingSamples
        <5>4. \A i \in 1..kept : samples[i] = s[Len(s) - kept + i] BY <4>1, <4>2, TrailingSamples
        <5>5. \A i \in 1..kept : Len(s) - kept + i \in DOMAIN s BY <4>1, <4>2, TrailingSamples
        <5> QED BY <5>1, <5>2, <5>3, <5>4, <5>5
      <4> QED BY <4>3, Zenon DEF s
    <3>7. kept \in Nat /\ n \in Nat
      BY <3>5
    <3>8. \A i \in DOMAIN samples : About(samples[i], now) /\ samples[i].scope = c.scope
      <4> TAKE i \in DOMAIN samples
      <4>1. i = kept + 1 \/ i \in 1..kept
        BY <3>6, <3>7
      <4> QED BY <4>1, <2>1, <3>5, <3>6
    <3>9. \A i, j \in DOMAIN samples : i < j => samples[i].id < samples[j].id
      <4> SUFFICES ASSUME NEW i \in DOMAIN samples, NEW j \in DOMAIN samples, i < j
                   PROVE  samples[i].id < samples[j].id
        OBVIOUS
      <4>1. i \in 1..kept /\ (j = kept + 1 \/ j \in 1..kept)
        BY <3>6, <3>7
      <4>2. CASE j = kept + 1
        BY <4>1, <4>2, <3>5, <3>6
      <4>3. CASE j \in 1..kept
        <5>1. n - kept + i < n - kept + j
          BY <4>1, <4>3, <3>7
        <5> QED BY <4>1, <4>3, <5>1, <3>5, <3>6
      <4> QED BY <4>1, <4>2, <4>3
    <3>10. Scoped(d, now)
      BY <2>1, <2>2, <3>2, <3>3 DEF Scoped, ClassifierOK, Fits
    <3>11. Sampled(d, now)
      BY <3>2, <3>3, <3>6, <3>8, <3>9 DEF Sampled
    <3>12. Ahead(d)
      <4>1. \A i \in DOMAIN samples : samples[i].id <= e.id
        <5> TAKE i \in DOMAIN samples
        <5>1. i = kept + 1 \/ i \in 1..kept
          BY <3>6, <3>7
        <5>2. e.id \in Nat /\ samples[i].id \in Nat
          BY <2>1, <3>8 DEF About
        <5>3. samples[i].id = e.id \/ samples[i].id < e.id
          BY <5>1, <3>5, <3>6
        <5> QED BY <5>2, <5>3
      <4>2. c.latest # NoSubmission => e.id < c.latest.id /\ c.latest.id \in Nat
        BY <2>1 DEF ClassifierOK, Fits, Ahead, About
      <4>3. /\ d.consensus = samples /\ d.latest = c.latest /\ d.job.phase = "handled"
            /\ d.job.evidence = e
        BY <1>2, <3>3
      <4>4. \A i \in DOMAIN samples : samples[i].id \in Nat
        BY <3>8 DEF About
      <4>5. e.id \in Nat
        BY <2>1 DEF About
      <4> HIDE DEF e
      <4> QED BY <4>1, <4>2, <4>3, <4>4, <4>5 DEF Ahead
    <3> QED BY <1>2, <2>1, <3>1, <3>2, <3>3, <3>4, <3>10, <3>11, <3>12
               DEF ClassifierOK, Fits, WaitsForWork
  <2>4. CASE c.job.answer # "ok"
    <3> DEFINE issue == IF e.source = "iq" /\ e.data.short THEN "unavailable" ELSE "none"
               f == [done EXCEPT !.completed = Key(e)]
    <3>1. \/ Handled(c, kept) = [done EXCEPT !.shown.source = e.source,
                                             !.shown.issue = "failure"]
          \/ Handled(c, kept) = [done EXCEPT !.completed = Key(e),
                                   !.shown.source = e.source, !.shown.issue = issue]
      BY <1>6, <2>4, Zenon DEF Handled
    <3> HIDE DEF issue, done
    <3>2. /\ DOMAIN f = DOMAIN done /\ f.latest = done.latest /\ f.scope = done.scope
          /\ f.consensus = done.consensus /\ f.shown = done.shown /\ f.job = done.job
      BY <1>2 DEF ClassifierOK, Fits, IsClassifier
    <3>3. [done EXCEPT !.completed = Key(e), !.shown.source = e.source, !.shown.issue = issue]
            = [f EXCEPT !.shown.source = e.source, !.shown.issue = issue]
      OBVIOUS
    <3> HIDE DEF f
    <3>4. ClassifierOK(f, now)
      BY <1>4, <3>2, SameEvidence
    <3>5. /\ f.shown.source = e.source /\ done.shown.source = e.source
          /\ f.scope # Nowhere /\ done.scope # Nowhere
      BY <1>2, <2>2, <3>2
    <3> HIDE DEF e
    <3>6. ClassifierOK([done EXCEPT !.shown.source = e.source, !.shown.issue = "failure"], now)
      BY <3>5, <1>4, RelabelledOK
    <3>7. ClassifierOK([f EXCEPT !.shown.source = e.source, !.shown.issue = issue], now)
      BY <3>4, <3>5, RelabelledOK
    <3> QED BY <3>1, <3>3, <3>6, <3>7, Zenon
  <2> QED BY <2>3, <2>4
<1> QED BY <1>5, <1>6

-----------------------------------------------------------------------------
(* What is on display: the recovered constellation *)

IsRecovery(w) ==
  /\ DOMAIN w = {"mounted", "capture", "scope", "latest", "job", "completed", "cooling",
                 "timer", "recovered"}
  /\ w.job = NoRecovery \/ DOMAIN w.job = {"capture", "current", "phase", "answer"}

\* What is shown, waits or is worked on is of the scope the workspace shows,
\* and only while it shows one.
RecoveryOK(w) ==
  /\ IsRecovery(w)
  /\ w.latest # NoCapture => w.latest.scope = w.scope /\ w.capture # NoCapture
  /\ w.job # NoRecovery /\ w.job.current =>
       w.job.capture.scope = w.scope /\ w.capture # NoCapture
  /\ w.recovered # NoCapture => w.recovered.scope = w.scope /\ w.capture # NoCapture

LEMMA UnmountedOK == RecoveryOK(Unmounted)
BY DEF RecoveryOK, IsRecovery, Unmounted

LEMMA NoRecoveryPhase == NoRecovery.phase = "none"
BY DEF NoRecovery

\* Whether a timer or the pause is on says nothing about the captures.
LEMMA SameCaptures ==
  ASSUME NEW w, RecoveryOK(w), NEW s, DOMAIN s = DOMAIN w, s.capture = w.capture,
         s.scope = w.scope, s.latest \in {w.latest, NoCapture},
         s.job \in {w.job, NoRecovery}, s.recovered \in {w.recovered, NoCapture}
  PROVE  RecoveryOK(s)
BY DEF RecoveryOK, IsRecovery

LEMMA RecoveringOK ==
  ASSUME NEW w, RecoveryOK(w)
  PROVE  RecoveryOK(Recovering(w))
<1>1. CASE ~w.mounted \/ w.job # NoRecovery \/ w.latest = NoCapture
  BY <1>1 DEF Recovering
<1>2. CASE ~(~w.mounted \/ w.job # NoRecovery \/ w.latest = NoCapture) /\ w.cooling
  <2> DEFINE s == [w EXCEPT !.timer = IF @ = "none" THEN "set" ELSE @]
  <2>1. Recovering(w) = s
    BY <1>2, Zenon DEF Recovering
  <2>2. /\ DOMAIN s = DOMAIN w /\ s.capture = w.capture /\ s.scope = w.scope
        /\ s.latest = w.latest /\ s.job = w.job /\ s.recovered = w.recovered
    BY DEF RecoveryOK, IsRecovery
  <2> HIDE DEF s
  <2> QED BY <2>1, <2>2, SameCaptures
<1>3. CASE ~(~w.mounted \/ w.job # NoRecovery \/ w.latest = NoCapture) /\ ~w.cooling
  <2> DEFINE j == [capture |-> w.latest, current |-> TRUE, phase |-> "asked",
                   answer |-> "none"]
             s == [w EXCEPT !.latest = NoCapture, !.cooling = TRUE, !.job = j]
  <2>1. Recovering(w) = s
    BY <1>3, Zenon DEF Recovering
  <2>2. DOMAIN j = {"capture", "current", "phase", "answer"} /\ j.capture = w.latest
    OBVIOUS
  <2> HIDE DEF j
  <2>3. /\ DOMAIN s = DOMAIN w /\ s.capture = w.capture /\ s.scope = w.scope
        /\ s.latest = NoCapture /\ s.job = j /\ s.recovered = w.recovered
    BY DEF RecoveryOK, IsRecovery
  <2> HIDE DEF s
  <2> QED BY <1>3, <2>1, <2>2, <2>3 DEF RecoveryOK, IsRecovery
<1> QED BY <1>1, <1>2, <1>3

LEMMA RescopedRecoveryOK ==
  ASSUME NEW w, IsRecovery(w), NEW scope
  PROVE  /\ RecoveryOK(Rescoped(w, scope))
         /\ DOMAIN Rescoped(w, scope) = DOMAIN w
         /\ Rescoped(w, scope).scope = scope
         /\ Rescoped(w, scope).capture = w.capture
<1> DEFINE j == IF w.job = NoRecovery THEN w.job ELSE [w.job EXCEPT !.current = FALSE]
           s == [w EXCEPT !.scope = scope, !.latest = NoCapture, !.completed = NoCapture,
                   !.cooling = FALSE, !.timer = "none", !.recovered = NoCapture, !.job = j]
<1>1. Rescoped(w, scope) = s
  BY DEF Rescoped, IsRecovery
<1>2. \/ j = NoRecovery
      \/ DOMAIN j = {"capture", "current", "phase", "answer"} /\ ~j.current
  BY DEF IsRecovery
<1> HIDE DEF j
<1>3. /\ DOMAIN s = DOMAIN w /\ s.capture = w.capture /\ s.scope = scope
      /\ s.latest = NoCapture /\ s.job = j /\ s.recovered = NoCapture
  BY DEF IsRecovery
<1> HIDE DEF s
<1> QED BY <1>1, <1>2, <1>3 DEF RecoveryOK, IsRecovery

LEMMA OfferedOK ==
  ASSUME NEW w, IsRecovery(w), NEW capture, capture # NoCapture, w.capture = capture,
         capture.scope = w.scope => RecoveryOK(w)
  PROVE  RecoveryOK(Offered(w, capture))
<1> DEFINE scoped == IF capture.scope = w.scope THEN w ELSE Rescoped(w, capture.scope)
           duplicate == \/ scoped.job # NoRecovery /\ scoped.job.capture = capture
                        \/ scoped.latest = capture
                        \/ scoped.completed = capture
           s == [scoped EXCEPT !.latest = capture]
<1>1. RecoveryOK(scoped) /\ scoped.scope = capture.scope /\ scoped.capture = capture
  BY RescopedRecoveryOK
<1>2. Offered(w, capture) = IF duplicate THEN scoped ELSE Recovering(s)
  BY Zenon DEF Offered
<1> HIDE DEF duplicate, scoped
<1>3. /\ DOMAIN s = DOMAIN scoped /\ s.capture = scoped.capture /\ s.scope = scoped.scope
      /\ s.latest = capture /\ s.job = scoped.job /\ s.recovered = scoped.recovered
  BY <1>1 DEF RecoveryOK, IsRecovery
<1> HIDE DEF s
<1>4. RecoveryOK(s)
  BY <1>1, <1>3 DEF RecoveryOK, IsRecovery
<1> QED BY <1>1, <1>2, <1>4, RecoveringOK

LEMMA EffectOK ==
  ASSUME NEW w, RecoveryOK(w), NEW capture
  PROVE  RecoveryOK(EffectRun(w, capture))
<1> DEFINE seen == [w EXCEPT !.capture = capture]
<1>1. /\ DOMAIN seen = DOMAIN w /\ seen.capture = capture /\ seen.scope = w.scope
      /\ seen.latest = w.latest /\ seen.job = w.job /\ seen.recovered = w.recovered
  BY DEF RecoveryOK, IsRecovery
<1>2. EffectRun(w, capture) = IF capture = NoCapture THEN Rescoped(seen, <<>>)
                                                     ELSE Offered(seen, capture)
  BY DEF EffectRun
<1> HIDE DEF seen
<1>3. IsRecovery(seen) /\ (capture # NoCapture => RecoveryOK(seen))
  BY <1>1 DEF RecoveryOK, IsRecovery
<1> QED BY <1>1, <1>2, <1>3, RescopedRecoveryOK, OfferedOK

LEMMA MountedOK ==
  ASSUME NEW capture
  PROVE  RecoveryOK(Mounted(capture))
<1> DEFINE w == [Unmounted EXCEPT !.mounted = TRUE]
<1>1. RecoveryOK(w)
  BY DEF RecoveryOK, IsRecovery, Unmounted
<1> QED BY <1>1, EffectOK DEF Mounted

LEMMA RecoveryMovedOK ==
  ASSUME NEW w, RecoveryOK(w), w.job # NoRecovery, NEW s, DOMAIN s = DOMAIN w,
         s.capture = w.capture, s.scope = w.scope, s.latest = w.latest,
         DOMAIN s.job = DOMAIN w.job, s.job.capture = w.job.capture,
         s.job.current = w.job.current,
         s.recovered = w.recovered \/ (w.job.current /\ s.recovered = w.job.capture)
  PROVE  RecoveryOK(s)
BY DEF RecoveryOK, IsRecovery

LEMMA RecoveryAnsweredOK ==
  ASSUME NEW w, RecoveryOK(w), w.job.phase = "asked", NEW answer
  PROVE  RecoveryOK(RecoveryAnswered(w, answer))
<1> DEFINE q == [w EXCEPT !.job.phase = "settled"]
           s == [q EXCEPT !.job.answer = answer]
<1>1. w.job # NoRecovery
  BY NoRecoveryPhase
<1>2. RecoveryAnswered(w, answer) = s
  BY <1>1 DEF RecoveryAnswered, RecoveryOK, IsRecovery
<1>3. /\ DOMAIN q = DOMAIN w /\ q.capture = w.capture /\ q.scope = w.scope
      /\ q.latest = w.latest /\ q.recovered = w.recovered
      /\ DOMAIN q.job = DOMAIN w.job
      /\ q.job.capture = w.job.capture /\ q.job.current = w.job.current
  BY <1>1 DEF RecoveryOK, IsRecovery
<1> HIDE DEF q
<1>4. /\ DOMAIN s = DOMAIN w /\ s.capture = w.capture /\ s.scope = w.scope
      /\ s.latest = w.latest /\ s.recovered = w.recovered
      /\ DOMAIN s.job = DOMAIN w.job
      /\ s.job.capture = w.job.capture /\ s.job.current = w.job.current
  BY <1>1, <1>3 DEF RecoveryOK, IsRecovery
<1> HIDE DEF s
<1> QED BY <1>1, <1>2, <1>4, RecoveryMovedOK

LEMMA RecoveryHandledOK ==
  ASSUME NEW w, RecoveryOK(w), w.job.phase = "settled"
  PROVE  RecoveryOK(RecoveryHandled(w))
<1> DEFINE q == [w EXCEPT !.job.phase = "handled"]
           s == [q EXCEPT !.completed = w.job.capture, !.recovered = w.job.capture]
<1>1. w.job # NoRecovery
  BY NoRecoveryPhase
<1>2. \/ RecoveryHandled(w) = q
      \/ w.job.current /\ RecoveryHandled(w) = s
  BY Zenon DEF RecoveryHandled
<1>3. /\ DOMAIN q = DOMAIN w /\ q.capture = w.capture /\ q.scope = w.scope
      /\ q.latest = w.latest /\ q.recovered = w.recovered
      /\ DOMAIN q.job = DOMAIN w.job
      /\ q.job.capture = w.job.capture /\ q.job.current = w.job.current
  BY <1>1 DEF RecoveryOK, IsRecovery
<1> HIDE DEF q
<1>4. /\ DOMAIN s = DOMAIN w /\ s.capture = w.capture /\ s.scope = w.scope
      /\ s.latest = w.latest /\ s.recovered = w.job.capture /\ s.job = q.job
  BY <1>1, <1>3 DEF RecoveryOK, IsRecovery
<1> HIDE DEF s
<1>5. RecoveryOK(q)
  BY <1>1, <1>3, RecoveryMovedOK
<1>6. w.job.current => RecoveryOK(s)
  BY <1>1, <1>3, <1>4, RecoveryMovedOK
<1> QED BY <1>2, <1>5, <1>6

LEMMA RecoveryFinishedOK ==
  ASSUME NEW w, RecoveryOK(w)
  PROVE  RecoveryOK(RecoveryFinished(w)) /\ RecoveryOK(TimerFired(w))
         /\ RecoveryOK(Cooled(w))
<1> DEFINE s == [w EXCEPT !.job = NoRecovery]
           t == [w EXCEPT !.timer = "none"]
           u == Cooled(w)
<1>1. /\ DOMAIN s = DOMAIN w /\ s.capture = w.capture /\ s.scope = w.scope
      /\ s.latest = w.latest /\ s.job = NoRecovery /\ s.recovered = w.recovered
  BY DEF RecoveryOK, IsRecovery
<1>2. /\ DOMAIN t = DOMAIN w /\ t.capture = w.capture /\ t.scope = w.scope
      /\ t.latest = w.latest /\ t.job = w.job /\ t.recovered = w.recovered
  BY DEF RecoveryOK, IsRecovery
<1>3. /\ DOMAIN u = DOMAIN w /\ u.capture = w.capture /\ u.scope = w.scope
      /\ u.latest = w.latest /\ u.job = w.job /\ u.recovered = w.recovered
  BY DEF RecoveryOK, IsRecovery, Cooled
<1> HIDE DEF s, t, u
<1>4. RecoveryOK(s) /\ RecoveryOK(t) /\ RecoveryOK(u)
  BY <1>1, <1>2, <1>3, SameCaptures
<1>5. RecoveryFinished(w) = Recovering(s) /\ TimerFired(w) = Recovering(t)
  BY DEF RecoveryFinished, TimerFired, s, t
<1> QED BY <1>4, <1>5, RecoveringOK DEF u

-----------------------------------------------------------------------------
(* What is on display: the rows *)

\* The numbers of a finite set in order: one for each place, all of the set.
LEMMA Rank ==
  ASSUME NEW S, IsFiniteSet(S), S \subseteq Nat, NEW n \in 1..Cardinality(S)
  PROVE  \E x \in S : Cardinality({y \in S : y <= x}) = n
<1> DEFINE Below(x) == {y \in S : y <= x}
           rank == [x \in S |-> Cardinality(Below(x))]
           T == 1..Cardinality(S)
<1>1. Cardinality(S) \in Nat /\ IsFiniteSet(T) /\ Cardinality(T) = Cardinality(S)
  BY FS_CardinalityType, FS_Interval
<1>2. ASSUME NEW x \in S
      PROVE  /\ IsFiniteSet(Below(x)) /\ Cardinality(Below(x)) \in T
  <2>1. IsFiniteSet(Below(x)) /\ Cardinality(Below(x)) <= Cardinality(S)
    BY FS_Subset
  <2>2. x \in Below(x)
    OBVIOUS
  <2>3. Cardinality(Below(x)) \in Nat /\ Cardinality(Below(x)) # 0
    BY <2>1, <2>2, FS_CardinalityType, FS_EmptySet
  <2> QED BY <1>1, <2>1, <2>3
<1>3. ASSUME NEW x \in S, NEW y \in S, x < y
      PROVE  Cardinality(Below(x)) # Cardinality(Below(y))
  <2>1. Below(x) \subseteq Below(y)
    <3> SUFFICES ASSUME NEW z \in Below(x) PROVE z \in Below(y)
      OBVIOUS
    <3>1. x \in Nat /\ y \in Nat /\ z \in Nat /\ z \in S /\ z <= x
      OBVIOUS
    <3> QED BY <3>1, <1>3
  <2>2. y \in Below(y) /\ y \notin Below(x)
    BY <1>3
  <2> QED BY <1>2, <2>1, <2>2, FS_Subset
<1>4. ASSUME NEW x \in S, NEW y \in S, Cardinality(Below(x)) = Cardinality(Below(y))
      PROVE  x = y
  BY <1>3, <1>4
<1>5. rank \in [S -> T]
  BY <1>2
<1>6. \A x, y \in S : rank[x] = rank[y] => x = y
  <2> HIDE DEF Below
  <2> QED BY <1>4
<1> HIDE DEF rank
<1>7. rank \in Injection(S, T)
  BY <1>5, <1>6, Fun_IsInj
<1>8. rank \in Surjection(S, T)
  BY <1>1, <1>7, FS_Injection
<1>9. PICK x \in S : rank[x] = n
  <2>1. \A k \in T : \E x \in S : rank[x] = k
    BY <1>8, Fun_SurjectionProperties
  <2> QED BY <2>1
<1> QED BY <1>9 DEF rank

LEMMA AscendingOK ==
  ASSUME NEW S, IsFiniteSet(S), S \subseteq Nat
  PROVE  /\ Cardinality(S) \in Nat
         /\ DOMAIN Ascending(S) = 1..Cardinality(S)
         /\ \A n \in DOMAIN Ascending(S) : Ascending(S)[n] \in S
<1>1. Cardinality(S) \in Nat
  BY FS_CardinalityType
<1>2. DOMAIN Ascending(S) = 1..Cardinality(S)
  BY DEF Ascending
<1>3. ASSUME NEW n \in 1..Cardinality(S) PROVE Ascending(S)[n] \in S
  <2>1. Ascending(S)[n] = CHOOSE x \in S : Cardinality({y \in S : y <= x}) = n
    BY DEF Ascending
  <2> QED BY <2>1, Rank
<1> QED BY <1>1, <1>2, <1>3

LEMMA CandidatesOfScene ==
  ASSUME NEW g \in DOMAIN Scenes, NEW s \in DOMAIN Scenes[g]
  PROVE  \E n \in Nat : DOMAIN SceneCandidates[g][s] = 1..n
<1> DEFINE levels == Scenes[g][s].levels
           reach == Scenes[g][s].reach
           mask == AboveThreshold(levels)
           Of(group) == CandidateOf(Geometries[g], levels, reach, group)
           admitted == {group \in SpectralGroups(levels) : Of(group).dbm >= Admitted}
           first == {group[1] : group \in admitted}
<1>1. SceneCandidates[g][s] = AnalyzeBayesianSweep(Geometries[g], levels, reach)
  BY DEF SceneCandidates, OfEveryScene
<1>2. DOMAIN AnalyzeBayesianSweep(Geometries[g], levels, reach) = DOMAIN Ascending(first)
  BY DEF AnalyzeBayesianSweep
<1>3. levels \in Seq(Nat)
  BY ScenesAssumption
<1> HIDE DEF levels, reach
<1>4. IsFiniteSet(DOMAIN levels) /\ DOMAIN levels \subseteq Nat
  <2>1. DOMAIN levels = 1..Len(levels) /\ Len(levels) \in Nat
    BY <1>3
  <2> QED BY <2>1, FS_Interval
<1>5. mask \subseteq DOMAIN levels
  BY DEF AboveThreshold
<1>6. first \subseteq DOMAIN levels
  BY <1>5 DEF SpectralGroups
<1> HIDE DEF first
<1>7. IsFiniteSet(first) /\ first \subseteq Nat
  BY <1>4, <1>6, FS_Subset
<1> QED BY <1>1, <1>2, <1>7, AscendingOK

-----------------------------------------------------------------------------

Named(row) == "id" \in DOMAIN row /\ "origin" \in DOMAIN row
SameName(row, old) == row.id = old.id /\ row.origin = old.origin

TrackOK(t, names) ==
  /\ DOMAIN t = {"rows", "agile", "nextId", "nextAssociation"}
  /\ t.nextId \in Nat
  /\ t.rows \in Seq(Range(t.rows))
  /\ \A i \in DOMAIN t.rows :
       /\ Named(t.rows[i])
       /\ t.rows[i].id[1] = "signal"
       /\ <<t.rows[i].id, t.rows[i].origin>> \in names

\* No name was ever another's, none is from the future.
NamesOK(next, names) ==
  /\ \A p \in names : p[1][1] = "signal" => \E k \in Nat : k < next /\ p[1] = <<"signal", k>>
  /\ \A p, q \in names : p[1][1] = "signal" /\ p[1] = q[1] => p[2] = q[2]

\* Rows that follow those of t: the old ones, and new ones with new names.
Follows(rows, t, next) ==
  /\ rows \in Seq(Range(rows))
  /\ \A i \in DOMAIN rows :
       /\ Named(rows[i])
       /\ \/ \E j \in DOMAIN t.rows : SameName(rows[i], t.rows[j])
          \/ \E k \in Nat : t.nextId <= k /\ k < next /\ rows[i].id = <<"signal", k>>
  /\ \A i, j \in DOMAIN rows : \A k \in Nat :
       t.nextId <= k /\ rows[i].id = <<"signal", k>> /\ rows[j].id = rows[i].id
         => rows[i].origin = rows[j].origin

LEMMA StepsOfARow ==
  ASSUME NEW row, Named(row), NEW look, NEW assoc, NEW fresh
  PROVE  /\ Named(MissSignal(row)) /\ SameName(MissSignal(row), row)
         /\ Named(MergeSignal(row, look)) /\ SameName(MergeSignal(row, look), row)
         /\ Named(Age([row EXCEPT !.assoc = assoc], fresh))
         /\ SameName(Age([row EXCEPT !.assoc = assoc], fresh), row)
<1>1. Named(MissSignal(row)) /\ SameName(MissSignal(row), row)
  BY DEF MissSignal, Named, SameName
<1>2. Named(MergeSignal(row, look)) /\ SameName(MergeSignal(row, look), row)
  BY DEF MergeSignal, Named, SameName
<1>3. Named(Age([row EXCEPT !.assoc = assoc], fresh))
      /\ SameName(Age([row EXCEPT !.assoc = assoc], fresh), row)
  <2> DEFINE bound == [row EXCEPT !.assoc = assoc]
  <2>1. Named(bound) /\ SameName(bound, row)
    BY DEF Named, SameName
  <2> HIDE DEF bound
  <2>2. Named(Age(bound, fresh)) /\ SameName(Age(bound, fresh), bound)
    BY <2>1 DEF Age, Named, SameName
  <2> QED BY <2>1, <2>2 DEF bound, SameName
<1> QED BY <1>1, <1>2, <1>3

LEMMA FunctionIsSeq ==
  ASSUME NEW s, NEW n \in Nat, DOMAIN s = 1..n, s = [i \in 1..n |-> s[i]]
  PROVE  s \in Seq(Range(s)) /\ Len(s) = n
<1>1. s \in [1..n -> Range(s)]
  BY DEF Range
<1> QED BY <1>1, SeqDef

LEMMA FollowedOK ==
  ASSUME NEW t, NEW names, TrackOK(t, names), NamesOK(t.nextId, names),
         NEW looks, NEW m \in Nat, DOMAIN looks = 1..m, NEW matching
  PROVE  /\ Followed(t, looks, matching).nextId \in Nat
         /\ t.nextId <= Followed(t, looks, matching).nextId
         /\ Follows(Followed(t, looks, matching).rows, t, Followed(t, looks, matching).nextId)
<1> DEFINE free == {k \in DOMAIN looks : \A u \in matching : u.candidate # k}
           fresh == Ascending(free)
           Of(i) == {u \in matching : u.row = i}
           Row(i) == IF Of(i) = {} THEN MissSignal(t.rows[i])
                     ELSE MergeSignal(t.rows[i], looks[(CHOOSE u \in Of(i) : TRUE).candidate])
           old == [i \in DOMAIN t.rows |-> Row(i)]
           new == [n \in DOMAIN fresh |-> NewTrack(t.nextId + n - 1, looks[fresh[n]])]
           rows == old \o new
           next == t.nextId + Len(fresh)
           c == Cardinality(free)
           b == Len(t.rows)
<1>1. Followed(t, looks, matching).rows = rows /\ Followed(t, looks, matching).nextId = next
  BY DEF Followed
<1>2. c \in Nat /\ DOMAIN fresh = 1..c
  <2>1. free \subseteq 1..m /\ IsFiniteSet(1..m)
    BY FS_Interval
  <2>2. IsFiniteSet(free) /\ free \subseteq Nat
    BY <2>1, FS_Subset
  <2> HIDE DEF free
  <2> QED BY <2>2, AscendingOK
<1>3. Len(fresh) = c
  BY <1>2
<1>4. b \in Nat /\ DOMAIN t.rows = 1..b /\ t.nextId \in Nat
  BY DEF TrackOK
<1> HIDE DEF c, fresh
<1>5. ASSUME NEW i \in 1..b
      PROVE  Named(old[i]) /\ SameName(old[i], t.rows[i])
  <2>1. old[i] = Row(i) /\ Named(t.rows[i])
    BY <1>4 DEF TrackOK
  <2>2. \/ old[i] = MissSignal(t.rows[i])
        \/ old[i] = MergeSignal(t.rows[i], looks[(CHOOSE u \in Of(i) : TRUE).candidate])
    BY <2>1
  <2> HIDE DEF old, Of
  <2> QED BY <2>1, <2>2, StepsOfARow
<1>6. ASSUME NEW n \in 1..c
      PROVE  Named(new[n]) /\ new[n].id = <<"signal", t.nextId + n - 1>>
  <2>1. new[n] = NewTrack(t.nextId + n - 1, looks[fresh[n]])
    BY <1>2
  <2> HIDE DEF new
  <2> QED BY <2>1 DEF NewTrack, Named
<1>7. /\ DOMAIN old = 1..b /\ DOMAIN new = 1..c
      /\ old = [i \in 1..b |-> old[i]] /\ new = [i \in 1..c |-> new[i]]
  BY <1>2, <1>4
<1> HIDE DEF old, new
<1>8. old \in Seq(Range(old)) /\ new \in Seq(Range(new)) /\ Len(old) = b /\ Len(new) = c
  BY <1>2, <1>4, <1>7, FunctionIsSeq
<1>9. /\ rows \in Seq(Range(old) \cup Range(new)) /\ Len(rows) = b + c
      /\ \A i \in 1..(b + c) : rows[i] = IF i <= b THEN old[i] ELSE new[i - b]
  <2> DEFINE R == Range(old) \cup Range(new)
  <2>1. old \in Seq(R) /\ new \in Seq(R)
    BY <1>8
  <2> HIDE DEF R
  <2>2. /\ rows \in Seq(R) /\ Len(rows) = Len(old) + Len(new)
        /\ \A i \in 1..(Len(old) + Len(new)) :
             rows[i] = IF i <= Len(old) THEN old[i] ELSE new[i - Len(old)]
    BY <2>1, ConcatProperties
  <2> QED BY <1>8, <2>2 DEF R
<1> HIDE DEF b
<1>10. rows \in Seq(Range(rows)) /\ DOMAIN rows = 1..(b + c)
  <2> HIDE DEF rows
  <2> QED BY <1>9, SeqWithinRange
<1> HIDE DEF rows
<1>11. next \in Nat /\ next = t.nextId + c /\ t.nextId <= next
  BY <1>2, <1>3, <1>4
<1> HIDE DEF next
<1>12. ASSUME NEW i \in DOMAIN rows
       PROVE  \/ /\ i <= b /\ Named(rows[i])
                 /\ \E j \in DOMAIN t.rows : SameName(rows[i], t.rows[j])
              \/ /\ i > b /\ Named(rows[i])
                 /\ rows[i].id = <<"signal", t.nextId + (i - b) - 1>>
                 /\ (i - b) \in 1..c
  <2>0. i \in 1..(b + c) /\ b \in Nat /\ c \in Nat
    BY <1>2, <1>4, <1>10
  <2>1. CASE i <= b
    <3>1. i \in 1..b /\ rows[i] = old[i]
      BY <2>0, <2>1, <1>9
    <3> QED BY <3>1, <2>1, <1>4, <1>5
  <2>2. CASE i > b
    <3>1. i - b \in 1..c /\ rows[i] = new[i - b]
      BY <2>0, <2>2, <1>9
    <3> QED BY <3>1, <2>2, <1>6
  <2> QED BY <2>0, <2>1, <2>2
<1>13. ASSUME NEW i \in DOMAIN rows, NEW k \in Nat, t.nextId <= k, rows[i].id = <<"signal", k>>
       PROVE  i = k - t.nextId + 1 + b
  <2>1. i \in 1..(b + c) /\ b \in Nat /\ c \in Nat
    BY <1>2, <1>4, <1>10
  <2>2. CASE i > b /\ rows[i].id = <<"signal", t.nextId + (i - b) - 1>>
    <3>1. k = t.nextId + (i - b) - 1
      BY <1>13, <2>2
    <3> QED BY <2>1, <3>1, <1>4
  <2>3. ASSUME NEW j \in DOMAIN t.rows, SameName(rows[i], t.rows[j]) PROVE FALSE
    <3>1. <<t.rows[j].id, t.rows[j].origin>> \in names /\ t.rows[j].id = <<"signal", k>>
      BY <1>13, <2>3 DEF TrackOK, SameName
    <3>2. \E l \in Nat : l < t.nextId /\ <<"signal", k>> = <<"signal", l>>
      BY <3>1 DEF NamesOK
    <3> QED BY <3>2, <1>4, <1>13
  <2> QED BY <1>12, <2>2, <2>3
<1>14. \A i \in DOMAIN rows :
         /\ Named(rows[i])
         /\ \/ \E j \in DOMAIN t.rows : SameName(rows[i], t.rows[j])
            \/ \E k \in Nat : t.nextId <= k /\ k < next /\ rows[i].id = <<"signal", k>>
  <2> TAKE i \in DOMAIN rows
  <2>1. CASE /\ i > b /\ Named(rows[i])
             /\ rows[i].id = <<"signal", t.nextId + (i - b) - 1>>
             /\ (i - b) \in 1..c
    <3> DEFINE k == t.nextId + (i - b) - 1
    <3>1. k \in Nat /\ t.nextId <= k /\ k < next
      <4>1. i \in 1..(b + c) /\ b \in Nat /\ c \in Nat
        BY <1>2, <1>4, <1>10
      <4>2. i \in Nat /\ i > b /\ i - b <= c /\ t.nextId \in Nat /\ next = t.nextId + c
        BY <4>1, <1>4, <1>11, <2>1
      <4> QED BY <4>1, <4>2
    <3> QED BY <2>1, <3>1
  <2> QED BY <1>12, <2>1
<1>15. \A i, j \in DOMAIN rows : \A k \in Nat :
         t.nextId <= k /\ rows[i].id = <<"signal", k>> /\ rows[j].id = rows[i].id
           => rows[i].origin = rows[j].origin
  <2> SUFFICES ASSUME NEW i \in DOMAIN rows, NEW j \in DOMAIN rows, NEW k \in Nat,
                      t.nextId <= k, rows[i].id = <<"signal", k>>, rows[j].id = rows[i].id
               PROVE  i = j
    OBVIOUS
  <2> QED BY <1>13
<1> QED BY SMTT(40), <1>1, <1>10, <1>11, <1>14, <1>15 DEF Follows

LEMMA AgedOK ==
  ASSUME NEW rows, NEW t, NEW next, Follows(rows, t, next), NEW pass
  PROVE  Follows(Aged(rows, pass).rows, t, next)
<1> DEFINE aged == Aged(rows, pass).rows
<1>1. aged = [i \in DOMAIN rows |-> Age([rows[i] EXCEPT !.assoc = pass.bound[i]], pass.fresh)]
  BY DEF Aged
<1>2. DOMAIN aged = DOMAIN rows /\ aged = [i \in DOMAIN rows |-> aged[i]]
  BY <1>1
<1>3. ASSUME NEW i \in DOMAIN rows PROVE Named(aged[i]) /\ SameName(aged[i], rows[i])
  <2>1. aged[i] = Age([rows[i] EXCEPT !.assoc = pass.bound[i]], pass.fresh)
    BY <1>1
  <2>2. Named(rows[i])
    BY DEF Follows
  <2> HIDE DEF aged
  <2> QED BY <2>1, <2>2, StepsOfARow
<1> HIDE DEF aged
<1>4. aged \in Seq(Range(aged))
  <2>1. Len(rows) \in Nat /\ DOMAIN rows = 1..Len(rows)
    BY DEF Follows
  <2> QED BY <1>2, <2>1, FunctionIsSeq
<1>5. \A i \in DOMAIN aged :
         /\ Named(aged[i])
         /\ \/ \E j \in DOMAIN t.rows : SameName(aged[i], t.rows[j])
            \/ \E k \in Nat : t.nextId <= k /\ k < next /\ aged[i].id = <<"signal", k>>
  BY <1>2, <1>3 DEF Follows, SameName
<1>6. \A i, j \in DOMAIN aged : \A k \in Nat :
       t.nextId <= k /\ aged[i].id = <<"signal", k>> /\ aged[j].id = aged[i].id
         => aged[i].origin = aged[j].origin
  BY <1>2, <1>3 DEF Follows, SameName
<1> QED BY <1>4, <1>5, <1>6 DEF Follows, aged

Updates(u, t) ==
  /\ DOMAIN u = {"rows", "agile", "nextId", "nextAssociation"}
  /\ u.nextId \in Nat /\ t.nextId <= u.nextId
  /\ Follows(u.rows, t, u.nextId)

LEMMA UpdatedOK ==
  ASSUME NEW t, NEW names, TrackOK(t, names), NamesOK(t.nextId, names), NEW sweep,
         \E n \in Nat : DOMAIN Candidates(sweep) = 1..n
  PROVE  Updates(Updated(t, sweep), t)
<1> DEFINE candidates == Candidates(sweep)
           looks == [k \in DOMAIN candidates |-> [sweep |-> sweep, candidate |-> candidates[k]]]
           matching == Matching(t.rows, candidates, Grid(sweep).bin)
           local == LocalPass(t, sweep, candidates)
           static == AssociationPass(local, sweep, t.nextAssociation)
           agile == AgilePass(t.agile, Opportunity(sweep, candidates, local.track),
                              static.nextAssociation)
           u == WithActivity(local, static, agile)
<1>1. PICK m \in Nat : DOMAIN looks = 1..m
  OBVIOUS
<1>2. local = Followed(t, looks, matching)
  BY DEF LocalPass
<1>3. Updated(t, sweep) = u
  BY DEF Updated, WithLocal, WithAssociations
<1>4. static.rows = Aged(local.rows, BindMode("multicomponent", "regular", local, sweep,
          Regions(sweep),
          BindMode("regular", "multicomponent", local, sweep, Combs(sweep),
            [bound |-> [i \in DOMAIN local.rows |-> local.rows[i].assoc],
             used |-> {}, fresh |-> {}, next |-> t.nextAssociation]))).rows
  BY DEF AssociationPass
<1> HIDE DEF looks, matching
<1>5. local.nextId \in Nat /\ t.nextId <= local.nextId /\ Follows(local.rows, t, local.nextId)
  BY <1>1, <1>2, FollowedOK
<1> HIDE DEF local
<1>6. Follows(static.rows, t, local.nextId)
  BY <1>4, <1>5, AgedOK
<1> HIDE DEF static, agile
<1>7. /\ DOMAIN u = {"rows", "agile", "nextId", "nextAssociation"}
      /\ u.rows = static.rows /\ u.nextId = local.nextId
  BY DEF WithActivity
<1> QED BY <1>3, <1>5, <1>6, <1>7 DEF Updates

\* The rows on display are the tracker's and one that no signal is named after.
LEMMA DisplayedRows ==
  ASSUME NEW u, u.rows \in Seq(Range(u.rows))
  PROVE  /\ \A i \in DOMAIN Displayed(u) :
              \/ i \in DOMAIN u.rows /\ Displayed(u)[i] = u.rows[i]
              \/ Displayed(u)[i].id[1] = "agile"
         /\ \A row \in Range(Displayed(u)) :
              row.id[1] = "agile" \/ \E i \in DOMAIN u.rows : row = u.rows[i]
         /\ \A i \in DOMAIN u.rows : u.rows[i] \in Range(Displayed(u))
<1> DEFINE extra == IF u.agile # NoActivity /\ u.agile.promoted
                      THEN <<Representative(u.agile)>> ELSE <<>>
           rows == u.rows
           n == Len(rows)
<1>1. Displayed(u) = rows \o extra
  BY DEF Displayed
<1>2. n \in Nat /\ DOMAIN rows = 1..n
  OBVIOUS
<1>3. Representative(u.agile).id = <<"agile", u.agile.id>>
  BY DEF Representative
<1>4. /\ Len(extra) \in {0, 1} /\ extra \in Seq({Representative(u.agile)})
      /\ \A i \in 1..Len(extra) : extra[i].id[1] = "agile"
  <2>1. CASE extra = <<>>
    BY <2>1
  <2>2. CASE extra = <<Representative(u.agile)>>
    <3> DEFINE one == Representative(u.agile)
    <3> HIDE DEF one
    <3>1. <<one>> \in Seq({one}) /\ Len(<<one>>) = 1 /\ <<one>>[1] = one
      OBVIOUS
    <3>2. one.id[1] = "agile"
      BY <1>3 DEF one
    <3>3. extra = <<one>>
      BY <2>2 DEF one
    <3> HIDE DEF extra
    <3>4. \A i \in 1..Len(extra) : extra[i] = one
      BY <3>1, <3>3
    <3> QED BY <3>1, <3>2, <3>3, <3>4 DEF one
  <2> QED BY <2>1, <2>2
<1> HIDE DEF extra, rows
<1> DEFINE R == Range(rows) \cup {Representative(u.agile)}
<1>5. rows \in Seq(R) /\ extra \in Seq(R)
  BY <1>4 DEF rows
<1> HIDE DEF R
<1>6. /\ Displayed(u) \in Seq(R) /\ Len(Displayed(u)) = n + Len(extra)
      /\ \A i \in 1..(n + Len(extra)) :
           Displayed(u)[i] = IF i <= n THEN rows[i] ELSE extra[i - n]
  BY <1>1, <1>5, ConcatProperties
<1>7. DOMAIN Displayed(u) = 1..(n + Len(extra))
  BY <1>6
<1>8. ASSUME NEW i \in DOMAIN Displayed(u)
      PROVE  \/ i \in DOMAIN u.rows /\ Displayed(u)[i] = u.rows[i]
             \/ Displayed(u)[i].id[1] = "agile"
  <2>1. i \in 1..(n + Len(extra)) /\ Len(extra) \in Nat
    BY <1>4, <1>7
  <2>2. CASE i <= n
    BY <1>2, <1>6, <2>1, <2>2 DEF rows
  <2>3. CASE i > n
    <3>1. i - n \in 1..Len(extra) /\ Displayed(u)[i] = extra[i - n]
      BY <1>2, <1>6, <2>1, <2>3
    <3> QED BY <3>1, <1>4
  <2> QED BY <1>2, <2>1, <2>2, <2>3
<1>9. \A row \in Range(Displayed(u)) :
        row.id[1] = "agile" \/ \E i \in DOMAIN u.rows : row = u.rows[i]
  BY <1>8 DEF Range
<1>10. ASSUME NEW i \in DOMAIN u.rows PROVE u.rows[i] \in Range(Displayed(u))
  <2>1. i \in DOMAIN Displayed(u) /\ Displayed(u)[i] = u.rows[i]
    BY <1>2, <1>4, <1>6, <1>7 DEF rows
  <2> QED BY <2>1 DEF Range
<1> QED BY <1>8, <1>9, <1>10

LEMMA NamesGrow ==
  ASSUME NEW t, NEW names, TrackOK(t, names), NamesOK(t.nextId, names),
         NEW u, Updates(u, t), NEW more,
         more = names \cup {<<row.id, row.origin>> : row \in Range(Displayed(u))}
  PROVE  /\ NamesOK(u.nextId, more)
         /\ \A i \in DOMAIN u.rows : /\ Named(u.rows[i]) /\ u.rows[i].id[1] = "signal"
                                     /\ <<u.rows[i].id, u.rows[i].origin>> \in more
<1>1. u.rows \in Seq(Range(u.rows))
  BY DEF Updates, Follows
<1>2. t.nextId \in Nat /\ u.nextId \in Nat
  BY DEF TrackOK, Updates
<1>3. ASSUME NEW i \in DOMAIN u.rows
      PROVE  \/ <<u.rows[i].id, u.rows[i].origin>> \in names /\ u.rows[i].id[1] = "signal"
             \/ \E k \in Nat : t.nextId <= k /\ k < u.nextId /\ u.rows[i].id = <<"signal", k>>
  BY DEF Updates, Follows, TrackOK, SameName
<1>4. ASSUME NEW p \in more, p[1][1] = "signal"
      PROVE  \/ p \in names
             \/ \E i \in DOMAIN u.rows : p = <<u.rows[i].id, u.rows[i].origin>>
  <2>1. CASE p \in names
    BY <2>1
  <2>2. ASSUME NEW row \in Range(Displayed(u)), p = <<row.id, row.origin>>
        PROVE  \E i \in DOMAIN u.rows : p = <<u.rows[i].id, u.rows[i].origin>>
    <3>1. row.id[1] = "signal"
      BY <1>4, <2>2
    <3> QED BY <1>1, <2>2, <3>1, DisplayedRows
  <2> QED BY <2>1, <2>2
\* A name is an old one with its origin, or a new one.
<1>5. ASSUME NEW p \in more, p[1][1] = "signal"
      PROVE  \/ p \in names
             \/ \E i \in DOMAIN u.rows : \E k \in Nat :
                  /\ t.nextId <= k /\ k < u.nextId /\ u.rows[i].id = <<"signal", k>>
                  /\ p = <<u.rows[i].id, u.rows[i].origin>>
  BY <1>3, <1>4, <1>5
<1>6. \A p \in names : p[1][1] = "signal" =>
        \E k \in Nat : k < t.nextId /\ p[1] = <<"signal", k>>
  BY DEF NamesOK
<1>7. \A p \in more : p[1][1] = "signal" => \E k \in Nat : k < u.nextId /\ p[1] = <<"signal", k>>
  <2> SUFFICES ASSUME NEW p \in more, p[1][1] = "signal"
               PROVE  \E k \in Nat : k < u.nextId /\ p[1] = <<"signal", k>>
    OBVIOUS
  <2>1. CASE p \in names
    <3>1. PICK k \in Nat : k < t.nextId /\ p[1] = <<"signal", k>>
      BY <1>6, <2>1
    <3>2. k < u.nextId
      BY <1>2, <3>1 DEF Updates
    <3> QED BY <3>1, <3>2
  <2>2. ASSUME NEW i \in DOMAIN u.rows, NEW k \in Nat, k < u.nextId,
               u.rows[i].id = <<"signal", k>>, p = <<u.rows[i].id, u.rows[i].origin>>
        PROVE  \E l \in Nat : l < u.nextId /\ p[1] = <<"signal", l>>
    BY <2>2
  <2> QED BY <1>5, <2>1, <2>2
<1>8. \A p, q \in more : p[1][1] = "signal" /\ p[1] = q[1] => p[2] = q[2]
  <2> SUFFICES ASSUME NEW p \in more, NEW q \in more, p[1][1] = "signal", p[1] = q[1]
               PROVE  p[2] = q[2]
    OBVIOUS
  <2> DEFINE New(x) == \E i \in DOMAIN u.rows : \E k \in Nat :
                  /\ t.nextId <= k /\ k < u.nextId /\ u.rows[i].id = <<"signal", k>>
                  /\ x = <<u.rows[i].id, u.rows[i].origin>>
  <2>1. (p \in names \/ New(p)) /\ (q \in names \/ New(q))
    BY <1>5
  <2>2. CASE p \in names /\ q \in names
    BY <2>2 DEF NamesOK
  <2>3. ASSUME NEW x \in names, NEW y, New(y), x[1] = y[1] PROVE FALSE
    <3>1. PICK i \in DOMAIN u.rows, k \in Nat :
                  /\ t.nextId <= k /\ k < u.nextId /\ u.rows[i].id = <<"signal", k>>
                  /\ y = <<u.rows[i].id, u.rows[i].origin>>
      BY <2>3
    <3>2. x[1] = <<"signal", k>>
      BY <2>3, <3>1
    <3>3. PICK l \in Nat : l < t.nextId /\ x[1] = <<"signal", l>>
      BY <1>6, <3>2
    <3> QED BY <1>2, <3>1, <3>2, <3>3
  <2>4. CASE New(p) /\ New(q)
    <3>1. PICK i \in DOMAIN u.rows, k \in Nat :
                  /\ t.nextId <= k /\ k < u.nextId /\ u.rows[i].id = <<"signal", k>>
                  /\ p = <<u.rows[i].id, u.rows[i].origin>>
      BY <2>4
    <3>2. PICK j \in DOMAIN u.rows : q = <<u.rows[j].id, u.rows[j].origin>>
      BY <2>4
    <3>3. u.rows[j].id = u.rows[i].id
      BY <3>1, <3>2
    <3>4. u.rows[i].origin = u.rows[j].origin
      BY <3>1, <3>3 DEF Updates, Follows
    <3> QED BY <3>1, <3>2, <3>4
  <2> HIDE DEF New
  <2> QED BY <2>1, <2>2, <2>3, <2>4
<1>9. \A i \in DOMAIN u.rows : /\ Named(u.rows[i]) /\ u.rows[i].id[1] = "signal"
                               /\ <<u.rows[i].id, u.rows[i].origin>> \in more
  <2> TAKE i \in DOMAIN u.rows
  <2>1. Named(u.rows[i])
    BY DEF Updates, Follows
  <2>2. u.rows[i].id[1] = "signal"
    <3>1. ASSUME NEW k \in Nat, u.rows[i].id = <<"signal", k>> PROVE u.rows[i].id[1] = "signal"
      BY <3>1
    <3> QED BY <1>3, <3>1
  <2>3. u.rows[i] \in Range(Displayed(u))
    BY <1>1, DisplayedRows
  <2> QED BY <2>1, <2>2, <2>3
<1> QED BY <1>7, <1>8, <1>9 DEF NamesOK

\* Released rows are forgotten, the others keep their names.
LEMMA ForgottenOK ==
  ASSUME NEW u, NEW t, Updates(u, t), NEW names,
         \A i \in DOMAIN u.rows : /\ Named(u.rows[i]) /\ u.rows[i].id[1] = "signal"
                                  /\ <<u.rows[i].id, u.rows[i].origin>> \in names
  PROVE  TrackOK(Forgotten(u), names) /\ Forgotten(u).nextId = u.nextId
<1> DEFINE S == {i \in DOMAIN u.rows : u.rows[i].state # "released"}
           kept == Ascending(S)
           rows == [n \in DOMAIN kept |-> u.rows[kept[n]]]
           f == [u EXCEPT !.rows = rows]
<1>1. Forgotten(u) = f
  BY DEF Forgotten, Updates
<1>2. /\ Cardinality(S) \in Nat /\ DOMAIN kept = 1..Cardinality(S)
      /\ \A n \in DOMAIN kept : kept[n] \in S
  <2>1. DOMAIN u.rows = 1..Len(u.rows) /\ Len(u.rows) \in Nat
    BY DEF Updates, Follows
  <2>2. IsFiniteSet(1..Len(u.rows)) /\ S \subseteq 1..Len(u.rows)
    BY <2>1, FS_Interval
  <2>3. IsFiniteSet(S) /\ S \subseteq Nat
    BY <2>1, <2>2, FS_Subset
  <2> HIDE DEF S
  <2> QED BY <2>3, AscendingOK
<1> DEFINE n == Cardinality(S)
<1>3. /\ DOMAIN rows = 1..n /\ rows = [i \in 1..n |-> rows[i]]
      /\ \A i \in 1..n : \E j \in DOMAIN u.rows : rows[i] = u.rows[j]
  BY <1>2
<1> HIDE DEF rows, n
<1>4. rows \in Seq(Range(rows))
  BY <1>2, <1>3, FunctionIsSeq DEF n
<1>5. /\ DOMAIN f = {"rows", "agile", "nextId", "nextAssociation"}
      /\ f.rows = rows /\ f.nextId = u.nextId
  BY DEF Updates
<1> HIDE DEF f
<1>6. \A i \in DOMAIN rows : /\ Named(rows[i]) /\ rows[i].id[1] = "signal"
                             /\ <<rows[i].id, rows[i].origin>> \in names
  BY <1>3
<1>7. u.nextId \in Nat
  BY DEF Updates
<1> QED BY <1>1, <1>4, <1>5, <1>6, <1>7 DEF TrackOK

-----------------------------------------------------------------------------
(* What is on display: every step *)

DisplayInv ==
  /\ "no" \in DOMAIN session
  /\ clock.id \in Nat
  /\ TrackOK(tracker, born) /\ NamesOK(tracker.nextId, born)
  /\ ClassifierOK(classifier, Now)
  /\ RecoveryOK(recovery)

LEMMA InitialClassifierOK ==
  ASSUME NEW now
  PROVE  ClassifierOK(InitialClassifier, now)
<1> DEFINE c == InitialClassifier
<1>1. /\ c.latest = NoSubmission /\ c.job = NoJob /\ c.scope = Nowhere /\ c.consensus = <<>>
      /\ c.shown = NothingShown
      /\ DOMAIN c = {"latest", "job", "completed", "scope", "consensus", "disposed",
                     "worker", "shown"}
  BY DEF InitialClassifier
<1> HIDE DEF c
<1>2. <<>> \in Seq(Range(<<>>)) /\ DOMAIN <<>> = {}
  OBVIOUS
<1>3. IsClassifier(c) /\ ~Live(c)
  BY <1>1, Nothing DEF IsClassifier, Live, Working
<1> QED BY <1>1, <1>2, <1>3, Nothing
           DEF ClassifierOK, Fits, WaitsForWork, Scoped, Sampled, Ahead, c

LEMMA DisplayStarts ==
  ASSUME DisplayInit
  PROVE  DisplayInv
<1>1. "no" \in DOMAIN session
  BY DEF DisplayInit
<1>2. clock.id \in Nat
  BY DEF DisplayInit
<1>3. TrackOK(tracker, born) /\ NamesOK(tracker.nextId, born)
  <2>1. /\ DOMAIN InitialTracker = {"rows", "agile", "nextId", "nextAssociation"}
        /\ InitialTracker.rows = <<>> /\ InitialTracker.nextId = 1
    BY DEF InitialTracker
  <2>2. <<>> \in Seq(Range(<<>>)) /\ DOMAIN <<>> = {}
    OBVIOUS
  <2>3. tracker = InitialTracker /\ born = {}
    BY DEF DisplayInit
  <2>4. TrackOK(InitialTracker, {})
    BY <2>1, <2>2 DEF TrackOK
  <2>5. NamesOK(InitialTracker.nextId, {})
    BY DEF NamesOK
  <2> QED BY <2>3, <2>4, <2>5
<1>4. ClassifierOK(classifier, Now)
  BY InitialClassifierOK DEF DisplayInit
<1>5. RecoveryOK(recovery)
  BY UnmountedOK DEF DisplayInit
<1> QED BY <1>1, <1>2, <1>3, <1>4, <1>5 DEF DisplayInv

\* A sweep is recorded: the rows go on, and everything known stays known.
LEMMA SweepRecorded ==
  ASSUME DisplayInv, NEW sweep, sweep.id = clock.id + 1, RecordSweepEvidence(sweep),
         \E n \in Nat : DOMAIN Candidates(sweep) = 1..n,
         UNCHANGED <<session, config>>
  PROVE  /\ TrackOK(tracker', born') /\ NamesOK(tracker'.nextId, born')
         /\ clock'.id = clock.id + 1 /\ clock'.id \in Nat
         /\ Later(Now, Now') /\ Now'.at > Now.at /\ Now'.at = sweep.id
<1>1. clock'.id = sweep.id /\ clock.id \in Nat
  BY DEF RecordSweepEvidence, DisplayInv
<1>2. TrackOK(tracker, born) /\ NamesOK(tracker.nextId, born)
  BY DEF DisplayInv
<1>3. /\ TrackOK(tracker', born') /\ NamesOK(tracker'.nextId, born')
      /\ born \subseteq born'
  <2>1. CASE UpdateRefused(tracker, sweep)
    BY <1>2, <2>1 DEF RecordSweepEvidence
  <2>2. CASE ~UpdateRefused(tracker, sweep)
    <3> DEFINE u == Updated(tracker, sweep)
    <3>1. /\ tracker' = Forgotten(u)
          /\ born' = born \cup {<<row.id, row.origin>> : row \in Range(Displayed(u))}
      BY <2>2 DEF RecordSweepEvidence
    <3>2. Updates(u, tracker)
      BY <1>2, UpdatedOK
    <3> HIDE DEF u
    <3>3. /\ NamesOK(u.nextId, born')
          /\ \A i \in DOMAIN u.rows : /\ Named(u.rows[i]) /\ u.rows[i].id[1] = "signal"
                                      /\ <<u.rows[i].id, u.rows[i].origin>> \in born'
      BY <1>2, <3>1, <3>2, NamesGrow
    <3>4. TrackOK(Forgotten(u), born') /\ Forgotten(u).nextId = u.nextId
      BY <3>2, <3>3, ForgottenOK
    <3> QED BY <3>1, <3>3, <3>4
  <2> QED BY <2>1, <2>2
<1>4. /\ Now.no = session.no /\ Now.config = config /\ Now.names = born /\ Now.at = clock.id
      /\ Now'.no = session'.no /\ Now'.config = config' /\ Now'.names = born'
      /\ Now'.at = clock'.id
  BY DEF Now
<1> QED BY <1>1, <1>3, <1>4 DEF Later

LEMMA NextSweepIs ==
  ASSUME NEW g, NEW scene, NEW step
  PROVE  /\ NextSweep(g, scene, step).id = clock.id + 1
         /\ NextSweep(g, scene, step).geometry = g
         /\ NextSweep(g, scene, step).scene = scene
         /\ NextSweep(g, scene, step).session = session.no
BY DEF NextSweep

LEMMA SweepStep ==
  ASSUME DisplayInv, config \in SweepNames, NEW scene \in DOMAIN Scenes[config], NEW step,
         NEW odd, SweepArrives(NextSweep(config, scene, step), odd)
  PROVE  DisplayInv'
<1> DEFINE sweep == NextSweep(config, scene, step)
<1>1. /\ sweep.id = clock.id + 1 /\ sweep.geometry = config /\ sweep.scene = scene
      /\ sweep.session = session.no
  BY NextSweepIs
<1> HIDE DEF sweep
<1>2. /\ RecordSweepEvidence(sweep) /\ OfferScalar(sweep)
      /\ UNCHANGED <<session, config, recovery>>
  BY DEF SweepArrives, sweep
<1>3. \E n \in Nat : DOMAIN Candidates(sweep) = 1..n
  BY <1>1, CandidatesOfScene, EvidenceAssumption DEF Candidates
<1>4. /\ TrackOK(tracker', born') /\ NamesOK(tracker'.nextId, born')
      /\ clock'.id = clock.id + 1 /\ clock'.id \in Nat
      /\ Later(Now, Now') /\ Now'.at > Now.at /\ Now'.at = sweep.id
  BY <1>1, <1>2, <1>3, SweepRecorded
<1>5. ClassifierOK(classifier, Now)
  BY DEF DisplayInv
<1>6. ClassifierOK(classifier', Now')
  <2>1. CASE UNCHANGED classifier
    BY <1>4, <1>5, <2>1, ClassifierLater
  <2> DEFINE rows == Displayed(tracker')
  <2>2. ASSUME NEW i \in DOMAIN rows,
               classifier' = Submitted(classifier, ScalarEvidence(sweep, rows[i]), FALSE)
        PROVE  ClassifierOK(classifier', Now')
    <3> DEFINE row == rows[i]
               e == ScalarEvidence(sweep, row)
    <3>1. row.id[1] = "agile" \/ <<row.id, row.origin>> \in born'
      <4>1. tracker'.rows \in Seq(Range(tracker'.rows))
        BY <1>4 DEF TrackOK
      <4>2. \/ i \in DOMAIN tracker'.rows /\ row = tracker'.rows[i]
            \/ row.id[1] = "agile"
        BY <4>1, DisplayedRows
      <4> QED BY <4>2, <1>4 DEF TrackOK
    <3> HIDE DEF rows
    <3>2. /\ e.source = "scalar" /\ e.scope = <<session.no, config, row.id>>
          /\ e.id = sweep.id /\ e.data.origin = row.origin
      BY <1>1 DEF ScalarEvidence
    <3> HIDE DEF row, e
    <3>3. e.scope[3] = row.id
      BY <3>2
    <3>4. /\ Now'.no = session.no /\ Now'.config = config /\ Now'.names = born'
      BY <1>2 DEF Now
    <3>5. About(e, Now')
      BY <1>1, <1>4, <3>1, <3>2, <3>3, <3>4 DEF About
    <3>6. Fresh(e, Now, Now')
      BY <1>4, <3>2, <3>5 DEF Fresh
    <3>7. classifier' = Submitted(classifier, e, FALSE)
      BY <2>2 DEF e, row
    <3>8. ClassifierOK(Submitted(classifier, e, FALSE), Now')
      BY <1>5, <3>6, SubmittedOK
    <3> QED BY <3>7, <3>8
  <2> QED BY <1>2, <2>1, <2>2 DEF OfferScalar
<1>7. "no" \in DOMAIN session' /\ RecoveryOK(recovery')
  BY <1>2 DEF DisplayInv
<1> QED BY <1>4, <1>6, <1>7 DEF DisplayInv

LEMMA CaptureStep ==
  ASSUME DisplayInv, config \in IqNames, NEW scene \in DOMAIN Scenes["derived"], NEW step,
         NEW rejects, CaptureArrives(NextSweep("derived", scene, step), rejects)
  PROVE  DisplayInv'
<1> DEFINE sweep == NextSweep("derived", scene, step)
           e == IqEvidence(sweep.id)
<1>1. /\ sweep.id = clock.id + 1 /\ sweep.geometry = "derived" /\ sweep.scene = scene
  BY NextSweepIs
<1> HIDE DEF sweep
<1>2. /\ RecordSweepEvidence(sweep) /\ classifier' = Submitted(classifier, e, rejects)
      /\ UNCHANGED <<session, config, recovery>>
  BY DEF CaptureArrives, sweep
<1>3. \E n \in Nat : DOMAIN Candidates(sweep) = 1..n
  BY <1>1, CandidatesOfScene, EvidenceAssumption DEF Candidates
<1>4. /\ TrackOK(tracker', born') /\ NamesOK(tracker'.nextId, born')
      /\ clock'.id = clock.id + 1 /\ clock'.id \in Nat
      /\ Later(Now, Now') /\ Now'.at > Now.at /\ Now'.at = sweep.id
  BY <1>1, <1>2, <1>3, SweepRecorded
<1>5. e.source = "iq" /\ e.scope = <<session.no, "iq", config>> /\ e.id = sweep.id
  BY DEF IqEvidence
<1> HIDE DEF e
<1>6. Now'.no = session.no /\ Now'.config = config
  BY <1>2 DEF Now
<1>7. Fresh(e, Now, Now')
  BY <1>1, <1>4, <1>5, <1>6 DEF Fresh, About
<1>8. ClassifierOK(classifier', Now')
  <2>1. ClassifierOK(classifier, Now)
    BY DEF DisplayInv
  <2>2. ClassifierOK(Submitted(classifier, e, rejects), Now')
    BY <1>7, <2>1, SubmittedOK
  <2> QED BY <1>2, <2>2
<1>9. "no" \in DOMAIN session' /\ RecoveryOK(recovery')
  BY <1>2 DEF DisplayInv
<1> QED BY <1>4, <1>8, <1>9 DEF DisplayInv

LEMMA ResetTrackerOK ==
  ASSUME NEW t, NEW names, TrackOK(t, names), NamesOK(t.nextId, names)
  PROVE  TrackOK(ResetTracker(t), names) /\ NamesOK(ResetTracker(t).nextId, names)
<1> DEFINE w == ResetTracker(t)
<1>1. /\ DOMAIN w = {"rows", "agile", "nextId", "nextAssociation"}
      /\ w.rows = <<>> /\ w.nextId = t.nextId
  BY DEF ResetTracker, TrackOK
<1> HIDE DEF w
<1>2. <<>> \in Seq(Range(<<>>)) /\ DOMAIN <<>> = {}
  OBVIOUS
<1> QED BY <1>1, <1>2 DEF TrackOK, w

LEMMA ClassifierStepOK ==
  ASSUME DisplayInv, NEW c, ClassifierOK(c, Now), ClassifierStep(c)
  PROVE  DisplayInv'
<1>1. /\ classifier' = c
      /\ UNCHANGED <<session, config, tracker, clock, born, recovery>>
  BY DEF ClassifierStep, evidenceVars
<1>2. Now' = Now
  BY <1>1 DEF Now
<1> QED BY <1>1, <1>2 DEF DisplayInv

LEMMA RecoveryStepOK ==
  ASSUME DisplayInv, NEW w, RecoveryOK(w), recovery' = w,
         UNCHANGED classifier \/ classifier' = Disposed(classifier), UNCHANGED evidenceVars
  PROVE  DisplayInv'
<1>1. UNCHANGED <<session, config, tracker, clock, born>>
  BY DEF evidenceVars
<1>2. Now' = Now
  BY <1>1 DEF Now
<1>3. ClassifierOK(classifier', Now)
  BY DisposedOK DEF DisplayInv
<1> QED BY <1>1, <1>2, <1>3 DEF DisplayInv

LEMMA InvalidateStep ==
  ASSUME DisplayInv, InvalidateAcquiredEvidence, UNCHANGED <<recovery, clock, born>>,
         "no" \in DOMAIN session'
  PROVE  DisplayInv'
<1>1. TrackOK(tracker', born) /\ NamesOK(tracker'.nextId, born)
  BY ResetTrackerOK DEF DisplayInv, InvalidateAcquiredEvidence
<1>2. ClassifierOK(classifier', Now')
  BY ResetOK DEF DisplayInv, InvalidateAcquiredEvidence, ClassifierOK, Fits
<1> QED BY <1>1, <1>2 DEF DisplayInv

LEMMA DisplaySteps ==
  ASSUME DisplayInv, [DisplayNext]_displayVars
  PROVE  DisplayInv'
<1>1. CASE MeasurementArrives
  BY <1>1, SweepStep, CaptureStep DEF MeasurementArrives
<1>2. CASE Configure
  BY <1>2, InvalidateStep DEF Configure, DisplayInv
<1>3. CASE ReplaceSession
  <2>1. "no" \in DOMAIN session'
    BY <1>3 DEF ReplaceSession
  <2> QED BY <1>3, <2>1, InvalidateStep DEF ReplaceSession
<1>4. CASE StreamBreaks
  BY <1>4, InvalidateStep DEF StreamBreaks, DisplayInv
<1>5. CASE ApplyDetectionConfiguration
  <2>1. TrackOK(tracker', born') /\ NamesOK(tracker'.nextId, born')
    BY <1>5, ResetTrackerOK DEF DisplayInv, ApplyDetectionConfiguration
  <2>2. UNCHANGED <<session, config, clock, born, classifier, recovery>>
    BY <1>5 DEF ApplyDetectionConfiguration
  <2>3. Now' = Now
    BY <2>2 DEF Now
  <2> QED BY <2>1, <2>2, <2>3 DEF DisplayInv
<1>6. CASE StartOver
  <2>1. ClassifierOK(classifier', Now')
    BY <1>6, ResetOK DEF DisplayInv, StartOver, ClassifierOK, Fits
  <2>2. UNCHANGED <<session, config, clock, born, tracker, recovery>>
    BY <1>6 DEF StartOver
  <2> QED BY <2>1, <2>2 DEF DisplayInv
<1>7. ClassifierOK(classifier, Now) /\ RecoveryOK(recovery)
  BY DEF DisplayInv
<1>8. CASE WorkerAnswers
  BY <1>7, <1>8, AnsweredOK, ClassifierStepOK DEF WorkerAnswers
<1>9. CASE WorkerFails \/ ResponseTimesOut
  BY <1>7, <1>9, WorkerFailedOK, ClassifierStepOK DEF WorkerFails, ResponseTimesOut
<1>10. CASE ResultHandled
  BY <1>7, <1>10, HandledOK, ClassifierStepOK DEF ResultHandled
<1>11. CASE JobFinished
  <2>1. Working(classifier)
    BY <1>11, Nothing DEF JobFinished, Working
  <2> QED BY <1>7, <1>11, <2>1, FinishedOK, ClassifierStepOK DEF JobFinished
<1>12. CASE RootUnmounts
  BY <1>12, UnmountedOK, RecoveryStepOK DEF RootUnmounts
<1>13. CASE RootRemounts
  BY <1>7, <1>13, RecoveryStepOK DEF RootRemounts
<1>14. CASE RootGone
  BY <1>7, <1>14, RecoveryStepOK DEF RootGone
<1>15. CASE EnterWorkspace
  BY <1>15, MountedOK, RecoveryStepOK DEF EnterWorkspace
<1>16. CASE LeaveWorkspace
  BY <1>16, UnmountedOK, RecoveryStepOK DEF LeaveWorkspace, RecoveryStep
<1>17. CASE CaptureShown
  BY <1>7, <1>17, EffectOK, RecoveryStepOK DEF CaptureShown, RecoveryStep
<1>18. CASE RecoveryAnswers
  BY <1>7, <1>18, RecoveryAnsweredOK, RecoveryStepOK DEF RecoveryAnswers, RecoveryStep
<1>19. CASE RecoveryResult
  BY <1>7, <1>19, RecoveryHandledOK, RecoveryStepOK DEF RecoveryResult, RecoveryStep
<1>20. CASE RecoveryEnds \/ CoolingEnds \/ TimerFires
  BY <1>7, <1>20, RecoveryFinishedOK, RecoveryStepOK
     DEF RecoveryEnds, CoolingEnds, TimerFires, RecoveryStep
<1>21. CASE UNCHANGED displayVars
  <2>1. UNCHANGED <<session, config, clock, born, tracker, classifier, recovery>>
    BY <1>21 DEF displayVars
  <2>2. Now' = Now
    BY <2>1 DEF Now
  <2> QED BY <2>1, <2>2 DEF DisplayInv
<1> QED BY <1>1, <1>2, <1>3, <1>4, <1>5, <1>6, <1>8, <1>9, <1>10, <1>11, <1>12, <1>13,
           <1>14, <1>15, <1>16, <1>17, <1>18, <1>19, <1>20, <1>21 DEF DisplayNext

\* What is shown follows from what the controllers keep.
LEMMA DisplayIsCurrent ==
  ASSUME DisplayInv
  PROVE  ShownIsCurrent
<1> DEFINE c == classifier
           shown == c.shown
<1>1. ClassifierOK(c, Now) /\ RecoveryOK(recovery) /\ NamesOK(tracker.nextId, born)
  BY DEF DisplayInv
<1>2. Now.no = session.no /\ Now.config = config /\ Now.names = born
  BY DEF Now
<1>3. Scoped(c, Now) /\ Sampled(c, Now) /\ WaitsForWork(c)
  BY <1>1 DEF ClassifierOK, Fits
<1> HIDE DEF c
<1>4. shown # NothingShown =>
        /\ c.scope # Nowhere
        /\ c.scope[1] = session.no
        /\ config = c.scope[IF shown.source = "iq" THEN 3 ELSE 2]
  <2>1. CASE c.scope = <<session.no, "iq", config>> /\ shown.source = "iq"
    <3>1. c.scope # <<>> /\ c.scope[1] = session.no /\ c.scope[3] = config
      BY <2>1
    <3> QED BY <2>1, <3>1 DEF Nowhere
  <2>2. CASE c.scope = <<session.no, config, c.scope[3]>> /\ shown.source = "scalar"
    <3> DEFINE z == c.scope[3]
    <3> HIDE DEF z
    <3>1. c.scope = <<session.no, config, z>>
      BY <2>2 DEF z
    <3>2. c.scope # <<>> /\ c.scope[1] = session.no /\ c.scope[2] = config
      BY <3>1
    <3> QED BY <2>2, <3>2 DEF Nowhere
  <2> QED BY <1>2, <1>3, <2>1, <2>2 DEF Scoped
<1>5. shown.pending => c.latest # NoSubmission \/ (Working(c) /\ c.job.current)
  BY <1>3 DEF WaitsForWork, Live
<1>6. ASSUME NEW i \in DOMAIN shown.samples, NEW j \in DOMAIN shown.samples
      PROVE  /\ shown.samples[i].scope = c.scope
             /\ shown.source = "scalar" /\ c.scope[3][1] = "signal" =>
                  shown.samples[i].data.origin = shown.samples[j].data.origin
             /\ i < j => shown.samples[i].id < shown.samples[j].id
  <2> DEFINE e == shown.samples[i]
             f == shown.samples[j]
  <2>1. /\ About(e, Now) /\ e.scope = c.scope /\ About(f, Now) /\ f.scope = c.scope
        /\ i < j => e.id < f.id
    BY <1>3 DEF Sampled
  <2> HIDE DEF e, f
  <2>2. ASSUME shown.source = "scalar", c.scope[3][1] = "signal"
        PROVE  e.data.origin = f.data.origin
    <3>1. e.source = "scalar" /\ f.source = "scalar"
      <4>1. c.scope # Nowhere
        BY <2>1, ScopeNames
      <4> QED BY <2>1, <2>2, <4>1, <1>3, SourceOfScope
    <3> DEFINE p == <<c.scope[3], e.data.origin>>
               q == <<c.scope[3], f.data.origin>>
    <3>2. p \in born /\ q \in born
      BY <1>2, <2>1, <2>2, <3>1 DEF About
    <3>3. p[1][1] = "signal" /\ p[1] = q[1] /\ p[2] = e.data.origin /\ q[2] = f.data.origin
      BY <2>2
    <3> HIDE DEF p, q
    <3> QED BY <1>1, <3>2, <3>3 DEF NamesOK
  <2> QED BY <2>1, <2>2 DEF e, f
<1>7. recovery.recovered # NoCapture =>
        /\ recovery.recovered.scope = recovery.scope
        /\ recovery.capture # NoCapture
  BY <1>1 DEF RecoveryOK
<1> QED BY <1>4, <1>5, <1>6, <1>7 DEF ShownIsCurrent, c

\* The inductive invariant of the evidence on display, for every set of
\* configurations and scenes: what the classifier shows, waits for and works on
\* is of its own scope, what the recovery holds is of the workspace's, and the
\* tracker gives a name once.
THEOREM DisplayInvariance == DisplaySpec => []DisplayInv
<1>1. DisplayInit => DisplayInv
  BY DisplayStarts
<1>2. DisplayInv /\ [DisplayNext]_displayVars => DisplayInv'
  BY DisplaySteps
<1> QED BY <1>1, <1>2, PTL DEF DisplaySpec

\* What is shown of modulation is about the evidence of now: whatever the worker
\* answers, and however late, a result, an issue or a wait is of the present
\* session and configuration, its samples are one signal's, and a wait is for
\* work that is there (classification.ts:214-418, iq-recovery.ts:101-137).
THEOREM ShownEvidenceIsCurrent == DisplaySpec => []ShownIsCurrent
BY DisplayInvariance, DisplayIsCurrent, PTL

\* The first part of IdentitiesAreExact: over resets, configurations and
\* sessions, a row's name was only ever on display with one origin
\* (index.ts:150-455: reset keeps the counter of names).
THEOREM NamesAreForEver == DisplaySpec => []NamesAreExact
<1>1. DisplayInv => NamesAreExact
  BY DEF DisplayInv, NamesOK, NamesAreExact
<1> QED BY <1>1, DisplayInvariance, PTL
=============================================================================
