-------------------------- MODULE AtomAgentProofs ---------------------------
(***************************************************************************)
(* Theorems about the text gateway and the Atom agent, for every number of *)
(* sessions, every capacity, every set of backends and every choice of     *)
(* batches.  Everything is proved of the gateway first, then of the        *)
(* window, whose actions call the gateway's.                               *)
(***************************************************************************)
EXTENDS AtomAgent, SequenceTheorems, FiniteSetTheorems, WellFoundedInduction, TLAPS

-----------------------------------------------------------------------------
(* Sequences without repetition *)

\* What #reserveTextSessionSlot leaves of the kept conversations.
LEMMA LeavingOutTheFirst ==
  ASSUME NEW S, NEW k \in Seq(S), IsInjective(k), NEW n \in 0..Len(k)
  PROVE  LET r == SubSeq(k, n + 1, Len(k)) IN
         /\ r \in Seq(S) /\ IsInjective(r)
         /\ ToSet(r) = ToSet(k) \ {k[i] : i \in 1..n}
<1> DEFINE r == SubSeq(k, n + 1, Len(k))
<1>1. Len(k) \in Nat /\ DOMAIN k = 1..Len(k) /\ \A i \in 1..Len(k) : k[i] \in S
  BY LenProperties, ElementOfSeq
<1>2. \A i \in (n + 1)..Len(k) : k[i] \in S
  BY <1>1
<1>3. /\ r \in Seq(S) /\ Len(r) = IF n + 1 <= Len(k) THEN Len(k) - (n + 1) + 1 ELSE 0
      /\ \A i \in 1..(Len(k) - (n + 1) + 1) : r[i] = k[n + 1 + i - 1]
  BY <1>1, <1>2, SubSeqProperties
<1> HIDE DEF r
<1>4. DOMAIN r = 1..(Len(k) - n) /\ \A i \in 1..(Len(k) - n) : r[i] = k[n + i]
  <2>1. n \in Nat /\ Len(k) - n \in Nat /\ Len(k) - (n + 1) + 1 = Len(k) - n
    BY <1>1
  <2>2. Len(r) = Len(k) - n
    <3>1. \A x, y \in Nat :
             y <= x => x - y = IF y + 1 <= x THEN x - (y + 1) + 1 ELSE 0
      OBVIOUS
    <3>2. n <= Len(k)
      BY <1>1
    <3>3. QED
      BY <1>1, <1>3, <2>1, <3>1, <3>2
  <2>3. DOMAIN r = 1..Len(r)
    BY <1>3, LenProperties
  <2>4. ASSUME NEW i \in 1..(Len(k) - n)
        PROVE  r[i] = k[n + i]
    <3>1. n + 1 + i - 1 = n + i /\ i \in 1..(Len(k) - (n + 1) + 1)
      BY <1>1, <2>1
    <3>2. r[i] = k[n + 1 + i - 1]
      BY <1>3, <3>1
    <3>3. QED
      BY <3>1, <3>2
  <2>5. QED
    BY <2>2, <2>3, <2>4
<1>5. IsInjective(r)
  BY <1>1, <1>4 DEF IsInjective
<1>6. ToSet(r) = ToSet(k) \ {k[i] : i \in 1..n}
  <2>1. ASSUME NEW x \in ToSet(r)
        PROVE  x \in ToSet(k) \ {k[i] : i \in 1..n}
    <3>1. PICK i \in 1..(Len(k) - n) : x = k[n + i]
      BY <1>4, <2>1 DEF ToSet
    <3>2. n + i \in 1..Len(k) /\ n + i \notin 1..n
      BY <1>1
    <3>3. QED
      BY <1>1, <3>1, <3>2 DEF ToSet, IsInjective
  <2>2. ASSUME NEW x \in ToSet(k) \ {k[i] : i \in 1..n}
        PROVE  x \in ToSet(r)
    <3>1. PICK i \in 1..Len(k) : x = k[i]
      BY <1>1, <2>2 DEF ToSet
    <3>2. i - n \in 1..(Len(k) - n) /\ n + (i - n) = i
      BY <1>1, <2>2, <3>1
    <3>3. QED
      BY <1>4, <3>1, <3>2 DEF ToSet
  <2>3. QED
    BY <2>1, <2>2
<1>7. QED
  BY <1>3, <1>5, <1>6 DEF r

\* What a conversation leaves behind that expires or goes on.
LEMMA LeavingOutOne ==
  ASSUME NEW S, NEW k \in Seq(S), IsInjective(k), NEW i \in DOMAIN k
  PROVE  /\ RemoveAt(k, i) \in Seq(S) /\ IsInjective(RemoveAt(k, i))
         /\ ToSet(RemoveAt(k, i)) = ToSet(k) \ {k[i]}
<1> DEFINE a == SubSeq(k, 1, i - 1)
           b == SubSeq(k, i + 1, Len(k))
           r == a \o b
<1>1. /\ Len(k) \in Nat /\ DOMAIN k = 1..Len(k) /\ \A j \in 1..Len(k) : k[j] \in S
      /\ i \in 1..Len(k)
  BY LenProperties, ElementOfSeq
<1>2. a \in Seq(S) /\ Len(a) = i - 1 /\ \A j \in 1..(i - 1) : a[j] = k[j]
  <2>1. \A j \in 1..(i - 1) : k[j] \in S
    BY <1>1
  <2>2. /\ a \in Seq(S) /\ Len(a) = IF 1 <= i - 1 THEN i - 1 - 1 + 1 ELSE 0
        /\ \A j \in 1..(i - 1 - 1 + 1) : a[j] = k[1 + j - 1]
    BY <1>1, <2>1, SubSeqProperties
  <2> HIDE DEF a
  <2>3. QED
    BY <1>1, <2>2
<1>3. b \in Seq(S) /\ Len(b) = Len(k) - i /\ \A j \in 1..(Len(k) - i) : b[j] = k[i + j]
  <2>1. \A j \in (i + 1)..Len(k) : k[j] \in S
    BY <1>1
  <2>2. /\ b \in Seq(S) /\ Len(b) = IF i + 1 <= Len(k) THEN Len(k) - (i + 1) + 1 ELSE 0
        /\ \A j \in 1..(Len(k) - (i + 1) + 1) : b[j] = k[i + 1 + j - 1]
    BY <1>1, <2>1, SubSeqProperties
  <2> HIDE DEF b
  <2>3. i \in Nat /\ Len(k) - i \in Nat /\ Len(k) - (i + 1) + 1 = Len(k) - i
    BY <1>1
  <2>4. Len(b) = Len(k) - i
    BY <1>1, <2>2, <2>3
  <2>5. ASSUME NEW j \in 1..(Len(k) - i)
        PROVE  b[j] = k[i + j]
    <3>1. b[j] = k[i + 1 + j - 1] /\ i + 1 + j - 1 = i + j
      BY <2>2, <2>3
    <3>2. QED
      BY <3>1
  <2>6. QED
    BY <2>2, <2>4, <2>5
<1> HIDE DEF a, b
<1>4. /\ r \in Seq(S) /\ Len(r) = Len(a) + Len(b)
      /\ \A j \in 1..(Len(a) + Len(b)) : r[j] = IF j <= Len(a) THEN a[j] ELSE b[j - Len(a)]
  BY <1>2, <1>3, ConcatProperties
<1> HIDE DEF r
<1>5. DOMAIN r = 1..(Len(k) - 1)
  BY <1>1, <1>2, <1>3, <1>4, LenProperties
<1>6. ASSUME NEW j \in 1..(Len(k) - 1)
      PROVE  r[j] = k[IF j < i THEN j ELSE j + 1]
  <2>1. r[j] = IF j <= Len(a) THEN a[j] ELSE b[j - Len(a)]
    BY <1>1, <1>2, <1>3, <1>4
  <2>2. CASE j < i
    BY <1>1, <1>2, <2>1, <2>2
  <2>3. CASE ~(j < i)
    <3>1. j - Len(a) \in 1..(Len(k) - i) /\ i + (j - Len(a)) = j + 1 /\ ~(j <= Len(a))
      BY <1>1, <1>2, <2>3
    <3>2. r[j] = b[j - Len(a)] /\ b[j - Len(a)] = k[i + (j - Len(a))]
      BY <1>3, <2>1, <3>1
    <3>3. QED
      BY <2>3, <3>1, <3>2
  <2>4. QED
    BY <2>2, <2>3
<1>7. IsInjective(r)
  <2>1. SUFFICES ASSUME NEW x \in 1..(Len(k) - 1), NEW y \in 1..(Len(k) - 1), r[x] = r[y]
                 PROVE  x = y
    BY <1>5 DEF IsInjective
  <2>2. (IF x < i THEN x ELSE x + 1) \in 1..Len(k) /\ (IF y < i THEN y ELSE y + 1) \in 1..Len(k)
    BY <1>1
  <2>3. (IF x < i THEN x ELSE x + 1) = (IF y < i THEN y ELSE y + 1)
    BY <1>1, <1>6, <2>1, <2>2 DEF IsInjective
  <2>4. QED
    BY <1>1, <2>3
<1>8. ASSUME NEW x \in ToSet(r)
      PROVE  x \in ToSet(k) \ {k[i]}
  <2>1. PICK j \in 1..(Len(k) - 1) : x = k[IF j < i THEN j ELSE j + 1]
    BY <1>5, <1>6, <1>8 DEF ToSet
  <2>2. (IF j < i THEN j ELSE j + 1) \in 1..Len(k) /\ (IF j < i THEN j ELSE j + 1) # i
    BY <1>1
  <2>3. QED
    BY <1>1, <2>1, <2>2 DEF ToSet, IsInjective
<1>9. ASSUME NEW x \in ToSet(k) \ {k[i]}
      PROVE  x \in ToSet(r)
  <2>1. PICK j \in 1..Len(k) : x = k[j]
    BY <1>1, <1>9 DEF ToSet
  <2>2. j # i
    BY <1>9, <2>1
  <2>3. CASE j < i
    <3>1. j \in 1..(Len(k) - 1)
      BY <1>1, <2>3
    <3>2. r[j] = k[j]
      BY <1>6, <2>3, <3>1
    <3>3. QED
      BY <1>5, <2>1, <3>1, <3>2 DEF ToSet
  <2>4. CASE j > i
    <3>1. j - 1 \in 1..(Len(k) - 1) /\ ~(j - 1 < i) /\ j - 1 + 1 = j
      BY <1>1, <2>4
    <3>2. r[j - 1] = k[j]
      BY <1>6, <3>1
    <3>3. QED
      BY <1>5, <2>1, <3>1, <3>2 DEF ToSet
  <2>5. QED
    BY <1>1, <2>2, <2>3, <2>4
<1>10. QED
  BY <1>4, <1>7, <1>8, <1>9 DEF RemoveAt, r, a, b

\* The conversation of a turn that succeeded.
LEMMA AddingOne ==
  ASSUME NEW S, NEW k \in Seq(S), IsInjective(k), NEW s \in S, s \notin ToSet(k)
  PROVE  /\ Append(k, s) \in Seq(S) /\ IsInjective(Append(k, s))
         /\ ToSet(Append(k, s)) = ToSet(k) \cup {s}
<1>1. Len(k) \in Nat /\ DOMAIN k = 1..Len(k)
  BY LenProperties
<1>2. /\ Append(k, s) \in Seq(S) /\ DOMAIN Append(k, s) = 1..(Len(k) + 1)
      /\ \A i \in 1..Len(k) : Append(k, s)[i] = k[i]
      /\ Append(k, s)[Len(k) + 1] = s
  BY AppendProperties, LenProperties
<1>3. \A i \in 1..(Len(k) + 1) : i \in 1..Len(k) \/ i = Len(k) + 1
  BY <1>1
<1>4. \A i \in 1..Len(k) : k[i] # s
  BY <1>1 DEF ToSet
<1>5. IsInjective(Append(k, s))
  BY <1>1, <1>2, <1>3, <1>4 DEF IsInjective
<1>6. Len(k) + 1 \in 1..(Len(k) + 1) /\ \A i \in 1..Len(k) : i \in 1..(Len(k) + 1)
  BY <1>1
<1>7. ToSet(Append(k, s)) = ToSet(k) \cup {s}
  BY <1>1, <1>2, <1>3, <1>6 DEF ToSet
<1>8. QED
  BY <1>2, <1>5, <1>7

-----------------------------------------------------------------------------
(* The sessions of the gateway *)

\* Beyond TextSessionsAreOwned: a socket that connects is awaited by the turn that
\* made it, and what is kept or answers has been configured, so that it is never
\* taken for a session that was let go.
SessionsKept ==
    /\ TextSessionsAreOwned
    /\ IsFiniteSet(sessions)
    /\ \A s \in Sessions :
          /\ text[s].socket = "connecting" => text[s].turn = "ready"
          /\ s \in sessions /\ text[s].turn \in {"none", "response"} => text[s].configured

LEMMA GoneIsFree ==
  ASSUME GatewayTypeOK, sessions = Sessions \ Free, NEW s \in Sessions
  PROVE  /\ s \in sessions <=> text[s] # Gone
         /\ InFlight(s) => s \in sessions
         /\ text[s].socket # "closed" => s \in sessions
         /\ text[s].configured => s \in sessions
BY DEF Free, Gone, InFlight, GatewayTypeOK

\* One session ends.
LEMMA LetGo ==
  ASSUME SessionsKept, NEW s \in sessions, Exchange({s}, {}),
         kept' \in Seq(Sessions), IsInjective(kept'), ToSet(kept') = ToSet(kept) \ {s}
  PROVE  SessionsKept'
<1> USE DEF SessionsKept, TextSessionsAreOwned, GatewayTypeOK
<1>1. s \in Sessions /\ {s} \cap sessions = {s} /\ (sessions \ {s}) \cup {} = sessions \ {s}
  OBVIOUS
<1>2. Cardinality({}) = 0 /\ Cardinality({s}) = 1
  BY FS_EmptySet, FS_Singleton
<1>3. IsFiniteSet(sessions \ {s}) /\ Cardinality(sessions \ {s}) = Cardinality(sessions) - 1
  BY FS_RemoveElement
<1>4. Cardinality(sessions \ {s}) \in Nat
  BY <1>3, FS_CardinalityType
<1>5. sessions' = sessions \ {s} /\ reserved' = reserved + 0 - 1
  BY <1>1, <1>2 DEF Exchange
<1>6. text' = [x \in Sessions |-> IF x = s THEN Gone ELSE text[x]]
  BY <1>1 DEF Exchange
<1>7. reserved' = Cardinality(sessions') /\ reserved' \in Nat /\ reserved' <= Capacity
  <2>1. reserved \in Nat /\ reserved = Cardinality(sessions) /\ reserved <= Capacity
    OBVIOUS
  <2>2. reserved' = reserved - 1 /\ Cardinality(sessions') = reserved - 1
    BY <1>3, <1>5, <2>1
  <2>3. reserved - 1 \in Nat
    BY <1>3, <1>4, <2>1
  <2>4. reserved - 1 <= Capacity
    BY <2>1, GatewayAssumption
  <2>5. QED
    BY <2>2, <2>3, <2>4
<1>8. text' \in [Sessions -> [socket : {"connecting", "open", "closed"},
                              turn : {"none", "ready", "configuration", "response"},
                              configured : BOOLEAN]]
  BY <1>6 DEF Gone
<1>9. sessions' = Sessions \ Free'
  BY <1>5, <1>6 DEF Free
<1>10. \A x \in Sessions : x \in ToSet(kept') <=> x \in sessions' /\ ~InFlight(x)'
  BY <1>5, <1>6 DEF InFlight, Gone
<1>11. \A x \in Sessions :
          /\ text'[x].socket = "connecting" => text'[x].turn = "ready"
          /\ x \in sessions' /\ text'[x].turn \in {"none", "response"} => text'[x].configured
  BY <1>5, <1>6 DEF Gone
<1>12. QED
  BY <1>3, <1>5, <1>7, <1>8, <1>9, <1>10, <1>11

\* One session begins, below the capacity.
LEMMA TakenUp ==
  ASSUME SessionsKept, NEW s \in Free, reserved < Capacity, Exchange({}, {s}), kept' = kept
  PROVE  SessionsKept'
<1> USE DEF SessionsKept, TextSessionsAreOwned, GatewayTypeOK
<1>1. s \in Sessions /\ s \notin sessions /\ {} \cap sessions = {}
      /\ (sessions \ {}) \cup {s} = sessions \cup {s}
  BY DEF Free
<1>2. Cardinality({}) = 0 /\ Cardinality({s}) = 1
  BY FS_EmptySet, FS_Singleton
<1>3. IsFiniteSet(sessions \cup {s}) /\ Cardinality(sessions \cup {s}) = Cardinality(sessions) + 1
  BY <1>1, FS_AddElement
<1>4. sessions' = sessions \cup {s} /\ reserved' = reserved + 1 - 0
  BY <1>1, <1>2 DEF Exchange
<1>5. text' = [x \in Sessions |-> IF x = s THEN [Gone EXCEPT !.socket = "connecting", !.turn = "ready"]
                                  ELSE text[x]]
  BY <1>1 DEF Exchange
<1>6. reserved' = Cardinality(sessions') /\ reserved' \in Nat /\ reserved' <= Capacity
  <2>1. reserved \in Nat /\ reserved = Cardinality(sessions)
    OBVIOUS
  <2>2. reserved' = reserved + 1 /\ Cardinality(sessions') = reserved + 1
    BY <1>3, <1>4, <2>1
  <2>3. reserved + 1 <= Capacity
    BY <2>1, GatewayAssumption
  <2>4. QED
    BY <2>1, <2>2, <2>3
<1>7. text' \in [Sessions -> [socket : {"connecting", "open", "closed"},
                              turn : {"none", "ready", "configuration", "response"},
                              configured : BOOLEAN]]
  BY <1>5 DEF Gone
<1>8. text'[s] # Gone /\ \A x \in Sessions : x # s => text'[x] = text[x]
  BY <1>1, <1>5 DEF Gone
<1>9. sessions' = Sessions \ Free'
  BY <1>1, <1>4, <1>8 DEF Free
<1>10. \A x \in Sessions : x \in ToSet(kept') <=> x \in sessions' /\ ~InFlight(x)'
  BY <1>1, <1>4, <1>5 DEF InFlight, Gone
<1>11. \A x \in Sessions :
          /\ text'[x].socket = "connecting" => text'[x].turn = "ready"
          /\ x \in sessions' /\ text'[x].turn \in {"none", "response"} => text'[x].configured
  BY <1>4, <1>5 DEF Gone
<1>12. QED
  BY <1>3, <1>4, <1>6, <1>7, <1>9, <1>10, <1>11

\* One begins in the slot of another that nobody awaits, possibly as that one again.
LEMMA TakenOver ==
  ASSUME SessionsKept, NEW e \in sessions, NEW s \in Free \cup {e}, Exchange({e}, {s}),
         ~InFlight(e),
         kept' \in Seq(Sessions), IsInjective(kept'), ToSet(kept') = ToSet(kept) \ {e}
  PROVE  SessionsKept'
<1> USE DEF SessionsKept, TextSessionsAreOwned, GatewayTypeOK
<1>1. /\ s \in Sessions /\ e \in Sessions /\ {e} \cap sessions = {e}
      /\ s \notin sessions \ {e}
  BY DEF Free
<1>2. Cardinality({e}) = 1 /\ Cardinality({s}) = 1
  BY FS_Singleton
<1>3. IsFiniteSet(sessions \ {e}) /\ Cardinality(sessions \ {e}) = Cardinality(sessions) - 1
  BY FS_RemoveElement
<1>4. /\ IsFiniteSet((sessions \ {e}) \cup {s})
      /\ Cardinality((sessions \ {e}) \cup {s}) = Cardinality(sessions \ {e}) + 1
  BY <1>1, <1>3, FS_AddElement
<1>5. sessions' = (sessions \ {e}) \cup {s} /\ reserved' = reserved + 1 - 1
  BY <1>1, <1>2 DEF Exchange
<1>6. text' = [x \in Sessions |-> IF x = s THEN [Gone EXCEPT !.socket = "connecting", !.turn = "ready"]
                                  ELSE IF x = e THEN Gone ELSE text[x]]
  BY <1>1 DEF Exchange
<1>7. reserved' = Cardinality(sessions') /\ reserved' \in Nat /\ reserved' <= Capacity
  <2>1. reserved \in Nat /\ reserved = Cardinality(sessions) /\ reserved <= Capacity
    OBVIOUS
  <2>2. reserved' = reserved /\ Cardinality(sessions') = reserved - 1 + 1
    BY <1>3, <1>4, <1>5, <2>1
  <2>3. QED
    BY <2>1, <2>2
<1>8. text' \in [Sessions -> [socket : {"connecting", "open", "closed"},
                              turn : {"none", "ready", "configuration", "response"},
                              configured : BOOLEAN]]
  BY <1>6 DEF Gone
<1>9. /\ text'[s] # Gone /\ (e # s => text'[e] = Gone)
      /\ \A x \in Sessions : x # s /\ x # e => text'[x] = text[x]
  BY <1>1, <1>6 DEF Gone
<1>10. sessions' = Sessions \ Free'
  BY <1>1, <1>5, <1>9 DEF Free
<1>11. \A x \in Sessions : x \in ToSet(kept') <=> x \in sessions' /\ ~InFlight(x)'
  BY <1>1, <1>5, <1>6 DEF InFlight, Gone
<1>12. \A x \in Sessions :
          /\ text'[x].socket = "connecting" => text'[x].turn = "ready"
          /\ x \in sessions' /\ text'[x].turn \in {"none", "response"} => text'[x].configured
  BY <1>5, <1>6 DEF Gone
<1>13. QED
  BY <1>4, <1>5, <1>7, <1>8, <1>10, <1>11, <1>12

\* A session goes from one state to another, kept exactly while no turn awaits it.
LEMMA MovedOn ==
  ASSUME SessionsKept, NEW s \in sessions, UNCHANGED <<sessions, reserved>>,
         NEW v \in [socket : {"connecting", "open", "closed"},
                    turn : {"none", "ready", "configuration", "response"},
                    configured : BOOLEAN],
         text' = [text EXCEPT ![s] = v], v # Gone,
         v.socket = "connecting" => v.turn = "ready",
         v.turn \in {"none", "response"} => v.configured,
         kept' \in Seq(Sessions), IsInjective(kept'),
         ToSet(kept') = IF v.turn = "none" THEN ToSet(kept) \cup {s} ELSE ToSet(kept) \ {s}
  PROVE  SessionsKept'
<1> USE DEF SessionsKept, TextSessionsAreOwned, GatewayTypeOK
<1>1. /\ s \in Sessions /\ text'[s] = v
      /\ \A x \in Sessions : x # s => text'[x] = text[x]
      /\ text' \in [Sessions -> [socket : {"connecting", "open", "closed"},
                                 turn : {"none", "ready", "configuration", "response"},
                                 configured : BOOLEAN]]
  OBVIOUS
<1>2. sessions' = Sessions \ Free'
  BY <1>1 DEF Free
<1>3. \A x \in Sessions : x \in ToSet(kept') <=> x \in sessions' /\ ~InFlight(x)'
  BY <1>1 DEF InFlight
<1>4. \A x \in Sessions :
         /\ text'[x].socket = "connecting" => text'[x].turn = "ready"
         /\ x \in sessions' /\ text'[x].turn \in {"none", "response"} => text'[x].configured
  BY <1>1
<1>5. QED
  BY <1>1, <1>2, <1>3, <1>4

SessionState == [socket : {"connecting", "open", "closed"},
                 turn : {"none", "ready", "configuration", "response"}, configured : BOOLEAN]

LEMMA OneIsGivenUp ==
  ASSUME SessionsKept, NEW s, Unkept(s)
  PROVE  /\ s \in sessions /\ s \in ToSet(kept) /\ ~InFlight(s)
         /\ kept' \in Seq(Sessions) /\ IsInjective(kept') /\ ToSet(kept') = ToSet(kept) \ {s}
<1>1. PICK i \in DOMAIN kept : kept[i] = s /\ kept' = RemoveAt(kept, i)
  BY DEF Unkept
<1>2. kept \in Seq(Sessions) /\ IsInjective(kept)
  BY DEF SessionsKept, TextSessionsAreOwned, GatewayTypeOK
<1>3. s \in ToSet(kept) /\ s \in Sessions
  BY <1>1, <1>2, LenProperties, ElementOfSeq DEF ToSet
<1>4. QED
  BY <1>1, <1>2, <1>3, LeavingOutOne DEF SessionsKept, TextSessionsAreOwned

LEMMA BeginsKeeps ==
  ASSUME SessionsKept, NEW s, Begins(s)
  PROVE  SessionsKept'
<1>1. PICK n \in Evicted : /\ s \in Free \cup {kept[i] : i \in 1..n}
                           /\ Exchange({kept[i] : i \in 1..n}, {s})
                           /\ kept' = SubSeq(kept, n + 1, Len(kept))
  BY DEF Begins
<1>2. /\ kept \in Seq(Sessions) /\ IsInjective(kept)
      /\ reserved \in Nat /\ reserved <= Capacity /\ Capacity \in Nat
      /\ Len(kept) \in Nat
  BY LenProperties, GatewayAssumption DEF SessionsKept, TextSessionsAreOwned, GatewayTypeOK
<1>3. CASE reserved < Capacity
  <2>1. n = 0 /\ {kept[i] : i \in 1..n} = {}
    BY <1>1, <1>3 DEF Evicted
  <2>2. kept' = kept
    BY <1>1, <1>2, <2>1, SubSeqProperties, ElementOfSeq, SeqEqual
  <2>3. s \in Free /\ Exchange({}, {s})
    BY <1>1, <2>1
  <2>4. QED
    BY <1>3, <2>2, <2>3, TakenUp
<1>4. CASE ~(reserved < Capacity)
  <2>1. n = 1 /\ 1 <= Len(kept) /\ 1 \in 0..Len(kept) /\ 1 \in 1..Len(kept)
    BY <1>1, <1>2, <1>4 DEF Evicted
  <2>2. {kept[i] : i \in 1..n} = {kept[1]}
    BY <2>1
  <2>3. /\ kept' \in Seq(Sessions) /\ IsInjective(kept')
        /\ ToSet(kept') = ToSet(kept) \ {kept[i] : i \in 1..n}
    BY <1>1, <1>2, <2>1, LeavingOutTheFirst
  <2>4. kept[1] \in ToSet(kept) /\ kept[1] \in Sessions
    BY <1>2, <2>1, ElementOfSeq, LenProperties DEF ToSet
  <2>5. kept[1] \in sessions /\ ~InFlight(kept[1])
    BY <2>4 DEF SessionsKept, TextSessionsAreOwned
  <2>6. QED
    BY <1>1, <2>2, <2>3, <2>5, TakenOver
<1>5. QED
  BY <1>3, <1>4

LEMMA ContinuesKeeps ==
  ASSUME SessionsKept, NEW s, Continues(s)
  PROVE  SessionsKept'
<1>1. /\ s \in sessions /\ s \in Sessions /\ ~InFlight(s)
      /\ kept' \in Seq(Sessions) /\ IsInjective(kept') /\ ToSet(kept') = ToSet(kept) \ {s}
  BY OneIsGivenUp DEF Continues, SessionsKept, TextSessionsAreOwned, GatewayTypeOK
<1> DEFINE v == [text[s] EXCEPT !.turn = "response"]
<1>2. text' = [text EXCEPT ![s] = v] /\ text[s].socket = "open"
  BY DEF Continues
<1>3. /\ v \in SessionState /\ v # Gone /\ v.socket # "connecting" /\ v.turn = "response"
      /\ v.configured
  BY <1>1, <1>2 DEF SessionsKept, TextSessionsAreOwned, GatewayTypeOK, SessionState, Gone, InFlight
<1> HIDE DEF v
<1>4. QED
  BY <1>1, <1>2, <1>3, MovedOn DEF SessionState, Continues

LEMMA ContinuesClosedKeeps ==
  ASSUME SessionsKept, NEW s, ContinuesClosed(s) \/ Expires(s)
  PROVE  SessionsKept'
BY OneIsGivenUp, LetGo DEF ContinuesClosed, Expires

LEMMA TurnFailsKeeps ==
  ASSUME SessionsKept, NEW s \in Sessions, TurnFails(s)
  PROVE  SessionsKept'
<1>1. /\ s \in sessions /\ s \notin ToSet(kept) /\ Exchange({s}, {})
      /\ kept' = kept /\ kept \in Seq(Sessions) /\ IsInjective(kept)
  BY GoneIsFree DEF TurnFails, SessionsKept, TextSessionsAreOwned, GatewayTypeOK
<1>2. ToSet(kept') = ToSet(kept) \ {s}
  BY <1>1
<1>3. QED
  BY <1>1, <1>2, LetGo

LEMMA TurnSucceedsKeeps ==
  ASSUME SessionsKept, NEW s \in Sessions, TurnSucceeds(s)
  PROVE  SessionsKept'
<1>1. PICK socket \in {"open", "closed"} :
         text' = [text EXCEPT ![s].socket = socket, ![s].turn = "none"]
  BY DEF TurnSucceeds
<1> DEFINE v == [text[s] EXCEPT !.socket = socket, !.turn = "none"]
<1>2. text[s] \in SessionState /\ text[s].turn = "response" /\ text[s].socket = "open"
  BY DEF TurnSucceeds, SessionsKept, TextSessionsAreOwned, GatewayTypeOK, SessionState
<1>3. s \in sessions /\ s \notin ToSet(kept)
  BY <1>2, GoneIsFree DEF SessionsKept, TextSessionsAreOwned, InFlight
<1>4. text' = [text EXCEPT ![s] = v]
  BY <1>1 DEF SessionsKept, TextSessionsAreOwned, GatewayTypeOK
<1>5. v \in SessionState /\ v # Gone /\ v.socket # "connecting" /\ v.turn = "none" /\ v.configured
  BY <1>1, <1>2, <1>3 DEF SessionsKept, SessionState, Gone
<1> HIDE DEF v
<1>6. /\ kept' \in Seq(Sessions) /\ IsInjective(kept') /\ ToSet(kept') = ToSet(kept) \cup {s}
  BY <1>3, AddingOne DEF TurnSucceeds, SessionsKept, TextSessionsAreOwned, GatewayTypeOK
<1>7. QED
  BY <1>3, <1>4, <1>5, <1>6, MovedOn DEF SessionState, TurnSucceeds

LEMMA SocketMovesKeep ==
  ASSUME SessionsKept, NEW s \in Sessions, SocketOpens(s) \/ Configured(s) \/ SocketCloses(s)
  PROVE  SessionsKept'
<1>1. /\ text[s] \in SessionState /\ kept \in Seq(Sessions) /\ IsInjective(kept)
      /\ kept' = kept /\ UNCHANGED <<sessions, reserved>>
  BY DEF SessionsKept, TextSessionsAreOwned, GatewayTypeOK, SessionState, SocketOpens, Configured,
         SocketCloses
<1>2. s \in sessions
  BY GoneIsFree DEF SessionsKept, TextSessionsAreOwned, SocketOpens, Configured, SocketCloses, InFlight
<1>3. PICK v \in SessionState :
         /\ text' = [text EXCEPT ![s] = v] /\ v # Gone /\ v.socket # "connecting"
         /\ v.turn \in {"none", "response"} => v.configured
         /\ v.turn = "none" <=> text[s].turn = "none"
  <2>1. CASE SocketOpens(s)
    <3> DEFINE v == [text[s] EXCEPT !.socket = "open", !.turn = "configuration"]
    <3>1. text' = [text EXCEPT ![s] = v] /\ text[s].socket = "connecting"
      BY <2>1 DEF SocketOpens, SessionsKept, TextSessionsAreOwned, GatewayTypeOK
    <3>2. v \in SessionState /\ v # Gone /\ v.socket = "open" /\ v.turn = "configuration"
      BY <1>1 DEF SessionState, Gone
    <3>3. text[s].turn = "ready"
      BY <3>1 DEF SessionsKept
    <3> HIDE DEF v
    <3>4. QED
      BY <3>1, <3>2, <3>3
  <2>2. CASE Configured(s)
    <3>1. PICK socket \in {"open", "closed"} :
             text' = [text EXCEPT ![s].socket = socket, ![s].turn = "response",
                                  ![s].configured = TRUE]
      BY <2>2 DEF Configured
    <3> DEFINE v == [text[s] EXCEPT !.socket = socket, !.turn = "response", !.configured = TRUE]
    <3>2. text' = [text EXCEPT ![s] = v] /\ text[s].turn = "configuration"
      BY <2>2, <3>1 DEF Configured, SessionsKept, TextSessionsAreOwned, GatewayTypeOK
    <3>3. v \in SessionState /\ v # Gone /\ v.socket # "connecting" /\ v.turn = "response"
          /\ v.configured
      BY <1>1, <3>1 DEF SessionState, Gone
    <3> HIDE DEF v
    <3>4. QED
      BY <3>2, <3>3
  <2>3. CASE SocketCloses(s)
    <3> DEFINE v == [text[s] EXCEPT !.socket = "closed"]
    <3>1. text' = [text EXCEPT ![s] = v] /\ text[s].turn = "none"
      BY <2>3 DEF SocketCloses, SessionsKept, TextSessionsAreOwned, GatewayTypeOK, InFlight
    <3>2. text[s].configured
      BY <1>2, <3>1 DEF SessionsKept
    <3>3. v \in SessionState /\ v # Gone /\ v.socket # "connecting" /\ v.turn = text[s].turn
          /\ v.configured
      BY <1>1, <3>2 DEF SessionState, Gone
    <3> HIDE DEF v
    <3>4. QED
      BY <3>1, <3>3
  <2>4. QED
    BY <2>1, <2>2, <2>3
<1>4. s \in ToSet(kept) <=> text[s].turn = "none"
  BY <1>2 DEF SessionsKept, TextSessionsAreOwned, InFlight
<1>5. ToSet(kept') = IF v.turn = "none" THEN ToSet(kept) \cup {s} ELSE ToSet(kept) \ {s}
  BY <1>1, <1>3, <1>4
<1>6. QED
  BY <1>1, <1>2, <1>3, <1>5, MovedOn DEF SessionState

LEMMA SessionsStayKept ==
  ASSUME SessionsKept, UNCHANGED gatewayVars
  PROVE  SessionsKept'
<1> USE DEF SessionsKept, TextSessionsAreOwned, GatewayTypeOK, gatewayVars, Free, InFlight
<1>1. text' = text /\ sessions' = sessions /\ reserved' = reserved /\ kept' = kept
  OBVIOUS
<1>2. Free' = Free /\ \A s \in Sessions : InFlight(s)' = InFlight(s)
  BY <1>1
<1>3. QED
  BY <1>1, <1>2

-----------------------------------------------------------------------------
(* Batches of calls *)

\* Min of calls: the natural numbers are well-founded.
LEMMA LeastCall ==
  ASSUME NEW S, S \subseteq Nat, S # {}
  PROVE  Min(S) \in S
<1>1. IsWellFoundedOn(OpToRel(<, Nat), Nat)
  BY NatLessThanWellFounded
<1>2. PICK x \in S : \A y \in S : ~(<<y, x>> \in OpToRel(<, Nat))
  BY <1>1, WFMin
<1>3. \A y \in S : x <= y
  <2>1. \A y \in S : ~(y < x)
    BY <1>2 DEF OpToRel
  <2>2. QED
    BY <2>1
<1>4. QED
  BY <1>3 DEF Min

\* The call of a batch is one of it, and behind a failure a cleanup.
CallOK(calls, at, failed) ==
    /\ at \in DOMAIN calls
    /\ Stopped(calls, failed) => calls[at] = "cleanup"

\* The next call is one that may run, and an approval is asked for a backend.
LEMMA AdvanceFinds ==
  ASSUME NEW calls \in Seq(Kinds), NEW i \in Nat, NEW failed \in BOOLEAN
  PROVE  LET position == Advance(calls, i, failed) IN
         /\ position.at \in Nat /\ position.failed \in BOOLEAN
         /\ position.at # 0 => /\ CallOK(calls, position.at, position.failed)
                               /\ NeedsApproval(calls[position.at]) => backend # None
<1> DEFINE next == Remaining(calls, i, failed)
           j == IF next = {} THEN 0 ELSE Min(next)
           rest == Remaining(calls, j, TRUE)
           k == IF rest = {} THEN 0 ELSE Min(rest)
<1>1. Len(calls) \in Nat /\ DOMAIN calls = 1..Len(calls)
  BY LenProperties
<1>2. next \subseteq Nat /\ rest \subseteq Nat
  <2>1. DOMAIN calls \subseteq Nat
    BY <1>1
  <2>2. \A n, f : Remaining(calls, n, f) \subseteq DOMAIN calls
    BY DEF Remaining
  <2>3. QED
    BY <2>1, <2>2
<1>3. j \in Nat /\ k \in Nat
  BY <1>2, LeastCall
<1>4. j # 0 => CallOK(calls, j, failed)
  <2>1. next # {} => Min(next) \in next
    BY <1>2, LeastCall
  <2>2. QED
    BY <2>1 DEF Remaining, CallOK
<1>5. k # 0 => CallOK(calls, k, TRUE)
  <2>1. rest # {} => Min(rest) \in rest
    BY <1>2, LeastCall
  <2>2. QED
    BY <2>1 DEF Remaining, CallOK
<1> DEFINE position == Advance(calls, i, failed)
<1> HIDE DEF next, j, rest, k
<1>6. position = IF j = 0 \/ ~NeedsApproval(calls[j]) \/ backend # None
                 THEN [at |-> j, failed |-> failed] ELSE [at |-> k, failed |-> TRUE]
  BY DEF Advance, next, j, rest, k
<1> HIDE DEF position
<1> SUFFICES /\ position.at \in Nat /\ position.failed \in BOOLEAN
             /\ position.at # 0 => /\ CallOK(calls, position.at, position.failed)
                                   /\ NeedsApproval(calls[position.at]) => backend # None
  BY DEF position
<1>7. CASE j = 0 \/ ~NeedsApproval(calls[j]) \/ backend # None
  <2>1. position.at = j /\ position.failed = failed
    BY <1>6, <1>7
  <2>2. QED
    BY <1>3, <1>4, <1>7, <2>1
<1>8. CASE ~(j = 0 \/ ~NeedsApproval(calls[j]) \/ backend # None)
  <2>1. position.at = k /\ position.failed = TRUE
    BY <1>6, <1>8
  <2>2. j \in DOMAIN calls /\ calls[j] = "touch"
    BY <1>4, <1>8 DEF CallOK, NeedsApproval
  <2>3. Stopped(calls, TRUE)
    BY <2>2 DEF Stopped, IsAction
  <2>4. k # 0 => calls[k] = "cleanup"
    BY <1>5, <2>3 DEF CallOK
  <2>5. QED
    BY <1>3, <1>5, <2>1, <2>4 DEF NeedsApproval
<1>9. QED
  BY <1>7, <1>8

BatchType ==
    [owner : {"text", "voice"}, live : BOOLEAN, calls : Seq(Kinds), at : Nat, failed : BOOLEAN,
     stage : {"approval", "execute"}, asked : Backends \cup {None}, holds : BOOLEAN]

\* A batch by itself
Sound(b) ==
    /\ b \in BatchType
    /\ CallOK(b.calls, b.at, b.failed)
    /\ b.stage = "approval" => b.live

\* What the batches are, without whose operation they belong to.
BatchesSound ==
    /\ backend \in Backends \cup {None}
    /\ \A b \in batches : Sound(b)
    /\ \A b, c \in batches : b.live /\ c.live => b = c

\* A new or advanced batch is sound, live, and executes only what needs no approval.
LEMMA BatchMade ==
  ASSUME backend \in Backends \cup {None},
         NEW owner \in {"text", "voice"}, NEW calls \in Seq(Kinds), NEW i \in Nat,
         NEW failed \in BOOLEAN,
         NEW position, position = Advance(calls, i, failed),
         NEW made, made = Batch(owner, calls, position)
  PROVE  /\ position.at = 0 => made = {}
         /\ \A b, c \in made : b = c
         /\ \A b \in made :
               /\ Sound(b) /\ b.live /\ b.owner = owner /\ b.calls = calls
               /\ owner = "voice" => b.holds
               /\ b.stage = "execute" => ~NeedsApproval(b.calls[b.at])
<1> DEFINE asks == NeedsApproval(calls[position.at])
           one == [owner |-> owner, live |-> TRUE, calls |-> calls, at |-> position.at,
                   failed |-> position.failed, stage |-> IF asks THEN "approval" ELSE "execute",
                   asked |-> IF asks THEN backend ELSE None, holds |-> owner = "voice"]
<1>1. /\ position.at \in Nat /\ position.failed \in BOOLEAN
      /\ position.at # 0 => CallOK(calls, position.at, position.failed)
  BY AdvanceFinds
<1>2. made = IF position.at = 0 THEN {} ELSE {one}
  BY DEF Batch
<1>3. asks \in BOOLEAN /\ (owner = "voice") \in BOOLEAN
  BY DEF NeedsApproval
<1>4. one \in BatchType
  BY <1>1, <1>3 DEF BatchType
<1>5. /\ one.live /\ one.owner = owner /\ one.calls = calls /\ one.at = position.at
      /\ one.failed = position.failed /\ one.stage = (IF asks THEN "approval" ELSE "execute")
  OBVIOUS
<1>6. owner = "voice" => one.holds
  OBVIOUS
<1> HIDE DEF one
<1>7. position.at # 0 => Sound(one)
  BY <1>1, <1>4, <1>5 DEF Sound
<1>8. one.stage = "execute" => ~NeedsApproval(one.calls[one.at])
  BY <1>5
<1>9. QED
  BY <1>2, <1>5, <1>6, <1>7, <1>8

\* Superseding stops and denies, and starts nothing.
LEMMA SupersededKeeps ==
  ASSUME BatchesSound, NEW owner, NEW holds \in BOOLEAN, NEW b \in Superseded(owner, holds)
  PROVE  /\ Sound(b)
         /\ b.live => b \in batches /\ b.owner # owner
         /\ \E a \in batches : /\ a.owner = b.owner /\ a.calls = b.calls /\ a.at = b.at
                               /\ a.stage = b.stage
<1>1. PICK a \in batches :
         /\ ~(a.live /\ a.owner = owner /\ a.stage = "approval")
         /\ b = IF a.owner = owner THEN [a EXCEPT !.live = FALSE, !.holds = @ /\ holds] ELSE a
  BY DEF Superseded
<1>2. Sound(a) /\ a \in BatchType
  BY <1>1 DEF BatchesSound, Sound
<1>3. CASE a.owner # owner
  BY <1>1, <1>2, <1>3
<1>4. CASE a.owner = owner
  <2>1. b = [a EXCEPT !.live = FALSE, !.holds = @ /\ holds]
    BY <1>1, <1>4
  <2>2. (a.holds /\ holds) \in BOOLEAN
    OBVIOUS
  <2>3. b \in BatchType /\ ~b.live /\ b.owner = a.owner /\ b.calls = a.calls /\ b.at = a.at
    BY <1>2, <2>1, <2>2 DEF BatchType
  <2>4. b.stage = a.stage /\ b.failed = a.failed
    BY <1>2, <2>1 DEF BatchType
  <2>5. a.stage # "approval"
    BY <1>1, <1>2, <1>4 DEF Sound
  <2>6. Sound(b)
    BY <1>2, <2>3, <2>4, <2>5 DEF Sound
  <2>7. QED
    BY <1>1, <2>3, <2>4, <2>6
<1>5. QED
  BY <1>3, <1>4

-----------------------------------------------------------------------------
(* The window: its typed operation, its voice session and its batches *)

\* While a typed operation runs there is no voice session.
TypedOK ==
    /\ typed \in [at : {"none", "turn", "tools", "deliver"}, session : Sessions \cup {None},
                  loaded : BOOLEAN, count : Nat]
    /\ typed.at = "turn" => typed.session \in Sessions
    /\ typed.at # "none" => voice.peer = "none"

VoiceType ==
    [peer : {"none", "capture", "call", "channel", "open"}, startTimer : BOOLEAN,
     verifyTimer : BOOLEAN, updating : BOOLEAN, verified : BOOLEAN, track : {"none", "off", "on"},
     response : {"none", "current", "old"}, loaded : BOOLEAN, count : Nat]

\* The steps of a voice session, and what it holds in each.
VoiceOK ==
    /\ voice \in VoiceType /\ muted \in BOOLEAN
    /\ mics = IF Capturing THEN 1 ELSE 0
    /\ ~Capturing <=> voice.peer \in {"none", "capture"}
    /\ voice.updating => voice.peer = "open"
    /\ voice.verified => voice.updating
    /\ voice.response # "none" => voice.verified
    /\ voice.track = "on" => voice.verified /\ ~muted

\* A live batch belongs to the operation that runs.
Owned(b) ==
    /\ b.live /\ b.owner = "text" => typed.at = "tools"
    /\ b.live /\ b.owner = "voice" => voice.verified /\ b.holds

\* A response that may call tools has no live batch beside it.
BatchesOwned ==
    /\ \A b \in batches : Owned(b)
    /\ voice.response = "current" => \A b \in batches : ~b.live

AgentOK == TypedOK /\ VoiceOK /\ BatchesSound /\ BatchesOwned

LEMMA NothingLive ==
  ASSUME AgentOK, typed.at # "tools", ~voice.verified
  PROVE  \A b \in batches : ~b.live
BY DEF AgentOK, BatchesSound, BatchesOwned, Owned, Sound, BatchType

LEMMA SupersededOnce ==
  ASSUME BatchesSound, backend' = backend, NEW owner, NEW holds \in BOOLEAN,
         Supersede(owner, holds)
  PROVE  /\ BatchesSound'
         /\ \A b \in batches' : b.live => b \in batches /\ b.owner # owner
<1>1. batches' = Superseded(owner, holds)
  BY DEF Supersede
<1>2. \A b \in batches' : Sound(b) /\ (b.live => b \in batches /\ b.owner # owner)
  BY <1>1, SupersededKeeps
<1>3. QED
  BY <1>2 DEF BatchesSound

\* stopVoice leaves nothing of the session.
LEMMA VoiceEnded ==
  ASSUME AgentOK, NEW answered \in BOOLEAN, EndVoice(answered), muted' = muted
  PROVE  VoiceOK' /\ voice'.peer = "none" /\ voice'.response = "none" /\ ~voice'.verified
<1>1. voice' = NoVoice /\ mics' = 0 /\ muted' \in BOOLEAN
  BY DEF AgentOK, VoiceOK, EndVoice
<1>2. QED
  BY <1>1 DEF VoiceOK, VoiceType, NoVoice, Capturing

LEMMA VoiceEndsKeeps ==
  ASSUME AgentOK, NEW answered \in BOOLEAN, VoiceEnds(answered)
  PROVE  AgentOK'
<1>1. /\ EndVoice(answered) /\ Supersede("voice", FALSE) /\ muted' = muted /\ backend' = backend
      /\ typed' = typed
  BY DEF VoiceEnds, typedVars
<1>2. VoiceOK' /\ voice'.peer = "none" /\ voice'.response = "none" /\ ~voice'.verified
  BY <1>1, VoiceEnded
<1>3. /\ BatchesSound'
      /\ \A b \in batches' : b.live => b \in batches /\ b.owner # "voice"
  BY <1>1, SupersededOnce DEF AgentOK
<1>4. BatchesOwned'
  BY <1>1, <1>2, <1>3 DEF AgentOK, BatchesOwned, Owned
<1>5. TypedOK'
  BY <1>1, <1>2 DEF AgentOK, TypedOK
<1>6. QED
  BY <1>2, <1>3, <1>4, <1>5 DEF AgentOK

\* What changes the voice session alone, and ends no batch.
LEMMA VoiceMovesKeep ==
  ASSUME AgentOK, voice.peer # "none", VoiceOK', UNCHANGED <<typed, batches, backend>>,
         voice'.verified \/ ~voice.verified,
         voice'.response = "current" => \A b \in batches : ~b.live
  PROVE  AgentOK'
<1>1. typed.at = "none"
  BY DEF AgentOK, TypedOK
<1>2. TypedOK'
  BY <1>1 DEF AgentOK, TypedOK
<1>3. BatchesSound' /\ BatchesOwned'
  BY DEF AgentOK, BatchesSound, BatchesOwned, Owned
<1>4. QED
  BY <1>2, <1>3 DEF AgentOK

LEMMA StartupKeeps ==
  ASSUME AgentOK, StartVoice \/ MicrophoneGranted \/ CallAnswers \/ ChannelOpens \/ SessionCreated
  PROVE  AgentOK'
<1> USE DEF Unchanged, typedVars, VoiceOK, VoiceType, Capturing
<1>1. CASE StartVoice
  <2>1. /\ voice' = [NoVoice EXCEPT !.peer = "capture", !.startTimer = TRUE]
        /\ typed.at = "none" /\ typed' = typed /\ voice.peer = "none"
        /\ UNCHANGED <<mics, muted, batches, backend>>
    BY <1>1 DEF StartVoice, Starts
  <2>2. VoiceOK' /\ voice'.response = "none" /\ ~voice.verified /\ ~voice'.verified
    BY <2>1 DEF AgentOK, NoVoice
  <2>3. TypedOK' /\ BatchesSound'
    BY <2>1 DEF AgentOK, TypedOK, BatchesSound
  <2>4. BatchesOwned'
    BY <2>1, <2>2 DEF AgentOK, BatchesOwned, Owned
  <2>5. QED
    BY <2>2, <2>3, <2>4 DEF AgentOK
<1>2. CASE MicrophoneGranted
  <2>1. /\ voice' = [voice EXCEPT !.peer = "call", !.track = "off"] /\ voice.peer = "capture"
        /\ mics' = mics + 1 /\ UNCHANGED <<typed, muted, batches, backend>>
    BY <1>2 DEF MicrophoneGranted
  <2>2. /\ voice' \in VoiceType /\ voice'.peer = "call" /\ voice'.track = "off"
        /\ voice'.updating = voice.updating /\ voice'.verified = voice.verified
        /\ voice'.response = voice.response /\ ~voice.verified /\ mics = 0
    BY <2>1 DEF AgentOK
  <2>3. VoiceOK'
    BY <2>1, <2>2 DEF AgentOK
  <2>4. QED
    BY <2>1, <2>2, <2>3, VoiceMovesKeep DEF AgentOK, BatchesOwned
<1>3. CASE CallAnswers
  <2>1. /\ voice' = [voice EXCEPT !.peer = "channel"] /\ voice.peer = "call"
        /\ UNCHANGED <<typed, mics, muted, batches, backend>>
    BY <1>3 DEF CallAnswers
  <2>2. VoiceOK' /\ voice'.response = voice.response /\ voice'.verified = voice.verified
    BY <2>1 DEF AgentOK
  <2>3. QED
    BY <2>1, <2>2, VoiceMovesKeep DEF AgentOK, BatchesOwned
<1>4. CASE ChannelOpens
  <2>1. /\ voice' = [voice EXCEPT !.peer = "open", !.verifyTimer = TRUE] /\ voice.peer = "channel"
        /\ UNCHANGED <<typed, mics, muted, batches, backend>>
    BY <1>4 DEF ChannelOpens
  <2>2. VoiceOK' /\ voice'.response = voice.response /\ voice'.verified = voice.verified
    BY <2>1 DEF AgentOK
  <2>3. QED
    BY <2>1, <2>2, VoiceMovesKeep DEF AgentOK, BatchesOwned
<1>5. CASE SessionCreated
  <2>1. /\ voice' = [voice EXCEPT !.updating = TRUE] /\ voice.peer = "open"
        /\ UNCHANGED <<typed, mics, muted, batches, backend>>
    BY <1>5 DEF SessionCreated
  <2>2. VoiceOK' /\ voice'.response = voice.response /\ voice'.verified = voice.verified
    BY <2>1 DEF AgentOK
  <2>3. QED
    BY <2>1, <2>2, VoiceMovesKeep DEF AgentOK, BatchesOwned
<1>6. QED
  BY <1>1, <1>2, <1>3, <1>4, <1>5

LEMMA SessionUpdatedKeeps ==
  ASSUME AgentOK, SessionUpdated
  PROVE  AgentOK'
<1>1. /\ voice' = [voice EXCEPT !.startTimer = FALSE, !.verifyTimer = FALSE, !.verified = TRUE,
                                !.track = Track(TRUE, muted)]
      /\ voice.updating
      /\ UNCHANGED <<typed, mics, muted, batches, backend>>
  BY DEF SessionUpdated, Unchanged, typedVars
<1>2. /\ voice' \in VoiceType /\ voice.peer = "open" /\ voice'.peer = "open"
      /\ voice'.updating /\ voice'.verified /\ voice'.response = voice.response
      /\ voice'.track # "none" /\ (voice'.track = "on" => ~muted)
      /\ voice.track # "none"
  BY <1>1 DEF AgentOK, VoiceOK, VoiceType, Track, Capturing
<1>3. VoiceOK'
  BY <1>1, <1>2 DEF AgentOK, VoiceOK, Capturing
<1>4. QED
  BY <1>1, <1>2, <1>3, VoiceMovesKeep DEF AgentOK, BatchesOwned

LEMMA SetMicrophoneMuteKeeps ==
  ASSUME AgentOK, SetMicrophoneMute
  PROVE  AgentOK'
<1>1. /\ muted' = ~muted /\ UNCHANGED <<typed, mics, batches, backend>>
      /\ voice' = IF Capturing THEN [voice EXCEPT !.track = Track(voice.verified, muted')] ELSE voice
  BY DEF SetMicrophoneMute, Unchanged, typedVars
<1>2. muted' \in BOOLEAN
  BY <1>1
<1>3. CASE Capturing
  <2>1. voice' = [voice EXCEPT !.track = Track(voice.verified, muted')]
    BY <1>1, <1>3
  <2>2. /\ voice' \in VoiceType /\ voice'.peer = voice.peer /\ voice'.updating = voice.updating
        /\ voice'.verified = voice.verified /\ voice'.response = voice.response
        /\ voice'.track # "none" /\ (voice'.track = "on" => voice.verified /\ ~muted')
    BY <2>1 DEF AgentOK, VoiceOK, VoiceType, Track
  <2>3. VoiceOK' /\ voice.peer # "none"
    BY <1>1, <1>2, <1>3, <2>2 DEF AgentOK, VoiceOK, Capturing
  <2>4. QED
    BY <1>1, <2>2, <2>3, VoiceMovesKeep DEF AgentOK, BatchesOwned
<1>4. CASE ~Capturing
  <2>1. voice' = voice /\ voice.track = "none"
    BY <1>1, <1>4 DEF Capturing
  <2>2. VoiceOK'
    BY <1>1, <1>2, <2>1 DEF AgentOK, VoiceOK, Capturing
  <2>3. TypedOK' /\ BatchesSound' /\ BatchesOwned'
    BY <1>1, <2>1 DEF AgentOK, TypedOK, BatchesSound, BatchesOwned, Owned
  <2>4. QED
    BY <2>2, <2>3 DEF AgentOK
<1>5. QED
  BY <1>3, <1>4

LEMMA SpeechStartsKeeps ==
  ASSUME AgentOK, SpeechStarts
  PROVE  AgentOK'
<1>1. /\ voice.verified /\ Supersede("voice", TRUE)
      /\ voice' = [voice EXCEPT !.loaded = FALSE, !.count = 0,
                                !.response = IF @ = "none" THEN @ ELSE "old"]
      /\ UNCHANGED <<typed, mics, muted, backend>>
  BY DEF SpeechStarts, Unchanged, typedVars
<1>2. /\ voice' \in VoiceType /\ voice'.peer = voice.peer /\ voice'.updating = voice.updating
      /\ voice'.verified = voice.verified /\ voice'.track = voice.track
      /\ voice'.response # "current"
  BY <1>1 DEF AgentOK, VoiceOK, VoiceType
<1>3. VoiceOK' /\ TypedOK'
  BY <1>1, <1>2 DEF AgentOK, VoiceOK, TypedOK, Capturing
<1>4. /\ BatchesSound'
      /\ \A b \in batches' : b.live => b \in batches /\ b.owner # "voice"
  BY <1>1, SupersededOnce DEF AgentOK
<1>5. BatchesOwned'
  BY <1>1, <1>2, <1>4 DEF AgentOK, BatchesOwned, Owned
<1>6. QED
  BY <1>3, <1>4, <1>5 DEF AgentOK

LEMMA ResponseCreatedKeeps ==
  ASSUME AgentOK, ResponseCreated
  PROVE  AgentOK'
<1>1. CASE Continuing
  BY <1>1, VoiceEndsKeeps DEF ResponseCreated
<1>2. CASE ~Continuing
  <2>1. /\ voice' = [voice EXCEPT !.response = "current"] /\ voice.verified
        /\ UNCHANGED <<typed, mics, muted, batches, backend>>
    BY <1>2 DEF ResponseCreated, Unchanged, typedVars
  <2>2. /\ voice' \in VoiceType /\ voice'.peer = voice.peer /\ voice'.updating = voice.updating
        /\ voice'.verified = voice.verified /\ voice'.track = voice.track
    BY <2>1 DEF AgentOK, VoiceOK, VoiceType
  <2>3. VoiceOK' /\ voice.peer = "open"
    BY <2>1, <2>2 DEF AgentOK, VoiceOK, Capturing
  <2>4. \A b \in batches : ~b.live
    BY <1>2, <2>3 DEF AgentOK, TypedOK, BatchesSound, BatchesOwned, Owned, Continuing, Sound, BatchType
  <2>5. QED
    BY <2>1, <2>2, <2>3, <2>4, VoiceMovesKeep
<1>3. QED
  BY <1>1, <1>2

LEMMA ResponseEndsKeeps ==
  ASSUME AgentOK, ResponseEnds \/ VoiceLoads
  PROVE  AgentOK'
<1>1. /\ voice.response # "none" /\ UNCHANGED <<typed, mics, muted, batches, backend>>
      /\ \/ voice' = [voice EXCEPT !.response = "none"]
         \/ voice' = [voice EXCEPT !.response = "none", !.loaded = TRUE, !.track = Track(TRUE, muted)]
  BY DEF ResponseEnds, VoiceLoads, Unchanged, typedVars
<1>2. voice.verified /\ voice.peer = "open" /\ Capturing
  BY <1>1 DEF AgentOK, VoiceOK
<1>3. /\ voice' \in VoiceType /\ voice'.peer = voice.peer /\ voice'.updating = voice.updating
      /\ voice'.verified = voice.verified /\ voice'.response = "none" /\ voice'.track # "none"
      /\ voice'.track = "on" => ~muted
  BY <1>1, <1>2 DEF AgentOK, VoiceOK, VoiceType, Track, Capturing
<1>4. VoiceOK'
  BY <1>1, <1>2, <1>3 DEF AgentOK, VoiceOK, Capturing
<1>5. QED
  BY <1>1, <1>2, <1>3, <1>4, VoiceMovesKeep

\* A batch that is made while none is live, or in place of the live one.
LEMMA MadeIsSound ==
  ASSUME BatchesSound, backend' = backend, NEW rest \in SUBSET batches, NEW made,
         \A b \in rest : ~b.live,
         \A b \in made : Sound(b),
         \A b, c \in made : b = c,
         batches' = rest \cup made
  PROVE  BatchesSound'
BY DEF BatchesSound

LEMMA GoesOnKeeps ==
  ASSUME AgentOK, NEW b \in batches, b.live, NEW failed \in BOOLEAN, GoesOn(b, failed),
         UNCHANGED <<mics, muted, backend>>
  PROVE  AgentOK'
<1> DEFINE fails == b.failed \/ failed
           position == Advance(b.calls, b.at, fails)
           made == Batch(b.owner, b.calls, position)
<1>1. /\ b \in BatchType /\ b.owner \in {"text", "voice"} /\ b.calls \in Seq(Kinds)
      /\ b.at \in Nat /\ fails \in BOOLEAN
  BY DEF AgentOK, BatchesSound, Sound, BatchType
<1>2. position = Advance(b.calls, b.at, fails) /\ made = Batch(b.owner, b.calls, position)
  OBVIOUS
<1>3. batches' = (batches \ {b}) \cup made
  BY DEF GoesOn
<1>4. \A x \in batches \ {b} : ~x.live
  BY DEF AgentOK, BatchesSound
<1>5. /\ b.owner = "voice" => /\ voice' = [voice EXCEPT !.track = Delivered(position, @)]
                              /\ typed' = typed
      /\ b.owner # "voice" => /\ typed' = IF position.at = 0 THEN [typed EXCEPT !.at = "deliver"]
                                          ELSE typed
                              /\ voice' = voice
  BY DEF GoesOn
<1> HIDE DEF fails, position, made
<1>6. /\ position.at = 0 => made = {}
      /\ \A x, y \in made : x = y
      /\ \A x \in made : Sound(x) /\ x.live /\ x.owner = b.owner
                          /\ (b.owner = "voice" => x.holds)
  BY <1>1, <1>2, BatchMade DEF AgentOK, BatchesSound
<1>7. BatchesSound'
  BY <1>6, <1>3, <1>4, MadeIsSound DEF AgentOK
<1>8. CASE b.owner = "voice"
  <2>1. voice.verified /\ voice.response # "current" /\ voice.peer = "open" /\ Capturing
    BY <1>8 DEF AgentOK, BatchesOwned, Owned, VoiceOK
  <2>2. Delivered(position, voice.track) \in {voice.track, Track(TRUE, muted)}
    BY DEF Delivered
  <2>3. /\ voice' \in VoiceType /\ voice'.peer = voice.peer /\ voice'.updating = voice.updating
        /\ voice'.verified = voice.verified /\ voice'.response = voice.response
        /\ voice'.track # "none" /\ (voice'.track = "on" => ~muted)
    BY <1>5, <1>8, <2>1, <2>2 DEF AgentOK, VoiceOK, VoiceType, Track, Capturing
  <2>4. VoiceOK' /\ TypedOK'
    BY <1>5, <1>8, <2>1, <2>3 DEF AgentOK, VoiceOK, TypedOK, Capturing
  <2>5. BatchesOwned'
    BY <1>6, <1>3, <1>4, <1>8, <2>1, <2>3 DEF BatchesOwned, Owned
  <2>6. QED
    BY <1>7, <2>4, <2>5 DEF AgentOK
<1>9. CASE b.owner = "text"
  <2>1. typed.at = "tools" /\ voice.response # "current"
    BY <1>9 DEF AgentOK, BatchesOwned, Owned
  <2>2. VoiceOK'
    BY <1>5, <1>9 DEF AgentOK, VoiceOK, Capturing
  <2>3. TypedOK'
    BY <1>5, <1>9, <2>1 DEF AgentOK, TypedOK
  <2>4. made # {} => typed' = typed
    BY <1>6, <1>5, <1>9
  <2>5. BatchesOwned'
    BY <1>6, <1>3, <1>4, <1>5, <1>9, <2>1, <2>4 DEF BatchesOwned, Owned
  <2>6. QED
    BY <1>7, <2>2, <2>3, <2>5 DEF AgentOK
<1>10. QED
  BY <1>1, <1>8, <1>9

LEMMA ToolFinishesKeeps ==
  ASSUME AgentOK, ToolFinishes
  PROVE  AgentOK'
<1>1. PICK b \in batches : b.stage = "execute" /\ Finishes(b)
  BY DEF ToolFinishes
<1>2. UNCHANGED <<mics, muted, backend>>
  BY DEF ToolFinishes
<1>3. CASE b.live
  BY <1>1, <1>2, <1>3, GoesOnKeeps DEF Finishes
<1>4. CASE ~b.live
  <2>1. batches' = batches \ {b} /\ UNCHANGED <<typed, voice>>
    BY <1>1, <1>4 DEF Finishes
  <2>2. BatchesSound' /\ BatchesOwned'
    BY <1>2, <2>1 DEF AgentOK, BatchesSound, BatchesOwned, Owned
  <2>3. TypedOK' /\ VoiceOK'
    BY <1>2, <2>1 DEF AgentOK, TypedOK, VoiceOK, Capturing
  <2>4. QED
    BY <2>2, <2>3 DEF AgentOK
<1>5. QED
  BY <1>3, <1>4

LEMMA ApprovedIsSound ==
  ASSUME NEW b, Sound(b)
  PROVE  LET a == [b EXCEPT !.stage = "execute"] IN
         /\ Sound(a) /\ a.stage = "execute" /\ a.live = b.live /\ a.owner = b.owner
         /\ a.holds = b.holds /\ a.calls = b.calls /\ a.at = b.at /\ a.failed = b.failed
BY DEF Sound, BatchType

LEMMA ApprovalDecidedKeeps ==
  ASSUME AgentOK, ApprovalDecided
  PROVE  AgentOK'
<1>1. PICK b \in batches :
         /\ b.stage = "approval"
         /\ \/ /\ batches' = (batches \ {b}) \cup {[b EXCEPT !.stage = "execute"]}
               /\ UNCHANGED <<typed, voice>>
            \/ GoesOn(b, TRUE)
  BY DEF ApprovalDecided
<1>2. UNCHANGED <<mics, muted, backend>>
  BY DEF ApprovalDecided
<1>3. Sound(b) /\ b.live
  BY <1>1 DEF AgentOK, BatchesSound, Sound
<1>4. CASE GoesOn(b, TRUE)
  BY <1>2, <1>3, <1>4, GoesOnKeeps
<1>5. CASE /\ batches' = (batches \ {b}) \cup {[b EXCEPT !.stage = "execute"]}
           /\ UNCHANGED <<typed, voice>>
  <2> DEFINE a == [b EXCEPT !.stage = "execute"]
  <2>1. Sound(a) /\ a.live = b.live /\ a.owner = b.owner /\ a.holds = b.holds
    BY <1>3, ApprovedIsSound
  <2>2. batches' = (batches \ {b}) \cup {a}
    BY <1>5
  <2> HIDE DEF a
  <2>3. \A x \in batches \ {b} : ~x.live
    BY <1>3 DEF AgentOK, BatchesSound
  <2>4. BatchesSound'
    BY <1>2, <2>1, <2>2, <2>3 DEF AgentOK, BatchesSound
  <2>5. BatchesOwned'
    BY <1>3, <1>5, <2>1, <2>2, <2>3 DEF AgentOK, BatchesOwned, Owned
  <2>6. TypedOK' /\ VoiceOK'
    BY <1>2, <1>5 DEF AgentOK, TypedOK, VoiceOK, Capturing
  <2>7. QED
    BY <2>4, <2>5, <2>6 DEF AgentOK
<1>6. QED
  BY <1>1, <1>4, <1>5

LEMMA VoiceBatchKeeps ==
  ASSUME AgentOK, VoiceBatch
  PROVE  AgentOK'
<1>1. PICK calls \in Batches :
         IF ~voice.loaded \/ voice.count + Len(calls) > ToolLimit
         THEN VoiceEnds(FALSE)
         ELSE /\ batches' = batches \cup Batch("voice", calls, Advance(calls, 0, FALSE))
              /\ voice' = [voice EXCEPT !.response = "none", !.count = voice.count + Len(calls),
                                        !.track = Delivered(Advance(calls, 0, FALSE), "off")]
              /\ Unchanged
  BY DEF VoiceBatch
<1>2. CASE ~voice.loaded \/ voice.count + Len(calls) > ToolLimit
  BY <1>1, <1>2, VoiceEndsKeeps
<1>3. CASE ~(~voice.loaded \/ voice.count + Len(calls) > ToolLimit)
  <2> DEFINE failed == FALSE
             position == Advance(calls, 0, failed)
             made == Batch("voice", calls, position)
             count == voice.count + Len(calls)
             track == Delivered(position, "off")
  <2>1. /\ batches' = batches \cup made
        /\ voice' = [voice EXCEPT !.response = "none", !.count = count, !.track = track]
        /\ UNCHANGED <<typed, mics, muted, backend>> /\ voice.response = "current"
    BY <1>1, <1>3 DEF VoiceBatch, Unchanged, typedVars
  <2>2. calls \in Seq(Kinds) /\ Len(calls) \in Nat
    BY AgentAssumption, LenProperties
  <2>3. /\ failed \in BOOLEAN /\ 0 \in Nat
        /\ position = Advance(calls, 0, failed) /\ made = Batch("voice", calls, position)
    OBVIOUS
  <2>4. track \in {"on", "off"} /\ (track = "on" => ~muted)
    BY DEF Delivered, Track
  <2>5. voice \in VoiceType /\ voice.count \in Nat
    BY DEF AgentOK, VoiceOK, VoiceType
  <2>6. count \in Nat
    BY <2>2, <2>5
  <2> HIDE DEF failed, position, made, track, count
  <2>7. /\ \A x, y \in made : x = y
        /\ \A x \in made : Sound(x) /\ x.live /\ x.owner = "voice" /\ x.holds
    <3>1. backend \in Backends \cup {None} /\ "voice" \in {"text", "voice"}
      BY DEF AgentOK, BatchesSound
    <3>2. QED
      BY <2>2, <2>3, <3>1, BatchMade
  <2>8. voice.verified /\ voice.peer = "open" /\ Capturing /\ \A x \in batches : ~x.live
    BY <2>1 DEF AgentOK, VoiceOK, BatchesOwned
  <2>9. /\ voice' \in VoiceType /\ voice'.peer = voice.peer /\ voice'.updating = voice.updating
        /\ voice'.verified = voice.verified /\ voice'.response = "none" /\ voice'.track = track
    BY <2>1, <2>4, <2>5, <2>6 DEF VoiceType
  <2>10. VoiceOK' /\ TypedOK'
    BY <2>1, <2>4, <2>8, <2>9 DEF AgentOK, VoiceOK, TypedOK, Capturing
  <2>11. BatchesSound'
    BY <2>1, <2>7, <2>8, MadeIsSound DEF AgentOK
  <2>12. BatchesOwned'
    BY <2>1, <2>7, <2>8, <2>9 DEF BatchesOwned, Owned
  <2>13. QED
    BY <2>10, <2>11, <2>12 DEF AgentOK
<1>4. QED
  BY <1>2, <1>3

\* What changes the typed operation alone, outside its tools.
LEMMA TypedMovesKeep ==
  ASSUME AgentOK, typed.at # "tools", TypedOK', UNCHANGED <<voice, mics, muted, batches, backend>>
  PROVE  AgentOK'
<1>1. VoiceOK' /\ BatchesSound'
  BY DEF AgentOK, VoiceOK, Capturing, BatchesSound
<1>2. BatchesOwned'
  BY DEF AgentOK, BatchesOwned, Owned
<1>3. QED
  BY <1>1, <1>2 DEF AgentOK

LEMMA FailsIsOK ==
  ASSUME Fails
  PROVE  TypedOK'
BY DEF Fails, NoText, TypedOK

LEMMA ResumesIsOK ==
  ASSUME SessionsKept, TypedOK, NEW s, Resumes(s), voice'.peer = "none"
  PROVE  SessionsKept' /\ TypedOK'
<1>1. CASE Continues(s) /\ typed' = [typed EXCEPT !.at = "turn", !.session = s]
  <2>1. s \in Sessions
    BY <1>1, OneIsGivenUp DEF Continues, SessionsKept, TextSessionsAreOwned, GatewayTypeOK
  <2>2. TypedOK'
    BY <1>1, <2>1 DEF TypedOK
  <2>3. QED
    BY <1>1, <2>2, ContinuesKeeps
<1>2. CASE ContinuesClosed(s) /\ Fails
  BY <1>2, ContinuesClosedKeeps, FailsIsOK
<1>3. CASE UNCHANGED gatewayVars /\ Fails
  BY <1>3, SessionsStayKept, FailsIsOK
<1>4. QED
  BY <1>1, <1>2, <1>3 DEF Resumes

LEMMA SendTextKeeps ==
  ASSUME SessionsKept, AgentOK, SendText
  PROVE  SessionsKept' /\ AgentOK'
<1>1. typed.at = "none" /\ StopVoice /\ UNCHANGED <<muted, backend>>
  BY DEF SendText
<1>2. VoiceOK' /\ BatchesSound' /\ voice'.peer = "none" /\ \A b \in batches' : ~b.live
  <2>1. CASE voice.peer = "none"
    <3>1. UNCHANGED <<voice, mics, batches>>
      BY <1>1, <2>1 DEF StopVoice, voiceVars
    <3>2. \A b \in batches : ~b.live
      BY <1>1, <2>1, NothingLive DEF AgentOK, VoiceOK
    <3>3. QED
      BY <1>1, <2>1, <3>1, <3>2 DEF AgentOK, VoiceOK, BatchesSound, Capturing
  <2>2. CASE voice.peer # "none"
    <3>1. EndVoice(FALSE) /\ Supersede("voice", FALSE)
      BY <1>1, <2>2 DEF StopVoice
    <3>2. VoiceOK' /\ voice'.peer = "none"
      BY <1>1, <3>1, VoiceEnded
    <3>3. /\ BatchesSound'
          /\ \A b \in batches' : b.live => b \in batches /\ b.owner # "voice"
      BY <1>1, <3>1, SupersededOnce DEF AgentOK
    <3>4. \A b \in batches : b.live => b.owner = "voice"
      BY <1>1 DEF AgentOK, BatchesSound, BatchesOwned, Owned, Sound, BatchType
    <3>5. QED
      BY <3>2, <3>3, <3>4
  <2>3. QED
    BY <2>1, <2>2
<1>3. SessionsKept' /\ TypedOK'
  <2>1. CASE conversation # None
    BY <1>2, <2>1, ResumesIsOK DEF SendText, AgentOK
  <2>2. ASSUME NEW s \in Sessions, Begins(s), typed' = [NoText EXCEPT !.at = "turn", !.session = s]
        PROVE  SessionsKept' /\ TypedOK'
    BY <1>2, <2>2, BeginsKeeps DEF TypedOK, NoText
  <2>3. CASE UNCHANGED gatewayVars /\ Fails
    BY <2>3, SessionsStayKept, FailsIsOK
  <2>4. QED
    BY <2>1, <2>2, <2>3 DEF SendText
<1>4. BatchesOwned'
  BY <1>2 DEF BatchesOwned, Owned
<1>5. QED
  BY <1>2, <1>3, <1>4 DEF AgentOK

LEMMA TextBatchKeeps ==
  ASSUME AgentOK, typed.at = "turn", NEW calls \in Batches, TextBatch(calls),
         UNCHANGED <<voice, mics, muted, backend>>
  PROVE  AgentOK'
<1> DEFINE failed == FALSE
           position == Advance(calls, 0, failed)
           made == Batch("text", calls, position)
           count == typed.count + Len(calls)
<1>1. \/ Fails /\ UNCHANGED batches
      \/ /\ batches' = batches \cup made
         /\ typed' = [typed EXCEPT !.count = count,
                                   !.at = IF position.at = 0 THEN "deliver" ELSE "tools"]
  BY DEF TextBatch
<1>2. calls \in Seq(Kinds) /\ Len(calls) \in Nat
  BY AgentAssumption, LenProperties
<1>3. /\ failed \in BOOLEAN /\ 0 \in Nat
      /\ position = Advance(calls, 0, failed) /\ made = Batch("text", calls, position)
  OBVIOUS
<1>4. count \in Nat
  <2>1. typed.count \in Nat
    BY DEF AgentOK, TypedOK
  <2>2. QED
    BY <1>2, <2>1
<1> HIDE DEF failed, position, made, count
<1>5. CASE Fails /\ UNCHANGED batches
  BY <1>5, FailsIsOK, TypedMovesKeep
<1>6. CASE /\ batches' = batches \cup made
           /\ typed' = [typed EXCEPT !.count = count,
                                     !.at = IF position.at = 0 THEN "deliver" ELSE "tools"]
  <2>1. backend \in Backends \cup {None} /\ "text" \in {"text", "voice"}
    BY DEF AgentOK, BatchesSound
  <2>2. /\ position.at = 0 => made = {}
        /\ \A x, y \in made : x = y
        /\ \A x \in made : Sound(x) /\ x.live /\ x.owner = "text"
    BY <1>2, <1>3, <2>1, BatchMade
  <2>3. voice.peer = "none" /\ ~voice.verified /\ voice.response = "none"
    BY DEF AgentOK, TypedOK, VoiceOK
  <2>4. \A b \in batches : ~b.live
    BY <2>3, NothingLive
  <2>5. BatchesSound'
    BY <1>6, <2>2, <2>4, MadeIsSound DEF AgentOK
  <2>6. TypedOK' /\ typed'.at = (IF position.at = 0 THEN "deliver" ELSE "tools")
    BY <1>4, <1>6, <2>3 DEF AgentOK, TypedOK
  <2>7. BatchesOwned'
    BY <1>6, <2>2, <2>3, <2>4, <2>6 DEF BatchesOwned, Owned
  <2>8. VoiceOK'
    BY DEF AgentOK, VoiceOK, Capturing
  <2>9. QED
    BY <2>5, <2>6, <2>7, <2>8 DEF AgentOK
<1>7. QED
  BY <1>1, <1>5, <1>6

LEMMA TurnAnswersKeeps ==
  ASSUME SessionsKept, AgentOK, TurnAnswers
  PROVE  SessionsKept' /\ AgentOK'
<1>1. /\ typed.at = "turn" /\ TurnSucceeds(typed.session)
      /\ UNCHANGED <<voice, mics, muted, backend>>
  BY DEF TurnAnswers, voiceVars
<1>2. SessionsKept'
  BY <1>1, TurnSucceedsKeeps DEF AgentOK, TypedOK
<1>3. CASE typed' = NoText /\ UNCHANGED batches
  <2>1. TypedOK'
    BY <1>3 DEF TypedOK, NoText
  <2>2. QED
    BY <1>1, <1>2, <1>3, <2>1, TypedMovesKeep
<1>4. CASE TextLoads /\ UNCHANGED batches
  <2>1. Fails \/ typed' = [typed EXCEPT !.at = "deliver", !.loaded = TRUE]
    BY <1>4 DEF TextLoads
  <2>2. TypedOK'
    <3>1. CASE Fails
      BY <3>1, FailsIsOK
    <3>2. CASE typed' = [typed EXCEPT !.at = "deliver", !.loaded = TRUE]
      BY <1>1, <3>2 DEF AgentOK, TypedOK
    <3>3. QED
      BY <2>1, <3>1, <3>2
  <2>3. QED
    BY <1>1, <1>2, <1>4, <2>2, TypedMovesKeep
<1>5. CASE \E calls \in Batches : TextBatch(calls)
  BY <1>1, <1>2, <1>5, TextBatchKeeps
<1>6. QED
  BY <1>3, <1>4, <1>5 DEF TurnAnswers

LEMMA OtherTextKeeps ==
  ASSUME SessionsKept, AgentOK, TurnRefused \/ DeliverText \/ GatewayMoves
  PROVE  SessionsKept' /\ AgentOK'
<1>1. CASE TurnRefused
  <2>1. /\ typed.at = "turn" /\ TurnFails(typed.session) /\ Fails
        /\ UNCHANGED <<voice, mics, muted, batches, backend>>
    BY <1>1 DEF TurnRefused, voiceVars
  <2>2. SessionsKept'
    BY <2>1, TurnFailsKeeps DEF AgentOK, TypedOK
  <2>3. QED
    BY <2>1, <2>2, FailsIsOK, TypedMovesKeep
<1>2. CASE DeliverText
  <2>1. /\ typed.at = "deliver" /\ Resumes(typed.session)
        /\ UNCHANGED <<voice, mics, muted, batches, backend>>
    BY <1>2 DEF DeliverText, voiceVars
  <2>2. voice'.peer = "none"
    BY <2>1 DEF AgentOK, TypedOK
  <2>3. QED
    BY <2>1, <2>2, ResumesIsOK, TypedMovesKeep DEF AgentOK
<1>3. CASE GatewayMoves
  <2>1. UNCHANGED <<typed, voice, mics, muted, batches, backend>>
    BY <1>3 DEF GatewayMoves, typedVars, voiceVars
  <2>2. SessionsKept'
    BY <1>3, SocketMovesKeep, ContinuesClosedKeeps, TurnSucceedsKeeps, TurnFailsKeeps
       DEF GatewayMoves
  <2>3. AgentOK'
    BY <2>1 DEF AgentOK, TypedOK, VoiceOK, Capturing, BatchesSound, BatchesOwned, Owned
  <2>4. QED
    BY <2>2, <2>3
<1>4. QED
  BY <1>1, <1>2, <1>3

LEMMA OthersKeep ==
  ASSUME AgentOK, LateCapture \/ BackendChanges \/ Remounts
  PROVE  AgentOK'
<1>1. CASE LateCapture
  <2>1. UNCHANGED <<typed, voice, muted, batches, backend>>
    BY <1>1 DEF LateCapture, typedVars
  <2>2. mics' = mics
    <3>1. mics \in Nat /\ StopTracks(mics + 1) = mics
      BY DEF AgentOK, VoiceOK, StopTracks
    <3>2. QED
      BY <1>1, <3>1 DEF LateCapture
  <2>3. QED
    BY <2>1, <2>2 DEF AgentOK, TypedOK, VoiceOK, Capturing, BatchesSound, BatchesOwned, Owned
<1>2. CASE BackendChanges
  <2>1. UNCHANGED <<typed, voice, mics, muted, batches>> /\ backend' \in Backends \cup {None}
    BY <1>2 DEF BackendChanges, typedVars, voiceVars
  <2>2. QED
    BY <2>1 DEF AgentOK, TypedOK, VoiceOK, Capturing, BatchesSound, BatchesOwned, Owned
<1>3. CASE Remounts
  <2>1. typed' = NoText /\ muted' = TRUE /\ backend' = backend
    BY <1>3 DEF Remounts
  <2>2. TypedOK'
    BY <2>1 DEF TypedOK, NoText
  <2>3. CASE voice.peer = "none"
    <3>1. Supersede("text", FALSE) /\ UNCHANGED <<voice, mics>>
      BY <1>3, <2>3 DEF Remounts, voiceVars
    <3>2. VoiceOK' /\ voice'.response = "none" /\ ~voice.verified
      BY <2>1, <2>3, <3>1 DEF AgentOK, VoiceOK, Capturing
    <3>3. /\ BatchesSound'
          /\ \A b \in batches' : b.live => b \in batches /\ b.owner # "text"
      BY <2>1, <3>1, SupersededOnce DEF AgentOK
    <3>4. BatchesOwned'
      BY <3>1, <3>2, <3>3 DEF AgentOK, BatchesOwned, Owned
    <3>5. QED
      BY <2>2, <3>2, <3>3, <3>4 DEF AgentOK
  <2>4. CASE voice.peer # "none"
    <3>1. Supersede("voice", FALSE) /\ EndVoice(FALSE)
      BY <1>3, <2>4 DEF Remounts
    <3>2. VoiceOK' /\ voice'.response = "none"
      BY <2>1, <3>1 DEF AgentOK, VoiceOK, EndVoice, VoiceType, NoVoice, Capturing
    <3>3. /\ BatchesSound'
          /\ \A b \in batches' : b.live => b \in batches /\ b.owner # "voice"
      BY <2>1, <3>1, SupersededOnce DEF AgentOK
    <3>4. \A b \in batches : b.live => b.owner # "text"
      BY <2>4 DEF AgentOK, TypedOK, BatchesOwned, Owned
    <3>5. BatchesOwned'
      BY <3>2, <3>3, <3>4 DEF BatchesOwned, Owned
    <3>6. QED
      BY <2>2, <3>2, <3>3, <3>5 DEF AgentOK
  <2>5. QED
    BY <2>3, <2>4
<1>4. QED
  BY <1>1, <1>2, <1>3

-----------------------------------------------------------------------------
(* The invariant *)

AgentInvariant == SessionsKept /\ AgentOK

LEMMA AgentStarts == Init => AgentInvariant
<1> SUFFICES ASSUME Init PROVE AgentInvariant
  OBVIOUS
<1>1. /\ text = [s \in Sessions |-> Gone] /\ sessions = {} /\ reserved = 0 /\ kept = <<>>
      /\ typed = NoText /\ voice = NoVoice /\ muted = TRUE /\ mics = 0 /\ batches = {}
      /\ backend \in Backends \cup {None}
  BY DEF Init, GatewayInit
<1>2. AgentOK
  BY <1>1 DEF AgentOK, TypedOK, NoText, VoiceOK, VoiceType, NoVoice, Capturing, BatchesSound,
              BatchesOwned
<1>3. IsFiniteSet(sessions) /\ Cardinality(sessions) = 0
  BY <1>1, FS_EmptySet
<1>4. GatewayTypeOK
  BY <1>1 DEF GatewayTypeOK, Gone
<1>5. ToSet(kept) = {} /\ IsInjective(kept)
  BY <1>1 DEF ToSet, IsInjective
<1>6. sessions = Sessions \ Free
  BY <1>1 DEF Free
<1>7. TextSessionsAreOwned
  BY <1>1, <1>3, <1>4, <1>5, <1>6, GatewayAssumption DEF TextSessionsAreOwned
<1>8. QED
  BY <1>1, <1>2, <1>3, <1>7 DEF AgentInvariant, SessionsKept, Gone

LEMMA AgentSteps == AgentInvariant /\ [Next]_vars => AgentInvariant'
<1> SUFFICES ASSUME SessionsKept, AgentOK, [Next]_vars
             PROVE  SessionsKept' /\ AgentOK'
  BY DEF AgentInvariant
<1>1. CASE SendText
  BY <1>1, SendTextKeeps
<1>2. CASE TurnAnswers
  BY <1>2, TurnAnswersKeeps
<1>3. CASE TurnRefused \/ DeliverText \/ GatewayMoves
  BY <1>3, OtherTextKeeps
<1>4. CASE \/ StartVoice \/ MicrophoneGranted \/ CallAnswers \/ ChannelOpens \/ SessionCreated
  <2>1. UNCHANGED gatewayVars
    BY <1>4 DEF StartVoice, MicrophoneGranted, CallAnswers, ChannelOpens, SessionCreated, Unchanged
  <2>2. QED
    BY <1>4, <2>1, SessionsStayKept, StartupKeeps
<1>5. CASE VoiceBreaks \/ MicrophoneDenied \/ StartupTimesOut \/ VerificationTimesOut
  <2>1. PICK answered \in BOOLEAN : VoiceEnds(answered)
    BY <1>5 DEF VoiceBreaks, MicrophoneDenied, StartupTimesOut, VerificationTimesOut
  <2>2. UNCHANGED gatewayVars
    BY <2>1 DEF VoiceEnds
  <2>3. QED
    BY <2>1, <2>2, SessionsStayKept, VoiceEndsKeeps
<1>6. CASE SessionUpdated \/ SetMicrophoneMute \/ SpeechStarts \/ ResponseEnds \/ VoiceLoads
  <2>1. UNCHANGED gatewayVars
    BY <1>6 DEF SessionUpdated, SetMicrophoneMute, SpeechStarts, ResponseEnds, VoiceLoads, Unchanged
  <2>2. QED
    BY <1>6, <2>1, SessionsStayKept, SessionUpdatedKeeps, SetMicrophoneMuteKeeps,
       SpeechStartsKeeps, ResponseEndsKeeps
<1>7. CASE ResponseCreated \/ VoiceBatch
  <2>1. UNCHANGED gatewayVars
    BY <1>7 DEF ResponseCreated, VoiceBatch, VoiceEnds, Unchanged
  <2>2. QED
    BY <1>7, <2>1, SessionsStayKept, ResponseCreatedKeeps, VoiceBatchKeeps
<1>8. CASE ToolFinishes \/ ApprovalDecided
  <2>1. UNCHANGED gatewayVars
    BY <1>8 DEF ToolFinishes, ApprovalDecided
  <2>2. QED
    BY <1>8, <2>1, SessionsStayKept, ToolFinishesKeeps, ApprovalDecidedKeeps
<1>9. CASE LateCapture \/ BackendChanges \/ Remounts
  <2>1. UNCHANGED gatewayVars
    BY <1>9 DEF LateCapture, BackendChanges, Remounts
  <2>2. QED
    BY <1>9, <2>1, SessionsStayKept, OthersKeep
<1>10. CASE UNCHANGED vars
  <2>1. UNCHANGED gatewayVars /\ UNCHANGED <<typed, voice, mics, muted, batches, backend>>
    BY <1>10 DEF vars, typedVars, voiceVars
  <2>2. AgentOK'
    BY <2>1 DEF AgentOK, TypedOK, VoiceOK, Capturing, BatchesSound, BatchesOwned, Owned
  <2>3. QED
    BY <2>1, <2>2, SessionsStayKept
<1>11. QED
  BY <1>1, <1>2, <1>3, <1>4, <1>5, <1>6, <1>7, <1>8, <1>9, <1>10 DEF Next

\* The inductive invariant of the gateway and of the window.
THEOREM AgentInvariance == Spec => []AgentInvariant
<1>1. QED
  BY AgentStarts, AgentSteps, PTL DEF Spec

LEMMA OneIsLive ==
  ASSUME BatchesSound
  PROVE  Cardinality(Live) <= 1
<1>1. CASE Live = {}
  BY <1>1, FS_EmptySet
<1>2. CASE Live # {}
  <2>1. PICK b \in batches : Live = {b}
    BY <1>2 DEF Live, BatchesSound
  <2>2. QED
    BY <2>1, FS_Singleton
<1>3. QED
  BY <1>1, <1>2

\* Whatever the API, the browser and the human do, no slot of the gateway leaks, the
\* capacity holds, every session has one owner, and the microphone is captured by
\* the voice session alone (ai-gateway.ts, useAtomAgent.ts).
THEOREM EverySessionIsOwned == Spec => []SessionsAreOwned
<1>1. AgentInvariant => SessionsAreOwned
  <2> SUFFICES ASSUME AgentInvariant PROVE SessionsAreOwned
    OBVIOUS
  <2>1. TextSessionsAreOwned
    BY DEF AgentInvariant, SessionsKept
  <2>2. mics = IF Capturing THEN 1 ELSE 0
    BY DEF AgentInvariant, AgentOK, VoiceOK
  <2>3. /\ voice.track = "on" => voice.verified /\ ~muted
        /\ typed.at # "none" => voice.peer = "none"
    BY DEF AgentInvariant, AgentOK, VoiceOK, TypedOK
  <2>4. Cardinality(Live) <= 1
    BY OneIsLive DEF AgentInvariant, AgentOK
  <2>5. ASSUME NEW b \in batches
        PROVE  /\ b.stage = "approval" => b.live
               /\ b.live => IF b.owner = "text" THEN typed.at = "tools" ELSE voice.verified
    BY DEF AgentInvariant, AgentOK, BatchesSound, BatchesOwned, Sound, BatchType, Owned
  <2>6. QED
    BY <2>1, <2>2, <2>3, <2>4, <2>5 DEF SessionsAreOwned, VoiceIsOwned
<1>2. QED
  BY <1>1, AgentInvariance, PTL

-----------------------------------------------------------------------------
(* What is executed, and under whose authority *)

\* What ToolsRunUnderAuthority asks of a call whose execution starts.
Authorised(b) ==
    /\ b.live
    /\ NeedsApproval(b.calls[b.at]) => Approved(b)
    /\ Stopped(b.calls, b.failed) => b.calls[b.at] = "cleanup"

LEMMA NoneStarts ==
  ASSUME \/ batches' \subseteq batches
         \/ BatchesSound /\ batches' \in {Superseded("text", FALSE), Superseded("voice", FALSE),
                                          Superseded("voice", TRUE)}
  PROVE  Dispatched = {}
<1>1. CASE batches' \subseteq batches
  BY <1>1 DEF Dispatched
<1>2. CASE /\ BatchesSound
           /\ batches' \in {Superseded("text", FALSE), Superseded("voice", FALSE),
                            Superseded("voice", TRUE)}
  <2>1. ASSUME NEW b \in batches'
        PROVE  \E a \in batches : /\ a.owner = b.owner /\ a.calls = b.calls /\ a.at = b.at
                                  /\ a.stage = b.stage
    <3>1. PICK owner \in {"text", "voice"}, holds \in BOOLEAN : b \in Superseded(owner, holds)
      BY <1>2, <2>1
    <3>2. QED
      BY <1>2, <3>1, SupersededKeeps
  <2>2. QED
    BY <2>1 DEF Dispatched
<1>3. QED
  BY <1>1, <1>2

LEMMA MadeIsAuthorised ==
  ASSUME NEW made, NEW rest \in SUBSET batches, batches' = rest \cup made,
         \A b \in made : Sound(b) /\ b.live /\ (b.stage = "execute" => ~NeedsApproval(b.calls[b.at])),
         NEW b \in Dispatched
  PROVE  Authorised(b)
BY DEF Dispatched, Authorised, Sound, CallOK

LEMMA FirstCallIsAuthorised ==
  ASSUME AgentOK, NEW owner \in {"text", "voice"}, NEW calls \in Batches,
         batches' = batches \cup Batch(owner, calls, Advance(calls, 0, FALSE)),
         NEW d \in Dispatched
  PROVE  Authorised(d)
<1> DEFINE failed == FALSE
           position == Advance(calls, 0, failed)
           made == Batch(owner, calls, position)
<1>1. batches' = batches \cup made
  OBVIOUS
<1>2. /\ calls \in Seq(Kinds) /\ failed \in BOOLEAN /\ 0 \in Nat
      /\ backend \in Backends \cup {None}
      /\ position = Advance(calls, 0, failed) /\ made = Batch(owner, calls, position)
  BY AgentAssumption DEF AgentOK, BatchesSound
<1> HIDE DEF failed, position, made
<1>3. \A b \in made : Sound(b) /\ b.live /\ (b.stage = "execute" => ~NeedsApproval(b.calls[b.at]))
  BY <1>2, BatchMade
<1>4. QED
  BY <1>1, <1>3, MadeIsAuthorised

LEMMA NextCallIsAuthorised ==
  ASSUME AgentOK, NEW b \in batches, NEW failed \in BOOLEAN, GoesOn(b, failed),
         NEW d \in Dispatched
  PROVE  Authorised(d)
<1> DEFINE fails == b.failed \/ failed
           position == Advance(b.calls, b.at, fails)
           made == Batch(b.owner, b.calls, position)
<1>1. /\ b \in BatchType /\ b.owner \in {"text", "voice"} /\ b.calls \in Seq(Kinds)
      /\ b.at \in Nat /\ fails \in BOOLEAN
  BY DEF AgentOK, BatchesSound, Sound, BatchType
<1>2. position = Advance(b.calls, b.at, fails) /\ made = Batch(b.owner, b.calls, position)
  OBVIOUS
<1>3. batches' = (batches \ {b}) \cup made
  BY DEF GoesOn
<1> HIDE DEF fails, position, made
<1>4. \A x \in made : Sound(x) /\ x.live /\ (x.stage = "execute" => ~NeedsApproval(x.calls[x.at]))
  BY <1>1, <1>2, BatchMade DEF AgentOK, BatchesSound
<1>5. QED
  BY <1>3, <1>4, MadeIsAuthorised

LEMMA ApprovedCallIsAuthorised ==
  ASSUME AgentOK, NEW b \in batches, b.stage = "approval", SameBackend(b.asked),
         batches' = (batches \ {b}) \cup {[b EXCEPT !.stage = "execute"]},
         NEW d \in Dispatched
  PROVE  Authorised(d)
<1> DEFINE a == [b EXCEPT !.stage = "execute"]
<1>1. Sound(b) /\ b.live
  BY DEF AgentOK, BatchesSound, Sound
<1>2. Sound(a) /\ a.live = b.live /\ a.calls = b.calls /\ a.at = b.at /\ a.failed = b.failed
  BY <1>1, ApprovedIsSound
<1>3. d = a
  BY DEF Dispatched
<1> HIDE DEF a
<1>4. Approved(d)
  BY <1>2, <1>3 DEF Approved, SameBackend
<1>5. QED
  BY <1>1, <1>2, <1>3, <1>4 DEF Authorised, Sound, CallOK

LEMMA StepsAreAuthorised ==
  ASSUME AgentOK, [Next]_vars, NEW d \in Dispatched
  PROVE  Authorised(d)
<1>1. CASE SendText
  <2>1. \/ batches' = batches
        \/ batches' = Superseded("voice", FALSE)
    BY <1>1 DEF SendText, StopVoice, Supersede
  <2>2. QED
    BY <2>1, NoneStarts DEF AgentOK
<1>2. CASE TurnAnswers
  <2>1. \/ UNCHANGED batches
        \/ \E calls \in Batches : batches' = batches \cup Batch("text", calls, Advance(calls, 0, FALSE))
    BY <1>2 DEF TurnAnswers, TextBatch
  <2>2. CASE UNCHANGED batches
    BY <2>2, NoneStarts
  <2>3. QED
    BY <2>1, <2>2, FirstCallIsAuthorised
<1>3. CASE VoiceBreaks \/ MicrophoneDenied \/ StartupTimesOut \/ VerificationTimesOut
           \/ SpeechStarts \/ Remounts
  <2>1. batches' \in {Superseded("text", FALSE), Superseded("voice", FALSE), Superseded("voice", TRUE)}
    BY <1>3 DEF VoiceBreaks, MicrophoneDenied, StartupTimesOut, VerificationTimesOut, SpeechStarts,
                Remounts, VoiceEnds, Supersede
  <2>2. QED
    BY <2>1, NoneStarts DEF AgentOK
<1>4. CASE ResponseCreated
  <2>1. batches' = batches \/ batches' = Superseded("voice", FALSE)
    BY <1>4 DEF ResponseCreated, VoiceEnds, Supersede
  <2>2. QED
    BY <2>1, NoneStarts DEF AgentOK
<1>5. CASE VoiceBatch
  <2>1. \/ batches' = Superseded("voice", FALSE)
        \/ \E calls \in Batches : batches' = batches \cup Batch("voice", calls, Advance(calls, 0, FALSE))
    BY <1>5 DEF VoiceBatch, VoiceEnds, Supersede
  <2>2. CASE batches' = Superseded("voice", FALSE)
    BY <2>2, NoneStarts DEF AgentOK
  <2>3. QED
    BY <2>1, <2>2, FirstCallIsAuthorised
<1>6. CASE ToolFinishes
  <2>1. PICK b \in batches : Finishes(b)
    BY <1>6 DEF ToolFinishes
  <2>2. CASE b.live
    BY <2>1, <2>2, NextCallIsAuthorised DEF Finishes
  <2>3. CASE ~b.live
    BY <2>1, <2>3, NoneStarts DEF Finishes
  <2>4. QED
    BY <2>2, <2>3
<1>7. CASE ApprovalDecided
  <2>1. PICK b \in batches :
           /\ b.stage = "approval"
           /\ \/ /\ SameBackend(b.asked)
                 /\ batches' = (batches \ {b}) \cup {[b EXCEPT !.stage = "execute"]}
              \/ GoesOn(b, TRUE)
    BY <1>7 DEF ApprovalDecided
  <2>2. CASE GoesOn(b, TRUE)
    BY <2>2, NextCallIsAuthorised
  <2>3. CASE /\ SameBackend(b.asked)
             /\ batches' = (batches \ {b}) \cup {[b EXCEPT !.stage = "execute"]}
    BY <2>1, <2>3, ApprovedCallIsAuthorised
  <2>4. QED
    BY <2>1, <2>2, <2>3
<1>8. CASE \/ TurnRefused \/ DeliverText \/ GatewayMoves \/ StartVoice \/ MicrophoneGranted
           \/ LateCapture \/ CallAnswers \/ ChannelOpens \/ SessionCreated \/ SessionUpdated
           \/ SetMicrophoneMute \/ ResponseEnds \/ VoiceLoads \/ BackendChanges
           \/ UNCHANGED vars
  <2>1. batches' = batches
    BY <1>8 DEF TurnRefused, DeliverText, GatewayMoves, StartVoice, MicrophoneGranted,
                LateCapture, CallAnswers, ChannelOpens, SessionCreated, SessionUpdated,
                SetMicrophoneMute, ResponseEnds, VoiceLoads, BackendChanges, vars
  <2>2. QED
    BY <2>1, NoneStarts
<1>9. QED
  BY <1>1, <1>2, <1>3, <1>4, <1>5, <1>6, <1>7, <1>8 DEF Next

\* A call is executed for the operation that made it, with the human's consent for
\* the backend it reaches where that is needed, and behind a failure only to clean
\* up (useAtomAgent.ts executeCallBatch, executePreflightedCall).
THEOREM NothingRunsUnauthorised == Spec => ToolsRunUnderAuthority
<1>1. AgentInvariant /\ [Next]_vars =>
        [\A b \in Dispatched :
            /\ b.live
            /\ NeedsApproval(b.calls[b.at]) => Approved(b)
            /\ Stopped(b.calls, b.failed) => b.calls[b.at] = "cleanup"]_vars
  BY StepsAreAuthorised DEF AgentInvariant, Authorised
<1>2. QED
  BY <1>1, AgentInvariance, PTL DEF Spec, ToolsRunUnderAuthority
=============================================================================
