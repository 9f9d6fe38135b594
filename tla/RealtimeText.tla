---------------------------- MODULE RealtimeText ----------------------------
(***************************************************************************)
(* The text conversations of the trusted process: OpenAiGateway            *)
(* (apps/desktop/src/main/ai-gateway.ts), which bounds and owns them, and  *)
(* one RealtimeTextSession with its WebSocket each (realtime-text.ts).     *)
(*                                                                         *)
(* A promise that settles continues before the next event, so a turn and   *)
(* what the gateway does with its result are one step; a frame that        *)
(* follows in the same chunk is handled in between (`open' = FALSE` where  *)
(* a turn succeeds).  A turn's three deadlines are TurnFails, which is     *)
(* enabled while the turn waits.  A conversation ID is that of the latest  *)
(* response, which only the session's own caller can know: it is valid     *)
(* exactly while the gateway keeps the session.  close(), which ends the   *)
(* gateway with the application, is left out.                              *)
(***************************************************************************)
EXTENDS Integers, FiniteSets, SequencesExt

CONSTANTS
    Sessions, \* identities of text sessions; one is free again when let go
    Capacity, \* MAX_TEXT_CONVERSATIONS
    None

ASSUME GatewayAssumption == Capacity \in Nat \ {0} /\ None \notin Sessions

VARIABLES
    text,     \* each session: its socket and the await its turn is in
    sessions, \* #realtimeTextSessions
    reserved, \* #reservedTextSessionSlots
    kept      \* #realtimeConversations, oldest first

gatewayVars == <<text, sessions, reserved, kept>>

\* A session that was let go has closed its socket.
Gone == [socket |-> "closed", turn |-> "none", configured |-> FALSE]
Free == {s \in Sessions : text[s] = Gone}
InFlight(s) == text[s].turn # "none"

GatewayTypeOK ==
    /\ text \in [Sessions -> [socket : {"connecting", "open", "closed"},
                              turn : {"none", "ready", "configuration", "response"},
                              configured : BOOLEAN]]
    /\ sessions \subseteq Sessions /\ reserved \in Nat
    /\ kept \in Seq(Sessions)

GatewayInit ==
    /\ text = [s \in Sessions |-> Gone]
    /\ sessions = {} /\ reserved = 0 /\ kept = <<>>

\* Letting `ends` go, each with its slot, while `begun` is constructed.
Exchange(ends, begun) ==
    /\ sessions' = (sessions \ ends) \cup begun
    /\ reserved' = reserved + Cardinality(begun) - Cardinality(ends \cap sessions)
    /\ text' = [s \in Sessions |->
                  IF s \in begun THEN [Gone EXCEPT !.socket = "connecting", !.turn = "ready"]
                  ELSE IF s \in ends THEN Gone ELSE text[s]]

\* #reserveTextSessionSlot: as many of the oldest conversations as it takes.
Evicted == LET n == IF reserved < Capacity THEN 0 ELSE reserved + 1 - Capacity
           IN IF n <= Len(kept) THEN {n} ELSE {}

\* agentTurn of a prompt without a conversation
Begins(s) ==
    /\ \E n \in Evicted :
          /\ s \in Free \cup {kept[i] : i \in 1..n}
          /\ Exchange({kept[i] : i \in 1..n}, {s})
          /\ kept' = SubSeq(kept, n + 1, Len(kept))

\* Its ID and idle timer are given up.
Unkept(s) == \E i \in DOMAIN kept : kept[i] = s /\ kept' = RemoveAt(kept, i)

\* Faulty variant: the conversation stays in the map, with its idle timer.
ContinuesKept(s) ==
    /\ s \in ToSet(kept) /\ text[s].socket = "open"
    /\ text' = [text EXCEPT ![s].turn = "response"]
    /\ UNCHANGED <<sessions, reserved, kept>>

\* agentTurn of a kept conversation, which is not kept meanwhile
Continues(s) ==
    /\ Unkept(s) /\ text[s].socket = "open"
    /\ text' = [text EXCEPT ![s].turn = "response"]
    /\ UNCHANGED <<sessions, reserved>>

\* The same when the socket has closed meanwhile: the turn is refused.
ContinuesClosed(s) ==
    /\ Unkept(s) /\ text[s].socket = "closed"
    /\ Exchange({s}, {})

SocketOpens(s) ==
    /\ text[s].socket = "connecting"
    /\ text' = [text EXCEPT ![s].socket = "open", ![s].turn = "configuration"]
    /\ UNCHANGED <<sessions, reserved, kept>>

\* The echo of session.update is exact.
Configured(s) ==
    /\ text[s].turn = "configuration"
    /\ \E socket \in {"open", "closed"} :
          text' = [text EXCEPT ![s].socket = socket, ![s].turn = "response",
                               ![s].configured = TRUE]
    /\ UNCHANGED <<sessions, reserved, kept>>

\* response.done: the conversation is kept under the ID of its last response.
TurnSucceeds(s) ==
    /\ text[s].turn = "response" /\ text[s].socket = "open"
    /\ \E socket \in {"open", "closed"} :
          text' = [text EXCEPT ![s].socket = socket, ![s].turn = "none"]
    /\ kept' = Append(kept, s)
    /\ UNCHANGED <<sessions, reserved>>

\* A deadline, an error of the API or of the socket, a configuration that does
\* not match, a response that did not complete.
TurnFails(s) == InFlight(s) /\ Exchange({s}, {}) /\ UNCHANGED kept

\* The API closes an idle socket; nobody looks before the next turn.
SocketCloses(s) ==
    /\ text[s].socket = "open" /\ ~InFlight(s)
    /\ text' = [text EXCEPT ![s].socket = "closed"]
    /\ UNCHANGED <<sessions, reserved, kept>>

\* The idle timer of a kept conversation
Expires(s) == Unkept(s) /\ Exchange({s}, {})

-----------------------------------------------------------------------------
(* Properties *)

\* No slot is leaked or given back twice, the capacity is never exceeded, and
\* every session is owned once: by the turn it is in, or by the conversation
\* that the idle timer or the next prompt will end. A turn is never ended by the
\* idle timer, and a session that nobody owns has let go of its socket
\* (OpenAiGateway; docs/AI_NATIVE_CONTRACTS.md:450, AI-22).
TextSessionsAreOwned ==
    /\ GatewayTypeOK
    /\ reserved = Cardinality(sessions) /\ reserved <= Capacity
    /\ sessions = Sessions \ Free
    /\ IsInjective(kept)
    /\ \A s \in Sessions : s \in ToSet(kept) <=> s \in sessions /\ ~InFlight(s)

=============================================================================
