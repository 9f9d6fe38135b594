--------------------------- MODULE ManagerContract ---------------------------
(***************************************************************************)
(* What a caller of InstrumentManager can observe and rely on: the session *)
(* snapshot, the cleanup requirement and how the last disconnect() ended.  *)
(* InstrumentManager implements it; AtomizerInstrumentHost is written      *)
(* against it.                                                             *)
(***************************************************************************)

VARIABLES
    sess,     \* snapshot(): none, idle, configured or faulted
    cleanup,  \* pendingConnectionCleanup(): none, driver or rejected
    settled   \* how the last disconnect() settled: none (yet), ok or failed

contractVars == <<sess, cleanup, settled>>

ContractTypeOK ==
    /\ sess \in {"none", "idle", "configured", "faulted"}
    /\ cleanup \in {"none", "driver", "rejected"}
    /\ settled \in {"none", "ok", "failed"}

ContractInit == sess = "none" /\ cleanup = "none" /\ settled = "none"

Connectable == sess = "none" /\ cleanup = "none"

-----------------------------------------------------------------------------
(* connect() *)

\* A session opens; an unannounced one is there only to be closed again.
Opens ==
    /\ Connectable
    /\ sess' \in {"idle", "faulted"} /\ cleanup' \in {"none", "rejected"}
    /\ UNCHANGED settled

Retains ==
    /\ Connectable
    /\ cleanup' \in {"driver", "rejected"}
    /\ UNCHANGED <<sess, settled>>

ClosesRejected ==
    /\ cleanup = "rejected"
    /\ sess' = "none" /\ cleanup' = "none"
    /\ UNCHANGED settled

ConnectMoves == Opens \/ Retains \/ ClosesRejected

-----------------------------------------------------------------------------
(* configure() and the features; faults come at any time *)

Configures ==
    /\ sess = "idle" /\ sess' = "configured"
    /\ UNCHANGED <<cleanup, settled>>

Invalidates ==
    /\ sess = "configured" /\ sess' = "idle"
    /\ UNCHANGED <<cleanup, settled>>

Faults ==
    /\ sess # "none" /\ sess' = "faulted"
    /\ UNCHANGED <<cleanup, settled>>

-----------------------------------------------------------------------------
(* disconnect() *)

DisconnectCalled == settled' = "none" /\ UNCHANGED <<sess, cleanup>>

\* The session is closed, but its event listener may still be attached.
SessionCloses ==
    /\ sess # "none" /\ sess' = "none"
    /\ \/ cleanup' = "none" /\ UNCHANGED settled
       \/ cleanup' = "rejected" /\ settled' = "failed"

SessionStays ==
    /\ sess # "none" /\ sess' = "faulted" /\ settled' = "failed"
    /\ UNCHANGED cleanup

RejectedReleased ==
    /\ sess = "none" /\ cleanup = "rejected" /\ cleanup' = "none"
    /\ UNCHANGED <<sess, settled>>

RejectedRetained ==
    /\ sess = "none" /\ cleanup = "rejected" /\ settled' = "failed"
    /\ UNCHANGED <<sess, cleanup>>

DriversAnswer ==
    /\ sess = "none" /\ cleanup # "rejected"
    /\ \/ cleanup' = "none" /\ settled' = "ok"
       \/ cleanup' = "driver" /\ settled' = "failed"
    /\ UNCHANGED sess

DisconnectMoves ==
    \/ SessionCloses \/ SessionStays
    \/ RejectedReleased \/ RejectedRetained
    \/ DriversAnswer

ContractNext ==
    \/ ConnectMoves
    \/ DisconnectCalled
    \/ Configures \/ Invalidates \/ Faults
    \/ settled = "none" /\ DisconnectMoves

ContractSpec == ContractInit /\ [][ContractNext]_contractVars

=============================================================================
