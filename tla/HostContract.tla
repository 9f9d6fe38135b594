---------------------------- MODULE HostContract ----------------------------
(***************************************************************************)
(* What AtomizerInstrumentHost promises to the process around it: who may  *)
(* hold an instrument when, and what a settled disconnect() or shutdown()  *)
(* says.  AtomizerInstrumentHost is checked to implement it, and           *)
(* MainProcess is built on it.                                             *)
(***************************************************************************)
VARIABLES
    lifecycle,      \* #lifecycle
    held,           \* a session, a cleanup requirement or a stream exists
    saving,         \* the host waits for preferences.save()
    disconnecting,  \* #disconnectPromise: none, pending, ok, failed
    shutdown        \* #shutdownPromise: none, pending, ok, failed

hostVars == <<lifecycle, held, saving, disconnecting, shutdown>>

Promise == {"none", "pending", "ok", "failed"}

HostTypeOK ==
    /\ lifecycle \in {"open", "closing", "closed"}
    /\ held \in BOOLEAN /\ saving \in BOOLEAN
    /\ disconnecting \in Promise /\ shutdown \in Promise

HostInit ==
    /\ lifecycle = "open" /\ held = FALSE /\ saving = FALSE
    /\ disconnecting = "none" /\ shutdown = "none"

\* An operation acquires the instrument, but never behind a finished teardown
\* whose caller has not heard of it yet, and never while a preference is saved.
Acquires ==
    /\ lifecycle # "closed" /\ ~saving
    /\ disconnecting # "ok" /\ shutdown # "ok"
    /\ held' = TRUE
    /\ UNCHANGED <<lifecycle, saving, disconnecting, shutdown>>

Releases ==
    held' = FALSE /\ UNCHANGED <<lifecycle, saving, disconnecting, shutdown>>

StartsSaving ==
    /\ lifecycle = "open" /\ disconnecting = "none" /\ ~held
    /\ ~saving /\ saving' = TRUE
    /\ UNCHANGED <<lifecycle, held, disconnecting, shutdown>>

StopsSaving ==
    /\ saving /\ saving' = FALSE
    /\ UNCHANGED <<lifecycle, held, disconnecting, shutdown>>

DisconnectCalled ==
    /\ lifecycle = "open" /\ disconnecting = "none"
    /\ disconnecting' = "pending"
    /\ UNCHANGED <<lifecycle, held, saving, shutdown>>

ShutdownCalled ==
    /\ lifecycle = "open" /\ shutdown = "none"
    /\ lifecycle' = "closing" /\ shutdown' = "pending"
    /\ UNCHANGED <<held, saving, disconnecting>>

\* The teardown runs behind the active operation, so never during a save, and
\* succeeds only if nothing is left.
TornDown(result) == ~saving /\ (result = "ok" => ~held) /\ result \in {"ok", "failed"}

DisconnectTornDown ==
    /\ disconnecting = "pending"
    /\ \E result \in {"ok", "failed"} : TornDown(result) /\ disconnecting' = result
    /\ UNCHANGED <<lifecycle, held, saving, shutdown>>

ShutdownTornDown ==
    /\ shutdown = "pending" /\ disconnecting = "none"
    /\ \E result \in {"ok", "failed"} : TornDown(result) /\ shutdown' = result
    /\ UNCHANGED <<lifecycle, held, saving, disconnecting>>

\* A shutdown that found the disconnect pending has joined it and ends like it.
DisconnectSettles ==
    /\ disconnecting \in {"ok", "failed"}
    /\ disconnecting' = "none"
    /\ shutdown' = IF shutdown = "pending" THEN disconnecting ELSE shutdown
    /\ UNCHANGED <<lifecycle, held, saving>>

\* A failed shutdown reopens the host.
ShutdownSettles ==
    /\ lifecycle = "closing" /\ shutdown \in {"ok", "failed"}
    /\ lifecycle' = IF shutdown = "ok" THEN "closed" ELSE "open"
    /\ shutdown' = IF shutdown = "ok" THEN "ok" ELSE "none"
    /\ UNCHANGED <<held, saving, disconnecting>>

HostNext ==
    \/ Acquires \/ Releases \/ StartsSaving \/ StopsSaving
    \/ DisconnectCalled \/ ShutdownCalled
    \/ DisconnectTornDown \/ ShutdownTornDown
    \/ DisconnectSettles \/ ShutdownSettles

ContractSpec == HostInit /\ [][HostNext]_hostVars

=============================================================================
