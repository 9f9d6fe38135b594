------------------------------- MODULE RfLease -------------------------------
(***************************************************************************)
(* What the instrument runtime promises about one physical connection, with *)
(* the operations, queues and retries left out: at most one connection is   *)
(* held; a session that may be emitting is never given up; and what could   *)
(* not be cleaned up blocks the next connection until it has been.          *)
(***************************************************************************)

VARIABLES
    holder,    \* nobody, session (an admitted one) or cleanup (a retained rest)
    emitting   \* the session's device may be emitting

leaseVars == <<holder, emitting>>

LeaseInit == holder = "nobody" /\ emitting = FALSE

Open ==
    /\ holder = "nobody"
    /\ holder' = "session" /\ emitting' \in BOOLEAN

\* A connection attempt leaves a rest that only cleanup may touch.
Retain ==
    /\ holder = "nobody"
    /\ holder' = "cleanup" /\ UNCHANGED emitting

Switch ==
    /\ holder = "session"
    /\ emitting' = ~emitting /\ UNCHANGED holder

Release ==
    /\ holder = "session" /\ ~emitting
    /\ holder' \in {"nobody", "cleanup"} /\ UNCHANGED emitting

CleanUp ==
    /\ holder = "cleanup"
    /\ holder' = "nobody" /\ UNCHANGED emitting

LeaseNext == Open \/ Retain \/ Switch \/ Release \/ CleanUp

LeaseSpec == LeaseInit /\ [][LeaseNext]_leaseVars

=============================================================================
