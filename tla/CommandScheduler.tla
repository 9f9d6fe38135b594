-------------------------- MODULE CommandScheduler --------------------------
(***************************************************************************)
(* The command scheduler (packages/tinysa/src/scheduler.ts): commands      *)
(* are queued, one is on the wire, its response is cut out of the received *)
(* bytes by the echo of its text and the shell prompt, and anything that   *)
(* desynchronizes the stream faults the scheduler for good.                *)
(*                                                                         *)
(* The received bytes are a sequence of frames, each the echo and prompt   *)
(* of one text: the parser skips whatever precedes the frame it looks for. *)
(***************************************************************************)
EXTENDS Sequences, NodeSerialTransport

CONSTANTS
    MaxPending,  \* maximumPendingCommands
    MaxBuffered, \* maximumBufferedBytes, in frames
    MaxIdle      \* the 64 KiB of unsolicited traffic, in frames

ASSUME SchedulerAssumption ==
    /\ MaxPending \in Nat \ {0}
    /\ MaxBuffered \in Nat \ {0}
    /\ MaxIdle \in 0..MaxBuffered

Texts == {"off", "on", "version"}
Frames == Texts \cup {"noise"}
Callers == {"device", "reader"}
Commands == [text : Texts, caller : Callers]
NoCommand == [text |-> "none", caller |-> "none"]

VARIABLES
    scheduler, \* the device's scheduler, or none
    wire       \* what the device's shell has received and not yet handled

schedulerVars == <<scheduler, wire>>

\* A scheduler per connection or reopened channel: its generation.  The timer
\* is armed exactly while a command is active.  `deaf` names the generations
\* that have failed: they report no second fault.
Schedulers == [state : {"none", "ok", "failed"}, generation : Nat,
               deaf : SUBSET (1..MaxPorts),
               queue : Seq(Commands), active : Commands \cup {NoCommand},
               buffer : Seq(Frames)]

SchedulerInit ==
    /\ scheduler = [state |-> "none", generation |-> 0, deaf |-> {},
                    queue |-> <<>>, active |-> NoCommand, buffer |-> <<>>]
    /\ wire = <<>>

NewScheduler(s) == [s EXCEPT !.state = "ok", !.generation = @ + 1]

\* cancelAll, #fault: everything pending is rejected, the bytes are dropped.
Emptied(s) == [s EXCEPT !.queue = <<>>, !.active = NoCommand, !.buffer = <<>>]

\* dispose
Disposed(s) == [Emptied(s) EXCEPT !.state = "none"]

\* Faulty variant: a command that timed out is given up, the session goes on.
FailedOnlyForThis(s) == [s EXCEPT !.active = NoCommand]

\* #fault
Failed(s) == [Emptied(s) EXCEPT !.state = "failed",
                                !.deaf = @ \cup {s.generation}]

\* Faulty variant: the active command is forgotten, not rejected.
QueuedCallers(s) == {s.queue[i].caller : i \in DOMAIN s.queue}

\* Who learns of a rejection.
PendingCallers(s) ==
    {c.caller : c \in ({s.queue[i] : i \in DOMAIN s.queue} \cup {s.active})
                      \ {NoCommand}}

-----------------------------------------------------------------------------
(* Admission and the pump *)

Pending(s) == Len(s.queue) + (IF s.active = NoCommand THEN 0 ELSE 1)

\* #enqueue
Admits(s) == s.state = "ok" /\ Pending(s) < MaxPending

Enqueued(s, text, caller) ==
    [s EXCEPT !.queue = Append(@, [text |-> text, caller |-> caller])]

StartsNext(s) ==
    s.state = "ok" /\ s.active = NoCommand /\ s.queue # <<>>

FreeSlots(unsettled) == (1..MaxWrites) \ {w.slot : w \in unsettled}

\* The bytes of a write reach the device's shell, in order, or are lost; a
\* write that the transport refuses leaves a rejected promise.
Transmits(text, received, unsettled) ==
    /\ \E slot \in FreeSlots(unsettled) :
          /\ \A other \in FreeSlots(unsettled) : slot <= other
          /\ writes' = unsettled \cup {[slot |-> slot, port |-> port,
                                        generation |-> scheduler.generation,
                                        phase |-> "write"]}
    /\ wire' \in {received} \cup
                 (IF Writable THEN {Append(received, text)} ELSE {})

Rests(s, received, unsettled) ==
    scheduler' = s /\ wire' = received /\ writes' = unsettled

\* #startNext, where the shell has `received` what it has not handled and the
\* promises of `unsettled` writes are open
StartNext(s, received, unsettled) ==
    IF StartsNext(s)
    THEN /\ scheduler' = [s EXCEPT !.active = Head(s.queue),
                                   !.queue = Tail(@)]
         /\ Transmits(Head(s.queue).text, received, unsettled)
    ELSE Rests(s, received, unsettled)

-----------------------------------------------------------------------------
(* Responses *)

\* Where the response of the active command is in the received bytes.
Matches(s) == {i \in DOMAIN s.buffer : s.buffer[i] = s.active.text}
Answered(s) == Matches(s) # {}
FirstMatch(s, i) == i \in Matches(s) /\ \A j \in Matches(s) : i <= j

\* extractTextResponse: everything up to its prompt is consumed.
Consumed(s, first) ==
    [s EXCEPT !.active = NoCommand,
              !.buffer = SubSeq(@, first + 1, Len(@))]

\* #append and the limit on traffic that no command has asked for
Overflows(s) ==
    \/ Len(s.buffer) >= MaxBuffered
    \/ s.active = NoCommand /\ Len(s.buffer) >= MaxIdle

Received(s, frame) == [s EXCEPT !.buffer = Append(@, frame)]
=============================================================================
