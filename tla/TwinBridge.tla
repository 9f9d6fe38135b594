----------------------------- MODULE TwinBridge -----------------------------
(***************************************************************************)
(* TwinBridgeClient (packages/tinysa/src/digital-twin-transport.ts): one   *)
(* launched bridge, which is a process group of its own, with the requests *)
(* it owes an answer to and the two coalesced efforts to end it, close()   *)
(* and #terminate().                                                       *)
(*                                                                         *)
(* The operators give the next value of a client; DigitalTwinTransport     *)
(* owns the clients and builds the actions.  The bridge script is not part *)
(* of the repository: it answers its requests in their order, or stops.    *)
(***************************************************************************)
EXTENDS Naturals, Sequences

Methods == {"on", "off", "configure", "acquire", "shutdown"}

\* asked: requests without an answer.  exit: what the 'exit' event said.
\* group: a process of the group is alive.  rf: the emulated firmware's output.
\* termination: #terminationPromise.  call: how far #closeOnce has come, or how
\* it ended; a success stays, a failure is forgotten once it is heard.
Clients == [state : {"unborn", "booting", "ready", "closing", "closed", "faulted"},
            asked : Seq(Methods), acknowledged : BOOLEAN,
            exit : {"none", "clean", "dirty"}, group : BOOLEAN, rf : BOOLEAN,
            termination : {"none", "running", "done"},
            call : {"none", "killing", "shutdown", "exit", "confirm", "cleanup",
                    "ok", "failed"}]

Unborn == [state |-> "unborn", asked |-> << >>, acknowledged |-> FALSE,
           exit |-> "none", group |-> FALSE, rf |-> FALSE,
           termination |-> "none", call |-> "none"]

NewClient == [Unborn EXCEPT !.state = "booting", !.group = TRUE]

Over(c) == c.state \in {"faulted", "closed"}

-----------------------------------------------------------------------------
(* Ending a bridge *)

\* #terminate: SIGKILL to the group, once until an attempt has failed.
Terminate(c) ==
    IF c.termination = "none" THEN [c EXCEPT !.termination = "running"] ELSE c

\* #poison: every request is rejected, a shutdown request too.
Poison(c) ==
    IF Over(c) THEN c
    ELSE Terminate([c EXCEPT !.state = "faulted", !.asked = << >>,
                             !.call = IF @ = "shutdown" THEN "cleanup" ELSE @])

\* #closeOnce of a client that must be killed
Killing(c) ==
    IF c.termination = "done" THEN [c EXCEPT !.state = "closed", !.call = "ok"]
    ELSE [Terminate(c) EXCEPT !.call = "killing"]

\* close(): the attempt that is under way, or a new one.
Close(c) ==
    CASE c.call # "none" -> c
      [] c.call = "none" /\ c.state \in {"booting", "faulted"} -> Killing(Poison(c))
      [] c.call = "none" /\ c.state = "ready" ->
            [c EXCEPT !.state = "closing", !.call = "shutdown",
                      !.asked = Append(@, "shutdown")]

\* The catch of #closeOnce: the group is killed and the call fails.
CloseFails(c) ==
    IF c.termination = "done" THEN [c EXCEPT !.call = "failed"]
    ELSE [Terminate(Poison(c)) EXCEPT !.call = "cleanup"]

\* Faulty variant: the exit of the shell that leads the group is enough.
ExitIsEnough(c) ==
    IF c.exit = "clean" THEN [c EXCEPT !.state = "closed", !.call = "ok"] ELSE CloseFails(c)

\* The end of `await this.#exited` after an acknowledged shutdown
ExitHeard(c) ==
    IF c.exit = "clean" THEN [c EXCEPT !.call = "confirm"] ELSE CloseFails(c)

\* #confirmProcessGroupExited
Confirmed(c) == [c EXCEPT !.state = "closed", !.call = "ok"]

\* #finishTermination found the group gone.
Terminated(c) ==
    LET done == [c EXCEPT !.termination = "done"]
    IN CASE c.call = "killing" -> [done EXCEPT !.state = "closed", !.call = "ok"]
         [] c.call = "cleanup" -> [done EXCEPT !.call = "failed"]
         [] OTHER -> done

\* #finishTermination missed its deadline; the next close() kills again.
TerminationFails(c) ==
    [c EXCEPT !.termination = "none",
              !.call = IF @ \in {"killing", "cleanup"} THEN "failed" ELSE @]

-----------------------------------------------------------------------------
(* What the bridge says *)

\* #beginRequest, which only a ready bridge takes.
Request(c, method) == [c EXCEPT !.asked = Append(@, method)]

\* #handleFrame with the answer to the oldest request
Responded(c) ==
    LET method == Head(c.asked)
        rest == [c EXCEPT !.asked = Tail(@)]
    IN CASE method = "shutdown" -> [rest EXCEPT !.acknowledged = TRUE, !.call = "exit"]
         [] method = "on" -> [rest EXCEPT !.rf = TRUE]
         [] method \in {"off", "configure"} -> [rest EXCEPT !.rf = FALSE]
         [] OTHER -> rest

\* The error answer changes nothing in the firmware.
Refused(c) ==
    LET rest == [c EXCEPT !.asked = Tail(@)]
    IN IF Head(c.asked) = "shutdown" THEN CloseFails(rest) ELSE rest

\* #acceptProcessExit: only a bridge that was asked to stop may stop cleanly.
Exited(c, how) ==
    LET gone == [c EXCEPT !.exit = how]
    IN IF c.state = "closing" /\ how = "clean" THEN gone ELSE Poison(gone)

=============================================================================
