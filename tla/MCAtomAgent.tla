---------------------------- MODULE MCAtomAgent ----------------------------
(* What one response may call, for TLC. *)
EXTENDS AtomAgent

MCBatches == {<<"act", "touch", "cleanup">>, <<"badAct", "cleanup">>,
              <<"badObserve", "observe">>, <<"enable">>}
=============================================================================
