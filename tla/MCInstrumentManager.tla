------------------------ MODULE MCInstrumentManager ------------------------
(* A registry of two drivers, given as a sequence for the configurations. *)
EXTENDS InstrumentManager

MCRegistry == <<"tinysa", "signal-lab">>

=============================================================================
