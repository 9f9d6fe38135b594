----------------------- MODULE MCCanonicalOperations -----------------------
(***************************************************************************)
(* Instances of CanonicalOperations: capabilities whose ranges have steps  *)
(* that do not meet their bounds, that overlap only in part, and profiles  *)
(* with and without a native rate, a derived rate and a one-shot limit.    *)
(***************************************************************************)
EXTENDS CanonicalOperations

LOCAL Span(min, max, step) == [min |-> min, max |-> max, step |-> step]

LOCAL TinySas ==
    <<[frequency |-> Span(0, 3, 2), power |-> FALSE, triggers |-> {"auto", "normal"}, level |-> Span(0, 1, 1), rf |-> TRUE,
      paths |-> [p \in {"normal", "mixer"} |-> IF p = "normal" THEN Span(0, 2, 1) ELSE Span(2, 3, 1)],
      rates |-> [m \in {"am", "fm"} |-> IF m = "am" THEN Span(1, 2, 1) ELSE Span(1, 1, 1)]],
     [frequency |-> Span(1, 3, 1), power |-> TRUE, triggers |-> {"normal"}, level |-> Span(0, 1, 1), rf |-> FALSE,
      paths |-> [p \in {"normal"} |-> Span(0, 0, 1)], rates |-> [m \in {"am"} |-> Span(1, 1, 1)]],
      [frequency |-> Span(0, 1, 1), power |-> FALSE, triggers |-> {"auto"}, level |-> None, rf |-> TRUE,
      paths |-> [p \in {"normal"} |-> Span(0, 0, 1)], rates |-> [m \in {} |-> Span(1, 1, 1)]]>>

LOCAL Neptunes ==
    <<[tune |-> Span(0, 1, 1), rate |-> Span(1, 4, 3), bandwidth |-> Span(0, 5, 2)],
     [tune |-> Span(1, 3, 2), rate |-> Span(3, 5, 2), bandwidth |-> Span(2, 3, 3)]>>

LOCAL Profile(signal, native, least, derived, oneShot) ==
    [center |-> 2, span |-> 2, signal |-> signal, native |-> native, least |-> least, derived |-> derived, oneShot |-> oneShot]

LOCAL Labs ==
    [frequency |-> Span(0, 4, 1), rate |-> Span(1, 8, 2), bandwidth |-> Span(1, 6, 2), samples |-> Span(1, 5, 1),
      profiles |-> [p \in {"tone", "burst", "custom"} |-> [w \in {"narrow", "wide"} |->
          CASE p = "tone"  -> Profile(1, None, None, FALSE, None)
            [] p = "burst" -> Profile(3, 5, 3, FALSE, 3)
            [] p = "custom" /\ w = "narrow" -> Profile(1, 3, 1, TRUE, 2)
            [] p = "custom" /\ w = "wide" -> Profile(3, 7, 5, TRUE, 3)]]]

LOCAL Unit(driver_, caps_, commands, edits) ==
    [driver |-> driver_, caps |-> caps_, commands |-> commands, edits |-> edits]

MCUnits ==
    [u \in {"ultra", "receiver", "generator", "p210", "narrowP210", "lab"} |->
        CASE u = "ultra"      -> Unit("tinysa", TinySas[1], 2, TRUE)
          [] u = "receiver"   -> Unit("tinysa", TinySas[2], 2, TRUE)
          [] u = "generator"  -> Unit("tinysa", TinySas[3], 3, FALSE)
          [] u = "p210"       -> Unit("neptune", Neptunes[1], 3, TRUE)
          [] u = "narrowP210" -> Unit("neptune", Neptunes[2], 2, TRUE)
          [] u = "lab"        -> Unit("signallab", Labs, 2, TRUE)]

MCLabStatuses ==
    {[profile |-> "custom", channel |-> "clean", pinned |-> None, epoch |-> 1]}
==============================================================================
