-------------------------- MODULE MCSignalEvidence --------------------------
(* Two swept grids, the spectrum of a capture and the scenes on them, for TLC. *)
EXTENDS SignalEvidence

\* n bins of noise except where at says otherwise.
Levels(n, at) == [b \in 1..n |-> IF b \in DOMAIN at THEN at[b] ELSE 0]
On(bins, level) == [b \in bins |-> level]

Scene(n, at, reach) == [levels |-> Levels(n, at), reach |-> reach]

\* 26 bins of 100 kHz; the 2.4 GHz band in 11 bins of 8 MHz; 5 bins of a
\* capture.
MCGeometries ==
  "narrow" :> [start |-> 0, stop |-> 25 * 1680, rbw |-> 1680, bin |-> 1680, time |-> 50]
  @@ "band" :> [start |-> 0, stop |-> 80 * MHz, rbw |-> MHz, bin |-> 8 * MHz, time |-> 50]
  @@ "derived" :> [start |-> 0, stop |-> 4 * 1680, rbw |-> 1680, bin |-> 1680, time |-> 1]

\* A comb whole and without its last line, four regions of a raster, the same
\* in tested regions that contain them all, a line of the comb alone (with a bin
\* only above the threshold), nothing; two channels
\* of the band one at a time, both, none.
MCScenes ==
  "narrow" :> ("comb" :> Scene(26, On({5, 9, 13, 17}, 3), 0)
               @@ "part" :> Scene(26, On({5, 9, 13}, 2), 0)
               @@ "raster" :> Scene(26, On({5, 11, 17, 23}, 2), 1)
               @@ "region" :> Scene(26, On({5, 11, 17, 23}, 2), 12)
               @@ "line" :> Scene(26, On({9}, 3) @@ On({10}, 1), 0)
               @@ "none" :> Scene(26, <<>>, 0))
  @@ "band" :> ("low" :> Scene(11, On({2}, 2), 0)
                @@ "high" :> Scene(11, On({9}, 2), 0)
                @@ "both" :> Scene(11, On({2}, 2) @@ On({9}, 3), 0)
                @@ "none" :> Scene(11, <<>>, 0))
  @@ "derived" :> ("carrier" :> Scene(5, On({3}, 2), 0))

\* A sweep follows at once, late, after one that was lost, or with the wall
\* clock set back.
MCRegular  == <<2, 1>>
MCArrivals == {MCRegular, <<21, 1>>, <<2, 2>>, <<-1, 1>>}

MCPromotionChanges == <<1, 2, 2, 3>>
MCRetentionChanges == <<1, 1, 1, 2>>

Budget(iq, sweeps, oddities, captures, changes, sessions, roots, visits) ==
  [iq |-> iq, sweeps |-> sweeps, oddities |-> oddities, captures |-> captures,
   changes |-> changes, sessions |-> sessions, roots |-> roots, visits |-> visits]

\* Long runs of sweeps where only I/Q is classified; short ones that are
\* classified; captures with and without the workspace.
MCBudgets == {Budget(TRUE, 3, 1, 0, 1, 0, 0, 0),
              Budget(TRUE, 5, 0, 0, 1, 0, 0, 0),
              Budget(TRUE, 3, 0, 0, 2, 0, 0, 0),
              Budget(FALSE, 2, 0, 0, 1, 1, 1, 0),
              Budget(TRUE, 1, 0, 2, 1, 1, 1, 0),
              Budget(TRUE, 0, 0, 2, 2, 0, 0, 1),
              Budget(TRUE, 0, 0, 3, 1, 0, 0, 1)}
=============================================================================
