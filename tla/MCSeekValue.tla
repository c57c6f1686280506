---------------------------- MODULE MCSeekValue ----------------------------
(* SeekValue with a window of eight bytes and integers of at most two, on  *)
(* tables long enough to refill it several times.                          *)
EXTENDS SeekValue, Sequences

mcMeans == UNION {[1..n -> {-1, 0, 1}] : n \in 1..3}
             \cup {m \in [1..6 -> {-1, 1}] : m[1] = 1}
mcShortTails == {0, 1, 5}
mcRoomyTails == {8}
mcBreaks == {0, 2, 5}
mcNoBreaks == {0, 4}
mcRadix == 3

Tight == INSTANCE PcTables WITH
           Means <- mcMeans, Tails <- mcShortTails, Breaks <- mcBreaks, Radix <- mcRadix
Wide == INSTANCE PcTables WITH
          Means <- mcMeans, Tails <- mcRoomyTails, Breaks <- mcNoBreaks, Radix <- mcRadix

mcFiles == Tight!PcFiles \cup Wide!PcFiles
mcEntries == {4}
mcTargets == 3..11
mcGarbage == {[ok |-> FALSE, u |-> 0, len |-> 2], [ok |-> TRUE, u |-> 1, len |-> 1]}
=============================================================================
