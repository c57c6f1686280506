----------------------------- MODULE MCPcValue -----------------------------
(* PcValue on every table of at most four quanta.                          *)
EXTENDS PcValue

mcMeans == UNION {[1..n -> {-1, 0, 1}] : n \in 1..4}
mcTails == {0}
mcBreaks == 0..4
mcRadix == 3
Tables == INSTANCE PcTables WITH
            Means <- mcMeans, Tails <- mcTails, Breaks <- mcBreaks, Radix <- mcRadix
mcFiles == Tables!PcFiles
mcEntries == {4}
mcTargets == 3..13
=============================================================================
