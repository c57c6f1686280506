----------------------------- MODULE PcTables ------------------------------
(***************************************************************************)
(* Small pclntab files for the model checker: the pc-value table of every  *)
(* short assignment of values to pcs, encoded as the Go linker does it     *)
(* (runs of equal values; each run a zigzag change of the value and a      *)
(* count of quanta; a zero at the end).  The encoder is independent of the *)
(* decoders it serves to check.                                            *)
(***************************************************************************)
EXTENDS Integers, Sequences, SequencesExt, FiniteSetsExt

CONSTANTS
  Means,    \* the assignments: non-empty sequences of values
  Tails,    \* how many bytes of the file follow the table
  Breaks,   \* which integers of a table to spoil, 0 for none
  Radix     \* values per byte of an encoded integer, 128 in Go's encoding

(* Zigzag code of a difference, and bytes an unsigned integer takes.       *)
ZigZagCode(n) == IF n < 0 THEN -2 * n - 1 ELSE 2 * n
Bytes(u) == IF u < Radix THEN 1 ELSE 2

(* The positions of m where a run of equal values begins.                  *)
RunStarts(m) == {i \in DOMAIN m : i = 1 \/ m[i] # m[i - 1]}

(* The unsigned integers of m's table, in order.                           *)
Encoded(m) ==
  LET starts == SetToSortSeq(RunStarts(m), <)
      old(j) == IF j = 1 THEN -1 ELSE m[starts[j - 1]]
      stop(j) == IF j = Len(starts) THEN Len(m) + 1 ELSE starts[j + 1]
      pair(j) == <<ZigZagCode(m[starts[j]] - old(j)), stop(j) - starts[j]>>
  IN  Append(FlattenSeq([j \in DOMAIN starts |-> pair(j)]), 0)

(* What the pairs in front of the i-th integer say: how many quanta, and   *)
(* the value of the last.                                                  *)
Before(m, i) ==
  LET starts == SetToSortSeq(RunStarts(m), <)
      k == (i + 1) \div 2
      n == IF k > Len(starts) THEN Len(m) ELSE starts[k] - 1
  IN  [quanta |-> n, value |-> IF n = 0 THEN -1 ELSE m[n]]

(* The table of m at position 1 of a file, with t bytes behind it and its  *)
(* b-th integer spoilt (an encoding that never ends).                      *)
MkFile(m, t, b) ==
  LET ints == Encoded(m)
      len(i) == IF i = b THEN 2 ELSE Bytes(ints[i])
      at[i \in 1..(Len(ints) + 1)] == IF i = 1 THEN 1 ELSE at[i - 1] + len(i - 1)
      size == at[Len(ints) + 1] + t
      Item(i) == [ok |-> i # b, u |-> ints[i], len |-> len(i)]
      filler == [ok |-> TRUE, u |-> 1, len |-> 1]
      items == {i \in DOMAIN ints : b = 0 \/ i <= b}
      said == IF b = 0 THEN Len(m)
              ELSE LET runs == SetToSortSeq(RunStarts(m), <)
                       k == (b + 1) \div 2     \* the run whose pair is spoilt
                   IN  IF k > Len(runs) THEN Len(m) ELSE runs[k] - 1
  IN  [size   |-> size,
       enc    |-> [p \in 0..(size - 1) |->
                     IF \E i \in items : at[i] = p
                     THEN Item(CHOOSE i \in items : at[i] = p)
                     ELSE filler],
       starts |-> {1},
       marks  |-> {at[i] : i \in {j \in items : j % 2 = 1}},
       means  |-> [o \in {1} |-> SubSeq(m, 1, said)],
       read   |-> [o \in {1} |-> [p \in {at[i] : i \in {j \in items : j % 2 = 1}} |->
                     Before(m, CHOOSE i \in items : at[i] = p)]]]

PcFiles ==
  {MkFile(m, t, b) : <<m, t, b>> \in
     {x \in Means \X Tails \X Breaks : x[3] <= Len(Encoded(x[1]))}}
=============================================================================
