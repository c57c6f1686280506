---------------------------- MODULE DecodeProofs ----------------------------
(***************************************************************************)
(* The decoding of pc-value tables in memory, and of the variable-length   *)
(* integers they are made of.                                              *)
(*                                                                         *)
(* For every set of files, entries, targets and every quantum: the loop of *)
(* Symbol::value returns what the table encodes for the target.  For every *)
(* radix and width: binary::uVarInt returns the integer the bytes hold if  *)
(* and only if it fits, and varInt the number it is the zigzag code of.    *)
(***************************************************************************)
EXTENDS PcValue, UVarInt, TLAPS

(* The quantum of a target, as an index of what the table says.            *)
Slot(e, t) == IF t < e THEN 1 ELSE (t - e) \div Quantum + 1

(* What the pairs in front of the cursor say.                              *)
Here == file.read[start][pos]

(* Inside the loop the locals are what has been read of the table: the pc  *)
(* is that of the next quantum, the value that of the last, and the target *)
(* is not among those passed.                                              *)
LoopRight ==
  /\ start \in file.starts
  /\ pos \in DOMAIN file.read[start]
  /\ pc = entry + Here.quanta * Quantum
  /\ val = Here.value
  /\ Here.quanta = 0 => pos = start
  /\ Here.quanta = 0 \/ pc <= target

PcValueInv ==
  /\ TypeOK
  /\ st = "loop" => LoopRight
  /\ DecodesTable

-----------------------------------------------------------------------------
(* Multiples of the quantum keep their order, strictly, and back.          *)
LEMMA Multiples ==
  ASSUME NEW Q \in Nat \ {0}, NEW a \in Int, NEW b \in Int
  PROVE  a < b <=> a * Q < b * Q
<1>1. ASSUME NEW x \in Int, NEW y \in Int, x < y PROVE x * Q < y * Q
  <2>1. y * Q = x * Q + (y - x) * Q /\ (y - x) * Q >= Q
    BY <1>1
  <2> QED BY <2>1
<1>2. CASE a < b
  BY <1>1, <1>2
<1>3. CASE b < a
  BY <1>1, <1>3
<1>4. CASE a = b
  BY <1>4
<1> QED BY <1>2, <1>3, <1>4

(* Which quanta a run of u quanta behind the first n covers.               *)
LEMMA SlotInRun ==
  ASSUME NEW n \in Nat, NEW u \in Nat, NEW e \in Nat, NEW t \in Nat,
         n = 0 \/ e + n * Quantum <= t,
         t < e + (n + u) * Quantum, n + u > 0
  PROVE  Slot(e, t) \in (n + 1)..(n + u)
<1>1. Quantum \in Nat \ {0}
  BY CallAssumption
<1>2. CASE t < e
  <2>1. n = 0
    <3>1. n * Quantum \in Nat
      BY <1>1
    <3> QED BY <1>2, <3>1
  <2> QED BY <1>2, <2>1 DEF Slot
<1>3. CASE e <= t
  <2> DEFINE k == (t - e) \div Quantum
  <2>1. k \in Nat /\ k * Quantum <= t - e /\ t - e < (k + 1) * Quantum
    BY <1>1, <1>3
  <2>2. k < n + u
    <3>1. k * Quantum < (n + u) * Quantum
      BY <1>1, <2>1
    <3> QED BY <1>1, <2>1, <3>1, Multiples
  <2>3. n < k + 1
    <3>1. n * Quantum < (k + 1) * Quantum
      BY <1>1, <1>3, <2>1
    <3> QED BY <1>1, <2>1, <3>1, Multiples
  <2> QED BY <1>3, <2>1, <2>2, <2>3 DEF Slot
<1> QED BY <1>2, <1>3

(* Once n quanta are passed the target is none of the first n.             *)
LEMMA SlotBehind ==
  ASSUME NEW n \in Nat, NEW e \in Nat, NEW t \in Nat, n = 0 \/ e + n * Quantum <= t
  PROVE  Slot(e, t) > n
<1>1. Quantum \in Nat \ {0}
  BY CallAssumption
<1>2. CASE t < e
  <2>1. n = 0
    <3>1. n * Quantum \in Nat
      BY <1>1
    <3> QED BY <1>2, <3>1
  <2> QED BY <1>2, <2>1 DEF Slot
<1>3. CASE e <= t
  <2> DEFINE k == (t - e) \div Quantum
  <2>1. k \in Nat /\ k * Quantum <= t - e /\ t - e < (k + 1) * Quantum
    BY <1>1, <1>3
  <2>2. n * Quantum < (k + 1) * Quantum
    BY <1>1, <1>3, <2>1
  <2>3. n < k + 1
    BY <1>1, <2>1, <2>2, Multiples
  <2> QED BY <1>3, <2>1, <2>3 DEF Slot
<1> QED BY <1>2, <1>3

(* Meaning, by the slot.                                                   *)
LEMMA MeaningBySlot ==
  ASSUME NEW f, NEW o, NEW e, NEW t, f.means[o] \in Seq(Int)
  PROVE  Meaning(f, o, e, t) = IF Slot(e, t) \in 1..Len(f.means[o]) THEN f.means[o][Slot(e, t)] ELSE -1
BY DEF Meaning, Slot

-----------------------------------------------------------------------------
(* What the assumptions on the files say of the pair at the cursor.        *)
Run == Here.quanta + PcDelta.u
Table == file.means[start]

LEMMA AtCursor ==
  ASSUME TypeOK, LoopRight
  PROVE  /\ Here \in [quanta : Nat, value : Int]
         /\ Table \in Seq(Int)
         /\ Delta \in VarInt
         /\ HasPair <=> Delta.ok /\ (Delta.u # 0 \/ Here.quanta = 0)
         /\ HasPair => PcDelta \in VarInt
         /\ HasPair /\ PcDelta.ok =>
              /\ PcDelta.u # 0
              /\ Run <= Len(Table)
              /\ \A s \in (Here.quanta + 1)..Run : Table[s] = val + ZigZag(Delta.u)
              /\ pos + Delta.len + PcDelta.len \in DOMAIN file.read[start]
              /\ file.read[start][pos + Delta.len + PcDelta.len]
                   = [quanta |-> Run, value |-> val + ZigZag(Delta.u)]
         /\ ~(HasPair /\ PcDelta.ok) => Len(Table) = Here.quanta
<1>1. IsFile(file) /\ WellFormed(file) /\ Encodes(file)
  BY FilesAssumption, MeaningAssumption DEF TypeOK
<1>2. pos \in file.marks /\ pos \in 0..(file.size - 1) /\ file.size \in Nat
  BY <1>1 DEF LoopRight, Encodes, IsFile
<1>3. Here \in [quanta : Nat, value : Int]
  BY <1>1 DEF LoopRight, Encodes, Here
<1>4. Table \in Seq(Int)
  BY <1>1 DEF LoopRight, IsFile, Table
<1>5. Delta \in VarInt
  BY <1>1, <1>2 DEF IsFile, Delta
<1>6. Quantum \in Nat \ {0} /\ entry \in Nat
  BY CallAssumption DEF TypeOK
<1>7. pc = entry <=> Here.quanta = 0
  <2>1. Here.quanta # 0 => 0 * Quantum < Here.quanta * Quantum
    BY <1>3, <1>6, Multiples
  <2> QED BY <1>3, <1>6, <2>1 DEF LoopRight
<1>8. HasPair <=> Delta.ok /\ (Delta.u # 0 \/ Here.quanta = 0)
  BY <1>7 DEF HasPair
<1>9. HasPair => pos + Delta.len < file.size /\ (PcDelta.ok => PcDelta.u # 0)
  BY <1>1, <1>2, <1>8 DEF LoopRight, WellFormed, Delta, PcDelta
<1>10. HasPair => PcDelta \in VarInt
  BY <1>1, <1>2, <1>5, <1>9 DEF IsFile, PcDelta, VarInt
<1>11. HasPair /\ PcDelta.ok =>
         /\ Run <= Len(Table)
         /\ \A s \in (Here.quanta + 1)..Run : Table[s] = val + ZigZag(Delta.u)
         /\ pos + Delta.len + PcDelta.len \in DOMAIN file.read[start]
         /\ file.read[start][pos + Delta.len + PcDelta.len]
              = [quanta |-> Run, value |-> val + ZigZag(Delta.u)]
  <2> DEFINE next == [quanta |-> Here.quanta + PcDelta.u, value |-> Here.value + ZigZag(Delta.u)]
  <2>1. Delta.ok /\ (Delta.u # 0 \/ Here.quanta = 0) /\ PcDelta.ok =>
          /\ next.quanta <= Len(Table)
          /\ \A s \in (Here.quanta + 1)..next.quanta : Table[s] = next.value
          /\ pos + Delta.len + PcDelta.len \in DOMAIN file.read[start]
          /\ file.read[start][pos + Delta.len + PcDelta.len] = next
    <3>1. start \in file.starts /\ pos \in DOMAIN file.read[start]
      BY DEF LoopRight
    <3> QED BY <1>1, <3>1, Zenon DEF Encodes, Here, Table, Delta, PcDelta
  <2>2. next.quanta = Run /\ next.value = val + ZigZag(Delta.u)
    BY DEF LoopRight, Run
  <2>3. next = [quanta |-> Run, value |-> val + ZigZag(Delta.u)]
    BY DEF LoopRight, Run
  <2> QED BY <1>8, <2>1, <2>2, <2>3
<1>12. ~(HasPair /\ PcDelta.ok) => Len(Table) = Here.quanta
  <2>1. ~(Delta.ok /\ (Delta.u # 0 \/ Here.quanta = 0) /\ PcDelta.ok) => Len(Table) = Here.quanta
    <3>1. start \in file.starts /\ pos \in DOMAIN file.read[start]
      BY DEF LoopRight
    <3> QED BY <1>1, <3>1, Zenon DEF Encodes, Here, Table, Delta, PcDelta
  <2> QED BY <1>8, <2>1
<1> QED BY <1>3, <1>4, <1>5, <1>8, <1>9, <1>10, <1>11, <1>12

LEMMA ZigZagInt == ASSUME NEW u \in Nat PROVE ZigZag(u) \in Int
BY DEF ZigZag

LEMMA InitPcValue == Init => PcValueInv
BY MeaningAssumption DEF Init, PcValueInv, TypeOK, DecodesTable

(* A call returns the meaning of its target.                               *)
LEMMA ReturnRight ==
  ASSUME PcValueInv, NEW w \in Int, Return(w), w = Meaning(file, start, entry, target)
  PROVE  PcValueInv'
<1>1. TypeOK'
  BY DEF PcValueInv, TypeOK, Return
<1>2. DecodesTable'
  BY DEF DecodesTable, Return, Meaning
<1> QED BY <1>1, <1>2 DEF PcValueInv, Return

(* At the end of a table, or at an integer that does not decode, the       *)
(* target is none of its quanta.                                           *)
LEMMA EndMeans ==
  ASSUME TypeOK, LoopRight, ~(HasPair /\ PcDelta.ok)
  PROVE  Meaning(file, start, entry, target) = -1
<1>1. Table \in Seq(Int) /\ Here.quanta \in Nat /\ Len(Table) = Here.quanta
  BY AtCursor
<1>2. Slot(entry, target) > Here.quanta
  BY <1>1, SlotBehind DEF TypeOK, LoopRight
<1> QED BY <1>1, <1>2, MeaningBySlot DEF Table

LEMMA FoundMeans ==
  ASSUME TypeOK, LoopRight, HasPair, PcDelta.ok, target < NextPc
  PROVE  Meaning(file, start, entry, target) = val + ZigZag(Delta.u)
<1>1. /\ Table \in Seq(Int) /\ Here.quanta \in Nat
      /\ PcDelta.u \in Nat /\ PcDelta.u # 0 /\ Run <= Len(Table)
      /\ \A s \in (Here.quanta + 1)..Run : Table[s] = val + ZigZag(Delta.u)
  BY AtCursor DEF VarInt
<1>2. Quantum \in Nat \ {0} /\ entry \in Nat /\ target \in Nat
  BY CallAssumption DEF TypeOK
<1>3. target < entry + (Here.quanta + PcDelta.u) * Quantum
  BY <1>1, <1>2 DEF LoopRight, NextPc
<1>4. Slot(entry, target) \in (Here.quanta + 1)..Run
  <2>1. Here.quanta = 0 \/ entry + Here.quanta * Quantum <= target
    BY DEF LoopRight
  <2>2. Here.quanta + PcDelta.u > 0
    BY <1>1
  <2> QED BY <1>1, <1>2, <1>3, <2>1, <2>2, SlotInRun DEF Run
<1>5. Slot(entry, target) \in 1..Len(Table)
  BY <1>1, <1>4 DEF Run
<1> QED BY <1>1, <1>4, <1>5, MeaningBySlot DEF Table

LEMMA AdvanceRight ==
  ASSUME PcValueInv, Advance
  PROVE  PcValueInv'
<1> USE DEF PcValueInv
<1>1. st = "loop" /\ LoopRight /\ TypeOK
  BY DEF Advance
<1>2. /\ Here.quanta \in Nat /\ Delta \in VarInt /\ PcDelta \in VarInt /\ PcDelta.u # 0
      /\ pos + Delta.len + PcDelta.len \in DOMAIN file.read[start]
      /\ file.read[start][pos + Delta.len + PcDelta.len]
           = [quanta |-> Run, value |-> val + ZigZag(Delta.u)]
  BY <1>1, AtCursor DEF Advance
<1>3. Quantum \in Nat \ {0} /\ entry \in Nat /\ target \in Nat
  BY CallAssumption DEF TypeOK
<1>4. ZigZag(Delta.u) \in Int
  BY <1>2, ZigZagInt DEF VarInt
<1>5. TypeOK'
  BY <1>1, <1>2, <1>3, <1>4 DEF TypeOK, Advance, NextPc, VarInt
<1>6. Here' = [quanta |-> Run, value |-> val + ZigZag(Delta.u)]
  BY <1>2 DEF Here, Advance
<1>7. pc' = entry + Run * Quantum
  BY <1>1, <1>2, <1>3 DEF LoopRight, Advance, NextPc, Run, VarInt
<1>8. Run # 0
  BY <1>2 DEF Run, VarInt
<1>9. LoopRight'
  BY <1>1, <1>2, <1>6, <1>7, <1>8 DEF LoopRight, Advance
<1>10. DecodesTable'
  BY <1>1 DEF DecodesTable, Advance
<1> QED BY <1>5, <1>9, <1>10

LEMMA BeginRight ==
  ASSUME PcValueInv, NEW o \in file.starts, NEW e \in Entries, NEW t \in Targets, Begin(o, e, t)
  PROVE  PcValueInv'
<1>1. IsFile(file) /\ Encodes(file)
  BY FilesAssumption, MeaningAssumption DEF PcValueInv, TypeOK
<1>2. o \in Nat /\ e \in Nat /\ t \in Nat /\ Quantum \in Nat
  BY <1>1, CallAssumption DEF IsFile
<1>3. TypeOK'
  BY <1>2 DEF PcValueInv, TypeOK, Begin
<1>4. Here' = [quanta |-> 0, value |-> -1] /\ o \in DOMAIN file.read[o]
  BY <1>1 DEF Here, Begin, Encodes
<1>5. LoopRight'
  BY <1>2, <1>4 DEF LoopRight, Begin
<1> QED BY <1>3, <1>5 DEF PcValueInv, DecodesTable, Begin

LEMMA NextPcValue == PcValueInv /\ [Next]_vars => PcValueInv'
<1> SUFFICES ASSUME PcValueInv, [Next]_vars PROVE PcValueInv'
  OBVIOUS
<1>1. CASE \E o \in file.starts, e \in Entries, t \in Targets : Begin(o, e, t)
  BY <1>1, BeginRight
<1>2. CASE BadVarInt
  <2>1. LoopRight /\ TypeOK /\ ~(HasPair /\ PcDelta.ok)
    BY <1>2 DEF PcValueInv, BadVarInt, HasPair
  <2> QED BY <1>2, <2>1, EndMeans, ReturnRight DEF BadVarInt
<1>3. CASE TableEnd
  <2>1. LoopRight /\ TypeOK /\ ~(HasPair /\ PcDelta.ok)
    BY <1>3 DEF PcValueInv, TableEnd
  <2> QED BY <1>3, <2>1, EndMeans, ReturnRight DEF TableEnd
<1>4. CASE Found
  <2>1. LoopRight /\ TypeOK
    BY <1>4 DEF PcValueInv, Found
  <2>2. val + ZigZag(Delta.u) \in Int
    BY <2>1, AtCursor, ZigZagInt DEF TypeOK, VarInt
  <2> QED BY <1>4, <2>1, <2>2, FoundMeans, ReturnRight DEF Found
<1>5. CASE Advance
  BY <1>5, AdvanceRight
<1>6. CASE UNCHANGED vars
  <2>1. TypeOK'
    BY <1>6 DEF PcValueInv, TypeOK, vars
  <2>2. (st = "loop" => LoopRight)'
    BY <1>6 DEF PcValueInv, LoopRight, Here, vars
  <2>3. DecodesTable'
    BY <1>6 DEF PcValueInv, DecodesTable, Meaning, vars
  <2> QED BY <2>1, <2>2, <2>3 DEF PcValueInv
<1> QED BY <1>1, <1>2, <1>3, <1>4, <1>5, <1>6 DEF Next, Loop

LEMMA SpecPcValue == Spec => []PcValueInv
<1> QED BY InitPcValue, NextPcValue, PTL DEF Spec

(* The decoder keeps its types.                                            *)
THEOREM TypeCorrect == Spec => []TypeOK
<1>1. PcValueInv => TypeOK
  BY DEF PcValueInv
<1> QED BY <1>1, SpecPcValue, PTL

(* Symbol::value answers what the table says of the target.                *)
THEOREM DecodesTableHolds == Spec => []DecodesTable
<1>1. PcValueInv => DecodesTable
  BY DEF PcValueInv
<1> QED BY <1>1, SpecPcValue, PTL

-----------------------------------------------------------------------------
(* In the loop the bytes read so far all have the high bit set, and their  *)
(* digits are all that v holds: nothing was shifted out.                   *)
VarIntTypeOK ==
  /\ buffer \in Buffers
  /\ i \in 0..MaxLen
  /\ v \in 0..(Space - 1)
  /\ result # None => result = <<>> \/ result \in (0..(Space - 1)) \X (1..MaxLen)

DigitsRead ==
  /\ \A j \in 0..(i - 1) : buffer.byte[j] >= Radix
  /\ i < MaxLen => v = buffer.sum[i] /\ v < Place[i]

VarIntInv == VarIntTypeOK /\ DigitsRead /\ DecodesExactly

-----------------------------------------------------------------------------
LEMMA PlaceFacts ==
  /\ Radix \in Nat /\ Radix > 1 /\ MaxLen \in Nat /\ MaxLen > 0
  /\ \A k \in 0..MaxLen : Place[k] \in Nat /\ Place[k] > 0
  /\ Space \in Nat /\ Space = 2 * Place[MaxLen - 1]
  /\ \A k \in 0..(MaxLen - 1) : Place[k + 1] = Radix * Place[k] /\ Place[k] <= Place[MaxLen - 1]
BY RadixAssumption, PlaceAssumption DEF Space

LEMMA BufferFacts ==
  ASSUME NEW b \in Buffers
  PROVE  /\ \A k \in 0..(MaxLen - 1) : b.byte[k] \in Nat /\ b.byte[k] < 2 * Radix
         /\ \A k \in 0..MaxLen : b.sum[k] \in Nat
         /\ b.sum[0] = 0
         /\ \A k \in 0..(MaxLen - 1) : b.sum[k + 1] = b.sum[k] + (b.byte[k] % Radix) * Place[k]
<1>1. IsBuffer(b)
  BY BuffersAssumption
<1>2. ASSUME NEW k \in 0..(MaxLen - 1) PROVE b.byte[k] \in Nat /\ b.byte[k] < 2 * Radix
  <2>1. b.byte[k] \in 0..(2 * Radix - 1)
    BY <1>1 DEF IsBuffer, Bytes
  <2> QED BY <2>1, RadixAssumption
<1>3. ASSUME NEW k \in 0..MaxLen PROVE b.sum[k] \in Nat
  BY <1>1 DEF IsBuffer
<1> QED BY <1>1, <1>2, <1>3 DEF IsBuffer

(* A digit d behind less than p leaves less than the next place.           *)
LEMMA DigitFits ==
  ASSUME NEW p \in Nat, NEW r \in Nat, NEW d \in Nat, NEW s \in Nat, s < p, d < r
  PROVE  d * p \in Nat /\ s + d * p < r * p
<1>1. (d + 1) * p <= r * p
  <2>1. r * p = (d + 1) * p + (r - d - 1) * p /\ (r - d - 1) * p >= 0
    BY SMT
  <2> QED BY <2>1
<1>2. (d + 1) * p = d * p + p /\ d * p \in Nat
  BY SMT
<1> QED BY <1>1, <1>2

(* Of an integer below the size of the type nothing is lost.               *)
LEMMA NothingLost ==
  ASSUME NEW s \in Nat, NEW m \in Nat, s < m
  PROVE  s % m = s
BY SMT

(* There is one end at most.                                               *)
LEMMA OneEnd ==
  ASSUME NEW b \in Buffers, buffer = b, NEW k \in Ends, NEW l \in Ends
  PROVE  k = l
<1>1. k \in Nat /\ l \in Nat /\ Radix \in Nat /\ b.byte[k] \in Nat /\ b.byte[l] \in Nat
  BY BufferFacts, PlaceFacts DEF Ends
<1> QED BY <1>1 DEF Ends

-----------------------------------------------------------------------------
LEMMA InitVarInt == VarIntInit => VarIntInv
<1> SUFFICES ASSUME VarIntInit PROVE VarIntInv
  OBVIOUS
<1>1. buffer.sum[0] = 0 /\ Place[0] = 1 /\ Space \in Nat /\ Space > 0 /\ MaxLen \in Nat /\ MaxLen > 0
  BY PlaceFacts, PlaceAssumption, BufferFacts DEF VarIntInit
<1> QED BY <1>1 DEF VarIntInit, VarIntInv, VarIntTypeOK, DigitsRead, DecodesExactly

(* The digit of a byte that is not beyond the width.                       *)
LEMMA Digit ==
  ASSUME VarIntInv, i < MaxLen, NEW d \in Nat, d < Radix,
         i < MaxLen - 1 \/ d <= 1
  PROVE  /\ Shifted(d) = d * Place[i]
         /\ v + d * Place[i] \in Nat
         /\ v + d * Place[i] < Space
         /\ i < MaxLen - 1 => v + d * Place[i] < Place[i + 1]
<1>1. i \in 0..(MaxLen - 1) /\ Place[i] \in Nat /\ Place[i] > 0 /\ v \in Nat /\ v < Place[i]
  BY PlaceFacts DEF VarIntInv, VarIntTypeOK, DigitsRead
<1>2. d * Place[i] \in Nat /\ v + d * Place[i] < Radix * Place[i]
  BY <1>1, DigitFits, PlaceFacts
<1>3. v + d * Place[i] < Space
  <2>1. CASE i < MaxLen - 1
    <3>1. i + 1 \in 0..(MaxLen - 1) /\ Place[i + 1] = Radix * Place[i]
      BY <1>1, <2>1, PlaceFacts
    <3>2. Place[i + 1] \in Nat /\ Place[i + 1] <= Place[MaxLen - 1] /\ Space = 2 * Place[MaxLen - 1]
      BY <3>1, PlaceFacts
    <3>3. Place[MaxLen - 1] \in Nat
      BY PlaceFacts
    <3> QED BY <1>1, <1>2, <3>1, <3>2, <3>3
  <2>2. CASE i = MaxLen - 1 /\ d <= 1
    <3>1. Space = 2 * Place[i]
      BY <2>2, PlaceFacts
    <3>2. d = 0 \/ d = 1
      BY <2>2
    <3> QED BY <1>1, <3>1, <3>2
  <2> QED BY <1>1, <2>1, <2>2, PlaceFacts
<1>4. Shifted(d) = d * Place[i]
  <2>1. d * Place[i] < Space /\ Space \in Nat
    BY <1>1, <1>2, <1>3, PlaceFacts
  <2> QED BY <1>2, <2>1, NothingLost DEF Shifted
<1> QED BY <1>1, <1>2, <1>3, <1>4, PlaceFacts

LEMMA LastRight == VarIntInv /\ Last => VarIntInv'
<1> SUFFICES ASSUME VarIntInv, Last PROVE VarIntInv'
  OBVIOUS
<1> DEFINE d == buffer.byte[i]
<1>1. /\ buffer \in Buffers /\ i \in 0..(MaxLen - 1) /\ d \in Nat /\ d < Radix
      /\ v \in Nat /\ v < Place[i] /\ Place[i] \in Nat /\ Place[i] > 0
      /\ UNCHANGED <<buffer, i, v>>
  BY PlaceFacts, BufferFacts DEF VarIntInv, VarIntTypeOK, DigitsRead, Last
<1>2. i \in Ends /\ \A k \in Ends : k = i
  <2>1. i \in Ends
    BY <1>1 DEF VarIntInv, DigitsRead, Ends
  <2> QED BY <1>1, <2>1, OneEnd
<1>3. buffer.sum[i + 1] = v + d * Place[i]
  <2>1. d % Radix = d
    BY <1>1, NothingLost, PlaceFacts
  <2>2. buffer.sum[i + 1] = buffer.sum[i] + (d % Radix) * Place[i] /\ v = buffer.sum[i]
    BY <1>1, BufferFacts, PlaceFacts DEF VarIntInv, DigitsRead
  <2> QED BY <2>1, <2>2
<1>4. CASE TooLarge
  <2>1. result' = <<>>
    BY <1>4 DEF Last
  <2>2. ~(buffer.sum[i + 1] < Space)
    <3>1. i = MaxLen - 1 /\ d >= 2
      BY <1>1, <1>4 DEF TooLarge
    <3>2. Space = 2 * Place[i]
      BY <3>1, PlaceFacts
    <3>3. d * Place[i] = 2 * Place[i] + (d - 2) * Place[i] /\ (d - 2) * Place[i] >= 0
      BY <1>1, <3>1
    <3> QED BY <1>1, <1>3, <3>2, <3>3
  <2>3. DecodesExactly'
    BY <1>1, <1>2, <2>1, <2>2 DEF DecodesExactly, Ends
  <2>4. VarIntTypeOK'
    BY <1>1, <2>1 DEF VarIntInv, VarIntTypeOK
  <2> QED BY <1>1, <2>3, <2>4 DEF VarIntInv, DigitsRead
<1>5. CASE ~TooLarge
  <2>1. i < MaxLen - 1 \/ d <= 1
    BY <1>1, <1>5, PlaceFacts DEF TooLarge
  <2>2. /\ Shifted(d) = d * Place[i]
        /\ v + d * Place[i] \in Nat
        /\ v + d * Place[i] < Space
    BY <1>1, <2>1, PlaceFacts, Digit
  <2>3. (v + Shifted(d)) % Space = v + d * Place[i]
    BY <2>2, PlaceFacts, NothingLost
  <2>4. result' = <<v + d * Place[i], i + 1>>
    BY <1>5, <2>3 DEF Last
  <2>5. DecodesExactly'
    BY <1>1, <1>2, <1>3, <2>2, <2>4 DEF DecodesExactly, Ends
  <2>6. VarIntTypeOK'
    <3>1. result' \in (0..(Space - 1)) \X (1..MaxLen)
      BY <1>1, <2>2, <2>4, PlaceFacts
    <3> QED BY <1>1, <3>1 DEF VarIntInv, VarIntTypeOK
  <2> QED BY <1>1, <2>5, <2>6 DEF VarIntInv, DigitsRead
<1> QED BY <1>4, <1>5

LEMMA MoreRight == VarIntInv /\ More => VarIntInv'
<1> SUFFICES ASSUME VarIntInv, More PROVE VarIntInv'
  OBVIOUS
<1> DEFINE d == buffer.byte[i] % Radix
<1>1. /\ buffer \in Buffers /\ i \in 0..(MaxLen - 1) /\ buffer.byte[i] \in Nat /\ buffer.byte[i] >= Radix
      /\ i' = i + 1 /\ result = None /\ result' = None /\ buffer' = buffer
      /\ v' = (v + Shifted(d)) % Space
  BY PlaceFacts, BufferFacts DEF VarIntInv, VarIntTypeOK, More
<1>2. d \in Nat /\ d < Radix
  BY <1>1, PlaceFacts
<1>3. \A j \in 0..(i' - 1) : buffer'.byte[j] >= Radix
  BY <1>1 DEF VarIntInv, DigitsRead
<1>4. v' \in 0..(Space - 1)
  <2>1. Shifted(d) \in Nat
    <3>1. d * Place[i] \in Nat
      BY <1>1, <1>2, PlaceFacts, DigitFits
    <3>2. Space \in Nat /\ Space > 0
      BY PlaceFacts
    <3> QED BY <3>1, <3>2 DEF Shifted
  <2>2. v + Shifted(d) \in Nat /\ Space \in Nat /\ Space > 0
    BY <2>1, PlaceFacts DEF VarIntInv, VarIntTypeOK
  <2> QED BY <1>1, <2>2
<1>5. ASSUME i' < MaxLen PROVE v' = buffer'.sum[i'] /\ v' < Place[i']
  <2>1. /\ Shifted(d) = d * Place[i] /\ v + d * Place[i] \in Nat
        /\ v + d * Place[i] < Space /\ v + d * Place[i] < Place[i + 1]
    BY <1>1, <1>2, <1>5, PlaceFacts, Digit
  <2>2. v' = v + d * Place[i]
    BY <1>1, <2>1, PlaceFacts, NothingLost
  <2>3. buffer.sum[i + 1] = buffer.sum[i] + d * Place[i] /\ v = buffer.sum[i]
    BY <1>1, BufferFacts, PlaceFacts DEF VarIntInv, DigitsRead
  <2> QED BY <1>1, <2>1, <2>2, <2>3
<1>6. VarIntTypeOK'
  BY <1>1, <1>4, PlaceFacts DEF VarIntInv, VarIntTypeOK
<1> QED BY <1>1, <1>3, <1>5, <1>6 DEF VarIntInv, DigitsRead, DecodesExactly

LEMMA TooLongRight == VarIntInv /\ TooLong => VarIntInv'
<1> SUFFICES ASSUME VarIntInv, TooLong PROVE VarIntInv'
  OBVIOUS
<1>1. Ends = {}
  <2> SUFFICES ASSUME NEW k \in Ends PROVE FALSE
    OBVIOUS
  <2>1. k \in 0..(i - 1) /\ buffer.byte[k] < Radix /\ buffer.byte[k] \in Nat /\ Radix \in Nat
    BY PlaceFacts, BufferFacts DEF TooLong, Ends, VarIntInv, VarIntTypeOK
  <2> QED BY <2>1 DEF VarIntInv, DigitsRead
<1> QED BY <1>1, PlaceFacts DEF TooLong, VarIntInv, VarIntTypeOK, DigitsRead, DecodesExactly, Ends

LEMMA NextVarInt == VarIntInv /\ [VarIntNext]_varIntVars => VarIntInv'
<1>1. VarIntInv /\ UNCHANGED varIntVars => VarIntInv'
  BY DEF varIntVars, VarIntInv, VarIntTypeOK, DigitsRead, DecodesExactly, Ends
<1> QED BY <1>1, LastRight, MoreRight, TooLongRight DEF VarIntNext

LEMMA SpecVarInt == VarIntSpec => []VarIntInv
BY InitVarInt, NextVarInt, PTL DEF VarIntSpec

(* binary::uVarInt gives an integer exactly if the buffer holds one that   *)
(* fits, whatever the radix and the width, and it is the right one.        *)
THEOREM DecodesExactlyHolds == VarIntSpec => []DecodesExactly
<1>1. VarIntInv => DecodesExactly
  BY DEF VarIntInv
<1> QED BY <1>1, SpecVarInt, PTL

(* The sign of binary::varInt: what comes back lies in an int64_t and its  *)
(* zigzag code is the integer read.                                        *)
LEMMA ZigZagBack ==
  ASSUME NEW h \in Nat, NEW u \in 0..(2 * h - 1)
  PROVE  -h <= Signed(u) /\ Signed(u) < h /\ ZigZagCode(Signed(u)) = u
<1>1. PICK n \in Nat : u = 2 * n \/ u = 2 * n + 1
  <2>1. u \div 2 \in Nat /\ (u = 2 * (u \div 2) \/ u = 2 * (u \div 2) + 1)
    BY SMT
  <2> QED BY <2>1
<1>2. CASE u = 2 * n
  <2>1. u % 2 = 0 /\ u \div 2 = n
    BY <1>2
  <2> QED BY <1>2, <2>1 DEF Signed, ZigZagCode
<1>3. CASE u = 2 * n + 1
  <2>1. u % 2 = 1 /\ u \div 2 = n
    BY <1>3
  <2> QED BY <1>3, <2>1 DEF Signed, ZigZagCode
<1> QED BY <1>1, <1>2, <1>3

THEOREM SignedExactlyHolds == VarIntSpec => []SignedExactly
<1>1. VarIntInv => SignedExactly
  <2> SUFFICES ASSUME VarIntInv, result # None, result # <<>>
               PROVE  /\ -(Space \div 2) <= Signed(result[1]) /\ Signed(result[1]) < Space \div 2
                      /\ ZigZagCode(Signed(result[1])) = result[1]
    BY DEF SignedExactly
  <2>1. result[1] \in 0..(Space - 1)
    BY DEF VarIntInv, VarIntTypeOK
  <2> DEFINE h == Place[MaxLen - 1]
  <2>2. h \in Nat /\ Space = 2 * h
    BY PlaceFacts
  <2>3. Space \div 2 = h
    BY <2>2
  <2> HIDE DEF h
  <2> QED BY <2>1, <2>2, <2>3, ZigZagBack
<1> QED BY <1>1, SpecVarInt, PTL
=============================================================================
