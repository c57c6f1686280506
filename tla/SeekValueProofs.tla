-------------------------- MODULE SeekValueProofs --------------------------
(***************************************************************************)
(* The window of seek::Symbol::value, proved for every window size, every  *)
(* file and every table: it always shows the file, the decoder never runs  *)
(* out of it, and its steps are those of the decoder in memory.            *)
(***************************************************************************)
EXTENDS SeekValue, TLAPS

(* Two longest integers fit behind the cursor, in every call.              *)
Fits == st = "loop" => length + 2 * MaxVarInt <= BufSize

(* The cursor stands on a pair of a table, on the first pair as long as    *)
(* the pc has not moved.                                                   *)
OnPair ==
  InCall =>
    /\ buf[0] + length \in file.marks
    /\ entry <= pc
    /\ pc = entry => buf[0] + length \in file.starts

(* WindowShowsFile says where the window's bytes come from; that the bytes *)
(* the decoder needs are among them takes Fits and OnPair.                 *)
IInv == TypeOK /\ Fits /\ WindowShowsFile /\ OnPair

LEMMA FileFacts ==
  ASSUME NEW f \in Files
  PROVE  /\ f.size \in Nat
         /\ f.enc \in [0..(f.size - 1) -> Mem!VarInt]
         /\ f.starts \subseteq f.marks
         /\ f.marks \subseteq 0..(f.size - 1)
  BY FilesAssumption DEF Mem!IsFile

LEMMA ConstantFacts ==
  /\ Quantum \in Nat /\ Quantum >= 1
  /\ MaxVarInt \in Nat /\ MaxVarInt >= 1
  /\ BufSize \in Nat /\ 4 * MaxVarInt <= BufSize
  BY CallAssumption, WindowAssumption

LEMMA VarIntFacts ==
  ASSUME NEW d \in Mem!VarInt
  PROVE  /\ d.ok \in BOOLEAN /\ d.u \in Nat /\ d.len \in Nat
         /\ 1 <= d.len /\ d.len <= MaxVarInt
  BY ConstantFacts DEF Mem!VarInt

(* What a well-formed table holds at a pair: the pair, all of it inside    *)
(* the file, and another pair behind it.                                   *)
LEMMA PairFacts ==
  ASSUME NEW f \in Files, NEW c \in f.marks, NEW d, d = f.enc[c]
  PROVE  /\ c \in Nat /\ c < f.size /\ d \in Mem!VarInt /\ c + d.len <= f.size
         /\ d.ok /\ (d.u # 0 \/ c \in f.starts) =>
              /\ c + d.len < f.size
              /\ f.enc[c + d.len] \in Mem!VarInt
              /\ c + d.len + f.enc[c + d.len].len <= f.size
              /\ f.enc[c + d.len].ok =>
                   /\ f.enc[c + d.len].u # 0
                   /\ c + d.len + f.enc[c + d.len].len \in f.marks
<1>1. Mem!WellFormed(f)
  BY FilesAssumption
<1>2. c \in Nat /\ c < f.size /\ d \in Mem!VarInt
  BY FileFacts
<1>3. d.len \in Nat
  BY <1>2, VarIntFacts
<1>4. c + d.len < f.size => f.enc[c + d.len] \in Mem!VarInt
  BY <1>2, <1>3, FileFacts
<1> QED
  BY <1>1, <1>2, <1>4 DEF Mem!WellFormed

LEMMA Products ==
  ASSUME NEW a \in Nat, NEW b \in Nat
  PROVE  a * b \in Nat /\ (a # 0 /\ b >= 1 => a * b >= 1)
  BY SMT

LEMMA ZigZagType == ASSUME NEW u \in Nat PROVE Mem!ZigZag(u) \in Int
  BY DEF Mem!ZigZag

(* Whatever the bytes, decoding yields a well-typed integer.               *)
LEMMA DecodedType ==
  ASSUME file \in Files, NEW i PROVE Decoded(i) \subseteq Mem!VarInt
  BY FileFacts, WindowAssumption DEF Decoded, Intact

(* Inside the file and inside the window, decoding yields what the file    *)
(* holds there.                                                            *)
LEMMA DecodedInFile ==
  ASSUME IInv, InCall, NEW i \in Nat,
         buf[0] + i < file.size,
         file.enc[buf[0] + i] \in Mem!VarInt,
         buf[0] + i + file.enc[buf[0] + i].len <= file.size,
         i + MaxVarInt <= BufSize
  PROVE  /\ Intact(i) /\ buf[i] = buf[0] + i
         /\ Decoded(i) = {file.enc[buf[0] + i]}
<1> DEFINE n == file.enc[buf[0] + i].len
<1>1. n \in Nat /\ 1 <= n /\ n <= MaxVarInt
  BY VarIntFacts
<1> HIDE DEF n
<1>2. file.size \in Nat /\ buf[0] \in Nat /\ DOMAIN file.enc = 0..(file.size - 1)
  BY FileFacts DEF IInv, TypeOK, WindowShowsFile
<1>3. \A k \in Cells : buf[0] + k < file.size => buf[k] = buf[0] + k
  BY DEF IInv, WindowShowsFile
<1>4. i \in Cells /\ buf[i] = buf[0] + i
  BY <1>1, <1>3, ConstantFacts DEF Cells
<1>5. ASSUME NEW k \in 0..(n - 1) PROVE buf[i + k] = buf[i] + k
  <2>1. i + k \in Cells /\ buf[0] + (i + k) < file.size
    BY <1>1, <1>2, ConstantFacts DEF Cells, n
  <2> QED
    BY <1>2, <1>3, <1>4, <2>1
<1>6. buf[i] \in DOMAIN file.enc
  BY <1>2, <1>4
<1>7. i + n <= BufSize
  BY <1>1, ConstantFacts
<1>8. file.enc[buf[i]].len = n
  BY <1>4 DEF n
<1>9. Intact(i)
  BY <1>4, <1>5, <1>6, <1>7, <1>8 DEF Intact
<1> QED
  BY <1>4, <1>9 DEF Decoded

(* The two integers under the cursor are the pair of the file.             *)
LEMMA AtCursor ==
  ASSUME IInv, InCall, NEW c, c = buf[0] + length, NEW d, d = file.enc[c]
  PROVE  /\ c \in file.marks /\ buf[length] = c /\ Intact(length)
         /\ d \in Mem!VarInt /\ Decoded(length) = {d}
         /\ HasPair(d) =>
              /\ Intact(length + d.len)
              /\ file.enc[c + d.len] \in Mem!VarInt
              /\ Decoded(length + d.len) = {file.enc[c + d.len]}
              /\ file.enc[c + d.len].ok =>
                   /\ file.enc[c + d.len].u # 0
                   /\ c + d.len + file.enc[c + d.len].len \in file.marks
<1>1. /\ file \in Files /\ c \in file.marks /\ length \in Nat /\ buf[0] \in Nat
      /\ length + 2 * MaxVarInt <= BufSize
      /\ pc = entry => c \in file.starts
  BY DEF IInv, TypeOK, Fits, OnPair, WindowShowsFile, InCall
<1>2. c \in Nat /\ c < file.size /\ d \in Mem!VarInt /\ c + d.len <= file.size
  BY <1>1, PairFacts
<1>3. d.len \in Nat /\ 1 <= d.len /\ d.len <= MaxVarInt
  BY <1>2, VarIntFacts
<1>4. Intact(length) /\ buf[length] = c /\ Decoded(length) = {d}
  <2>1. length + MaxVarInt <= BufSize
    BY <1>1, ConstantFacts
  <2> QED
    BY <1>1, <1>2, <2>1, DecodedInFile
<1>5. ASSUME HasPair(d)
      PROVE  /\ Intact(length + d.len)
             /\ file.enc[c + d.len] \in Mem!VarInt
             /\ Decoded(length + d.len) = {file.enc[c + d.len]}
             /\ file.enc[c + d.len].ok =>
                  /\ file.enc[c + d.len].u # 0
                  /\ c + d.len + file.enc[c + d.len].len \in file.marks
  <2>1. d.ok /\ (d.u # 0 \/ c \in file.starts)
    BY <1>1, <1>5 DEF HasPair
  <2>2. /\ c + d.len < file.size
        /\ file.enc[c + d.len] \in Mem!VarInt
        /\ c + d.len + file.enc[c + d.len].len <= file.size
        /\ file.enc[c + d.len].ok =>
             /\ file.enc[c + d.len].u # 0
             /\ c + d.len + file.enc[c + d.len].len \in file.marks
    BY <1>1, <2>1, PairFacts
  <2>3. c + d.len = buf[0] + (length + d.len) /\ length + d.len \in Nat
        /\ (length + d.len) + MaxVarInt <= BufSize
    BY <1>1, <1>3, ConstantFacts
  <2>4. Intact(length + d.len) /\ Decoded(length + d.len) = {file.enc[c + d.len]}
    BY <2>2, <2>3, DecodedInFile
  <2> QED
    BY <2>2, <2>4
<1> QED
  BY <1>1, <1>2, <1>4, <1>5

-----------------------------------------------------------------------------
(* A pair of integers of any bytes fits in the window.                     *)
LEMMA UsedFits ==
  ASSUME TypeOK, Fits, st = "loop", NEW d \in Mem!VarInt, NEW p \in Mem!VarInt
  PROVE  /\ Used(d, p) \in Nat
         /\ 1 <= Used(d, p) /\ Used(d, p) <= BufSize
         /\ Used(d, p) <= length + 2 * MaxVarInt
  BY VarIntFacts, ConstantFacts DEF TypeOK, Fits, Used

LEMMA NextPcType ==
  ASSUME TypeOK, NEW p \in Mem!VarInt
  PROVE  /\ NextPc(p) \in Nat /\ pc <= NextPc(p)
         /\ p.u # 0 => pc < NextPc(p)
<1>1. p.u \in Nat /\ Quantum \in Nat /\ Quantum >= 1
  BY VarIntFacts, ConstantFacts
<1>2. p.u * Quantum \in Nat /\ (p.u # 0 => p.u * Quantum >= 1)
  BY <1>1, Products
<1> QED
  BY <1>2 DEF TypeOK, NextPc

LEMMA GotType ==
  ASSUME TypeOK, NEW at \in Nat, NEW n \in Nat
  PROVE  Got(at, n) \in Nat /\ Got(at, n) <= n
  BY FileFacts DEF TypeOK, Got, Smaller, Larger

LEMMA RefilledType ==
  ASSUME TypeOK, NEW n \in Nat, n <= BufSize
  PROVE  Refilled(n) \in [Cells -> Int]
<1> SUFFICES ASSUME NEW k \in Cells
             PROVE  /\ k < BufSize - n => buf[k + n] \in Int
                    /\ spos + (k - (BufSize - n)) \in Int
                    /\ buf[k] \in Int
  BY DEF Refilled
<1>1. k < BufSize - n => k + n \in Cells
  BY ConstantFacts DEF Cells
<1> QED
  BY <1>1, ConstantFacts DEF TypeOK, Cells

(* The window still shows the file after a refill: the rest has moved to   *)
(* the front, and the tail goes on where the rest ends, as far as the file *)
(* goes.                                                                   *)
LEMMA SlideShows ==
  ASSUME TypeOK, InCall, WindowShowsFile,
         NEW n \in Nat, 1 <= n, n <= BufSize, buf[0] + n < file.size,
         Slide(n), file' = file
  PROVE  /\ buf'[0] = buf[0] + n
         /\ \A k \in Cells : buf'[0] + k < file.size => buf'[k] = buf'[0] + k
         /\ spos' = Smaller(buf'[0] + BufSize, file.size)
         /\ failed' <=> file.size < buf'[0] + BufSize
<1> DEFINE b == buf[0]
           size == file.size
<1>1. /\ b \in Nat /\ size \in Nat /\ BufSize \in Nat
      /\ \A k \in Cells : b + k < size => buf[k] = b + k
      /\ spos = Smaller(b + BufSize, size)
      /\ failed <=> size < b + BufSize
  BY FileFacts, ConstantFacts DEF TypeOK, WindowShowsFile
<1>2. ASSUME NEW k \in Cells, b + n + k < size PROVE buf'[k] = b + n + k
  <2>1. buf'[k] = IF k < BufSize - n THEN buf[k + n]
                  ELSE IF k < BufSize - n + Got(spos, n) THEN spos + (k - (BufSize - n))
                  ELSE buf[k]
    BY DEF Slide, Refilled
  <2>2. CASE k < BufSize - n
    <3>1. k + n \in Cells
      BY <1>1, <2>2 DEF Cells
    <3> HIDE DEF b, size
    <3>2. buf[k + n] = b + (k + n)
      BY <1>1, <1>2, <3>1 DEF Cells
    <3> QED
      BY <1>1, <2>1, <2>2, <3>2 DEF Cells
  <2>3. CASE ~(k < BufSize - n)
    <3> HIDE DEF b
    <3>1. ~failed /\ spos = b + BufSize
      BY <1>1, <1>2, <2>3 DEF Cells, Smaller
    <3>2. k < BufSize - n + Got(spos, n)
      BY <1>1, <1>2, <2>3, <3>1 DEF Cells, Got, Smaller, Larger
    <3> QED
      BY <1>1, <2>1, <2>3, <3>1, <3>2 DEF Cells
  <2> QED
    BY <2>2, <2>3
<1>3. buf'[0] = b + n
  <2>1. 0 \in Cells
    BY ConstantFacts DEF Cells
  <2> QED
    BY <1>1, <1>2, <2>1
<1>4. /\ spos' = spos + Got(spos, n)
      /\ failed' = (failed \/ Got(spos, n) < n)
  BY DEF Slide, AfterRead
<1>5. /\ spos' = Smaller(b + n + BufSize, size)
      /\ failed' <=> size < b + n + BufSize
  <2> HIDE DEF b, size
  <2>1. CASE failed
    <3>1. Got(spos, n) = 0 /\ spos = size /\ size < b + BufSize
      BY <1>1, <2>1 DEF Got, Smaller
    <3>2. failed'
      BY <1>4, <2>1
    <3>3. spos' = Smaller(b + n + BufSize, size) /\ size < b + n + BufSize
      BY <1>1, <1>4, <3>1 DEF Smaller
    <3> QED
      BY <3>2, <3>3
  <2>2. CASE ~failed
    <3>1. spos = b + BufSize /\ b + BufSize <= size
      BY <1>1, <2>2 DEF Smaller
    <3>2. Got(spos, n) = Smaller(n, size - spos)
      BY <1>1, <2>2, <3>1 DEF Got, Larger, size
    <3>3. Got(spos, n) < n <=> size < b + n + BufSize
      BY <1>1, <3>1, <3>2 DEF Smaller
    <3>4. failed' <=> Got(spos, n) < n
      BY <1>4, <2>2
    <3>5. spos' = Smaller(b + n + BufSize, size)
      BY <1>1, <1>4, <3>1, <3>2 DEF Smaller
    <3> QED
      BY <3>3, <3>4, <3>5
  <2> QED
    BY <2>1, <2>2
<1> QED
  BY <1>1, <1>2, <1>3, <1>5

-----------------------------------------------------------------------------
LEMMA InitIInv == Init => IInv
<1> SUFFICES ASSUME Init PROVE IInv
  OBVIOUS
<1>1. TypeOK
  <2>1. EmptyWindow \in [Cells -> Int]
    BY DEF EmptyWindow, Junk
  <2>2. failed \in BOOLEAN /\ good \in BOOLEAN
    BY DEF Init
  <2>3. /\ file \in Files /\ st \in {"idle", "loop"}
        /\ start \in Nat /\ entry \in Nat /\ target \in Nat
        /\ val \in Int /\ pc \in Nat /\ ans \in Int
        /\ length \in Nat /\ spos \in Nat
    BY DEF Init
  <2> QED
    BY <2>1, <2>2, <2>3 DEF Init, TypeOK
<1> QED
  BY <1>1 DEF Init, IInv, Fits, WindowShowsFile, OnPair, InCall

LEMMA BeginIInv ==
  ASSUME IInv, NEW o \in file.starts, NEW e \in Entries, NEW t \in Targets, Begin(o, e, t)
  PROVE  IInv'
<1>1. /\ file \in Files /\ file' = file /\ spos \in Nat /\ failed \in BOOLEAN
      /\ o \in file.marks /\ o \in Nat /\ o < file.size /\ file.size \in Nat
      /\ e \in Nat /\ t \in Nat /\ ans \in Int
  BY FileFacts, CallAssumption DEF IInv, TypeOK, Begin
<1> DEFINE at == SeekTo(o)
<1>2. at \in Nat /\ (~failed => at = o)
  BY <1>1 DEF SeekTo
<1>3. Got(at, BufSize) \in Nat
  BY <1>2, GotType, ConstantFacts DEF IInv
<1>4. /\ buf' = [k \in Cells |-> IF k < Got(at, BufSize) THEN at + k ELSE Junk]
      /\ spos' = at + Got(at, BufSize)
      /\ failed' = (failed \/ Got(at, BufSize) < BufSize)
      /\ st' = "loop" /\ start' = o /\ entry' = e /\ target' = t
      /\ val' = -1 /\ pc' = e /\ length' = 0 /\ good' = ~failed /\ ans' = ans
  BY DEF Begin, AfterRead
<1> HIDE DEF at
<1>5. TypeOK'
  <2>1. buf' \in [Cells -> Int]
    BY <1>2, <1>3, <1>4 DEF Cells, Junk
  <2> QED
    BY <1>1, <1>2, <1>3, <1>4, <2>1 DEF TypeOK
<1>6. Fits'
  BY <1>4, ConstantFacts DEF Fits
<1>7. WindowShowsFile' /\ OnPair'
  <2> SUFFICES ASSUME ~failed PROVE WindowShowsFile' /\ OnPair'
    BY <1>4 DEF WindowShowsFile, OnPair, InCall
  <2>1. at = o /\ Got(at, BufSize) = Smaller(BufSize, file.size - o)
    BY <1>1, <1>2 DEF Got, Larger
  <2>2. /\ 0 \in Cells /\ BufSize \in Nat /\ BufSize >= 1
    BY ConstantFacts DEF Cells
  <2>3. ASSUME NEW k \in Cells, o + k < file.size PROVE buf'[k] = o + k
    <3>1. k < Got(at, BufSize)
      BY <1>1, <2>1, <2>2, <2>3 DEF Cells, Smaller
    <3> QED
      BY <1>4, <2>1, <3>1
  <2>4. buf'[0] = o
    BY <1>1, <2>2, <2>3
  <2>5. spos' = Smaller(o + BufSize, file.size)
    BY <1>1, <1>4, <2>1, <2>2 DEF Smaller
  <2>6. failed' <=> file.size < o + BufSize
    <3>1. Got(at, BufSize) < BufSize <=> file.size < o + BufSize
      BY <1>1, <2>1, <2>2 DEF Smaller
    <3>2. failed' <=> Got(at, BufSize) < BufSize
      BY <1>4
    <3> QED
      BY <3>1, <3>2
  <2> QED
    BY <1>1, <1>4, <2>3, <2>4, <2>5, <2>6 DEF WindowShowsFile, OnPair, InCall
<1> QED
  BY <1>5, <1>6, <1>7 DEF IInv

LEMMA ReturnIInv == ASSUME IInv, NEW v \in Int, Return(v) PROVE IInv'
<1>1. TypeOK'
  <2>1. EmptyWindow \in [Cells -> Int]
    BY DEF EmptyWindow, Junk
  <2> QED
    BY <2>1 DEF IInv, TypeOK, Return, stream
<1> QED
  BY <1>1 DEF IInv, Return, Fits, WindowShowsFile, OnPair, InCall

(* What a step of Advance has read and where it has got to.                *)
LEMMA AdvanceIInv == ASSUME IInv, Advance PROVE IInv'
<1>0. PICK d \in Decoded(length) :
        /\ HasPair(d)
        /\ \E p \in Decoded(length + d.len) :
             /\ p.ok /\ NextPc(p) <= target
             /\ pc' = NextPc(p)
             /\ IF Enough(Used(d, p)) THEN Keep(Used(d, p)) ELSE Slide(Used(d, p))
        /\ val' = val + Mem!ZigZag(d.u)
  BY DEF Advance
<1>1. PICK p \in Decoded(length + d.len) :
        /\ HasPair(d)
        /\ p.ok /\ NextPc(p) <= target
        /\ pc' = NextPc(p)
        /\ IF Enough(Used(d, p)) THEN Keep(Used(d, p)) ELSE Slide(Used(d, p))
        /\ val' = val + Mem!ZigZag(d.u)
  BY <1>0
<1>2. /\ st = "loop" /\ st' = st /\ file' = file /\ good' = good /\ entry' = entry
      /\ start' = start /\ target' = target /\ ans' = ans
  BY DEF Advance
<1>3. d \in Mem!VarInt /\ p \in Mem!VarInt
  BY <1>1, DecodedType DEF IInv, TypeOK
<1> DEFINE n == Used(d, p)
<1>4. /\ n \in Nat /\ 1 <= n /\ n <= BufSize
  BY <1>2, <1>3, UsedFits DEF IInv
<1>5. CASE Enough(n)
  <2>1. length' = n /\ buf' = buf /\ spos' = spos /\ failed' = failed
    BY <1>1, <1>5 DEF Keep, stream
  <2>2. TypeOK'
    BY <1>1, <1>2, <1>3, <1>4, <2>1, NextPcType, ZigZagType, VarIntFacts DEF IInv, TypeOK
  <2>3. Fits'
    BY <1>4, <1>5, <2>1, ConstantFacts DEF Fits, Enough
  <2>4. WindowShowsFile'
    BY <1>2, <2>1 DEF IInv, WindowShowsFile, InCall
  <2>5. OnPair'
    <3> SUFFICES ASSUME good
                 PROVE  /\ buf[0] + n \in file.marks
                        /\ entry < pc'
      BY <1>2, <2>1, <2>2 DEF OnPair, InCall, TypeOK
    <3>1. /\ buf[0] + n \in file.marks /\ p.u # 0
      <4> DEFINE c == buf[0] + length
      <4>1. /\ d = file.enc[c] /\ p = file.enc[c + d.len]
            /\ p.u # 0 /\ c + d.len + p.len \in file.marks
        BY <1>1, <1>2, AtCursor DEF InCall
      <4>2. c + d.len + p.len = buf[0] + n
        BY <1>2, <1>3, VarIntFacts DEF IInv, TypeOK, WindowShowsFile, InCall, Used
      <4> QED
        BY <4>1, <4>2
    <3>2. pc < pc' /\ entry <= pc /\ pc \in Nat /\ entry \in Nat /\ pc' \in Nat
      BY <1>1, <1>2, <1>3, <3>1, NextPcType DEF IInv, TypeOK, OnPair, InCall
    <3> QED
      BY <3>1, <3>2
  <2> QED
    BY <2>2, <2>3, <2>4, <2>5 DEF IInv
<1>6. CASE ~Enough(n)
  <2>1. Slide(n) /\ length' = 0
    BY <1>1, <1>6 DEF Slide
  <2>2. Got(spos, n) \in Nat
    BY <1>4, GotType DEF IInv, TypeOK
  <2>3. TypeOK'
    <3>1. buf' \in [Cells -> Int]
      BY <1>4, <2>1, RefilledType DEF IInv, Slide
    <3>2. spos' \in Nat /\ failed' \in BOOLEAN
      BY <2>1, <2>2 DEF IInv, TypeOK, Slide, AfterRead
    <3> QED
      BY <1>1, <1>2, <1>3, <2>1, <3>1, <3>2, NextPcType, ZigZagType, VarIntFacts
         DEF IInv, TypeOK
  <2>4. Fits'
    BY <2>1, ConstantFacts DEF Fits
  <2>5. WindowShowsFile' /\ OnPair'
    <3> SUFFICES ASSUME good PROVE WindowShowsFile' /\ OnPair'
      BY <1>2 DEF WindowShowsFile, OnPair, InCall
    <3>1. /\ buf[0] + n \in file.marks /\ p.u # 0
      <4> DEFINE c == buf[0] + length
      <4>1. /\ d = file.enc[c] /\ p = file.enc[c + d.len]
            /\ p.u # 0 /\ c + d.len + p.len \in file.marks
        BY <1>1, <1>2, AtCursor DEF InCall
      <4>2. c + d.len + p.len = buf[0] + n
        BY <1>2, <1>3, VarIntFacts DEF IInv, TypeOK, WindowShowsFile, InCall, Used
      <4> QED
        BY <4>1, <4>2
    <3>2. buf[0] + n \in Nat /\ buf[0] + n < file.size
      BY <3>1, FileFacts DEF IInv, TypeOK
    <3>3. /\ buf'[0] = buf[0] + n
          /\ \A k \in Cells : buf'[0] + k < file.size => buf'[k] = buf'[0] + k
          /\ spos' = Smaller(buf'[0] + BufSize, file.size)
          /\ failed' <=> file.size < buf'[0] + BufSize
      BY <1>2, <1>4, <2>1, <3>2, SlideShows DEF IInv, InCall
    <3>4. pc < pc' /\ entry <= pc /\ pc \in Nat /\ entry \in Nat /\ pc' \in Nat
      BY <1>1, <1>2, <1>3, <3>1, NextPcType DEF IInv, TypeOK, OnPair, InCall
    <3>5. buf'[0] + length' = buf[0] + n
      BY <2>1, <3>2, <3>3
    <3> QED
      BY <1>2, <3>1, <3>2, <3>3, <3>4, <3>5 DEF WindowShowsFile, OnPair, InCall
  <2> QED
    BY <2>3, <2>4, <2>5 DEF IInv
<1> QED
  BY <1>5, <1>6

LEMMA NextIInv == IInv /\ [Next]_vars => IInv'
<1> SUFFICES ASSUME IInv, [Next]_vars PROVE IInv'
  OBVIOUS
<1>1. ASSUME NEW o \in file.starts, NEW e \in Entries, NEW t \in Targets, Begin(o, e, t)
      PROVE  IInv'
  BY <1>1, BeginIInv
<1>2. CASE BadVarInt
  BY <1>2, ReturnIInv DEF BadVarInt
<1>3. CASE TableEnd
  BY <1>3, ReturnIInv DEF TableEnd
<1>4. CASE Found
  <2>1. PICK d \in Decoded(length) : Return(val + Mem!ZigZag(d.u))
    BY <1>4 DEF Found
  <2>2. val + Mem!ZigZag(d.u) \in Int
    BY <2>1, DecodedType, VarIntFacts, ZigZagType DEF IInv, TypeOK
  <2> QED
    BY <2>1, <2>2, ReturnIInv
<1>5. CASE Advance
  BY <1>5, AdvanceIInv
<1>6. CASE UNCHANGED vars
  BY <1>6 DEF vars, window, stream, IInv, TypeOK, Fits, WindowShowsFile, OnPair, InCall
<1> QED
  BY <1>1, <1>2, <1>3, <1>4, <1>5, <1>6 DEF Next, Loop

(* In every reachable state the window shows the file and the cursor is on *)
(* a pair of the table.                                                    *)
THEOREM SpecIInv == Spec => []IInv
  BY InitIInv, NextIInv, PTL DEF Spec

THEOREM TypeCorrect == Spec => []TypeOK
  BY SpecIInv, PTL DEF IInv

(* No refill loses, repeats or shifts a byte, whatever the window's size,  *)
(* the table and the place where the file ends.                            *)
THEOREM WindowShowsFileHolds == Spec => []WindowShowsFile
  BY SpecIInv, PTL DEF IInv

-----------------------------------------------------------------------------
(* The decoder never runs out of the window nor into undelivered bytes.    *)
THEOREM CursorIntactHolds == Spec => []CursorIntact
<1>1. IInv => CursorIntact
  <2> SUFFICES ASSUME IInv, InCall PROVE CursorIntact
    BY DEF CursorIntact
  <2>1. /\ Intact(length)
        /\ \A d \in Decoded(length) : HasPair(d) => Intact(length + d.len)
    BY AtCursor
  <2> QED
    BY <2>1 DEF IInv, Fits, InCall, CursorIntact
<1> QED
  BY <1>1, SpecIInv, PTL

(* The move of the window's rest never overlaps, and its length never      *)
(* wraps, even over bytes that are no table.                               *)
THEOREM MoveIsSafeHolds == Spec => []MoveIsSafe
<1>1. IInv => MoveIsSafe
  <2> SUFFICES ASSUME IInv, st = "loop",
                      NEW d \in Decoded(length), NEW p \in Decoded(length + d.len),
                      ~Enough(Used(d, p))
               PROVE  Used(d, p) <= BufSize /\ BufSize - Used(d, p) <= Used(d, p)
    BY DEF MoveIsSafe
  <2>1. d \in Mem!VarInt /\ p \in Mem!VarInt
    BY DecodedType DEF IInv, TypeOK
  <2>2. Used(d, p) \in Nat /\ Used(d, p) <= BufSize
    BY <2>1, UsedFits DEF IInv
  <2> QED
    BY <2>2, ConstantFacts DEF Enough
<1> QED
  BY <1>1, SpecIInv, PTL

-----------------------------------------------------------------------------
(* The refinement.                                                         *)
LEMMA ReturnRefines ==
  ASSUME NEW v, Return(v) PROVE Mem!Return(v)
  BY DEF Return, Mem!Return, Cursor

LEMMA BeginRefines ==
  ASSUME IInv, NEW o \in file.starts, NEW e \in Entries, NEW t \in Targets,
         Begin(o, e, t), good'
  PROVE  Mem!Begin(o, e, t)
<1>0. ~failed
  BY DEF Begin
<1>1. /\ o \in Nat /\ o < file.size /\ file.size \in Nat /\ ~failed
  BY <1>0, FileFacts DEF IInv, TypeOK
<1>2. SeekTo(o) = o /\ Got(o, BufSize) = Smaller(BufSize, file.size - o)
  BY <1>1 DEF SeekTo, Got, Larger
<1>3. 0 < Got(o, BufSize) /\ 0 \in Cells
  BY <1>1, <1>2, ConstantFacts DEF Smaller, Cells
<1>4. buf' = [k \in Cells |-> IF k < Got(o, BufSize) THEN o + k ELSE Junk]
  BY <1>2 DEF Begin
<1>5. buf'[0] = o
  BY <1>1, <1>3, <1>4
<1>6. Cursor' = o
  BY <1>5 DEF Begin, Cursor
<1> QED
  BY <1>6 DEF Begin, Mem!Begin

(* An index with room behind it for two longest integers is in the window. *)
LEMMA InCells ==
  ASSUME NEW n \in Nat, n + 2 * MaxVarInt <= BufSize
  PROVE  n \in Cells
  BY ConstantFacts DEF Cells

LEMMA LoopRefines ==
  ASSUME IInv, Loop, good, IInv'
  PROVE  Mem!Loop
<1> DEFINE c == buf[0] + length
           d == file.enc[c]
           p == file.enc[c + d.len]
<1>0. st = "loop" /\ InCall
  BY DEF Loop, BadVarInt, TableEnd, Found, Advance, InCall
<1>1. /\ buf[length] = c /\ Decoded(length) = {d} /\ d \in Mem!VarInt
      /\ HasPair(d) => Decoded(length + d.len) = {p} /\ p \in Mem!VarInt
  BY <1>0, AtCursor
<1>2. Cursor = c
  BY <1>0, <1>1 DEF Cursor
<1> HIDE DEF c
<1>3. /\ Mem!Delta = d /\ Mem!PcDelta = p
  BY <1>2 DEF Mem!Delta, Mem!PcDelta
<1>4. Mem!HasPair <=> HasPair(d)
  BY <1>3 DEF Mem!HasPair, HasPair
<1>5. Mem!NextPc = NextPc(p)
  BY <1>3 DEF Mem!NextPc, NextPc
<1> HIDE DEF d, p
<1>6. CASE BadVarInt
  <2>1. ~d.ok \/ (HasPair(d) /\ ~p.ok)
    BY <1>1, <1>6 DEF BadVarInt
  <2> QED
    BY <1>0, <1>3, <1>4, <1>6, <2>1, ReturnRefines DEF BadVarInt, Mem!BadVarInt, Mem!Loop
<1>7. CASE TableEnd
  <2>1. d.ok /\ ~HasPair(d)
    BY <1>1, <1>7 DEF TableEnd
  <2> QED
    BY <1>0, <1>3, <1>4, <1>7, <2>1, ReturnRefines DEF TableEnd, Mem!TableEnd, Mem!Loop
<1>8. CASE Found
  <2>1. HasPair(d) /\ p.ok /\ target < NextPc(p) /\ Return(val + Mem!ZigZag(d.u))
    BY <1>1, <1>8 DEF Found
  <2> QED
    BY <1>0, <1>3, <1>4, <1>5, <2>1, ReturnRefines DEF Mem!Found, Mem!Loop
<1>9. CASE Advance
  <2>1. /\ HasPair(d) /\ p.ok /\ NextPc(p) <= target
        /\ pc' = NextPc(p) /\ val' = val + Mem!ZigZag(d.u)
        /\ IF Enough(Used(d, p)) THEN Keep(Used(d, p)) ELSE Slide(Used(d, p))
    BY <1>1, <1>9 DEF Advance
  <2>2. Used(d, p) \in Nat /\ 1 <= Used(d, p) /\ Used(d, p) <= BufSize
    BY <1>0, <1>1, <2>1, UsedFits DEF IInv
  <2>3. c + d.len + p.len = buf[0] + Used(d, p) /\ c + d.len + p.len \in file.marks
    BY <1>0, <1>1, <2>1, AtCursor, VarIntFacts
       DEF IInv, TypeOK, WindowShowsFile, Used, c, d, p
  <2>4. buf'[0] + length' = buf[0] + Used(d, p)
    <3>1. CASE Enough(Used(d, p))
      BY <2>1, <3>1 DEF Keep
    <3>2. CASE ~Enough(Used(d, p))
      <4>1. Slide(Used(d, p)) /\ length' = 0 /\ file' = file
        BY <1>9, <2>1, <3>2 DEF Slide, Advance
      <4>2. buf[0] + Used(d, p) < file.size /\ buf[0] + Used(d, p) \in Nat
        BY <2>3, FileFacts DEF IInv, TypeOK
      <4>3. buf'[0] = buf[0] + Used(d, p)
        BY <1>0, <2>2, <4>1, <4>2, SlideShows DEF IInv
      <4> QED
        BY <4>1, <4>2, <4>3
    <3> QED
      BY <3>1, <3>2
  <2>5. st' = "loop" /\ good' /\ file' = file
    BY <1>9, <1>0 DEF Advance
  <2>6. Cursor' = c + d.len + p.len
    <3>1. InCall'
      BY <2>5 DEF InCall
    <3>2. buf'[length'] = buf'[0] + length'
      <4>1. /\ length' \in Cells /\ buf'[0] \in Nat
            /\ \A k \in Cells : buf'[0] + k < file.size => buf'[k] = buf'[0] + k
        <5>1. length' \in Cells
          <6>1. length' \in Nat
            BY DEF IInv, TypeOK
          <6>2. length' + 2 * MaxVarInt <= BufSize
            BY <2>5 DEF IInv, Fits
          <6> QED
            BY <6>1, <6>2, InCells
        <5>2. /\ buf'[0] \in Nat
              /\ \A k \in Cells : buf'[0] + k < file.size => buf'[k] = buf'[0] + k
          BY <2>5, <3>1 DEF IInv, WindowShowsFile
        <5> QED
          BY <5>1, <5>2
      <4>2. buf'[0] + length' < file.size
        BY <2>3, <2>4, FileFacts DEF IInv, TypeOK
      <4> QED
        BY <4>1, <4>2
    <3> QED
      BY <2>3, <2>4, <2>5, <3>2 DEF Cursor
  <2> QED
    BY <1>0, <1>2, <1>3, <1>4, <1>5, <1>9, <2>1, <2>6 DEF Advance, Mem!Advance, Mem!Loop
<1> QED
  BY <1>6, <1>7, <1>8, <1>9 DEF Loop

LEMMA StepRefines ==
  IInv /\ IInv' /\ [Next]_vars => [good' => [Mem!Next]_(Mem!vars)]_vars
<1> SUFFICES ASSUME IInv, IInv', Next, good' PROVE Mem!Next
  OBVIOUS
<1>1. ASSUME NEW o \in file.starts, NEW e \in Entries, NEW t \in Targets, Begin(o, e, t)
      PROVE  Mem!Next
  BY <1>1, BeginRefines DEF Mem!Next
<1>2. CASE Loop
  <2>1. good
    BY <1>2 DEF Loop, BadVarInt, TableEnd, Found, Advance, Return
  <2> QED
    BY <1>2, <2>1, LoopRefines DEF Mem!Next
<1> QED
  BY <1>1, <1>2 DEF Next

(* A call that began on a good stream takes the steps of the decoder in    *)
(* memory, for every file and window.                                      *)
THEOREM StepsAsInMemoryHolds == Spec => StepsAsInMemory
  BY SpecIInv, StepRefines, PTL DEF Spec, StepsAsInMemory

-----------------------------------------------------------------------------
(* Where the file goes on for a whole window behind every pair.            *)
RoomyInv == Roomy(file) => ~failed /\ good

LEMMA NextRoomy == IInv /\ IInv' /\ RoomyInv /\ [Next]_vars => RoomyInv'
<1> SUFFICES ASSUME IInv, IInv', Roomy(file)', RoomyInv, [Next]_vars
             PROVE  ~failed' /\ good'
  BY DEF RoomyInv
<1>0. Roomy(file) /\ ~failed /\ good
  BY DEF RoomyInv, Roomy, Next, Loop, Begin, BadVarInt, TableEnd, Found, Advance, Return, vars
<1>w. ASSUME InCall', length' = 0 PROVE ~failed'
  <2>1. /\ buf'[0] + length' \in file'.marks /\ buf'[0] \in Nat
        /\ failed' <=> file'.size < buf'[0] + BufSize
    BY <1>w DEF IInv, WindowShowsFile, OnPair
  <2>2. file' \in Files
    BY DEF IInv, TypeOK
  <2>3. file'.size \in Nat
    BY <2>2, FileFacts
  <2>4. buf'[0] + BufSize <= file'.size
    BY <1>w, <2>1 DEF Roomy
  <2>5. ~(file'.size < buf'[0] + BufSize)
    BY <2>1, <2>3, <2>4, ConstantFacts
  <2> QED
    BY <2>1, <2>5
<1>1. ASSUME NEW o \in file.starts, NEW e \in Entries, NEW t \in Targets, Begin(o, e, t)
      PROVE  ~failed' /\ good'
  <2>1. good' /\ InCall' /\ length' = 0
    BY <1>0, <1>1 DEF Begin, InCall
  <2>2. ~failed'
    BY <2>1, <1>w
  <2> QED
    BY <2>1, <2>2
<1>2. CASE Advance
  <2>1. good' = good /\ st' = "loop"
    BY <1>2 DEF Advance
  <2>2. CASE failed' = failed
    BY <1>0, <2>1, <2>2
  <2>3. CASE length' = 0
    <3>1. InCall'
      BY <1>0, <2>1 DEF InCall
    <3> QED
      BY <1>0, <2>1, <2>3, <3>1, <1>w
  <2>4. failed' = failed \/ length' = 0
    BY <1>2 DEF Advance, Keep, Slide, stream
  <2> QED
    BY <2>2, <2>3, <2>4
<1>3. CASE BadVarInt \/ TableEnd \/ Found \/ UNCHANGED vars
  <2>1. failed' = failed /\ good' = good
    BY <1>3 DEF BadVarInt, TableEnd, Found, Return, stream, vars
  <2> QED
    BY <1>0, <2>1
<1> QED
  BY <1>1, <1>2, <1>3 DEF Next, Loop

LEMMA InitRoomy == Init => RoomyInv
  BY DEF Init, RoomyInv

THEOREM SpecRoomy == Spec => []RoomyInv
<1>1. IInv /\ IInv' /\ RoomyInv /\ [Next]_vars => RoomyInv'
  BY NextRoomy
<1> QED
  BY <1>1, InitRoomy, SpecIInv, PTL DEF Spec

(* Such a file never makes the stream fail.                                *)
THEOREM RoomyNeverFailsHolds == Spec => []RoomyNeverFails
<1>1. RoomyInv => RoomyNeverFails
  BY DEF RoomyInv, RoomyNeverFails
<1> QED
  BY <1>1, SpecRoomy, PTL

(* If all files are such files, seek::Symbol::value implements             *)
(* Symbol::value.                                                          *)
THEOREM RoomyImplementsMemory ==
  ASSUME \A f \in Files : Roomy(f)
  PROVE  Spec => ImplementsMemory
<1>1. Init => Mem!Init
  BY DEF Init, Mem!Init, Cursor
<1>2. IInv /\ IInv' /\ RoomyInv' /\ [Next]_vars => [Mem!Next]_(Mem!vars)
  <2> SUFFICES ASSUME IInv, IInv', RoomyInv', [Next]_vars
               PROVE  [Mem!Next]_(Mem!vars)
    OBVIOUS
  <2>1. CASE UNCHANGED vars
    BY <2>1 DEF vars, window, Mem!vars, Cursor
  <2>2. CASE Next
    <3>1. good'
      BY DEF RoomyInv, IInv, TypeOK
    <3>2. [good' => [Mem!Next]_(Mem!vars)]_vars
      BY StepRefines
    <3> QED
      BY <2>1, <3>1, <3>2
  <2> QED
    BY <2>1, <2>2
<1> QED
  BY <1>1, <1>2, SpecIInv, SpecRoomy, PTL DEF Spec, ImplementsMemory, Mem!Spec
=============================================================================
