------------------------------ MODULE PcValue ------------------------------
(***************************************************************************)
(* What Symbol::value promises: the value that a pc-value table of the     *)
(* pclntab assigns to an address.  This is the code of the table that lies *)
(* in memory (src/src/symbol/symbol.cpp, Symbol::value): the cursor walks  *)
(* over pairs of variable-length integers, a change of the value and a     *)
(* change of the pc, until the pc passes the target.                       *)
(*                                                                         *)
(* Bytes are abstracted to what decoding tells apart: file.enc[p] is what  *)
(* binary::uVarInt returns for the bytes that start at position p.  The    *)
(* seek variant, which reads the same bytes through a window, is in module *)
(* SeekValue and is shown to implement this one.                           *)
(***************************************************************************)
EXTENDS Integers, Sequences

CONSTANTS
  Files,      \* the files a table may come from
  Entries,    \* the function entries a call may name
  Targets,    \* the addresses a call may ask for
  Quantum,    \* pc units per step of a table, byte 6 of the pclntab
  MaxVarInt   \* MAX_VAR_INT_LENGTH

(* One decoded integer: ok is FALSE for std::nullopt, u is the unsigned    *)
(* value and len the number of bytes examined.                             *)
VarInt == [ok : BOOLEAN, u : Nat, len : 1..MaxVarInt]

(* A file: its size, what decoding yields at each position, the positions  *)
(* where a pc table starts, those where a pair of a table starts, and what *)
(* each table says: one value per quantum of pc, from the entry on.        *)
IsFile(f) ==
  /\ f.size \in Nat
  /\ f.enc \in [0..(f.size - 1) -> VarInt]
  /\ f.starts \subseteq f.marks
  /\ f.marks \subseteq 0..(f.size - 1)
  /\ f.means \in [f.starts -> Seq(Int)]

(* The shape of the linker's tables: pairs follow each other inside the    *)
(* file, every pair moves the pc, and the table ends with a zero.          *)
WellFormed(f) ==
  \A m \in f.marks :
    LET d == f.enc[m]
        q == m + d.len
    IN  /\ q <= f.size
        /\ d.ok /\ (d.u # 0 \/ m \in f.starts) =>
             /\ q < f.size
             /\ q + f.enc[q].len <= f.size
             /\ f.enc[q].ok =>
                  /\ f.enc[q].u # 0
                  /\ q + f.enc[q].len \in f.marks

(* binary::varInt: the zigzag decoding of an unsigned value.               *)
ZigZag(u) == IF u % 2 = 1 THEN -((u \div 2) + 1) ELSE u \div 2

(* Its tables say what they mean: f.read[o] gives, for every pair of the   *)
(* table at o, the quanta that the pairs before it cover and the value of  *)
(* the last of them.  A run of quanta has one value, a table ends with the *)
(* last quantum or with an integer that does not decode.                   *)
Encodes(f) ==
  \A o \in f.starts :
    /\ DOMAIN f.read[o] \subseteq f.marks
    /\ f.read[o] \in [DOMAIN f.read[o] -> [quanta : Nat, value : Int]]
    /\ o \in DOMAIN f.read[o] /\ f.read[o][o] = [quanta |-> 0, value |-> -1]
    /\ \A m \in DOMAIN f.read[o] :
         LET r == f.read[o][m]
             d == f.enc[m]
             p == f.enc[m + d.len]
             next == [quanta |-> r.quanta + p.u, value |-> r.value + ZigZag(d.u)]
         IN  IF d.ok /\ (d.u # 0 \/ r.quanta = 0) /\ p.ok
             THEN /\ next.quanta <= Len(f.means[o])
                  /\ \A i \in (r.quanta + 1)..next.quanta : f.means[o][i] = next.value
                  /\ m + d.len + p.len \in DOMAIN f.read[o]
                  /\ f.read[o][m + d.len + p.len] = next
             ELSE Len(f.means[o]) = r.quanta

ASSUME CallAssumption ==
  /\ Entries \subseteq Nat
  /\ Targets \subseteq Nat
  /\ Quantum \in Nat \ {0}
  /\ MaxVarInt \in Nat \ {0}

ASSUME FilesAssumption == \A f \in Files : IsFile(f) /\ WellFormed(f)
(* No table is at position 0: the magic number is there.                   *)
ASSUME MeaningAssumption == \A f \in Files : Encodes(f) /\ 0 \notin f.starts

VARIABLES
  file,    \* the file, chosen once
  st,      \* "idle" between calls, "loop" inside the while loop of a call
  start,   \* the table's first position (argument offset)
  entry,   \* argument entry
  target,  \* argument target
  pos,     \* buffer: where the next pair is decoded
  val,     \* the local variable value
  pc,      \* the local variable pc
  ans      \* what the last call returned

vars == <<file, st, start, entry, target, pos, val, pc, ans>>

TypeOK ==
  /\ file \in Files
  /\ st \in {"idle", "loop"}
  /\ start \in Nat /\ entry \in Nat /\ target \in Nat
  /\ pos \in Nat /\ val \in Int /\ pc \in Nat /\ ans \in Int

Init ==
  /\ file \in Files
  /\ st = "idle"
  /\ start = 0 /\ entry = 0 /\ target = 0
  /\ pos = 0 /\ val = -1 /\ pc = 0 /\ ans = -1

Begin(o, e, t) ==
  /\ st = "idle"
  /\ st' = "loop"
  /\ start' = o /\ entry' = e /\ target' = t
  /\ pos' = o /\ val' = -1 /\ pc' = e
  /\ UNCHANGED <<file, ans>>

Delta == file.enc[pos]
PcDelta == file.enc[pos + Delta.len]

(* Mutant: a zero change ends the table even in its first pair.            *)
HasPairNeverFirst == Delta.ok /\ Delta.u # 0

(* The loop goes on to the second integer of the pair: the first decodes   *)
(* and is not the zero that ends a table.                                  *)
HasPair == Delta.ok /\ (Delta.u # 0 \/ pc = entry)

NextPc == pc + PcDelta.u * Quantum

(* The locals are gone once the call returns.                              *)
Return(v) ==
  /\ st' = "idle"
  /\ ans' = v
  /\ pos' = 0 /\ val' = -1 /\ pc' = 0
  /\ UNCHANGED <<file, start, entry, target>>

(* Mutant: an undecodable integer is skipped with a continue.              *)
BadVarIntContinues ==
  /\ st = "loop"
  /\ ~Delta.ok \/ (HasPair /\ ~PcDelta.ok)
  /\ UNCHANGED vars

BadVarInt ==
  /\ st = "loop"
  /\ ~Delta.ok \/ (HasPair /\ ~PcDelta.ok)
  /\ Return(-1)

TableEnd ==
  /\ st = "loop"
  /\ Delta.ok /\ ~HasPair
  /\ Return(-1)

Found ==
  /\ st = "loop"
  /\ HasPair /\ PcDelta.ok
  /\ target < NextPc
  /\ Return(val + ZigZag(Delta.u))

Advance ==
  /\ st = "loop"
  /\ HasPair /\ PcDelta.ok
  /\ NextPc <= target
  /\ pos' = pos + Delta.len + PcDelta.len
  /\ val' = val + ZigZag(Delta.u)
  /\ pc' = NextPc
  /\ UNCHANGED <<file, st, start, entry, target, ans>>

Loop == BadVarInt \/ TableEnd \/ Found \/ Advance

Next ==
  \/ \E o \in file.starts, e \in Entries, t \in Targets : Begin(o, e, t)
  \/ Loop

Spec == Init /\ [][Next]_vars

(* The loop is a plain sequential while: once entered it keeps running.    *)
FairSpec == Spec /\ WF_vars(Loop)

-----------------------------------------------------------------------------
(* What the table says of an address: the value of its quantum; past the   *)
(* table, or with an undecodable pair in the way, -1.  An address below    *)
(* the entry gets the first value.                                         *)
Meaning(f, o, e, t) ==
  LET i == IF t < e THEN 1 ELSE (t - e) \div Quantum + 1
  IN  IF i \in DOMAIN f.means[o] THEN f.means[o][i] ELSE -1

(* The answer of Symbol::value is what the linker encoded for the target:  *)
(* zigzag, runs, the pc comparison and the end mark all agree with it.     *)
DecodesTable == st = "idle" /\ start \in file.starts => ans = Meaning(file, start, entry, target)

(* Every call returns: the loop stops on a table, whatever the target.     *)
Answers == st = "loop" ~> st = "idle"
=============================================================================
