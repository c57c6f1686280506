----------------------------- MODULE SeekValue -----------------------------
(***************************************************************************)
(* seek::Symbol::value (src/src/symbol/symbol.cpp): the pc-value decoder   *)
(* of module PcValue over a file stream.  It reads the table through a     *)
(* window of BufSize bytes: when fewer than two longest integers are left  *)
(* it moves the rest to the front and refills the tail.                    *)
(*                                                                         *)
(* The window's content is abstracted to where each byte came from: buf[k] *)
(* is the file position whose byte buf[k] holds, or Junk for a byte that   *)
(* was never written.  Decoding is right exactly when the bytes it         *)
(* examines are consecutive bytes of the file.                             *)
(*                                                                         *)
(* The stream belongs to the SymbolTable and outlives the call.  A read    *)
(* that meets the end of the file sets failbit, and nothing in the library *)
(* clears it: from then on seekg and read do nothing.                      *)
(***************************************************************************)
EXTENDS Integers

CONSTANTS
  Files, Entries, Targets, Quantum, MaxVarInt,
  BufSize,    \* sizeof(buffer): 1024 in the code
  Garbage     \* a sample of what uninitialized or misplaced bytes decode to

VARIABLES
  file, st, start, entry, target, val, pc, ans,   \* as in PcValue
  buf,        \* the local array buffer
  length,     \* bytes of buf already consumed
  spos,       \* position of the file stream
  failed,     \* failbit of the file stream
  good        \* history: the stream had not failed when the call began

Junk == -1

stream == <<spos, failed>>
window == <<buf, length>>
vars == <<file, st, start, entry, target, val, pc, ans, window, stream, good>>

(* The abstract decoder stands where the window's cursor does.             *)
Cursor == IF st = "loop" THEN buf[length] ELSE 0
Mem == INSTANCE PcValue WITH pos <- Cursor

(* As in PcValue.                                                          *)
ASSUME CallAssumption ==
  /\ Entries \subseteq Nat
  /\ Targets \subseteq Nat
  /\ Quantum \in Nat \ {0}
  /\ MaxVarInt \in Nat \ {0}

ASSUME FilesAssumption == \A f \in Files : Mem!IsFile(f) /\ Mem!WellFormed(f)

(* The window holds four longest integers: 1024 bytes to 40 in the code.   *)
ASSUME WindowAssumption ==
  /\ BufSize \in Nat
  /\ 4 * MaxVarInt <= BufSize
  /\ Garbage \subseteq Mem!VarInt

Cells == 0..(BufSize - 1)
Smaller(a, b) == IF a < b THEN a ELSE b
Larger(a, b) == IF a < b THEN b ELSE a

(***************************************************************************)
(* std::ifstream, as the decoder uses it.                                  *)
(***************************************************************************)
SeekTo(p) == IF failed THEN spos ELSE p
Got(at, n) == IF failed THEN 0 ELSE Smaller(n, Larger(file.size - at, 0))
AfterRead(at, n) ==
  /\ spos' = at + Got(at, n)
  /\ failed' = (failed \/ Got(at, n) < n)

EmptyWindow == [k \in Cells |-> Junk]

Init ==
  /\ file \in Files
  /\ st = "idle"
  /\ start = 0 /\ entry = 0 /\ target = 0
  /\ val = -1 /\ pc = 0 /\ ans = -1
  /\ buf = EmptyWindow /\ length = 0
  /\ spos = 0 /\ failed = FALSE
  /\ good = TRUE

Begin(o, e, t) ==
  /\ st = "idle"
  /\ st' = "loop"
  /\ start' = o /\ entry' = e /\ target' = t
  /\ val' = -1 /\ pc' = e
  /\ LET at == SeekTo(o)
     IN  /\ buf' = [k \in Cells |-> IF k < Got(at, BufSize) THEN at + k ELSE Junk]
         /\ AfterRead(at, BufSize)
  /\ length' = 0
  /\ good' = ~failed
  /\ UNCHANGED <<file, ans>>

(* The bytes that decoding at index i examines are those the file holds    *)
(* from position buf[i] on.                                                *)
Intact(i) ==
  /\ i \in Cells
  /\ buf[i] \in DOMAIN file.enc
  /\ LET n == file.enc[buf[i]].len
     IN  /\ i + n <= BufSize
         /\ \A k \in 0..(n - 1) : buf[i + k] = buf[i] + k

(* binary::uVarInt(buffer + i).                                            *)
Decoded(i) == IF Intact(i) THEN {file.enc[buf[i]]} ELSE Garbage

(* Mutant: a zero change ends the table even in its first pair.            *)
HasPairNeverFirst(d) == d.ok /\ d.u # 0

(* The body of the loop decodes d, then p right behind it.                 *)
HasPair(d) == d.ok /\ (d.u # 0 \/ pc = entry)
NextPc(p) == pc + p.u * Quantum
Used(d, p) == length + d.len + p.len

Return(v) ==
  /\ st' = "idle"
  /\ ans' = v
  /\ val' = -1 /\ pc' = 0
  /\ buf' = EmptyWindow /\ length' = 0
  /\ UNCHANGED <<file, start, entry, target, stream, good>>

(* Mutant: an undecodable integer is skipped with a continue.              *)
BadVarIntContinues ==
  /\ st = "loop"
  /\ \E d \in Decoded(length) : ~d.ok
  /\ UNCHANGED vars

BadVarInt ==
  /\ st = "loop"
  /\ \E d \in Decoded(length) :
       \/ ~d.ok
       \/ HasPair(d) /\ \E p \in Decoded(length + d.len) : ~p.ok
  /\ Return(-1)

TableEnd ==
  /\ st = "loop"
  /\ \E d \in Decoded(length) : d.ok /\ ~HasPair(d)
  /\ Return(-1)

Found ==
  /\ st = "loop"
  /\ \E d \in Decoded(length) :
       /\ HasPair(d)
       /\ \E p \in Decoded(length + d.len) : p.ok /\ target < NextPc(p)
       /\ Return(val + Mem!ZigZag(d.u))

(* Mutants: room for one integer is enough; the window moves too early.    *)
EnoughForOne(n) == BufSize - n >= MaxVarInt
EnoughForFour(n) == BufSize - n >= 4 * MaxVarInt

(* Two longest integers still fit behind the first n bytes of the window.  *)
Enough(n) == BufSize - n >= 2 * MaxVarInt

(* Mutant: the tail is read without moving the rest to the front.          *)
RefilledInPlace(n) ==
  [k \in Cells |->
     IF k < BufSize - n THEN buf[k]
     ELSE IF k < BufSize - n + Got(spos, n) THEN spos + (k - (BufSize - n))
     ELSE buf[k]]

(* memcpy of the rest to the front, then read of the tail: a byte the read *)
(* does not deliver keeps what the window held there.                      *)
Refilled(n) ==
  [k \in Cells |->
     IF k < BufSize - n THEN buf[k + n]
     ELSE IF k < BufSize - n + Got(spos, n) THEN spos + (k - (BufSize - n))
     ELSE buf[k]]

(* Mutant: the refill asks for a whole buffer.                             *)
SlideWhole(n) ==
  /\ buf' = Refilled(n)
  /\ AfterRead(spos, BufSize)
  /\ length' = 0

Slide(n) ==
  /\ buf' = Refilled(n)
  /\ AfterRead(spos, n)
  /\ length' = 0

Keep(n) ==
  /\ length' = n
  /\ UNCHANGED <<buf, stream>>

Advance ==
  /\ st = "loop"
  /\ \E d \in Decoded(length) :
       /\ HasPair(d)
       /\ \E p \in Decoded(length + d.len) :
            /\ p.ok /\ NextPc(p) <= target
            /\ pc' = NextPc(p)
            /\ IF Enough(Used(d, p)) THEN Keep(Used(d, p)) ELSE Slide(Used(d, p))
       /\ val' = val + Mem!ZigZag(d.u)
  /\ UNCHANGED <<file, st, start, entry, target, ans, good>>

Loop == BadVarInt \/ TableEnd \/ Found \/ Advance

Next ==
  \/ \E o \in file.starts, e \in Entries, t \in Targets : Begin(o, e, t)
  \/ Loop

Spec == Init /\ [][Next]_vars

(* The loop is a plain sequential while: once entered it keeps running.    *)
FairSpec == Spec /\ WF_vars(Loop)

-----------------------------------------------------------------------------
TypeOK ==
  /\ file \in Files
  /\ st \in {"idle", "loop"}
  /\ start \in Nat /\ entry \in Nat /\ target \in Nat
  /\ val \in Int /\ pc \in Nat /\ ans \in Int
  /\ buf \in [Cells -> Int] /\ length \in Nat
  /\ spos \in Nat /\ failed \in BOOLEAN
  /\ good \in BOOLEAN

InCall == st = "loop" /\ good

(* In a call that began on a good stream the window shows the file: from   *)
(* its first byte's position on, as far as the file goes, every byte is    *)
(* the one of the next position.  No refill loses, repeats or shifts any.  *)
WindowShowsFile ==
  InCall =>
    /\ buf[0] \in Nat
    /\ \A k \in Cells : buf[0] + k < file.size => buf[k] = buf[0] + k
    /\ spos = Smaller(buf[0] + BufSize, file.size)
    /\ failed <=> file.size < buf[0] + BufSize

(* Decoding never runs into the end of the window, nor into bytes the file *)
(* did not deliver: two longest integers always fit behind the cursor.     *)
CursorIntact ==
  InCall =>
    /\ length + 2 * MaxVarInt <= BufSize
    /\ Intact(length)
    /\ \A d \in Decoded(length) : HasPair(d) => Intact(length + d.len)

(* When the window moves, memcpy's source and destination do not overlap   *)
(* and its byte count, an unsigned difference, does not wrap.              *)
MoveIsSafe ==
  st = "loop" =>
    \A d \in Decoded(length) : \A p \in Decoded(length + d.len) :
      ~Enough(Used(d, p)) =>
        /\ Used(d, p) <= BufSize
        /\ BufSize - Used(d, p) <= Used(d, p)

(* Every step of a call that began on a good stream is a step of the       *)
(* decoder that reads the table in memory, even when the call itself meets *)
(* the end of the file.                                                    *)
StepsAsInMemory == [][good' => [Mem!Next]_(Mem!vars)]_vars

(* Every call that began on a good stream returns.                         *)
Answers == InCall ~> st = "idle"

(* The file continues for a whole window behind every pair of its tables.  *)
Roomy(f) == \A m \in f.marks : m + BufSize <= f.size

(* In such a file the stream never fails...                                *)
RoomyNeverFails == Roomy(file) => ~failed

(* ... and seek::Symbol::value implements Symbol::value.                   *)
ImplementsMemory == Mem!Spec
=============================================================================
