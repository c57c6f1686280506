---------------------------- MODULE SymbolAccess ----------------------------
(***************************************************************************)
(* The accessors of Symbol (src/src/symbol/symbol.cpp): what a caller      *)
(* learns of a function from a table in memory.  One call at a time; this  *)
(* is also the specification that seek::Symbol, which reads the same words *)
(* from a stream, is measured against (module SeekSymbol).                 *)
(*                                                                         *)
(* Positions count from the first byte of the pclntab.  f.word[p] is the   *)
(* converted integer at position p, f.text[p] the string there and the     *)
(* bytes it takes, and f.value[<<o, e>>] what the pc-value table at offset *)
(* o says for a function with entry e, which is module PcValue's subject.  *)
(***************************************************************************)
EXTENDS Integers

CONSTANTS
  Files,     \* opened tables: the members the constructor found, and the file
  Pcs,       \* the addresses a caller may ask for
  StackTop,  \* STACK_TOP_FUNCTION
  Space,     \* number of values of an uint64_t
  None

Operations == {"entry", "name", "frameSize", "sourceLine", "sourceFile", "isStackTop"}
Calls(f) == [name : Operations, sym : f.funcs, pc : Pcs]

VARIABLES
  file,     \* the table
  pending,  \* a call is under way
  op,       \* the last call
  ans       \* the result of the last call that returned

vars == <<file, pending, op, ans>>

-----------------------------------------------------------------------------
(* The record of the function at position s.                               *)
EntrySize(f) == IF f.version \in {"VERSION118", "VERSION120"} THEN 4 ELSE f.ptrSize
FieldAt(f, s, k) == s + EntrySize(f) + (k - 1) * 4
Field(f, s, k) == f.word[FieldAt(f, s, k)]
Entry(f, s) == (f.base + f.word[s]) % Space
Value(f, o, e, t) == f.value[<<o, e>>].says[t]

NameAt(f, s) == f.funcNameTable + Field(f, s, 1)

(* A size that is no multiple of a pointer's is taken for none.            *)
Aligned(f, x) == IF x = -1 \/ x % f.ptrSize # 0 THEN 0 ELSE x
FrameSize(f, s, t) ==
  IF Field(f, s, 4) = 0 THEN 0
  ELSE Aligned(f, Value(f, Field(f, s, 4), Entry(f, s), t))

(* The index of the source file, and whether there is a name for it.       *)
FileIndex(f, s, t) == Value(f, Field(f, s, 5), Entry(f, s), t)
HasFile(f, k) ==
  /\ 0 <= k /\ k <= f.fileNum
  /\ f.version = "VERSION12" => k # 0

(* Where the offset of that name is kept, and what it is an offset from.   *)
OffsetAt(f, s, k) ==
  IF f.version = "VERSION12" THEN f.fileTable + k * 4
  ELSE f.cuTable + (Field(f, s, 8) + k) * 4
NoName(f, offset) == f.version # "VERSION12" /\ offset = 0
FileNameAt(f, offset) == (IF f.version = "VERSION12" THEN f.funcData ELSE f.fileTable) + offset

SourceFile(f, s, t) ==
  LET offset == f.word[OffsetAt(f, s, FileIndex(f, s, t))]
  IN  IF ~HasFile(f, FileIndex(f, s, t)) \/ NoName(f, offset) THEN ""
      ELSE f.text[FileNameAt(f, offset)].says

Result(f, c) ==
  CASE c.name = "entry" -> Entry(f, c.sym)
    [] c.name = "name" -> f.text[NameAt(f, c.sym)].says
    [] c.name = "frameSize" -> FrameSize(f, c.sym, c.pc)
    [] c.name = "sourceLine" -> Value(f, Field(f, c.sym, 6), Entry(f, c.sym), c.pc)
    [] c.name = "sourceFile" -> SourceFile(f, c.sym, c.pc)
    [] OTHER -> f.text[NameAt(f, c.sym)].says \in StackTop

-----------------------------------------------------------------------------
Init ==
  /\ file \in Files
  /\ pending = FALSE
  /\ op = None
  /\ ans = None

Ask(c) ==
  /\ ~pending
  /\ pending' = TRUE
  /\ op' = c
  /\ UNCHANGED <<file, ans>>

Answer ==
  /\ pending
  /\ pending' = FALSE
  /\ ans' = Result(file, op)
  /\ UNCHANGED <<file, op>>

Next == (\E c \in Calls(file) : Ask(c)) \/ Answer

Spec == Init /\ [][Next]_vars
=============================================================================
