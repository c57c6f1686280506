-------------------------- MODULE SeekSymbolProofs --------------------------
(***************************************************************************)
(* For every set of files, addresses and contents of uninitialized         *)
(* integers: what seek::Symbol answers over its sticky stream, and that it *)
(* implements Symbol on files with room behind their tables.               *)
(***************************************************************************)
EXTENDS SeekSymbol, TLAPS

Index == Mem!FileIndex(file, op.sym, op.pc)
Late == {"file", "offset", "line"}

(* What has been read of a call's arguments is right.                      *)
ArgsRight ==
  /\ op.name \in {"name", "isStackTop"} => todo \subseteq {"field"}
  /\ op.name = "entry" => todo = {"entry"}
  /\ op.name = "frameSize" => todo \in {{"field"}, {"entry"}, {}}
  /\ op.name # "entry" /\ "field" \notin todo => field = Mem!Field(file, op.sym, FieldOf(op.name))
  /\ op.name = "frameSize" /\ "field" \notin todo => field # 0
  /\ op.name \in {"sourceLine", "sourceFile"} /\ "entry" \notin todo => entry = Mem!Entry(file, op.sym)
  /\ op.name = "frameSize" /\ todo = {} => entry = Mem!Entry(file, op.sym)

(* So are the locals of sourceFile.                                        *)
LateRight ==
  /\ n = Index /\ Mem!HasFile(file, Index)
  /\ st = "offset" => field = Mem!OffsetAt(file, op.sym, Index)
  /\ st = "line" =>
       /\ field = file.word[Mem!OffsetAt(file, op.sym, Index)]
       /\ ~Mem!NoName(file, field)

(* What a call may return, if bad says whether the stream has failed then. *)
AnswerOK(v, bad) ==
  /\ good /\ (op.name = "sourceFile" => ~bad) => v = Mem!Result(file, op)
  /\ op.name \in {"name", "sourceFile"} => v \in {"", Mem!Result(file, op)}
  /\ op.name = "isStackTop" => v \in {FALSE, Mem!Result(file, op)}
  /\ ~good /\ op.name \in {"name", "sourceFile"} => v = ""
  /\ ~good /\ op.name = "isStackTop" => v = FALSE

IInv ==
  /\ TypeOK
  /\ st \in Late => op.name = "sourceFile"
  /\ st # "idle" /\ ~good => failed
  /\ st = "args" /\ good => ~failed /\ ArgsRight
  /\ st \in Late /\ ~failed => LateRight
  /\ Returned => AnswerOK(ans, failed)

-----------------------------------------------------------------------------
(* Reads of what the linker wrote, on a good stream.                       *)
LEMMA ReadWordRight ==
  ASSUME NEW p, NEW bytes, NEW initial, ~failed, WordIn(file, p, bytes)
  PROVE  ReadWord(p, bytes, initial) = {Outcome(file.word[p], FALSE)}
BY DEF ReadWord

LEMMA ReadWordFailed ==
  ASSUME NEW p, NEW bytes, NEW initial, failed, NEW r \in ReadWord(p, bytes, initial)
  PROVE  r.failed = TRUE
BY DEF ReadWord, Outcome

LEMMA ReadWordBool ==
  ASSUME NEW p, NEW bytes, NEW initial, NEW r \in ReadWord(p, bytes, initial)
  PROVE  r.failed \in BOOLEAN
<1>1. CASE failed
  BY <1>1, ReadWordFailed
<1>2. CASE ~failed /\ WordIn(file, p, bytes)
  <2>1. r = Outcome(file.word[p], FALSE)
    BY <1>2 DEF ReadWord
  <2> QED BY <2>1 DEF Outcome
<1>3. CASE ~failed /\ ~WordIn(file, p, bytes)
  <2>1. PICK x \in Garbage, f \in BOOLEAN : r = Outcome(x, f)
    BY <1>3 DEF ReadWord
  <2> QED BY <2>1 DEF Outcome
<1> QED BY <1>1, <1>2, <1>3

LEMMA GetLineRight ==
  ASSUME NEW p, ~failed, TextIn(file, p)
  PROVE  GetLine(p) = {Outcome(file.text[p].says, FALSE)}
BY DEF GetLine

LEMMA GetLineFailed == ASSUME NEW p, failed PROVE GetLine(p) = {Outcome("", TRUE)}
BY DEF GetLine

LEMMA GetLineAny ==
  ASSUME NEW p, NEW r \in GetLine(p)
  PROVE  /\ r.failed \in BOOLEAN
         /\ failed => r.got = "" /\ r.failed = TRUE
<1>1. CASE failed
  <2>1. r = Outcome("", TRUE)
    BY <1>1, GetLineFailed
  <2> QED BY <2>1 DEF Outcome
<1>2. CASE ~failed /\ TextIn(file, p)
  <2>1. r = Outcome(file.text[p].says, FALSE)
    BY <1>2 DEF GetLine
  <2> QED BY <1>2, <2>1 DEF Outcome
<1>3. CASE ~failed /\ ~TextIn(file, p)
  <2>1. PICK x \in Texts, f \in BOOLEAN : r = Outcome(x, f)
    BY <1>3 DEF GetLine
  <2> QED BY <1>3, <2>1 DEF Outcome
<1> QED BY <1>1, <1>2, <1>3

LEMMA ValueFailed ==
  ASSUME NEW o, NEW e, NEW t, failed, NEW r \in ValueOf(o, e, t)
  PROVE  r.failed = TRUE
BY DEF ValueOf, Outcome

LEMMA ValueAny ==
  ASSUME NEW o, NEW e, NEW t, NEW r \in ValueOf(o, e, t)
  PROVE  /\ r.failed \in BOOLEAN
         /\ failed => r.failed = TRUE
         /\ ~failed /\ <<o, e>> \in DOMAIN file.value => r.got = Mem!Value(file, o, e, t)
<1>1. CASE failed
  BY <1>1, ValueFailed
<1>2. CASE ~failed /\ <<o, e>> \in DOMAIN file.value
  <2>1. PICK f \in Ends(o, e) : r = Outcome(Mem!Value(file, o, e, t), f)
    BY <1>2 DEF ValueOf
  <2>2. f \in BOOLEAN
    BY DEF Ends
  <2> QED BY <1>2, <2>1, <2>2 DEF Outcome
<1>3. CASE ~failed /\ <<o, e>> \notin DOMAIN file.value
  <2>1. PICK x \in Anything, f \in BOOLEAN : r = Outcome(x, f)
    BY <1>3 DEF ValueOf
  <2> QED BY <1>3, <2>1 DEF Outcome
<1> QED BY <1>1, <1>2, <1>3

(* What the assumption on files says of the function a call is about.      *)
LEMMA CallLinked ==
  ASSUME file \in Files, op \in Mem!Calls(file)
  PROVE  /\ op.name \in Mem!Operations /\ op.sym \in file.funcs /\ op.pc \in Pcs
         /\ Linked(file, op.sym)
BY FilesAssumption DEF Mem!Calls

(* The same arithmetic on both sides.                                      *)
LEMMA SameFields ==
  /\ EntrySize = Mem!EntrySize(file)
  /\ \A k : FieldAt(k) = Mem!FieldAt(file, op.sym, k)
  /\ \A k : HasFile(k) = Mem!HasFile(file, k)
BY DEF EntrySize, FieldAt, HasFile, Mem!EntrySize, Mem!FieldAt, Mem!HasFile

-----------------------------------------------------------------------------
LEMMA InitIInv == Init => IInv
BY DEF Init, IInv, TypeOK, Late, Returned

(* A step that returns an answer a call may return.                        *)
LEMMA ReturnKeeps ==
  ASSUME IInv, st # "idle", NEW v, Return(v), failed' \in BOOLEAN, AnswerOK(v, failed')
  PROVE  IInv'
<1>1. TypeOK'
  BY DEF IInv, TypeOK, Return
<1>2. AnswerOK(v, failed') => AnswerOK(ans, failed)'
  BY DEF Return, AnswerOK
<1> QED BY <1>1, <1>2 DEF IInv, Return, Late

LEMMA BeginIInv == ASSUME IInv, NEW c \in Mem!Calls(file), Begin(c) PROVE IInv'
<1>1. TypeOK'
  BY DEF IInv, TypeOK, Begin, First
<1>2. c.name \in Mem!Operations
  BY DEF Mem!Calls
<1>3. ArgsRight'
  BY <1>2 DEF Begin, ArgsRight, First, Mem!Operations
<1> QED BY <1>1, <1>3 DEF IInv, Begin, TypeOK, Late, Returned

(* Reads of a call that began on a good stream.                            *)
LEMMA FieldRead ==
  ASSUME IInv, good, st = "args", "field" \in todo,
         NEW r \in ReadWord(FieldAt(FieldOf(op.name)), 4, Garbage)
  PROVE  ~r.failed /\ r.got = Mem!Field(file, op.sym, FieldOf(op.name)) /\ ArgsRight /\ op.name # "entry"
<1>1. ~failed /\ ArgsRight /\ file \in Files /\ op \in Mem!Calls(file)
  BY DEF IInv, TypeOK
<1>2. op.name # "entry" /\ op.name \in Mem!Operations /\ Linked(file, op.sym)
  BY <1>1, CallLinked DEF ArgsRight
<1>3. FieldOf(op.name) \in {1, 4, 5, 6}
  BY DEF FieldOf
<1>4. WordIn(file, FieldAt(FieldOf(op.name)), 4)
  BY <1>2, <1>3, SameFields DEF Linked
<1>5. r = Outcome(file.word[FieldAt(FieldOf(op.name))], FALSE)
  BY <1>1, <1>4, ReadWordRight
<1> QED BY <1>1, <1>2, <1>5, SameFields DEF Outcome, Mem!Field

LEMMA EntryRead ==
  ASSUME IInv, good, st = "args", "entry" \in todo, NEW r \in ReadWord(op.sym, EntrySize, EntryInitial)
  PROVE  ~r.failed /\ (file.base + r.got) % Space = Mem!Entry(file, op.sym) /\ ArgsRight
<1>1. ~failed /\ ArgsRight /\ file \in Files /\ op \in Mem!Calls(file)
  BY DEF IInv, TypeOK
<1>2. WordIn(file, op.sym, EntrySize)
  BY <1>1, CallLinked, SameFields DEF Linked
<1>3. r = Outcome(file.word[op.sym], FALSE)
  BY <1>1, <1>2, ReadWordRight
<1> QED BY <1>1, <1>3 DEF Outcome, Mem!Entry

LEMMA NameRead ==
  ASSUME IInv, good, st = "args", todo = {}, op.name \in {"name", "isStackTop"},
         NEW r \in GetLine(file.funcNameTable + field)
  PROVE  ~r.failed /\ r.got = file.text[Mem!NameAt(file, op.sym)].says
<1>1. ~failed /\ ArgsRight /\ file \in Files /\ op \in Mem!Calls(file)
  BY DEF IInv, TypeOK
<1>2. file.funcNameTable + field = Mem!NameAt(file, op.sym)
  BY <1>1 DEF ArgsRight, FieldOf, Mem!NameAt
<1>3. TextIn(file, file.funcNameTable + field)
  BY <1>1, <1>2, CallLinked DEF Linked
<1> QED BY <1>1, <1>2, <1>3, GetLineRight DEF Outcome

LEMMA ReadFieldIInv == ASSUME IInv, ReadField PROVE IInv'
<1>1. PICK r \in ReadWord(FieldAt(FieldOf(op.name)), 4, Garbage) :
        /\ failed' = r.failed
        /\ IF op.name = "frameSize" /\ r.got = 0 THEN Return(0)
           ELSE /\ field' = r.got
                /\ todo' = IF op.name = "frameSize" THEN {"entry"} ELSE todo \ {"field"}
                /\ UNCHANGED <<file, op, ans, st, entry, n, good>>
  BY DEF ReadField
<1>2. st = "args" /\ "field" \in todo /\ file \in Files /\ op \in Mem!Calls(file) /\ good \in BOOLEAN
  BY DEF ReadField, IInv, TypeOK
<1>3. failed' \in BOOLEAN /\ (failed => failed' = TRUE)
  BY <1>1, ReadWordBool, ReadWordFailed
<1>4. ASSUME good
      PROVE  ~failed' /\ r.got = Mem!Field(file, op.sym, FieldOf(op.name)) /\ ArgsRight /\ op.name # "entry"
  BY <1>1, <1>2, <1>4, FieldRead
<1>5. CASE op.name = "frameSize" /\ r.got = 0
  <2>1. good => Mem!Result(file, op) = 0
    BY <1>4, <1>5 DEF Mem!Result, Mem!FrameSize, FieldOf
  <2>2. AnswerOK(0, failed')
    BY <1>5, <2>1 DEF AnswerOK
  <2> QED BY <1>1, <1>2, <1>3, <1>5, <2>2, ReturnKeeps
<1>6. CASE ~(op.name = "frameSize" /\ r.got = 0)
  <2>1. /\ field' = r.got
        /\ todo' = IF op.name = "frameSize" THEN {"entry"} ELSE todo \ {"field"}
        /\ UNCHANGED <<file, op, ans, st, entry, n, good>>
    BY <1>1, <1>6
  <2>2. TypeOK'
    BY <1>2, <1>3, <2>1 DEF IInv, TypeOK
  <2>3. good => ArgsRight'
    BY <1>2, <1>4, <1>6, <2>1 DEF ArgsRight
  <2> QED BY <1>2, <1>3, <1>4, <2>1, <2>2, <2>3 DEF IInv, Late, Returned
<1> QED BY <1>5, <1>6

LEMMA ReadEntryIInv == ASSUME IInv, ReadEntry PROVE IInv'
<1> DEFINE e(r) == (file.base + r.got) % Space
<1>1. PICK r \in ReadWord(op.sym, EntrySize, EntryInitial) :
        /\ failed' = r.failed
        /\ IF op.name = "entry" THEN Return(e(r))
           ELSE /\ entry' = e(r)
                /\ todo' = todo \ {"entry"}
                /\ UNCHANGED <<file, op, ans, st, field, n, good>>
  BY DEF ReadEntry
<1>2. st = "args" /\ "entry" \in todo /\ file \in Files /\ op \in Mem!Calls(file) /\ good \in BOOLEAN
  BY DEF ReadEntry, IInv, TypeOK
<1>3. failed' \in BOOLEAN /\ (failed => failed' = TRUE)
  BY <1>1, ReadWordBool, ReadWordFailed
<1>4. ASSUME good PROVE ~failed' /\ e(r) = Mem!Entry(file, op.sym) /\ ArgsRight
  BY <1>1, <1>2, <1>4, EntryRead
<1> HIDE DEF e
<1>5. CASE op.name = "entry"
  <2>1. good => Mem!Result(file, op) = e(r)
    BY <1>4, <1>5 DEF Mem!Result
  <2>2. AnswerOK(e(r), failed')
    BY <1>5, <2>1 DEF AnswerOK
  <2> QED BY <1>1, <1>2, <1>3, <1>5, <2>2, ReturnKeeps
<1>6. CASE op.name # "entry"
  <2>1. entry' = e(r) /\ todo' = todo \ {"entry"} /\ UNCHANGED <<file, op, ans, st, field, n, good>>
    BY <1>1, <1>6
  <2>2. TypeOK'
    BY <1>2, <1>3, <2>1 DEF IInv, TypeOK
  <2>3. good => ArgsRight'
    BY <1>2, <1>4, <1>6, <2>1 DEF ArgsRight
  <2> QED BY <1>2, <1>3, <1>4, <2>1, <2>2, <2>3 DEF IInv, Late, Returned
<1> QED BY <1>5, <1>6

LEMMA ReadNameIInv == ASSUME IInv, ReadName PROVE IInv'
<1> DEFINE v(r) == IF op.name = "name" THEN r.got ELSE r.got \in StackTop
<1>1. PICK r \in GetLine(file.funcNameTable + field) : failed' = r.failed /\ Return(v(r))
  BY DEF ReadName
<1>2. /\ st = "args" /\ todo = {} /\ op.name \in {"name", "isStackTop"}
      /\ file \in Files /\ op \in Mem!Calls(file) /\ good \in BOOLEAN
  BY DEF ReadName, IInv, TypeOK
<1>3. failed' \in BOOLEAN /\ (failed => r.got = "")
  BY <1>1, GetLineAny
<1>4. ASSUME good PROVE r.got = file.text[Mem!NameAt(file, op.sym)].says
  BY <1>1, <1>2, <1>4, NameRead
<1>5. good => Mem!Result(file, op) = v(r)
  BY <1>2, <1>4 DEF Mem!Result
<1>6. ~good => r.got = ""
  BY <1>2, <1>3 DEF IInv
<1> HIDE DEF v
<1>7. ASSUME ~good, op.name = "name" PROVE v(r) = ""
  BY <1>6, <1>7 DEF v
<1>8. ASSUME ~good, op.name # "name" PROVE v(r) = FALSE
  <2> DEFINE b == r.got \in StackTop
  <2>1. v(r) = b
    BY <1>8, Zenon DEF v
  <2>2. r.got \notin StackTop
    BY <1>6, <1>8, StackTopAssumption
  <2>3. b = FALSE
    BY <2>2
  <2> HIDE DEF b
  <2> QED BY <2>1, <2>3
<1>9. AnswerOK(v(r), failed')
  BY <1>2, <1>5, <1>7, <1>8 DEF AnswerOK
<1> QED BY <1>1, <1>2, <1>3, <1>9, ReturnKeeps

(* On a good stream value() gets the arguments the table in memory gives.  *)
LEMMA ValueRight ==
  ASSUME file \in Files, op \in Mem!Calls(file), ~failed, ArgsRight, todo = {},
         op.name \in {"frameSize", "sourceLine", "sourceFile"},
         NEW r \in ValueOf(field, entry, op.pc)
  PROVE  LET k == FieldOf(op.name)
         IN  /\ k \in {4, 5, 6} /\ (k = 4 => Mem!Field(file, op.sym, k) # 0)
             /\ r.got = Mem!Value(file, Mem!Field(file, op.sym, k), Mem!Entry(file, op.sym), op.pc)
             /\ <<field, entry>> \in DOMAIN file.value
<1> DEFINE k == FieldOf(op.name)
<1>1. k \in {4, 5, 6} /\ (k = 4 <=> op.name = "frameSize")
  BY DEF FieldOf
<1>2. field = Mem!Field(file, op.sym, k) /\ entry = Mem!Entry(file, op.sym)
  BY DEF ArgsRight
<1>3. k = 4 => field # 0
  BY <1>1 DEF ArgsRight
<1> HIDE DEF k
<1>4. Linked(file, op.sym)
  BY CallLinked
<1>5. <<field, entry>> \in DOMAIN file.value
  BY <1>1, <1>2, <1>3, <1>4 DEF Linked, TableIn
<1>6. r.got = Mem!Value(file, field, entry, op.pc)
  BY <1>5, ValueAny
<1> QED BY <1>1, <1>2, <1>3, <1>5, <1>6 DEF k

LEMMA CallValueIInv == ASSUME IInv, CallValue PROVE IInv'
<1>1. PICK r \in ValueOf(field, entry, op.pc) :
        /\ failed' = r.failed
        /\ CASE op.name = "frameSize" -> Return(Mem!Aligned(file, r.got))
             [] op.name = "sourceLine" -> Return(r.got)
             [] OTHER -> IF HasFile(r.got) THEN GoOn("file") /\ n' = r.got /\ field' = 0
                         ELSE Return("")
  BY DEF CallValue
<1>2. /\ st = "args" /\ todo = {} /\ op.name \in {"frameSize", "sourceLine", "sourceFile"}
      /\ file \in Files /\ op \in Mem!Calls(file) /\ good \in BOOLEAN
  BY DEF CallValue, IInv, TypeOK
<1>3. failed' \in BOOLEAN /\ (failed => failed' = TRUE)
  BY <1>1, ValueAny
<1> DEFINE k == FieldOf(op.name)
<1> DEFINE right == Mem!Value(file, Mem!Field(file, op.sym, k), Mem!Entry(file, op.sym), op.pc)
<1>4. ASSUME good PROVE (k = 4 => Mem!Field(file, op.sym, k) # 0) /\ r.got = right
  <2>1. ~failed /\ ArgsRight
    BY <1>2, <1>4 DEF IInv
  <2> QED BY <1>1, <1>2, <2>1, ValueRight
<1>5. CASE op.name = "frameSize"
  <2>1. good => Mem!Result(file, op) = Mem!Aligned(file, r.got)
    BY <1>4, <1>5 DEF Mem!Result, Mem!FrameSize, FieldOf
  <2>2. AnswerOK(Mem!Aligned(file, r.got), failed')
    BY <1>5, <2>1 DEF AnswerOK
  <2>3. Return(Mem!Aligned(file, r.got))
    BY <1>1, <1>5
  <2> QED BY <1>1, <1>2, <1>3, <2>2, <2>3, ReturnKeeps
<1>6. CASE op.name = "sourceLine"
  <2>1. good => Mem!Result(file, op) = r.got
    BY <1>4, <1>6 DEF Mem!Result, FieldOf
  <2>2. AnswerOK(r.got, failed')
    BY <1>6, <2>1 DEF AnswerOK
  <2>3. Return(r.got)
    BY <1>1, <1>6
  <2> QED BY <1>1, <1>2, <1>3, <2>2, <2>3, ReturnKeeps
<1>7. CASE op.name = "sourceFile"
  <2>1. good => r.got = Index
    BY <1>4, <1>7 DEF FieldOf, Index, Mem!FileIndex
  <2>2. CASE ~HasFile(r.got)
    <3>1. good => Mem!Result(file, op) = ""
      BY <1>7, <2>1, <2>2, SameFields DEF Mem!Result, Mem!SourceFile, Index
    <3>2. AnswerOK("", failed')
      BY <1>7, <3>1 DEF AnswerOK
    <3>3. Return("")
      BY <1>1, <1>7, <2>2
    <3> QED BY <1>1, <1>2, <1>3, <3>2, <3>3, ReturnKeeps
  <2>3. CASE HasFile(r.got)
    <3>1. st' = "file" /\ UNCHANGED <<file, op, ans, todo, entry, good>> /\ n' = r.got /\ field' = 0
      BY <1>1, <1>7, <2>3 DEF GoOn
    <3>2. TypeOK'
      BY <1>2, <1>3, <3>1 DEF IInv, TypeOK
    <3>3. ~failed' => LateRight'
      <4>1. ~failed' => good
        BY <1>2, <1>3 DEF IInv
      <4>2. good => n' = Index' /\ Mem!HasFile(file, Index)'
        BY <2>1, <2>3, <3>1, SameFields DEF Index
      <4> QED BY <3>1, <4>1, <4>2 DEF LateRight
    <3>4. ~good => failed'
      BY <1>2, <1>3 DEF IInv
    <3> QED BY <1>2, <1>3, <1>7, <3>1, <3>2, <3>3, <3>4 DEF IInv, Late, Returned
  <2> QED BY <2>2, <2>3
<1> QED BY <1>2, <1>5, <1>6, <1>7

-----------------------------------------------------------------------------
(* What the linker wrote of the source file of the function at hand.       *)
LEMMA LateLinked ==
  ASSUME IInv, st \in Late, ~failed
  PROVE  /\ op.name = "sourceFile" /\ file \in Files /\ op \in Mem!Calls(file) /\ good = TRUE
         /\ LateRight
         /\ WordIn(file, Mem!FieldAt(file, op.sym, 8), 4)
         /\ WordIn(file, Mem!OffsetAt(file, op.sym, Index), 4)
         /\ LET offset == file.word[Mem!OffsetAt(file, op.sym, Index)]
            IN  ~Mem!NoName(file, offset) => TextIn(file, Mem!FileNameAt(file, offset))
<1>1. op.name = "sourceFile" /\ file \in Files /\ op \in Mem!Calls(file) /\ good = TRUE /\ LateRight
  BY DEF IInv, TypeOK, Late
<1>2. op.pc \in Pcs /\ Linked(file, op.sym)
  BY <1>1, CallLinked
<1>3. Mem!HasFile(file, Index)
  BY <1>1 DEF LateRight
<1> QED BY <1>1, <1>2, <1>3 DEF Linked, Index

(* A step of sourceFile that goes on.                                      *)
LEMMA GoOnKeeps ==
  ASSUME IInv, st \in Late, NEW next \in {"offset", "line"}, GoOn(next), failed' \in BOOLEAN,
         failed => failed' = TRUE, ~failed' => LateRight'
  PROVE  IInv'
<1>1. TypeOK'
  BY DEF IInv, TypeOK, GoOn, Late
<1> QED BY <1>1 DEF IInv, GoOn, Late, Returned

LEMMA UnitRead ==
  ASSUME IInv, st = "file", ~failed, NEW r \in ReadWord(FieldAt(8), 4, Garbage)
  PROVE  ~r.failed /\ r.got = Mem!Field(file, op.sym, 8) /\ LateRight
<1>1. LateRight /\ WordIn(file, Mem!FieldAt(file, op.sym, 8), 4)
  BY LateLinked DEF Late
<1>2. r = Outcome(file.word[FieldAt(8)], FALSE)
  BY <1>1, SameFields, ReadWordRight
<1> QED BY <1>1, <1>2, SameFields DEF Outcome, Mem!Field

LEMMA OffsetRead ==
  ASSUME IInv, st = "offset", ~failed, NEW r \in ReadWord(field, 4, Garbage)
  PROVE  ~r.failed /\ r.got = file.word[Mem!OffsetAt(file, op.sym, Index)] /\ LateRight
<1>1. LateRight /\ WordIn(file, Mem!OffsetAt(file, op.sym, Index), 4)
  BY LateLinked DEF Late
<1>2. field = Mem!OffsetAt(file, op.sym, Index)
  BY <1>1 DEF LateRight
<1>3. r = Outcome(file.word[field], FALSE)
  BY <1>1, <1>2, ReadWordRight
<1> QED BY <1>1, <1>2, <1>3 DEF Outcome

LEMMA FileNameRead ==
  ASSUME IInv, st = "line", ~failed,
         NEW r \in GetLine((IF file.version = "VERSION12" THEN file.funcData ELSE file.fileTable) + field)
  PROVE  ~r.failed /\ r.got = Mem!Result(file, op) /\ good = TRUE
<1> DEFINE p == (IF file.version = "VERSION12" THEN file.funcData ELSE file.fileTable) + field
<1> DEFINE offset == file.word[Mem!OffsetAt(file, op.sym, Index)]
<1>1. /\ LateRight /\ good = TRUE /\ op.name = "sourceFile"
      /\ ~Mem!NoName(file, offset) => TextIn(file, Mem!FileNameAt(file, offset))
  BY LateLinked DEF Late
<1>2. field = offset /\ ~Mem!NoName(file, offset) /\ Mem!HasFile(file, Index)
  BY <1>1 DEF LateRight
<1>3. p = Mem!FileNameAt(file, offset)
  BY <1>2 DEF Mem!FileNameAt
<1>4. r = Outcome(file.text[p].says, FALSE)
  BY <1>1, <1>2, <1>3, GetLineRight
<1>5. Mem!Result(file, op) = file.text[p].says
  BY <1>1, <1>2, <1>3 DEF Mem!Result, Mem!SourceFile, Index
<1> QED BY <1>1, <1>4, <1>5 DEF Outcome

LEMMA ReadUnitIInv == ASSUME IInv, ReadUnit PROVE IInv'
<1>1. PICK r \in ReadWord(FieldAt(8), 4, Garbage) :
        failed' = r.failed /\ field' = file.cuTable + (r.got + n) * 4
  BY DEF ReadUnit
<1>2. st = "file" /\ st \in Late /\ file.version # "VERSION12" /\ GoOn("offset") /\ n' = n
  BY DEF ReadUnit, Late
<1>3. failed' \in BOOLEAN /\ (failed => failed' = TRUE)
  BY <1>1, ReadWordBool, ReadWordFailed
<1>4. ASSUME ~failed PROVE LateRight'
  <2>1. LateRight /\ r.got = Mem!Field(file, op.sym, 8)
    BY <1>1, <1>2, <1>4, UnitRead
  <2>2. field' = Mem!OffsetAt(file, op.sym, Index)
    BY <1>1, <1>2, <2>1 DEF Mem!OffsetAt, LateRight
  <2> QED BY <1>2, <2>1, <2>2 DEF LateRight, GoOn, Index
<1> QED BY <1>2, <1>3, <1>4, GoOnKeeps

LEMMA OldUnitIInv == ASSUME IInv, OldUnit PROVE IInv'
<1>1. /\ st = "file" /\ st \in Late /\ file.version = "VERSION12" /\ GoOn("offset")
      /\ n' = n /\ failed' = failed /\ field' = file.fileTable + n * 4
  BY DEF OldUnit, Late
<1>2. failed' \in BOOLEAN /\ (failed => failed' = TRUE)
  BY <1>1 DEF IInv, TypeOK
<1>3. ASSUME ~failed PROVE LateRight'
  <2>1. LateRight
    BY <1>1, <1>3, LateLinked
  <2>2. field' = Mem!OffsetAt(file, op.sym, Index)
    BY <1>1, <2>1 DEF Mem!OffsetAt, LateRight
  <2> QED BY <1>1, <2>1, <2>2 DEF LateRight, GoOn, Index
<1> QED BY <1>1, <1>2, <1>3, GoOnKeeps

LEMMA ReadOffsetIInv == ASSUME IInv, ReadOffset PROVE IInv'
<1>1. PICK r \in ReadWord(field, 4, Garbage) :
        /\ failed' = r.failed
        /\ IF file.version # "VERSION12" /\ r.got = 0 THEN Return("")
           ELSE GoOn("line") /\ field' = r.got /\ UNCHANGED n
  BY DEF ReadOffset
<1>2. st = "offset" /\ st \in Late /\ st # "idle" /\ op.name = "sourceFile"
  BY DEF ReadOffset, Late, IInv
<1>3. failed' \in BOOLEAN /\ (failed => failed' = TRUE)
  BY <1>1, ReadWordBool, ReadWordFailed
<1>4. ASSUME ~failed
      PROVE  LateRight /\ r.got = file.word[Mem!OffsetAt(file, op.sym, Index)]
  BY <1>1, <1>2, <1>4, OffsetRead
<1>5. CASE file.version # "VERSION12" /\ r.got = 0
  <2>1. ~failed => Mem!Result(file, op) = ""
    BY <1>2, <1>4, <1>5 DEF Mem!Result, Mem!SourceFile, Mem!NoName, Index
  <2>2. AnswerOK("", failed')
    BY <1>2, <1>3, <2>1 DEF AnswerOK
  <2>3. Return("")
    BY <1>1, <1>5
  <2> QED BY <1>2, <1>3, <2>2, <2>3, ReturnKeeps
<1>6. CASE ~(file.version # "VERSION12" /\ r.got = 0)
  <2>1. GoOn("line") /\ field' = r.got /\ n' = n
    BY <1>1, <1>6
  <2>2. ASSUME ~failed PROVE LateRight'
    BY <1>4, <1>6, <2>1, <2>2 DEF LateRight, GoOn, Index, Mem!NoName
  <2> QED BY <1>2, <1>3, <2>1, <2>2, GoOnKeeps
<1> QED BY <1>5, <1>6

LEMMA ReadFileNameIInv == ASSUME IInv, ReadFileName PROVE IInv'
<1> DEFINE p == (IF file.version = "VERSION12" THEN file.funcData ELSE file.fileTable) + field
<1>1. PICK r \in GetLine(p) : failed' = r.failed /\ Return(r.got)
  BY DEF ReadFileName
<1>2. st = "line" /\ st \in Late /\ st # "idle" /\ op.name = "sourceFile"
  BY DEF ReadFileName, Late, IInv
<1>3. failed' \in BOOLEAN /\ (failed => r.got = "" /\ failed' = TRUE)
  BY <1>1, GetLineAny
<1>4. ASSUME ~failed PROVE r.got = Mem!Result(file, op) /\ good = TRUE
  BY <1>1, <1>2, <1>4, FileNameRead
<1>5. AnswerOK(r.got, failed')
  BY <1>2, <1>3, <1>4 DEF AnswerOK
<1> QED BY <1>1, <1>2, <1>3, <1>5, ReturnKeeps

-----------------------------------------------------------------------------
LEMMA NextIInv == ASSUME IInv, [Next]_vars PROVE IInv'
<1>1. CASE UNCHANGED vars
  <2>1. TypeOK'
    BY <1>1 DEF IInv, TypeOK, vars, locals
  <2>2. (ArgsRight' <=> ArgsRight) /\ (LateRight' <=> LateRight) /\ (AnswerOK(ans, failed)' <=> AnswerOK(ans, failed))
    BY <1>1 DEF vars, locals, ArgsRight, LateRight, AnswerOK, Index
  <2> QED BY <1>1, <2>1, <2>2 DEF IInv, vars, locals, Returned, Late
<1>2. CASE Next
  BY <1>2, BeginIInv, ReadFieldIInv, ReadEntryIInv, ReadNameIInv, CallValueIInv, ReadUnitIInv,
     OldUnitIInv, ReadOffsetIInv, ReadFileNameIInv DEF Next
<1> QED BY <1>1, <1>2

LEMMA SpecIInv == Spec => []IInv
BY InitIInv, NextIInv, PTL DEF Spec

(* The state of a call stays well formed: an argument is evaluated once,   *)
(* and none is left over when the call goes on or returns.                 *)
THEOREM TypeCorrect == Spec => []TypeOK
<1>1. IInv => TypeOK
  BY DEF IInv
<1> QED BY <1>1, SpecIInv, PTL

(* A call begun on a good stream answers as the table in memory does.      *)
THEOREM GoodAnswers == Spec => []AnswersAsMemory
<1>1. IInv => AnswersAsMemory
  BY DEF IInv, AnswersAsMemory, AnswerOK
<1> QED BY <1>1, SpecIInv, PTL

(* A name is right or empty, however often the stream has failed.          *)
THEOREM TextSound == Spec => []TextRightOrEmpty
<1>1. IInv => TextRightOrEmpty
  BY DEF IInv, TextRightOrEmpty, AnswerOK
<1> QED BY <1>1, SpecIInv, PTL

(* A stream that had failed before a call gives no name.                   *)
THEOREM FailedGivesNoName == Spec => []FailedIsSilent
<1>1. IInv => FailedIsSilent
  BY DEF IInv, FailedIsSilent, AnswerOK
<1> QED BY <1>1, SpecIInv, PTL

-----------------------------------------------------------------------------
(* With a window's room behind the last pair of every table.               *)
RInv == Roomy(file) => ~failed /\ good

LEMMA RoomyValue ==
  ASSUME Roomy(file), ~failed, NEW o, NEW e, NEW t, <<o, e>> \in DOMAIN file.value,
         NEW r \in ValueOf(o, e, t)
  PROVE  ~r.failed
<1>1. file.pcTable + o + BufSize <= file.size /\ file.value[<<o, e>>].last + BufSize <= file.size
  BY DEF Roomy
<1>2. Ends(o, e) = {FALSE}
  BY <1>1 DEF Ends
<1> QED BY <1>2 DEF ValueOf, Outcome

LEMMA RoomyStep == ASSUME IInv, Roomy(file), ~failed, good, Next PROVE ~failed'
<1>1. CASE \E c \in Mem!Calls(file) : Begin(c)
  BY <1>1 DEF Begin
<1>2. CASE ReadField
  BY <1>2, FieldRead DEF ReadField
<1>3. CASE ReadEntry
  BY <1>3, EntryRead DEF ReadEntry
<1>4. CASE ReadName
  BY <1>4, NameRead DEF ReadName
<1>5. CASE CallValue
  <2>1. /\ st = "args" /\ todo = {} /\ op.name \in {"frameSize", "sourceLine", "sourceFile"}
        /\ file \in Files /\ op \in Mem!Calls(file) /\ ArgsRight
    BY <1>5 DEF CallValue, IInv, TypeOK
  <2>2. PICK r \in ValueOf(field, entry, op.pc) : failed' = r.failed
    BY <1>5 DEF CallValue
  <2>3. <<field, entry>> \in DOMAIN file.value
    BY <2>1, ValueRight
  <2> QED BY <2>2, <2>3, RoomyValue
<1>6. CASE ReadUnit
  BY <1>6, UnitRead DEF ReadUnit
<1>7. CASE OldUnit
  BY <1>7 DEF OldUnit
<1>8. CASE ReadOffset
  BY <1>8, OffsetRead DEF ReadOffset
<1>9. CASE ReadFileName
  BY <1>9, FileNameRead DEF ReadFileName
<1> QED BY <1>1, <1>2, <1>3, <1>4, <1>5, <1>6, <1>7, <1>8, <1>9 DEF Next

(* What no step of a call changes, and when it answers.                    *)
LEMMA StepShape ==
  ASSUME Next
  PROVE  \/ \E c \in Mem!Calls(file) : Begin(c)
         \/ /\ st # "idle" /\ file' = file /\ op' = op /\ good' = good
            /\ st' # "idle" => ans' = ans
<1>1. CASE ReadField
  BY <1>1 DEF ReadField, Return
<1>2. CASE ReadEntry
  BY <1>2 DEF ReadEntry, Return
<1>3. CASE ReadName
  BY <1>3 DEF ReadName, Return
<1>4. CASE CallValue
  <2>1. PICK r \in ValueOf(field, entry, op.pc) :
          CASE op.name = "frameSize" -> Return(Mem!Aligned(file, r.got))
            [] op.name = "sourceLine" -> Return(r.got)
            [] OTHER -> IF HasFile(r.got) THEN GoOn("file") /\ n' = r.got /\ field' = 0
                        ELSE Return("")
    BY <1>4 DEF CallValue
  <2> QED BY <1>4, <2>1 DEF CallValue, Return, GoOn
<1>5. CASE ReadUnit
  BY <1>5 DEF ReadUnit, GoOn
<1>6. CASE OldUnit
  BY <1>6 DEF OldUnit, GoOn
<1>7. CASE ReadOffset
  BY <1>7 DEF ReadOffset, GoOn, Return
<1>8. CASE ReadFileName
  BY <1>8 DEF ReadFileName, Return
<1> QED BY <1>1, <1>2, <1>3, <1>4, <1>5, <1>6, <1>7, <1>8 DEF Next

LEMMA RoomyInv == ASSUME IInv, RInv, [Next]_vars PROVE RInv'
<1>1. CASE UNCHANGED vars
  BY <1>1 DEF vars, locals, RInv, Roomy
<1>2. CASE \E c \in Mem!Calls(file) : Begin(c)
  <2>1. file' = file /\ failed' = failed /\ (~failed => good')
    BY <1>2 DEF Begin
  <2> QED BY <2>1 DEF RInv, Roomy
<1>3. CASE Next /\ ~(\E c \in Mem!Calls(file) : Begin(c))
  <2>1. file' = file /\ good' = good
    BY <1>3, StepShape
  <2>2. Roomy(file)' <=> Roomy(file)
    BY <2>1 DEF Roomy
  <2>3. Roomy(file) => ~failed /\ good
    BY DEF RInv
  <2>4. Roomy(file) => ~failed'
    BY <1>3, <2>3, RoomyStep
  <2>5. Roomy(file)' => ~failed' /\ good'
    BY <2>1, <2>2, <2>3, <2>4
  <2> QED BY <2>5 DEF RInv
<1> QED BY <1>1, <1>2, <1>3

LEMMA SpecRInv == Spec => []RInv
<1>1. Init => RInv
  BY DEF Init, RInv
<1> QED BY <1>1, RoomyInv, SpecIInv, PTL DEF Spec

(* No sequence of calls makes a stream with room behind its tables fail.   *)
THEOREM RoomyIsSafe == Spec => []RoomyNeverFails
<1>1. RInv => RoomyNeverFails
  BY DEF RInv, RoomyNeverFails
<1> QED BY <1>1, SpecRInv, PTL

LEMMA StepImplements ==
  ASSUME IInv, IInv', RInv, RInv', [Next]_vars, Roomy(file)
  PROVE  [Mem!Next]_(Mem!vars)
<1>1. CASE UNCHANGED vars
  BY <1>1 DEF vars, locals, Mem!vars
<1>2. CASE \E c \in Mem!Calls(file) : Begin(c)
  <2>1. PICK c \in Mem!Calls(file) : Begin(c)
    BY <1>2
  <2>2. Mem!Ask(c)
    BY <2>1 DEF Begin, Mem!Ask
  <2> QED BY <2>2 DEF Mem!Next
<1>3. CASE Next /\ ~(\E c \in Mem!Calls(file) : Begin(c))
  <2>1. st # "idle" /\ file' = file /\ op' = op /\ good' = good /\ (st' # "idle" => ans' = ans)
    BY <1>3, StepShape
  <2>2. CASE st' # "idle"
    BY <2>1, <2>2 DEF Mem!vars
  <2>3. CASE st' = "idle"
    <3>1. op # None
      BY <2>1, NoneAssumption DEF IInv, TypeOK
    <3>2. Roomy(file)'
      BY <2>1 DEF Roomy
    <3>3. AnswerOK(ans, failed)' /\ ~failed' /\ good'
      BY <2>1, <2>3, <3>1, <3>2 DEF IInv, RInv, Returned
    <3>4. ans' = Mem!Result(file', op')
      BY <3>3 DEF AnswerOK
    <3>5. Mem!Answer
      BY <2>1, <2>3, <3>4 DEF Mem!Answer
    <3> QED BY <3>5 DEF Mem!Next
  <2> QED BY <2>2, <2>3
<1> QED BY <1>1, <1>2, <1>3

(* On such files seek::Symbol implements Symbol.                           *)
THEOREM SeekImplementsSymbol == Spec => ImplementsMemory
<1>1. Init => Mem!Init
  BY DEF Init, Mem!Init
<1>2. IInv /\ IInv' /\ RInv /\ RInv' /\ [Next]_vars => [Roomy(file) => [Mem!Next]_(Mem!vars)]_vars
  BY StepImplements
<1> QED BY <1>1, <1>2, SpecIInv, SpecRInv, PTL DEF Spec, ImplementsMemory

(* A program that opens no other files sees nothing but Symbol's behaviour *)
(* of a seek::Symbol.                                                      *)
COROLLARY RoomyFilesAsSymbol == (\A f \in Files : Roomy(f)) /\ Spec => Mem!Spec
<1> SUFFICES ASSUME \A f \in Files : Roomy(f)
             PROVE  Spec => Mem!Spec
  OBVIOUS
<1>1. Init => Mem!Init
  BY DEF Init, Mem!Init
<1>2. IInv => Roomy(file)
  BY DEF IInv, TypeOK
<1>3. IInv /\ IInv' /\ RInv /\ RInv' /\ [Next]_vars => [Mem!Next]_(Mem!vars)
  BY <1>2, StepImplements
<1> QED BY <1>1, <1>3, SpecIInv, SpecRInv, PTL DEF Spec, Mem!Spec

=============================================================================
