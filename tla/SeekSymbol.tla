----------------------------- MODULE SeekSymbol -----------------------------
(***************************************************************************)
(* The accessors of seek::Symbol (src/src/symbol/symbol.cpp), over the one *)
(* std::ifstream that all symbols of a seek::SymbolTable share.  Every     *)
(* read is preceded by a seek, so of the stream only its failbit outlives  *)
(* a read; nothing clears it and nothing looks at it.  On a failed stream  *)
(* seekg and read do nothing: what is then converted is an uninitialized   *)
(* local, or the zero it was given; getline yields an empty string.        *)
(*                                                                         *)
(* value() is one step here, with what module SeekValue shows of it: begun *)
(* on a good stream its result is right, and it leaves the stream failed   *)
(* if its window met the end of the file.                                  *)
(***************************************************************************)
EXTENDS Integers

CONSTANTS
  Files, Pcs, StackTop, Space, None,   \* as in SymbolAccess
  BufSize,   \* sizeof(buffer) in value(): 1024 in the code
  Garbage    \* what an uninitialized integer may hold

VARIABLES
  file, op, ans,  \* as in SymbolAccess
  st,      \* "idle", or the step the call has reached
  todo,    \* arguments that are still to be evaluated, in no given order
  field,   \* what field() returned; then the offset of a file's name
  entry,   \* what entry() returned
  n,       \* the local n of sourceFile
  failed,  \* failbit of the table's stream
  good     \* history: the stream had not failed when the call began

locals == <<todo, field, entry, n>>
vars == <<file, op, ans, st, locals, failed, good>>

Mem == INSTANCE SymbolAccess WITH pending <- st # "idle"

(* A table of a file the linker wrote: what the accessors read of a        *)
(* function lies in the file, strings with their terminator.               *)
WordIn(f, p, bytes) == p \in DOMAIN f.word /\ p + bytes <= f.size
TextIn(f, p) == p \in DOMAIN f.text /\ p + f.text[p].bytes <= f.size
TableIn(f, s, k) == <<Mem!Field(f, s, k), Mem!Entry(f, s)>> \in DOMAIN f.value

Linked(f, s) ==
  /\ WordIn(f, s, Mem!EntrySize(f))
  /\ \A k \in {1, 4, 5, 6, 8} : WordIn(f, Mem!FieldAt(f, s, k), 4)
  /\ TextIn(f, Mem!NameAt(f, s))
  /\ \A k \in {4, 5, 6} : TableIn(f, s, k) \/ (k = 4 /\ Mem!Field(f, s, 4) = 0)
  /\ \A t \in Pcs :
       LET i == Mem!FileIndex(f, s, t)
           offset == f.word[Mem!OffsetAt(f, s, i)]
       IN  Mem!HasFile(f, i) =>
             /\ WordIn(f, Mem!OffsetAt(f, s, i), 4)
             /\ Mem!NoName(f, offset) \/ TextIn(f, Mem!FileNameAt(f, offset))

ASSUME FilesAssumption == \A f \in Files : \A s \in f.funcs : Linked(f, s)
ASSUME StackTopAssumption == "" \notin StackTop
ASSUME NoneAssumption == \A f \in Files : None \notin Mem!Calls(f)

Init ==
  /\ file \in Files
  /\ op = None /\ ans = None
  /\ st = "idle"
  /\ todo = {} /\ field = 0 /\ entry = 0 /\ n = 0
  /\ failed = FALSE /\ good = TRUE

-----------------------------------------------------------------------------
(* The stream: what a seek and a read or a getline at position p give, and *)
(* whether the stream has failed then.  Only bytes of the file that hold   *)
(* something else, or none, make it anything.                              *)
Outcome(v, f) == [got |-> v, failed |-> f]

ReadWord(p, bytes, initial) ==
  IF failed THEN {Outcome(v, TRUE) : v \in initial}
  ELSE IF WordIn(file, p, bytes) THEN {Outcome(file.word[p], FALSE)}
  ELSE {Outcome(v, f) : v \in Garbage, f \in BOOLEAN}

(* What a getline among other bytes may give.                              *)
Texts == {""} \cup {file.text[p].says : p \in DOMAIN file.text}

(* Mutant: the stream is cleared before the name is read.                  *)
GetLineCleared(p) ==
  IF TextIn(file, p) THEN {Outcome(file.text[p].says, FALSE)}
  ELSE {Outcome("", TRUE)}

GetLine(p) ==
  IF failed THEN {Outcome("", TRUE)}
  ELSE IF TextIn(file, p) THEN {Outcome(file.text[p].says, FALSE)}
  ELSE {Outcome(x, f) : x \in Texts, f \in BOOLEAN}

(* The first window fails if the file ends inside it; a later one can only *)
(* if the file ends within a window of the table's last pair.              *)
Ends(o, e) ==
  IF ~(file.pcTable + o + BufSize <= file.size) THEN {TRUE}
  ELSE IF file.value[<<o, e>>].last + BufSize <= file.size THEN {FALSE}
  ELSE BOOLEAN

(* What value() makes of bytes that are no table, or are not read, if it   *)
(* returns at all: over a buffer of zeros it does not.                     *)
Anything == Garbage \cup {-1}

ValueOf(o, e, t) ==
  IF failed THEN {Outcome(v, TRUE) : v \in Anything}
  ELSE IF <<o, e>> \in DOMAIN file.value
  THEN {Outcome(Mem!Value(file, o, e, t), f) : f \in Ends(o, e)}
  ELSE {Outcome(v, f) : v \in Anything, f \in BOOLEAN}

-----------------------------------------------------------------------------
EntrySize == IF file.version \in {"VERSION118", "VERSION120"} THEN 4 ELSE file.ptrSize

(* Mutant: fields are counted from zero.                                   *)
FieldAtZero(k) == op.sym + EntrySize + k * 4

FieldAt(k) == op.sym + EntrySize + (k - 1) * 4

(* Before Go 1.18 the local is zeroed before it is read.                   *)
EntryInitial == IF file.version \in {"VERSION118", "VERSION120"} THEN Garbage ELSE {0}

(* The field an accessor asks for, and what it evaluates first: in         *)
(* value(field(k), entry(), pc) the compiler chooses the order.            *)
FieldOf(name) ==
  CASE name \in {"name", "isStackTop"} -> 1
    [] name = "frameSize" -> 4
    [] name = "sourceFile" -> 5
    [] OTHER -> 6

First(name) ==
  CASE name = "entry" -> {"entry"}
    [] name \in {"sourceLine", "sourceFile"} -> {"field", "entry"}
    [] OTHER -> {"field"}

Begin(c) ==
  /\ st = "idle"
  /\ st' = "args"
  /\ op' = c
  /\ todo' = First(c.name)
  /\ good' = ~failed
  /\ UNCHANGED <<file, ans, field, entry, n, failed>>

Return(v) ==
  /\ st' = "idle"
  /\ ans' = v
  /\ todo' = {} /\ field' = 0 /\ entry' = 0 /\ n' = 0
  /\ UNCHANGED <<file, op, good>>

ReadField ==
  /\ st = "args" /\ "field" \in todo
  /\ \E r \in ReadWord(FieldAt(FieldOf(op.name)), 4, Garbage) :
       /\ failed' = r.failed
       /\ IF op.name = "frameSize" /\ r.got = 0 THEN Return(0)
          ELSE /\ field' = r.got
               /\ todo' = IF op.name = "frameSize" THEN {"entry"} ELSE todo \ {"field"}
               /\ UNCHANGED <<file, op, ans, st, entry, n, good>>

ReadEntry ==
  /\ st = "args" /\ "entry" \in todo
  /\ \E r \in ReadWord(op.sym, EntrySize, EntryInitial) :
       LET e == (file.base + r.got) % Space
       IN  /\ failed' = r.failed
           /\ IF op.name = "entry" THEN Return(e)
              ELSE /\ entry' = e
                   /\ todo' = todo \ {"entry"}
                   /\ UNCHANGED <<file, op, ans, st, field, n, good>>

ReadName ==
  /\ st = "args" /\ todo = {} /\ op.name \in {"name", "isStackTop"}
  /\ \E r \in GetLine(file.funcNameTable + field) :
       /\ failed' = r.failed
       /\ Return(IF op.name = "name" THEN r.got ELSE r.got \in StackTop)

(* Mutant: the index of the unused first file of Go 1.2 is not refused.    *)
HasFileFromZero(k) == 0 <= k /\ k <= file.fileNum

HasFile(k) ==
  /\ 0 <= k /\ k <= file.fileNum
  /\ file.version = "VERSION12" => k # 0

GoOn(next) ==
  /\ st' = next
  /\ UNCHANGED <<file, op, ans, todo, entry, good>>

CallValue ==
  /\ st = "args" /\ todo = {} /\ op.name \in {"frameSize", "sourceLine", "sourceFile"}
  /\ \E r \in ValueOf(field, entry, op.pc) :
       /\ failed' = r.failed
       /\ CASE op.name = "frameSize" -> Return(Mem!Aligned(file, r.got))
            [] op.name = "sourceLine" -> Return(r.got)
            [] OTHER -> IF HasFile(r.got) THEN GoOn("file") /\ n' = r.got /\ field' = 0
                        ELSE Return("")

(* The rest of sourceFile.  From Go 1.16 on the name's offset is found     *)
(* through field(8); on a good stream that is the one the file holds.      *)
ReadUnit ==
  /\ st = "file" /\ file.version # "VERSION12"
  /\ \E r \in ReadWord(FieldAt(8), 4, Garbage) :
       /\ failed' = r.failed
       /\ field' = file.cuTable + (r.got + n) * 4
  /\ GoOn("offset") /\ UNCHANGED n

OldUnit ==
  /\ st = "file" /\ file.version = "VERSION12"
  /\ field' = file.fileTable + n * 4
  /\ GoOn("offset") /\ UNCHANGED <<n, failed>>

ReadOffset ==
  /\ st = "offset"
  /\ \E r \in ReadWord(field, 4, Garbage) :
       /\ failed' = r.failed
       /\ IF file.version # "VERSION12" /\ r.got = 0 THEN Return("")
          ELSE GoOn("line") /\ field' = r.got /\ UNCHANGED n

ReadFileName ==
  /\ st = "line"
  /\ \E r \in GetLine((IF file.version = "VERSION12" THEN file.funcData ELSE file.fileTable) + field) :
       /\ failed' = r.failed
       /\ Return(r.got)

Next ==
  \/ \E c \in Mem!Calls(file) : Begin(c)
  \/ ReadField \/ ReadEntry \/ ReadName \/ CallValue
  \/ ReadUnit \/ OldUnit \/ ReadOffset \/ ReadFileName

Spec == Init /\ [][Next]_vars

-----------------------------------------------------------------------------
TypeOK ==
  /\ file \in Files
  /\ op \in Mem!Calls(file) \cup {None}
  /\ st \in {"idle", "args", "file", "offset", "line"}
  /\ st # "idle" => op \in Mem!Calls(file)
  /\ todo \subseteq {"field", "entry"} /\ (st # "args" => todo = {})
  /\ failed \in BOOLEAN /\ good \in BOOLEAN

Returned == st = "idle" /\ op # None

(* A call that begins on a good stream answers as the table in memory,     *)
(* even if it leaves the stream failed; only sourceFile reads on behind    *)
(* value(), and is right if the stream is still good at its end.           *)
AnswersAsMemory ==
  Returned /\ good /\ (op.name = "sourceFile" => ~failed) => ans = Mem!Result(file, op)

(* Whatever the stream has been through, a name that is not empty is the   *)
(* right one, and a function is never taken for a stack top that is none.  *)
TextRightOrEmpty ==
  Returned =>
    /\ op.name \in {"name", "sourceFile"} => ans \in {"", Mem!Result(file, op)}
    /\ op.name = "isStackTop" => ans \in {FALSE, Mem!Result(file, op)}

(* On a stream that had failed before the call there are no names at all.  *)
FailedIsSilent ==
  Returned /\ ~good =>
    /\ op.name \in {"name", "sourceFile"} => ans = ""
    /\ op.name = "isStackTop" => ans = FALSE

(* The file goes on for a window behind the last pair of every table.      *)
Roomy(f) ==
  \A c \in DOMAIN f.value :
    /\ f.pcTable + c[1] + BufSize <= f.size
    /\ f.value[c].last + BufSize <= f.size

(* In such a file no sequence of calls makes the stream fail...            *)
RoomyNeverFails == Roomy(file) => ~failed

(* ... and seek::Symbol implements Symbol: every step is a step of the     *)
(* table in memory or changes nothing a caller sees.                       *)
ImplementsMemory == Mem!Init /\ [][Roomy(file) => [Mem!Next]_(Mem!vars)]_vars
=============================================================================
