----------------------------- MODULE TableOpen -----------------------------
(***************************************************************************)
(* The constructors of SymbolTable and seek::SymbolTable                   *)
(* (src/src/symbol/symbol.cpp): they read the header of the pclntab and    *)
(* from it know where the function table and the other tables are.  The    *)
(* first finds the words in memory; the second reads them from a stream of *)
(* its own, copies the function table, and never asks whether a read       *)
(* succeeded.                                                              *)
(*                                                                         *)
(* Positions count from the first byte of the pclntab; so do the tables,   *)
(* which the code keeps as buffer + position and as mAddress + position.   *)
(* file.at[p] is the integer that starts at position p, converted from the *)
(* file's byte order.                                                      *)
(***************************************************************************)
EXTENDS Integers

CONSTANTS
  Files,       \* the files
  Bases,       \* load biases
  HeaderBytes, \* sizeof(buffer): 128 in the code
  Wide,        \* number of values of an uint32_t
  Space        \* number of values of an uint64_t

Symbolic == {"VERSION12", "VERSION116", "VERSION118", "VERSION120"}

(* Entries of the function table are offsets from 1.18 on, else addresses. *)
Width(f) == IF f.version \in {"VERSION118", "VERSION120"} THEN 4 ELSE f.ptrSize

TableNames == {"fileNum", "funcNameTable", "cuTable", "fileTable", "pcTable", "funcData", "funcTable"}

(* What the linker put into the file: the counts, the tables' positions,   *)
(* the address of the text if entries are offsets from it, and the entry   *)
(* of each row; the last is the row behind the last function.              *)
IsFile(f) ==
  /\ f.version \in Symbolic
  /\ f.ptrSize \in {4, 8}
  /\ f.size \in Nat                        \* bytes up to the end of the file
  /\ DOMAIN f.at \subseteq Nat
  /\ \A p \in DOMAIN f.at : f.at[p] \in Nat
  /\ f.says.funcNum \in Nat
  /\ f.says.text \in Nat
  /\ f.says.entry \in [0..f.says.funcNum -> Nat]
  /\ f.says.tables \in [TableNames -> Nat]

(* The integer of n bytes at position p is x, and it lies in the file.     *)
Holds(f, p, n, x) == p \in DOMAIN f.at /\ f.at[p] = x /\ p + n <= f.size
HeaderHolds(f, k, x) == Holds(f, 8 + k * f.ptrSize, f.ptrSize, x)

(* The layout of the pclntab, for a file table of Go 1.2, 1.16 and 1.18.   *)
Layout12(f) ==
  LET t == f.says.tables
      end == t.funcTable + f.says.funcNum * 2 * f.ptrSize + f.ptrSize
  IN  /\ HeaderHolds(f, 0, f.says.funcNum)
      /\ t.funcTable = 8 + f.ptrSize
      /\ t.funcNameTable = 0 /\ t.cuTable = 0 /\ t.pcTable = 0 /\ t.funcData = 0
      /\ Holds(f, end, 4, t.fileTable)
      /\ Holds(f, t.fileTable, 4, t.fileNum)
      /\ f.says.text = 0

LayoutFrom(f, k) ==
  LET t == f.says.tables
  IN  /\ HeaderHolds(f, 0, f.says.funcNum)
      /\ HeaderHolds(f, 1, t.fileNum)
      /\ HeaderHolds(f, k, t.funcNameTable)
      /\ HeaderHolds(f, k + 1, t.cuTable)
      /\ HeaderHolds(f, k + 2, t.fileTable)
      /\ HeaderHolds(f, k + 3, t.pcTable)
      /\ HeaderHolds(f, k + 4, t.funcTable)
      /\ t.funcData = t.funcTable

Layout(f) ==
  /\ CASE f.version = "VERSION12" -> Layout12(f)
       [] f.version = "VERSION116" -> LayoutFrom(f, 2) /\ f.says.text = 0
       [] OTHER -> LayoutFrom(f, 3) /\ HeaderHolds(f, 2, f.says.text)
  /\ \A i \in 0..f.says.funcNum :
       Holds(f, f.says.tables.funcTable + i * 2 * Width(f), Width(f), f.says.entry[i])

(* The counts are far from the width of the integers that hold them.       *)
Fits(f) ==
  /\ (f.says.funcNum + 1) * 2 * f.ptrSize < Wide
  /\ (f.says.funcNum + 1) * 2 * Width(f) < Wide
  /\ f.says.funcNum < Wide /\ f.says.tables.fileNum < Wide

ASSUME FilesAssumption == \A f \in Files : IsFile(f) /\ Layout(f) /\ Fits(f)
ASSUME WordAssumption ==
  /\ HeaderBytes \in Nat /\ Wide \in Nat \ {0} /\ Space \in Nat \ {0}
  /\ Bases \subseteq 0..(Space - 1)

VARIABLES
  file,    \* the file
  st,      \* "closed", the read the seek constructor has reached, or "open"
  fields,  \* the members of the table
  entry,   \* entry() of each row of the function table
  failed   \* failbit of the stream; FALSE for a table in memory

vars == <<file, st, fields, entry, failed>>

Members == {"base", "funcNum"} \cup TableNames
NoFields ==
  [base |-> 0, funcNum |-> 0, fileNum |-> 0, funcNameTable |-> 0, cuTable |-> 0,
   fileTable |-> 0, pcTable |-> 0, funcData |-> 0, funcTable |-> 0]

Init ==
  /\ file \in Files
  /\ st = "closed"
  /\ fields = NoFields
  /\ entry = [i \in {} |-> 0]
  /\ failed = FALSE

-----------------------------------------------------------------------------
(* The header.                                                             *)
Word(k) == file.at[8 + k * file.ptrSize]

(* Go 1.2: the tables share the pclntab's start, the function table        *)
(* follows the header and the file table is found through its end; there   *)
(* is no cuTable, which keeps its initial zero.                            *)
OldHeader(b) ==
  [NoFields EXCEPT !.base = b, !.funcNum = Word(0) % Wide, !.funcTable = 8 + file.ptrSize]

(* Go 1.16: counts and positions in the words of the header.               *)
Header116(b) ==
  [base |-> b, funcNum |-> Word(0) % Wide, fileNum |-> Word(1) % Wide,
   funcNameTable |-> Word(2), cuTable |-> Word(3), fileTable |-> Word(4),
   pcTable |-> Word(5), funcData |-> Word(6), funcTable |-> Word(6)]

(* Mutant: the address of the text is not added to the base.               *)
Header118Unbased(b) ==
  [base |-> b, funcNum |-> Word(0) % Wide, fileNum |-> Word(1) % Wide,
   funcNameTable |-> Word(3), cuTable |-> Word(4), fileTable |-> Word(5),
   pcTable |-> Word(6), funcData |-> Word(7), funcTable |-> Word(7)]

(* Go 1.18: one word more, the address that entries are offsets from.      *)
Header118(b) ==
  [base |-> (b + Word(2)) % Space, funcNum |-> Word(0) % Wide, fileNum |-> Word(1) % Wide,
   funcNameTable |-> Word(3), cuTable |-> Word(4), fileTable |-> Word(5),
   pcTable |-> Word(6), funcData |-> Word(7), funcTable |-> Word(7)]

Header(b) ==
  CASE file.version = "VERSION12" -> OldHeader(b)
    [] file.version = "VERSION116" -> Header116(b)
    [] OTHER -> Header118(b)

(* Where the function table of a 1.2 file ends: the word of the file       *)
(* table's position.                                                       *)
FuncTableEnd(m) == m.funcTable + ((m.funcNum * 2 * file.ptrSize + file.ptrSize) % Wide)

(* Row i of the function table, as the iterator addresses it.              *)
RowAt(m, i) == m.funcTable + i * 2 * Width(file)

EntryOf(m, word) == (m.base + word) % Space

-----------------------------------------------------------------------------
(* SymbolTable: everything is in memory.                                   *)
OldMemory(m) ==
  [m EXCEPT !.fileTable = file.at[FuncTableEnd(m)],
            !.fileNum = file.at[file.at[FuncTableEnd(m)]]]

OpenMemory(b) ==
  /\ st \in {"closed", "open"}
  /\ LET m == IF file.version = "VERSION12" THEN OldMemory(Header(b)) ELSE Header(b)
     IN  /\ fields' = m
         /\ entry' = [i \in 0..m.funcNum |-> EntryOf(m, file.at[RowAt(m, i)])]
  /\ st' = "open"
  /\ failed' = FALSE
  /\ UNCHANGED file

-----------------------------------------------------------------------------
(* seek::SymbolTable: seekg and read of n bytes at p.  After a failure     *)
(* nothing is read any more.                                               *)
Delivered(p, n) == ~failed /\ p + n <= file.size
AfterRead(p, n) == failed' = (failed \/ p + n > file.size)

(* Mutant: the first read asks for twice the buffer.                       *)
ReadHeaderLong(b) ==
  /\ st \in {"closed", "open"}
  /\ fields' = Header(b)
  /\ failed' = (2 * HeaderBytes > file.size)
  /\ st' = IF file.version = "VERSION12" THEN "fileOffset" ELSE "funcTable"
  /\ entry' = [i \in {} |-> 0]
  /\ UNCHANGED file

(* A new stream.  The words of the header come in even if the rest of the  *)
(* bytes asked for do not.                                                 *)
ReadHeader(b) ==
  /\ st \in {"closed", "open"}
  /\ fields' = Header(b)
  /\ failed' = (HeaderBytes > file.size)
  /\ st' = IF file.version = "VERSION12" THEN "fileOffset" ELSE "funcTable"
  /\ entry' = [i \in {} |-> 0]
  /\ UNCHANGED file

(* fileOffset and mFileNum are zero until their read delivers.             *)
ReadFileOffset ==
  /\ st = "fileOffset"
  /\ LET p == FuncTableEnd(fields)
     IN  /\ fields' = [fields EXCEPT !.fileTable = IF Delivered(p, 4) THEN file.at[p] ELSE 0]
         /\ AfterRead(p, 4)
  /\ st' = "fileNum"
  /\ UNCHANGED <<file, entry>>

ReadFileNum ==
  /\ st = "fileNum"
  /\ LET p == fields.fileTable
     IN  /\ fields' = [fields EXCEPT !.fileNum = IF Delivered(p, 4) THEN file.at[p] ELSE 0]
         /\ AfterRead(p, 4)
  /\ st' = "funcTable"
  /\ UNCHANGED <<file, entry>>

BufferBytes(m) == ((m.funcNum + 1) * 2 * Width(file)) % Wide

(* Mutant: the copy is not cleared before the read.                        *)
CopiedUncleared(m, i) ==
  IF /\ ~failed
     /\ RowAt(m, i) + Width(file) <= file.size
     /\ RowAt(m, i) + Width(file) <= m.funcTable + BufferBytes(m)
  THEN file.at[RowAt(m, i)] ELSE i

(* The integer in row i of mFuncTableBuffer: zero if the read ends before. *)
Copied(m, i) ==
  IF /\ ~failed
     /\ RowAt(m, i) + Width(file) <= file.size
     /\ RowAt(m, i) + Width(file) <= m.funcTable + BufferBytes(m)
  THEN file.at[RowAt(m, i)] ELSE 0

ReadFuncTable ==
  /\ st = "funcTable"
  /\ entry' = [i \in 0..fields.funcNum |-> EntryOf(fields, Copied(fields, i))]
  /\ AfterRead(fields.funcTable, BufferBytes(fields))
  /\ st' = "open"
  /\ UNCHANGED <<file, fields>>

Next ==
  \/ \E b \in Bases : OpenMemory(b) \/ ReadHeader(b)
  \/ ReadFileOffset
  \/ ReadFileNum
  \/ ReadFuncTable

Spec == Init /\ [][Next]_vars

-----------------------------------------------------------------------------
TypeOK ==
  /\ file \in Files
  /\ st \in {"closed", "fileOffset", "fileNum", "funcTable", "open"}
  /\ fields \in [Members -> Nat]
  /\ DOMAIN entry = IF st = "open" THEN 0..fields.funcNum ELSE {}
  /\ \A i \in DOMAIN entry : entry[i] \in 0..(Space - 1)
  /\ failed \in BOOLEAN

(* Opened with load bias b: entries count from the text as it is loaded.   *)
Opened(b) == fields.base = (b + file.says.text) % Space

(* The function table is the one the linker wrote.                         *)
RowsRight ==
  /\ fields.funcNum = file.says.funcNum
  /\ \A i \in 0..fields.funcNum : entry[i] = (fields.base + file.says.entry[i]) % Space

(* In every version and for both pointer sizes, a table in memory, and one *)
(* from a stream that did not fail, knows the tables the linker wrote.     *)
OpensRight ==
  st = "open" /\ ~failed =>
    /\ RowsRight
    /\ \E b \in Bases : Opened(b)
    /\ \A name \in TableNames : fields[name] = file.says.tables[name]

(* A table whose stream failed while it was opened never shows some rows   *)
(* and not others: it has all of them, or find(address), which compares    *)
(* with the first and the last, refuses every address.                     *)
RightOrRefuses == st = "open" => RowsRight \/ entry[fields.funcNum] <= entry[0]

(* The file goes on far enough behind the header and the function table.   *)
Roomy(f) ==
  /\ HeaderBytes <= f.size
  /\ f.says.tables.funcTable + (f.says.funcNum + 1) * 2 * Width(f) <= f.size

(* Only the end of the file makes opening fail.                            *)
RoomyOpens == Roomy(file) => ~failed
=============================================================================
