------------------------- MODULE SymbolTableProofs -------------------------
(***************************************************************************)
(* A symbol table from its opening to the searches in it.                  *)
(*                                                                         *)
(* For every file laid out as the linker does it and every load bias: what *)
(* a table that has been opened holds, and what becomes of one whose       *)
(* stream failed.  For every sorted table, address and name: what find     *)
(* returns.  And that the searches may take an opened table as theirs.     *)
(***************************************************************************)
EXTENDS TableOpen, SymbolFind, TLAPS

Late == {"fileNum", "fileTable"}
Said(names) == \A name \in names : fields[name] = file.says.tables[name]

(* What is known after each read.  The header's words always come in; the  *)
(* words that Go 1.2 keeps behind the function table only from a stream    *)
(* that has not failed; of a failed stream's rows all are zero unless the  *)
(* failure came with the read of the rows itself, behind the last of them. *)
Progress ==
  /\ st # "closed" =>
       /\ fields.funcNum = file.says.funcNum
       /\ \E b \in Bases : Opened(b)
       /\ Said(TableNames \ Late)
  /\ st \in {"fileOffset", "fileNum"} => file.version = "VERSION12"
  /\ st = "fileNum" /\ ~failed => fields.fileTable = file.says.tables.fileTable
  /\ st \in {"funcTable", "open"} /\ ~failed => Said(Late)

RowsSoFar ==
  st = "open" =>
    \/ RowsRight
    \/ failed /\ \A i \in 0..fields.funcNum : entry[i] = EntryOf(fields, 0)

OpenInv == TypeOK /\ Progress /\ RowsSoFar /\ RoomyOpens

-----------------------------------------------------------------------------
LEMMA ModSmall ==
  ASSUME NEW w \in Nat, NEW n \in Nat, n < w
  PROVE  n % w = n
  BY SMT

LEMMA EntryInSpace ==
  ASSUME NEW base \in Nat, NEW word \in Nat
  PROVE  (base + word) % Space \in 0..(Space - 1) /\ (base + word) % Space \in Nat
  BY WordAssumption, SMT

(* RowsSoFar of a table of n functions: where they start and end.               *)
LEMMA RowFits ==
  ASSUME NEW w \in {4, 8}, NEW n \in Nat, NEW i \in 0..n
  PROVE  /\ i * 2 * w \in Nat /\ i * 2 * w + w <= (n + 1) * 2 * w
         /\ (n + 1) * 2 * w \in Nat
         /\ n * 2 * w + w \in Nat /\ n * 2 * w + w <= (n + 1) * 2 * w
  BY SMT

LEMMA FileFacts ==
  ASSUME file \in Files
  PROVE  IsFile(file) /\ Layout(file) /\ Fits(file)
  BY FilesAssumption

LEMMA WidthFacts ==
  ASSUME file \in Files
  PROVE  Width(file) \in {4, 8} /\ file.ptrSize \in {4, 8} /\ file.version \in Symbolic
  BY FileFacts DEF Width, IsFile

LEMMA TableFacts ==
  ASSUME file \in Files
  PROVE  /\ \A name \in TableNames : file.says.tables[name] \in Nat
         /\ file.says.funcNum \in Nat /\ file.says.text \in Nat /\ file.size \in Nat
         /\ \A p \in DOMAIN file.at : file.at[p] \in Nat
         /\ file.says.entry \in [0..file.says.funcNum -> Nat]
  BY FileFacts DEF IsFile

(* The header of every version gives the linker's words, all but the two   *)
(* that Go 1.2 keeps elsewhere.                                            *)
LEMMA HeaderRight ==
  ASSUME file \in Files, NEW b \in Bases
  PROVE  /\ Header(b) \in [Members -> Nat]
         /\ Header(b).funcNum = file.says.funcNum
         /\ Header(b).base = (b + file.says.text) % Space
         /\ \A name \in TableNames \ Late : Header(b)[name] = file.says.tables[name]
         /\ file.version # "VERSION12" =>
              \A name \in Late : Header(b)[name] = file.says.tables[name]
<1> DEFINE t == file.says.tables
<1>1. /\ \A name \in TableNames : t[name] \in Nat
      /\ file.says.funcNum \in Nat /\ file.says.text \in Nat
      /\ b \in Nat /\ b < Space
  BY TableFacts, WordAssumption
<1>2. /\ file.says.funcNum % Wide = file.says.funcNum
      /\ t.fileNum % Wide = t.fileNum
  BY <1>1, FileFacts, WordAssumption, ModSmall DEF Fits, TableNames
<1>3. (b + file.says.text) % Space \in Nat /\ b % Space = b
  BY <1>1, WordAssumption, ModSmall, EntryInSpace
<1>4. CASE file.version = "VERSION12"
  <2>1. Layout12(file)
    BY <1>4, FileFacts DEF Layout
  <2>2. Word(0) = file.says.funcNum
    BY <2>1 DEF Layout12, HeaderHolds, Holds, Word
  <2>3. Header(b) = [base |-> b, funcNum |-> file.says.funcNum, fileNum |-> 0,
                     funcNameTable |-> 0, cuTable |-> 0, fileTable |-> 0,
                     pcTable |-> 0, funcData |-> 0, funcTable |-> 8 + file.ptrSize]
    BY <1>2, <1>4, <2>2 DEF Header, OldHeader, NoFields
  <2>4. /\ t.funcTable = 8 + file.ptrSize /\ file.says.text = 0
        /\ t.funcNameTable = 0 /\ t.cuTable = 0 /\ t.pcTable = 0 /\ t.funcData = 0
    BY <2>1 DEF Layout12
  <2>5. b + file.says.text = b
    BY <1>1, <2>4
  <2>6. 8 + file.ptrSize \in Nat
    BY WidthFacts
  <2> QED
    <3> HIDE DEF t
    <3>1. Header(b) \in [Members -> Nat]
      BY <1>1, <2>3, <2>6 DEF Members, TableNames
    <3>2. Header(b).funcNum = file.says.funcNum /\ Header(b).base = (b + file.says.text) % Space
      BY <1>3, <2>3, <2>5
    <3>3. \A name \in TableNames \ Late : Header(b)[name] = t[name]
      BY <2>3, <2>4 DEF TableNames, Late
    <3> QED
      BY <1>4, <3>1, <3>2, <3>3 DEF t
<1>5. CASE file.version = "VERSION116"
  <2>1. LayoutFrom(file, 2) /\ file.says.text = 0
    BY <1>5, FileFacts DEF Layout
  <2>2. /\ Word(0) = file.says.funcNum /\ Word(1) = t.fileNum
        /\ Word(2) = t.funcNameTable /\ Word(3) = t.cuTable /\ Word(4) = t.fileTable
        /\ Word(5) = t.pcTable /\ Word(6) = t.funcTable /\ t.funcData = t.funcTable
    BY <2>1 DEF LayoutFrom, HeaderHolds, Holds, Word
  <2>3. Header(b) = [base |-> b, funcNum |-> file.says.funcNum, fileNum |-> t.fileNum,
                     funcNameTable |-> t.funcNameTable, cuTable |-> t.cuTable,
                     fileTable |-> t.fileTable, pcTable |-> t.pcTable,
                     funcData |-> t.funcTable, funcTable |-> t.funcTable]
    BY <1>2, <1>5, <2>2 DEF Header, Header116
  <2>5. b + file.says.text = b
    BY <1>1, <2>1
  <2> HIDE DEF t
  <2> QED
    <3>1. Header(b) \in [Members -> Nat]
      BY <1>1, <2>3 DEF Members, TableNames
    <3>2. Header(b).funcNum = file.says.funcNum /\ Header(b).base = (b + file.says.text) % Space
      BY <1>3, <2>3, <2>5
    <3>3. \A name \in TableNames : Header(b)[name] = t[name]
      BY <2>2, <2>3 DEF TableNames
    <3> QED
      BY <3>1, <3>2, <3>3 DEF t, Late, TableNames
<1>6. CASE file.version \in {"VERSION118", "VERSION120"}
  <2>1. LayoutFrom(file, 3) /\ HeaderHolds(file, 2, file.says.text)
    BY <1>6, FileFacts DEF Layout
  <2>2. /\ Word(0) = file.says.funcNum /\ Word(1) = t.fileNum /\ Word(2) = file.says.text
        /\ Word(3) = t.funcNameTable /\ Word(4) = t.cuTable /\ Word(5) = t.fileTable
        /\ Word(6) = t.pcTable /\ Word(7) = t.funcTable /\ t.funcData = t.funcTable
    BY <2>1 DEF LayoutFrom, HeaderHolds, Holds, Word
  <2>3. Header(b) = [base |-> (b + file.says.text) % Space, funcNum |-> file.says.funcNum,
                     fileNum |-> t.fileNum, funcNameTable |-> t.funcNameTable,
                     cuTable |-> t.cuTable, fileTable |-> t.fileTable,
                     pcTable |-> t.pcTable, funcData |-> t.funcTable,
                     funcTable |-> t.funcTable]
    BY <1>2, <1>6, <2>2 DEF Header, Header118
  <2> HIDE DEF t
  <2> QED
    <3>1. Header(b) \in [Members -> Nat]
      BY <1>1, <1>3, <2>3 DEF Members, TableNames
    <3>2. Header(b).funcNum = file.says.funcNum /\ Header(b).base = (b + file.says.text) % Space
      BY <2>3
    <3>3. \A name \in TableNames : Header(b)[name] = t[name]
      BY <2>2, <2>3 DEF TableNames
    <3> QED
      BY <3>1, <3>2, <3>3 DEF t, Late, TableNames
<1> QED
  BY <1>4, <1>5, <1>6, WidthFacts DEF Symbolic

(* The words that Go 1.2 keeps behind the function table.                  *)
LEMMA OldRight ==
  ASSUME file \in Files, file.version = "VERSION12", NEW m,
         m.funcNum = file.says.funcNum, m.funcTable = file.says.tables.funcTable
  PROVE  /\ file.at[FuncTableEnd(m)] = file.says.tables.fileTable
         /\ FuncTableEnd(m) + 4 <= file.size
         /\ file.at[file.says.tables.fileTable] = file.says.tables.fileNum
         /\ file.says.tables.fileTable + 4 <= file.size
<1> DEFINE n == file.says.funcNum
           q == file.ptrSize
<1>1. n \in Nat /\ q \in {4, 8}
  BY TableFacts, WidthFacts
<1>2. Layout12(file)
  BY FileFacts DEF Layout
<1>3. (n * 2 * q + q) % Wide = n * 2 * q + q
  <2>1. n * 2 * q + q \in Nat /\ n * 2 * q + q <= (n + 1) * 2 * q
    BY <1>1, RowFits
  <2>2. (n + 1) * 2 * q < Wide /\ Wide \in Nat /\ (n + 1) * 2 * q \in Nat
    BY <1>1, FileFacts, WordAssumption, RowFits DEF Fits
  <2> HIDE DEF n, q
  <2>3. n * 2 * q + q < Wide
    BY <2>1, <2>2
  <2> QED
    BY <2>1, <2>2, <2>3, ModSmall
<1>4. FuncTableEnd(m) = file.says.tables.funcTable + (n * 2 * q + q)
  BY <1>3 DEF FuncTableEnd
<1>5. file.says.tables.funcTable + (n * 2 * q + q) = file.says.tables.funcTable + n * 2 * q + q
  <2>1. file.says.tables.funcTable \in Nat /\ n * 2 * q \in Nat /\ q \in Nat
    BY <1>1, TableFacts, RowFits DEF TableNames
  <2> QED
    BY <2>1
<1> QED
  BY <1>2, <1>4, <1>5 DEF Layout12, Holds

(* A row lies in the file and in the buffer that is read for all rows.     *)
LEMMA RowRight ==
  ASSUME file \in Files, NEW m, NEW i \in 0..file.says.funcNum,
         m.funcNum = file.says.funcNum, m.funcTable = file.says.tables.funcTable
  PROVE  /\ file.at[RowAt(m, i)] = file.says.entry[i]
         /\ RowAt(m, i) + Width(file) <= file.size
         /\ RowAt(m, i) + Width(file) <= m.funcTable + BufferBytes(m)
         /\ BufferBytes(m) = (file.says.funcNum + 1) * 2 * Width(file)
<1> DEFINE n == file.says.funcNum
           w == Width(file)
           z == file.says.tables.funcTable
<1>1. n \in Nat /\ w \in {4, 8} /\ z \in Nat
  BY TableFacts, WidthFacts DEF TableNames
<1>2. Holds(file, z + i * 2 * w, w, file.says.entry[i])
  BY FileFacts DEF Layout
<1>3. /\ i * 2 * w \in Nat /\ i * 2 * w + w <= (n + 1) * 2 * w
      /\ (n + 1) * 2 * w \in Nat
  BY <1>1, RowFits
<1>4. BufferBytes(m) = (n + 1) * 2 * w
  <2>1. (n + 1) * 2 * w < Wide /\ Wide \in Nat
    BY FileFacts, WordAssumption DEF Fits
  <2> QED
    BY <1>3, <2>1, ModSmall DEF BufferBytes
<1>5. RowAt(m, i) = z + i * 2 * w
  BY DEF RowAt
<1> HIDE DEF n, w, z
<1>6. z + i * 2 * w + w <= z + (n + 1) * 2 * w
  <2> DEFINE x == i * 2 * w
             y == (n + 1) * 2 * w
  <2>1. x \in Nat /\ y \in Nat /\ x + w <= y /\ w \in Nat
    BY <1>1, <1>3
  <2> HIDE DEF x, y
  <2>2. z + x + w <= z + y
    BY <1>1, <2>1
  <2> QED
    BY <2>2 DEF x, y
<1> QED
  BY <1>2, <1>4, <1>5, <1>6 DEF Holds, n, w, z

-----------------------------------------------------------------------------
LEMMA InitOpen == Init => OpenInv
<1> SUFFICES ASSUME Init PROVE OpenInv
  OBVIOUS
<1>1. TypeOK
  <2>1. fields \in [Members -> Nat]
    BY DEF Init, NoFields, Members, TableNames
  <2>2. DOMAIN entry = {}
    BY DEF Init
  <2> QED
    BY <2>1, <2>2 DEF Init, TypeOK
<1> QED
  BY <1>1 DEF Init, OpenInv, Progress, RowsSoFar, RoomyOpens

(* A table in memory is complete.                                          *)
LEMMA OpenMemoryRight ==
  ASSUME OpenInv, NEW b \in Bases, OpenMemory(b)
  PROVE  OpenInv'
<1> DEFINE m == IF file.version = "VERSION12" THEN OldMemory(Header(b)) ELSE Header(b)
<1>0. file \in Files /\ file' = file /\ st' = "open" /\ failed' = FALSE
  BY DEF OpenInv, TypeOK, OpenMemory
<1>1. /\ fields' = m
      /\ entry' = [i \in 0..m.funcNum |-> EntryOf(m, file.at[RowAt(m, i)])]
  BY DEF OpenMemory
<1>2. /\ m \in [Members -> Nat] /\ m.funcNum = file.says.funcNum
      /\ m.base = (b + file.says.text) % Space
      /\ \A name \in TableNames : m[name] = file.says.tables[name]
  <2>1. CASE file.version # "VERSION12"
    BY <1>0, <2>1, HeaderRight DEF TableNames, Late
  <2>2. CASE file.version = "VERSION12"
    <3> DEFINE h == Header(b)
    <3>1. /\ h \in [Members -> Nat] /\ h.funcNum = file.says.funcNum
          /\ h.base = (b + file.says.text) % Space
          /\ \A name \in TableNames \ Late : h[name] = file.says.tables[name]
      BY <1>0, HeaderRight
    <3>2. m = OldMemory(h)
      BY <2>2
    <3> HIDE DEF h, m
    <3>3. h.funcTable = file.says.tables.funcTable
      BY <3>1 DEF TableNames, Late
    <3>4. /\ file.at[FuncTableEnd(h)] = file.says.tables.fileTable
          /\ file.at[file.at[FuncTableEnd(h)]] = file.says.tables.fileNum
      BY <1>0, <2>2, <3>1, <3>3, OldRight
    <3>5. m = [h EXCEPT !.fileTable = file.says.tables.fileTable,
                        !.fileNum = file.says.tables.fileNum]
      BY <3>2, <3>4 DEF OldMemory
    <3>6. file.says.tables.fileTable \in Nat /\ file.says.tables.fileNum \in Nat
      BY <1>0, TableFacts DEF TableNames
    <3>7. m \in [Members -> Nat]
      BY <3>1, <3>5, <3>6 DEF Members, TableNames
    <3>8. m.funcNum = h.funcNum /\ m.base = h.base
      BY <3>1, <3>5 DEF Members, TableNames
    <3>9. \A name \in TableNames : m[name] = file.says.tables[name]
      BY <3>1, <3>5 DEF Members, TableNames, Late
    <3> QED
      BY <3>1, <3>7, <3>8, <3>9
  <2> QED
    BY <2>1, <2>2
<1> HIDE DEF m
<1>3. m.base \in Nat /\ m.funcTable = file.says.tables.funcTable
  BY <1>2 DEF Members, TableNames
<1>4. \A i \in 0..m.funcNum :
        /\ entry'[i] = (m.base + file.says.entry[i]) % Space
        /\ entry'[i] \in 0..(Space - 1)
  <2> TAKE i \in 0..m.funcNum
  <2>1. file.at[RowAt(m, i)] = file.says.entry[i]
    BY <1>0, <1>2, <1>3, RowRight
  <2>2. file.says.entry[i] \in Nat
    BY <1>0, <1>2, TableFacts
  <2>3. entry'[i] = EntryOf(m, file.at[RowAt(m, i)])
    BY <1>1
  <2> QED
    BY <1>3, <2>1, <2>2, <2>3, EntryInSpace DEF EntryOf
<1>5. TypeOK'
  BY <1>0, <1>1, <1>2, <1>4 DEF TypeOK
<1>6. Progress'
  <2>1. Opened(b)'
    BY <1>0, <1>1, <1>2 DEF Opened
  <2>2. Said(TableNames)'
    BY <1>0, <1>1, <1>2 DEF Said
  <2> QED
    BY <1>0, <1>1, <1>2, <2>1, <2>2 DEF Progress, Said, Late, TableNames
<1>7. RowsSoFar'
  BY <1>0, <1>1, <1>2, <1>4 DEF RowsSoFar, RowsRight
<1>8. RoomyOpens'
  BY <1>0 DEF RoomyOpens
<1> QED
  BY <1>5, <1>6, <1>7, <1>8 DEF OpenInv

(* A new stream has read the header.                                       *)
LEMMA ReadHeaderRight ==
  ASSUME OpenInv, NEW b \in Bases, ReadHeader(b)
  PROVE  OpenInv'
<1>0. /\ file \in Files /\ file' = file /\ failed' = (HeaderBytes > file.size)
      /\ fields' = Header(b) /\ entry' = [i \in {} |-> 0]
      /\ st' = IF file.version = "VERSION12" THEN "fileOffset" ELSE "funcTable"
  BY DEF OpenInv, TypeOK, ReadHeader
<1>1. /\ fields' \in [Members -> Nat]
      /\ fields'.funcNum = file.says.funcNum
      /\ fields'.base = (b + file.says.text) % Space
      /\ \A name \in TableNames \ Late : fields'[name] = file.says.tables[name]
      /\ file.version # "VERSION12" =>
           \A name \in Late : fields'[name] = file.says.tables[name]
  BY <1>0, HeaderRight
<1>2. TypeOK'
  <2>1. DOMAIN entry' = {} /\ failed' \in BOOLEAN
    BY <1>0
  <2> QED
    BY <1>0, <1>1, <2>1 DEF TypeOK
<1>3. Progress'
  <2>1. Opened(b)'
    BY <1>0, <1>1 DEF Opened
  <2>2. Said(TableNames \ Late)' /\ (file.version # "VERSION12" => Said(Late)')
    BY <1>0, <1>1 DEF Said
  <2> QED
    BY <1>0, <1>1, <2>1, <2>2 DEF Progress
<1>4. RowsSoFar'
  BY <1>0 DEF RowsSoFar
<1>5. RoomyOpens'
  <2>1. HeaderBytes \in Nat /\ file.size \in Nat
    BY <1>0, WordAssumption, TableFacts
  <2>2. Roomy(file)' => HeaderBytes <= file.size
    BY <1>0 DEF Roomy
  <2>3. HeaderBytes <= file.size => ~(HeaderBytes > file.size)
    BY <2>1
  <2> QED
    BY <1>0, <2>2, <2>3 DEF RoomyOpens
<1> QED
  BY <1>2, <1>3, <1>4, <1>5 DEF OpenInv

LEMMA ReadFileOffsetRight ==
  ASSUME OpenInv, ReadFileOffset
  PROVE  OpenInv'
<1> DEFINE p == FuncTableEnd(fields)
           v == IF Delivered(p, 4) THEN file.at[p] ELSE 0
<1>0. /\ file \in Files /\ file' = file /\ entry' = entry
      /\ st = "fileOffset" /\ st' = "fileNum"
      /\ fields' = [fields EXCEPT !.fileTable = v]
      /\ failed' = (failed \/ p + 4 > file.size)
      /\ fields \in [Members -> Nat] /\ failed \in BOOLEAN
  BY DEF OpenInv, TypeOK, ReadFileOffset, AfterRead
<1>1. /\ file.version = "VERSION12"
      /\ fields.funcNum = file.says.funcNum
      /\ \A name \in TableNames \ Late : fields[name] = file.says.tables[name]
  BY <1>0 DEF OpenInv, Progress, Said
<1>2. fields.funcTable = file.says.tables.funcTable
  BY <1>1 DEF TableNames, Late
<1>3. file.at[p] = file.says.tables.fileTable /\ p + 4 <= file.size
  BY <1>0, <1>1, <1>2, OldRight
<1>4. /\ ~failed => v = file.says.tables.fileTable
      /\ v \in Nat
  <2>1. file.says.tables.fileTable \in Nat
    BY <1>0, TableFacts DEF TableNames
  <2> QED
    BY <1>3, <2>1 DEF Delivered
<1>5. ~(p + 4 > file.size)
  <2>1. p \in Nat
    <3>1. /\ fields.funcTable \in Nat /\ fields.funcNum \in Nat
          /\ file.ptrSize \in {4, 8}
      BY <1>0, WidthFacts DEF Members, TableNames
    <3>2. fields.funcNum * 2 * file.ptrSize + file.ptrSize \in Nat
      BY <3>1, RowFits
    <3>3. (fields.funcNum * 2 * file.ptrSize + file.ptrSize) % Wide \in Nat
      BY <3>2, WordAssumption
    <3> QED
      BY <3>1, <3>3 DEF FuncTableEnd
  <2>2. file.size \in Nat
    BY <1>0, TableFacts
  <2> HIDE DEF p
  <2> QED
    BY <1>3, <2>1, <2>2
<1>6. failed' = failed
  BY <1>0, <1>5
<1> HIDE DEF v, p
<1>7. /\ fields' \in [Members -> Nat]
      /\ fields'.funcNum = fields.funcNum /\ fields'.base = fields.base
      /\ fields'.fileTable = v
      /\ \A name \in TableNames \ Late : fields'[name] = fields[name]
  BY <1>0, <1>4 DEF Members, TableNames, Late
<1>8. TypeOK'
  BY <1>0, <1>6, <1>7 DEF OpenInv, TypeOK
<1>9. Progress'
  <2>1. PICK b \in Bases : Opened(b)
    BY <1>0 DEF OpenInv, Progress
  <2>2. Opened(b)'
    BY <1>0, <1>7, <2>1 DEF Opened
  <2>3. Said(TableNames \ Late)'
    BY <1>0, <1>1, <1>7 DEF Said
  <2> QED
    BY <1>0, <1>1, <1>4, <1>6, <1>7, <2>2, <2>3 DEF Progress
<1>10. RowsSoFar' /\ RoomyOpens'
  BY <1>0, <1>6 DEF OpenInv, RowsSoFar, RoomyOpens
<1> QED
  BY <1>8, <1>9, <1>10 DEF OpenInv

LEMMA ReadFileNumRight ==
  ASSUME OpenInv, ReadFileNum
  PROVE  OpenInv'
<1> DEFINE p == fields.fileTable
           v == IF Delivered(p, 4) THEN file.at[p] ELSE 0
           z == file.says.tables
<1>0. /\ file \in Files /\ file' = file /\ entry' = entry
      /\ st = "fileNum" /\ st' = "funcTable"
      /\ fields' = [fields EXCEPT !.fileNum = v]
      /\ failed' = (failed \/ p + 4 > file.size)
      /\ fields \in [Members -> Nat] /\ failed \in BOOLEAN
  BY DEF OpenInv, TypeOK, ReadFileNum, AfterRead
<1>1. /\ file.version = "VERSION12"
      /\ fields.funcNum = file.says.funcNum
      /\ \A name \in TableNames \ Late : fields[name] = z[name]
      /\ ~failed => p = z.fileTable
  BY <1>0 DEF OpenInv, Progress, Said
<1>2. fields.funcTable = z.funcTable
  BY <1>1 DEF TableNames, Late
<1>3. file.at[z.fileTable] = z.fileNum /\ z.fileTable + 4 <= file.size
  BY <1>0, <1>1, <1>2, OldRight
<1>4. z.fileNum \in Nat /\ z.fileTable \in Nat /\ file.size \in Nat /\ p \in Nat
  BY <1>0, TableFacts DEF TableNames, Members
<1> HIDE DEF z, p
<1>5. /\ ~failed => v = z.fileNum
      /\ v \in Nat
  <2>1. CASE failed
    BY <2>1 DEF Delivered
  <2>2. CASE ~failed
    BY <1>1, <1>3, <1>4, <2>2 DEF Delivered
  <2> QED
    BY <2>1, <2>2
<1>6. failed' = failed
  <2>1. ~failed => ~(p + 4 > file.size)
    BY <1>1, <1>3, <1>4
  <2> QED
    BY <1>0, <2>1
<1> HIDE DEF v
<1>7. /\ fields' \in [Members -> Nat]
      /\ fields'.funcNum = fields.funcNum /\ fields'.base = fields.base
      /\ fields'.fileTable = p /\ fields'.fileNum = v
      /\ \A name \in TableNames \ Late : fields'[name] = fields[name]
  BY <1>0, <1>5 DEF Members, TableNames, Late, p
<1>8. TypeOK'
  BY <1>0, <1>6, <1>7 DEF OpenInv, TypeOK
<1>9. Progress'
  <2>1. PICK b \in Bases : Opened(b)
    BY <1>0 DEF OpenInv, Progress
  <2>2. Opened(b)'
    BY <1>0, <1>7, <2>1 DEF Opened
  <2>3. Said(TableNames \ Late)'
    BY <1>0, <1>1, <1>7 DEF Said, z
  <2>4. ~failed' => Said(Late)'
    BY <1>0, <1>1, <1>5, <1>6, <1>7 DEF Said, Late, z
  <2> QED
    BY <1>0, <1>1, <1>7, <2>2, <2>3, <2>4 DEF Progress
<1>10. RowsSoFar' /\ RoomyOpens'
  BY <1>0, <1>6 DEF OpenInv, RowsSoFar, RoomyOpens
<1> QED
  BY <1>8, <1>9, <1>10 DEF OpenInv

(* The function table: all of its rows, or all zeros.                      *)
LEMMA ReadFuncTableRight ==
  ASSUME OpenInv, ReadFuncTable
  PROVE  OpenInv'
<1> DEFINE n == file.says.funcNum
<1>0. /\ file \in Files /\ file' = file /\ fields' = fields
      /\ st = "funcTable" /\ st' = "open"
      /\ entry' = [i \in 0..fields.funcNum |-> EntryOf(fields, Copied(fields, i))]
      /\ failed' = (failed \/ fields.funcTable + BufferBytes(fields) > file.size)
      /\ fields \in [Members -> Nat] /\ failed \in BOOLEAN
  BY DEF OpenInv, TypeOK, ReadFuncTable, AfterRead
<1>1. /\ fields.funcNum = n
      /\ \A name \in TableNames \ Late : fields[name] = file.says.tables[name]
      /\ ~failed => Said(Late)
  BY <1>0 DEF OpenInv, Progress, Said
<1>2. /\ fields.funcTable = file.says.tables.funcTable
      /\ fields.base \in Nat /\ n \in Nat
      /\ file.says.entry \in [0..n -> Nat]
  BY <1>0, <1>1, TableFacts DEF TableNames, Late, Members
<1>3. ASSUME ~failed, NEW i \in 0..n
      PROVE  Copied(fields, i) = file.says.entry[i]
  BY <1>0, <1>1, <1>2, <1>3, RowRight DEF Copied
<1>4. ASSUME failed, NEW i \in 0..n
      PROVE  Copied(fields, i) = 0
  BY <1>4 DEF Copied
<1>5. \A i \in 0..n : entry'[i] = EntryOf(fields, Copied(fields, i))
  BY <1>0, <1>1
<1>6. \A i \in 0..n : Copied(fields, i) \in Nat
  BY <1>2, <1>3, <1>4
<1>7. TypeOK'
  <2>1. \A i \in 0..n : entry'[i] \in 0..(Space - 1)
    BY <1>2, <1>5, <1>6, EntryInSpace DEF EntryOf
  <2> QED
    BY <1>0, <1>1, <2>1 DEF OpenInv, TypeOK
<1>8. Progress'
  <2>1. PICK b \in Bases : Opened(b)
    BY <1>0 DEF OpenInv, Progress
  <2>2. Opened(b)'
    BY <1>0, <2>1 DEF Opened
  <2>3. Said(TableNames \ Late)' /\ (~failed => Said(Late)')
    BY <1>0, <1>1 DEF Said
  <2> QED
    BY <1>0, <1>1, <2>2, <2>3 DEF Progress
<1>9. RowsSoFar'
  <2>1. CASE failed
    BY <1>0, <1>1, <1>4, <1>5, <2>1 DEF RowsSoFar, EntryOf
  <2>2. CASE ~failed
    BY <1>0, <1>1, <1>3, <1>5, <2>2 DEF RowsSoFar, RowsRight, EntryOf
  <2> QED
    BY <2>1, <2>2
<1>10. RoomyOpens'
  <2>1. 0 \in 0..n
    BY <1>2
  <2>2. BufferBytes(fields) = (n + 1) * 2 * Width(file)
    BY <1>0, <1>1, <1>2, <2>1, RowRight
  <2>3. file.says.tables.funcTable \in Nat /\ file.size \in Nat
        /\ (n + 1) * 2 * Width(file) \in Nat
    BY <1>0, <1>2, TableFacts, WidthFacts, RowFits, <2>1 DEF TableNames
  <2>4. Roomy(file) => ~(fields.funcTable + BufferBytes(fields) > file.size)
    BY <1>2, <2>2, <2>3 DEF Roomy
  <2> QED
    BY <1>0, <2>4 DEF OpenInv, RoomyOpens
<1> QED
  BY <1>7, <1>8, <1>9, <1>10 DEF OpenInv

LEMMA NextOpen == OpenInv /\ [Next]_vars => OpenInv'
<1> SUFFICES ASSUME OpenInv, [Next]_vars PROVE OpenInv'
  OBVIOUS
<1>1. CASE UNCHANGED vars
  BY <1>1 DEF vars, OpenInv, TypeOK, Progress, RowsSoFar, RoomyOpens, RowsRight, Opened, Said,
     EntryOf
<1>2. ASSUME NEW b \in Bases, OpenMemory(b) PROVE OpenInv'
  BY <1>2, OpenMemoryRight
<1>3. ASSUME NEW b \in Bases, ReadHeader(b) PROVE OpenInv'
  BY <1>3, ReadHeaderRight
<1>4. CASE ReadFileOffset
  BY <1>4, ReadFileOffsetRight
<1>5. CASE ReadFileNum
  BY <1>5, ReadFileNumRight
<1>6. CASE ReadFuncTable
  BY <1>6, ReadFuncTableRight
<1> QED
  BY <1>1, <1>2, <1>3, <1>4, <1>5, <1>6 DEF Next

THEOREM SpecOpen == Spec => []OpenInv
  BY InitOpen, NextOpen, PTL DEF Spec

(* The members and entries of both classes' tables keep their types.       *)
THEOREM OpenTypeCorrect == Spec => []TypeOK
  BY SpecOpen, PTL DEF OpenInv

(* A table in memory, and one whose stream did not fail, knows what the    *)
(* linker wrote, for every version, pointer size and load bias.            *)
THEOREM OpensRightHolds == Spec => []OpensRight
<1>1. OpenInv => OpensRight
  <2> SUFFICES ASSUME OpenInv, st = "open", ~failed
               PROVE  /\ RowsRight
                      /\ \E b \in Bases : Opened(b)
                      /\ \A name \in TableNames : fields[name] = file.says.tables[name]
    BY DEF OpensRight
  <2> QED
    BY DEF OpenInv, Progress, RowsSoFar, Said
<1> QED
  BY <1>1, SpecOpen, PTL

(* A table whose stream failed while it was opened is complete or refuses  *)
(* every address.                                                          *)
THEOREM RightOrRefusesHolds == Spec => []RightOrRefuses
<1>1. OpenInv => RightOrRefuses
  <2> SUFFICES ASSUME OpenInv, st = "open", ~RowsRight
               PROVE  entry[fields.funcNum] <= entry[0]
    BY DEF RightOrRefuses
  <2>1. fields.funcNum \in Nat
    BY DEF OpenInv, TypeOK, Members
  <2>2. 0 \in 0..fields.funcNum /\ fields.funcNum \in 0..fields.funcNum
    BY <2>1
  <2>3. entry[fields.funcNum] = entry[0] /\ entry[0] \in 0..(Space - 1)
    BY <2>2 DEF OpenInv, RowsSoFar, TypeOK
  <2>4. Space \in Nat
    BY WordAssumption
  <2> QED
    BY <2>3, <2>4
<1> QED
  BY <1>1, SpecOpen, PTL

(* Opening fails only where the file ends close behind the header or the   *)
(* function table.                                                         *)
THEOREM RoomyOpensHolds == Spec => []RoomyOpens
  BY SpecOpen, PTL DEF OpenInv

-----------------------------------------------------------------------------
(* While find(name) runs, the rows left reach to the end and those before  *)
(* them read as other names.                                               *)
NameRest ==
  op = "name" =>
    /\ first + len = End
    /\ \A row \in 0..(first - 1) : NameRead(row) # wanted

(* FindTypeOK alone is not inductive: the answer first - 1 is a row only       *)
(* because the bracket keeps first above zero.                             *)
FindInv == FindTypeOK /\ Bracket /\ NameRest

LEMMA RowFacts ==
  ASSUME NEW t \in Tables
  PROVE  /\ t.funcNum \in Nat
         /\ t.entry \in [0..t.funcNum -> Nat]
         /\ t.name \in [0..(t.funcNum - 1) -> Names]
  BY TablesAssumption DEF IsTable

(* Halving an unsearched range stays inside it.                            *)
LEMMA Halving ==
  ASSUME NEW n \in Nat, n > 0
  PROVE  n \div 2 \in Nat /\ n \div 2 < n
  BY SMT

LEMMA InitFind == FindInit => FindInv
  BY RowFacts DEF FindInit, FindInv, FindTypeOK, Bracket, NameRest, End

LEMMA NextFind == FindInv /\ [FindNext]_findVars => FindInv'
<1> SUFFICES ASSUME FindInv, [FindNext]_findVars PROVE FindInv'
  OBVIOUS
<1> USE DEF FindInv, FindTypeOK, End
<1>t. /\ End \in Nat
      /\ table.entry \in [0..End -> Nat]
      /\ table.name \in [0..(End - 1) -> Names]
  BY RowFacts
<1>1. ASSUME NEW a \in Addresses, FindNothing(a) PROVE FindInv'
  BY <1>1, <1>t, AddressesAssumption DEF FindNothing, Return, Bracket, NameRest
<1>2. ASSUME NEW a \in Addresses, FindAddress(a) PROVE FindInv'
  BY <1>2, <1>t, AddressesAssumption DEF FindAddress, Outside, Bracket, NameRest
<1>3. ASSUME NEW n \in Names, FindName(n) PROVE FindInv'
  BY <1>3, <1>t DEF FindName, Bracket, NameRest
<1>11. CASE LoseStream
  BY <1>11, <1>t DEF LoseStream, Bracket, NameRest, Outside
<1>4. CASE GoLeft
  <2>1. Half \in Nat /\ Half < len
    BY <1>4, Halving DEF GoLeft, Half
  <2>2. first' + len' <= End' /\ key' < table'.entry[first' + len']
    BY <1>4, <1>t, <2>1 DEF GoLeft, Bracket, Middle
  <2> QED
    BY <1>4, <1>t, <2>1, <2>2 DEF GoLeft, Bracket, NameRest, Outside, NameRead
<1>5. CASE GoRight
  <2>1. Half \in Nat /\ Half < len
    BY <1>5, Halving DEF GoRight, Half
  <2>2. first' \in Nat /\ len' \in Nat /\ first' + len' = first + len
    BY <1>5, <2>1 DEF GoRight, Middle
  <2>3. first' - 1 = Middle /\ table.entry[first' - 1] <= key
    BY <1>5, <2>1 DEF GoRight, Middle
  <2> QED
    BY <1>5, <1>t, <2>2, <2>3 DEF GoRight, Bracket, NameRest, Outside, NameRead
<1>6. CASE AddressFound
  <2>1. first # 0
    BY <1>6, <1>t DEF AddressFound, Bracket, Outside
  <2> QED
    BY <1>6, <1>t, <2>1 DEF AddressFound, Return, Bracket, NameRest
<1>7. CASE NextName
  BY <1>7, <1>t DEF NextName, Bracket, NameRest, NameRead
<1>8. CASE NameFound
  BY <1>8, <1>t DEF NameFound, Return, Bracket, NameRest
<1>9. CASE NameMissing
  BY <1>9, <1>t DEF NameMissing, Return, Bracket, NameRest
<1>10. CASE UNCHANGED findVars
  BY <1>10 DEF findVars, Bracket, NameRest, Outside, NameRead
<1> QED
  BY <1>1, <1>2, <1>3, <1>4, <1>5, <1>6, <1>7, <1>8, <1>9, <1>10, <1>11 DEF FindNext, Search

(* Every reachable state is well typed, has the covering row between the   *)
(* two halves already discarded, and has refused every name passed over.   *)
THEOREM SpecFind == FindSpec => []FindInv
  BY InitFind, NextFind, PTL DEF FindSpec

THEOREM FindTypeCorrect == FindSpec => []FindTypeOK
  BY SpecFind, PTL DEF FindInv

THEOREM BracketHolds == FindSpec => []Bracket
  BY SpecFind, PTL DEF FindInv

(* No probe of either search leaves the table.                             *)
LEMMA FindProbes == FindInv => ProbesInTable
<1> SUFFICES ASSUME FindInv PROVE ProbesInTable
  OBVIOUS
<1>1. ASSUME op = "address", len > 0 PROVE Middle \in Rows
  <2>1. Half \in Nat /\ Half < len
    BY <1>1, Halving DEF FindInv, FindTypeOK, Half
  <2> QED
    BY <1>1, <2>1, RowFacts DEF FindInv, FindTypeOK, Bracket, Middle, Rows, End
<1>2. ASSUME op = "name", len > 0 PROVE first \in 0..(End - 1)
  BY <1>2, RowFacts DEF FindInv, FindTypeOK, NameRest, End
<1> QED
  BY <1>1, <1>2 DEF ProbesInTable

THEOREM ProbesStayInTable == FindSpec => []ProbesInTable
  BY SpecFind, FindProbes, PTL

(* find(address) returns the function that covers the address.             *)
LEMMA StepCovers ==
  FindInv /\ [FindNext]_findVars => [op = "address" /\ op' = "idle" => Covers(ans', key)]_findVars
<1> SUFFICES ASSUME FindInv, FindNext, op = "address", op' = "idle" PROVE Covers(ans', key)
  OBVIOUS
<1>1. AddressFound
  BY DEF FindNext, Search, FindNothing, FindAddress, FindName, LoseStream, GoLeft, GoRight,
         NextName, NameFound, NameMissing
<1>2. /\ first \in Nat /\ key \in Nat /\ End \in Nat
      /\ first <= End + 1 /\ ~Outside(key)
      /\ first > 0 => table.entry[first - 1] <= key
      /\ first <= End => key < table.entry[first]
  BY <1>1, RowFacts DEF AddressFound, FindInv, FindTypeOK, Bracket, End
<1>3. table.entry \in [0..End -> Nat]
  BY RowFacts DEF FindInv, FindTypeOK, End
<1>4. first # 0
  BY <1>2, <1>3 DEF Outside
<1>5. first # End + 1
  BY <1>2, <1>3 DEF Outside
<1> QED
  BY <1>1, <1>2, <1>4, <1>5 DEF AddressFound, Return, Covers, End

THEOREM FindsCoveringHolds == FindSpec => FindsCovering
  BY SpecFind, StepCovers, PTL DEF FindSpec, FindsCovering

(* It refuses an address only when no function covers it.                  *)
LEMMA StepRefuses ==
  FindInv /\ [FindNext]_findVars =>
    [op = "idle" /\ op' = "idle" /\ stream' = stream =>
       ans' = End /\ \A row \in 0..(End - 1) : ~Covers(row, key')]_findVars
<1> SUFFICES ASSUME FindInv, FindNext, op = "idle", op' = "idle", stream' = stream,
                    ~UNCHANGED findVars, NEW row \in 0..(End - 1)
             PROVE  ans' = End /\ ~Covers(row, key')
  BY DEF FindNext, Search, FindNothing, FindAddress, FindName, LoseStream, GoLeft, GoRight,
         AddressFound, NextName, NameFound, NameMissing, Return, findVars, End
<1>1. PICK a \in Addresses : FindNothing(a)
  BY DEF FindNext, Search, FindAddress, FindName, LoseStream, GoLeft, GoRight, AddressFound,
         NextName, NameFound, NameMissing
<1>2. /\ End \in Nat /\ table.entry \in [0..End -> Nat]
      /\ table.entry[0] <= table.entry[row]
      /\ table.entry[row + 1] <= table.entry[End]
  BY RowFacts, TablesAssumption DEF FindInv, FindTypeOK, End, Sorted
<1>3. key' \in Nat /\ ans' = End
      /\ (key' < table.entry[0] \/ key' >= table.entry[End])
  BY <1>1, AddressesAssumption DEF FindNothing, Outside, Return, End
<1> QED
  BY <1>2, <1>3 DEF Covers

THEOREM RefusesUncoveredHolds == FindSpec => RefusesUncovered
  BY SpecFind, StepRefuses, PTL DEF FindSpec, RefusesUncovered

(* find(name) returns the first function of that name, or end(); on a      *)
(* stream that has failed, end() for every name but the empty one.         *)
LEMMA StepNames ==
  FindInv /\ [FindNext]_findVars =>
    [op = "name" /\ op' = "idle" =>
       IF stream = "failed"
       THEN ans' = IF wanted = NoName THEN 0 ELSE End
       ELSE /\ \A row \in 0..(ans' - 1) : table.name[row] # wanted
            /\ ans' = End \/ (ans' < End /\ table.name[ans'] = wanted)]_findVars
<1> SUFFICES ASSUME FindInv, FindNext, op = "name", op' = "idle"
             PROVE  IF stream = "failed"
                    THEN ans' = IF wanted = NoName THEN 0 ELSE End
                    ELSE /\ \A row \in 0..(ans' - 1) : table.name[row] # wanted
                         /\ ans' = End \/ (ans' < End /\ table.name[ans'] = wanted)
  OBVIOUS
<1>1. NameFound \/ NameMissing
  BY DEF FindNext, Search, FindNothing, FindAddress, FindName, LoseStream, GoLeft, GoRight,
         AddressFound, NextName
<1>2. /\ first \in Nat /\ len \in Nat /\ End \in Nat
      /\ first + len = End
      /\ \A row \in 0..(first - 1) : NameRead(row) # wanted
  BY RowFacts DEF FindInv, FindTypeOK, NameRest, End
<1>3. CASE stream # "failed"
  BY <1>1, <1>2, <1>3 DEF NameFound, NameMissing, Return, NameRead
<1>4. CASE stream = "failed"
  <2>1. first > 0 => NameRead(0) # wanted
    BY <1>2
  <2>2. \A row : NameRead(row) = NoName
    BY <1>4 DEF NameRead
  <2> QED BY <1>1, <1>2, <1>4, <2>1, <2>2 DEF NameFound, NameMissing, Return
<1> QED
  BY <1>3, <1>4

THEOREM FindsFirstNameHolds == FindSpec => FindsFirstName
  BY SpecFind, StepNames, PTL DEF FindSpec, FindsFirstName

-----------------------------------------------------------------------------
(* The opened table as the searches see it, its functions named by m.      *)
Searched(m) ==
  [funcNum |-> fields.funcNum, entry |-> [i \in 0..fields.funcNum |-> entry[i]], name |-> m]

(* The linker sorts the functions, and loading moves none of them past the *)
(* end of the addresses.                                                   *)
InOrder ==
  /\ \A i, j \in 0..file.says.funcNum : i <= j => file.says.entry[i] <= file.says.entry[j]
  /\ fields.base + file.says.entry[file.says.funcNum] < Space

Searchable ==
  st = "open" /\ InOrder =>
    \A m \in [0..(fields.funcNum - 1) -> Names] :
      IsTable(Searched(m)) /\ Sorted(Searched(m))

(* What the searches assume of a table, every opened one fulfils, also one *)
(* whose stream failed: what is proved of find(address) holds for it, and  *)
(* of find(name) what is proved where the stream failed.                   *)
THEOREM OpenedIsSearchable == Spec => []Searchable
<1>1. ASSUME OpenInv, st = "open", InOrder, NEW m \in [0..(fields.funcNum - 1) -> Names]
      PROVE  IsTable(Searched(m)) /\ Sorted(Searched(m))
  <2> DEFINE n == fields.funcNum
             says == file.says.entry
  <2>1. /\ n \in Nat /\ fields.base \in Nat /\ n = file.says.funcNum /\ Space \in Nat
        /\ \A i \in 0..n : entry[i] \in 0..(Space - 1)
        /\ says \in [0..n -> Nat]
    BY <1>1, TableFacts, WordAssumption DEF OpenInv, TypeOK, Progress, Members
  <2>2. /\ \A i, j \in 0..n : i <= j => says[i] <= says[j]
        /\ fields.base + says[n] < Space
    BY <1>1, <2>1 DEF InOrder
  <2>3. RowsRight => \A i \in 0..n : entry[i] = (fields.base + says[i]) % Space
    BY <2>1 DEF RowsRight
  <2>4. RowsRight \/ \A i \in 0..n : entry[i] = EntryOf(fields, 0)
    BY <1>1 DEF OpenInv, RowsSoFar
  <2>5. \A i \in 0..n : i <= n /\ n \in 0..n
    BY <2>1
  <2> HIDE DEF n, says
  <2>6. ASSUME RowsRight, NEW r \in 0..n PROVE entry[r] = fields.base + says[r] /\ says[r] \in Nat
    <3>1. says[r] <= says[n] /\ says[r] \in Nat /\ says[n] \in Nat
      BY <2>1, <2>2, <2>5
    <3>2. fields.base + says[r] \in Nat /\ fields.base + says[r] < Space
      BY <2>1, <2>2, <3>1
    <3> QED BY <2>1, <2>3, <2>6, <3>1, <3>2, ModSmall
  <2>7. ASSUME NEW i \in 0..n, NEW j \in 0..n, i <= j PROVE entry[i] <= entry[j]
    <3>1. CASE RowsRight
      <4>1. /\ entry[i] = fields.base + says[i] /\ says[i] \in Nat
            /\ entry[j] = fields.base + says[j] /\ says[j] \in Nat
        BY <3>1, <2>6
      <4> QED BY <2>1, <2>2, <2>7, <4>1
    <3>2. CASE ~RowsRight
      <4>1. entry[i] = entry[j] /\ entry[i] \in Int
        BY <2>1, <2>4, <3>2
      <4> QED BY <4>1
    <3> QED BY <3>1, <3>2
  <2>8. \A i \in 0..n : entry[i] \in Nat
    BY <2>1
  <2> QED BY <2>1, <2>7, <2>8, <1>1 DEF IsTable, Sorted, Searched, n
<1>2. OpenInv => Searchable
  BY <1>1 DEF Searchable
<1> QED BY <1>2, SpecOpen, PTL
=============================================================================
