----------------------------- MODULE TypeTables -----------------------------
(***************************************************************************)
(* InterfaceTable with Interface (src/src/symbol/interface.cpp) and        *)
(* StructTable with Struct::name (struct.cpp): what a caller sees who      *)
(* walks over a table and asks the objects in it.  fieldCount and field    *)
(* are in module TypeWalk.                                                 *)
(*                                                                         *)
(* A table t is an array of pointers to itabs or of 32 bit offsets of      *)
(* types, at an address and with a count of its own: so the Reader makes   *)
(* them all, of a moduledata's array or of a section's data and its whole  *)
(* rows.  The public constructors also take a section itself (t.bytes).    *)
(* t.word[a] is the converted word at address a, four bytes of it for an   *)
(* offset, and t.name[a] what the bytes of a name there say: two bytes of  *)
(* length, and the integer uVarInt makes of them (module UVarInt).  A name *)
(* is where its bytes begin and how many they are.                         *)
(***************************************************************************)
EXTENDS Version, Sequences

CONSTANT Tables

VARIABLES
  table,
  loop,   \* "idle", "walk" or "end"
  at,     \* the iterator's distance from the data, in bytes
  seen,   \* the objects the loop was given, in order
  answer  \* the last question to an object, and the answer

tableVars == <<table, loop, at, seen, answer>>

-----------------------------------------------------------------------------
IsStructs(t) == t.kind = "structs"
Step(t) == IF IsStructs(t) THEN 4 ELSE t.ptrSize

(* A table of a section counts its whole rows.                             *)
SizeOf(t) == IF t.bytes # None THEN t.bytes \div Step(t) ELSE t.count

(* Mutant: every table of a section ends with its last byte.               *)
EndOfBytes(t) == IF ~t.data THEN 0 ELSE IF t.bytes # None THEN t.bytes ELSE SizeOf(t) * Step(t)

(* Where end() is.  A StructTable that owns its section takes the byte     *)
(* behind the section, and no end is the one of a table without data.      *)
End(t) ==
  IF ~t.data THEN 0
  ELSE IF IsStructs(t) /\ t.bytes # None THEN t.bytes
  ELSE SizeOf(t) * Step(t)

(* operator[], for tables that have data: the address of the object.       *)
ObjectAt(t, b) == IF IsStructs(t) THEN t.types + t.row[b] ELSE t.row[b]
AtIndex(t, i) == ObjectAt(t, i * Step(t))

-----------------------------------------------------------------------------
(* The bytes of a name, without a test that they can be read.              *)
NameIn(t, a) ==
  IF a \notin t.mapped THEN None
  ELSE IF AtMost(t.version, <<1, 16>>) THEN <<a + 3, t.name[a].short>>
  ELSE IF t.name[a].long = None THEN None
  ELSE <<a + 1 + t.name[a].long[2], t.name[a].long[1]>>

(* Mutant: zero is an offset as any other.                                 *)
NameOfZero(t, a) ==
  LET p == a + (IF t.ptrSize = 8 THEN 40 ELSE 24)
  IN  IF a \notin t.mapped THEN None ELSE NameIn(t, t.types + t.word[p])

(* The name of the type at address a, an offset from the types' base.      *)
NameOf(t, a) ==
  LET p == a + (IF t.ptrSize = 8 THEN 40 ELSE 24)
  IN  IF a \notin t.mapped \/ t.word[p] = 0 THEN None ELSE NameIn(t, t.types + t.word[p])

(* An itab: the interface's type, the type that implements it, the hash    *)
(* and the methods; the interface's type says how many.                    *)
TypeNameAt(t, a) == IF a \notin t.mapped THEN None ELSE NameOf(t, t.word[a])
InterfaceName(t, a) == TypeNameAt(t, a)
ImplementsName(t, a) == TypeNameAt(t, a + t.ptrSize)

MethodCount(t, a) ==
  IF a \notin t.mapped \/ t.word[a] \notin t.mapped THEN 0
  ELSE t.word[t.word[a] + (IF t.ptrSize = 8 THEN 64 ELSE 40)]

Method(t, a, i) ==
  IF a \notin t.mapped THEN 0
  ELSE t.word[a + (IF t.ptrSize = 8 THEN 24 ELSE 16) + i * t.ptrSize]

Address(t, a) == a + t.base

-----------------------------------------------------------------------------
TableInit ==
  /\ table \in Tables
  /\ loop = "idle" /\ at = 0
  /\ seen = <<>> /\ answer = None

Begin ==
  /\ loop = "idle"
  /\ loop' = "walk"
  /\ UNCHANGED <<table, at, seen, answer>>

(* Dereference and ++, while the iterator is not end(); behind a section   *)
(* there is nothing to be seen.                                            *)
Advance ==
  /\ loop = "walk" /\ at # End(table) /\ at < table.beyond
  /\ seen' = Append(seen, IF at \in DOMAIN table.row THEN ObjectAt(table, at) ELSE None)
  /\ at' = at + Step(table)
  /\ UNCHANGED <<table, loop, answer>>

Finish ==
  /\ loop = "walk" /\ at = End(table)
  /\ loop' = "end"
  /\ UNCHANGED <<table, at, seen, answer>>

Ask(q, i, a, v) ==
  /\ answer' = [q |-> q, index |-> i, of |-> a, is |-> v]
  /\ UNCHANGED <<table, loop, at, seen>>

AskStruct ==
  /\ loop = "end" /\ IsStructs(table)
  /\ \E k \in DOMAIN seen :
       \/ Ask("name", 0, seen[k], NameOf(table, seen[k]))
       \/ Ask("address", 0, seen[k], Address(table, seen[k]))

(* A method may be asked for by every index below the count.               *)
AskInterface ==
  /\ loop = "end" /\ ~IsStructs(table)
  /\ \E k \in DOMAIN seen :
       \/ Ask("name", 0, seen[k], ImplementsName(table, seen[k]))
       \/ Ask("interfaceName", 0, seen[k], InterfaceName(table, seen[k]))
       \/ Ask("methodCount", 0, seen[k], MethodCount(table, seen[k]))
       \/ Ask("address", 0, seen[k], Address(table, seen[k]))
       \/ \E i \in 0..(MethodCount(table, seen[k]) - 1) : Ask("method", i, seen[k], Method(table, seen[k], i))

Loop == Advance \/ Finish

TableNext == Begin \/ Loop \/ AskStruct \/ AskInterface

TableSpec == TableInit /\ [][TableNext]_tableVars

(* The caller's loop over the table runs on.                               *)
FairTableSpec == TableSpec /\ WF_tableVars(Loop)

-----------------------------------------------------------------------------
(* The tables the Reader makes, t.bytes = None, and those of the public    *)
(* constructors: the rows counted are there, without data there are none.  *)
IsTable(t) ==
  /\ t.version \in Nat \X Nat /\ t.ptrSize \in {4, 8}
  /\ t.count \in Nat /\ t.bytes \in Nat \cup {None}
  /\ t.data \in BOOLEAN /\ (~t.data => t.bytes = None /\ t.count = 0)
  /\ t.types \in Nat /\ \A b \in DOMAIN t.row : t.row[b] \in Nat
  /\ \A k \in 1..SizeOf(t) : (k - 1) * Step(t) \in DOMAIN t.row

(* What the linker writes for the name x of the type at a: until Go 1.17   *)
(* two bytes of length behind the flags, then an integer.  None stands for *)
(* a type without a name, and for one that is not there.                   *)
SaysNameAt(t, p, x) ==
  /\ p \in t.mapped /\ x # None
  /\ IF Before(t.version, <<1, 17>>) THEN x = <<p + 3, t.name[p].short>>
     ELSE /\ t.name[p].long # None
          /\ x = <<p + 1 + t.name[p].long[2], t.name[p].long[1]>>

SaysType(t, a, x) ==
  LET word == t.word[a + (IF t.ptrSize = 8 THEN 40 ELSE 24)]
  IN  IF x = None THEN a \in t.mapped => word = 0
      ELSE a \in t.mapped /\ word # 0 /\ SaysNameAt(t, t.types + word, x)

(* What it writes for an itab: an interface that is there says how many    *)
(* methods it has, and they follow in the itab.                            *)
SaysItab(t, a, says) ==
  LET interface == t.word[a]
      methods == says.methods
  IN  /\ a \in t.mapped /\ a + t.ptrSize \in t.mapped
      /\ SaysType(t, interface, says.interface)
      /\ SaysType(t, t.word[a + t.ptrSize], says.name)
      /\ IF interface \in t.mapped
         THEN t.word[interface + (IF t.ptrSize = 8 THEN 64 ELSE 40)] = Len(methods)
         ELSE methods = <<>>
      /\ \A i \in DOMAIN methods :
           t.word[a + (IF t.ptrSize = 8 THEN 24 ELSE 16) + (i - 1) * t.ptrSize] = methods[i]

IsLinkedTable(t) ==
  \A a \in DOMAIN t.says :
    /\ t.says[a].loaded = a + t.base
    /\ IF IsStructs(t) THEN SaysType(t, a, t.says[a].name) ELSE SaysItab(t, a, t.says[a])

ASSUME TablesAssumption == None \notin Nat /\ \A t \in Tables : IsTable(t) /\ IsLinkedTable(t)

-----------------------------------------------------------------------------
(* A section that is no whole number of rows, given to the constructor.    *)
Ragged(t) == IsStructs(t) /\ t.bytes # None /\ t.bytes % 4 # 0

(* The loop sees what operator[] gives for 0, 1, ... size() - 1, and only  *)
(* that: nothing behind the table.  The iterator steps over the end of a   *)
(* ragged one and goes on behind it.                                       *)
SeesTheTable ==
  /\ \A k \in DOMAIN seen : ~Ragged(table) => k <= SizeOf(table) /\ seen[k] = AtIndex(table, k - 1)
  /\ loop = "end" => Len(seen) = SizeOf(table)

(* Every object answers what the linker wrote: its names in the encodings  *)
(* of all versions, its methods, and its address moved by the base.        *)
AnswersLinked ==
  answer # None /\ answer.of \in DOMAIN table.says =>
    LET says == table.says[answer.of]
    IN  answer.is = CASE answer.q = "name" -> says.name
                   [] answer.q = "interfaceName" -> says.interface
                   [] answer.q = "methodCount" -> Len(says.methods)
                   [] answer.q = "address" -> says.loaded
                   [] OTHER -> says.methods[answer.index + 1]

(* A loop over a table of whole rows ends.                                 *)
LoopEnds == (loop = "walk" /\ ~Ragged(table)) ~> (loop = "end")
=============================================================================
