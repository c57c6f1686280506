------------------------------ MODULE Reader ------------------------------
(***************************************************************************)
(* go::symbol::Reader (src/src/symbol/reader.cpp): the lookups a caller    *)
(* makes in one Go executable, in any order and any number of times.  The  *)
(* executable never changes; what changes is what the Reader has found out *)
(* about it so far and keeps: the version, the symbol table, the address   *)
(* of runtime.types, the address of the moduledata and its object.         *)
(*                                                                         *)
(* An image is abstracted to the outcome of each lookup in the file.  What *)
(* a lookup fails to find is None, for std::nullopt.  The scan for the     *)
(* moduledata and the words of the moduledata are outcomes too, one per    *)
(* version they are read with.                                             *)
(***************************************************************************)
EXTENDS Integers

CONSTANTS
  Images,    \* the executables
  Versions,  \* the Go versions
  Texts,     \* the Go strings an image holds
  ParseVersion,  \* parseVersion: the version a string starts with, if any
  Addresses, \* the virtual addresses an image may name
  Bases,     \* load addresses a caller may pass
  PageSize,  \* PAGE_SIZE
  Space,     \* number of addresses, 2^64
  None

Keys == {"runtime.buildVersion", "runtime.types", "runtime.firstmoduledata"}
Methods == {"FileMapping", "AnonymousMemory", "Attached"}
Opt(S) == S \cup {None}

(* The words of a moduledata that the tables need.                         *)
ModuleWords == [types : Opt(Addresses), itabLinks : Opt(Addresses), typeLinks : Opt(Addresses)]

IsImage(i) ==
  /\ i.buildInfo \in BOOLEAN              \* section present, magic right
  /\ i.recorded \in Opt(Versions)         \* BuildInfo::version
  /\ i.symtab \in BOOLEAN                 \* section .symtab present
  /\ i.symbol \in [Keys -> Opt(Addresses)]      \* values of its symbols
  /\ i.text \in [Keys -> Opt(Texts)]      \* the Go string a symbol names
  /\ i.itablink \in Opt(Addresses)              \* data of section .itablink
  /\ i.typelink \in Opt(Addresses)              \* data of section .typelink
  /\ i.pclntab \in {"absent", "exact", "suffix"} \* name of the pclntab section
  /\ i.address \in Addresses              \* its address
  /\ i.magic \in BOOLEAN                  \* its magic is a known one
  /\ i.dynamic \in BOOLEAN                \* type ET_DYN
  /\ i.loads \subseteq Nat                \* addresses of the PT_LOAD segments
  /\ i.scan \in [Versions -> Opt(Addresses)]    \* what the scan for moduledata finds
  /\ i.module \in [Addresses \X Versions -> ModuleWords]

(* A file with a pclntab has been linked: it has something to load.        *)
ASSUME ImagesAssumption ==
  \A i \in Images :
    /\ IsImage(i)
    /\ i.pclntab # "absent" => i.loads # {}
ASSUME NoneAssumption ==
  /\ None \notin Versions /\ None \notin Texts
  /\ None \notin Addresses /\ None \notin Addresses \X Versions
ASSUME ParseAssumption == ParseVersion \in [Texts -> Opt(Versions)]
ASSUME AddressAssumption ==
  /\ Addresses \subseteq Nat /\ Bases \subseteq Nat
  /\ PageSize \in Nat \ {0} /\ Space \in Nat \ {0}

VARIABLES
  image,   \* mReader: the file, fixed by the constructor
  reader,  \* the Reader's members
  call,    \* the last call and its arguments
  ans      \* its result

vars == <<image, reader, call, ans>>

ReaderState ==
  [version        : Opt(Versions),                \* mVersion
   symtab         : BOOLEAN,                      \* mSymbolTable has a value
   typesSearched  : BOOLEAN,                      \* mRuntimeTypesAddressSearched
   typesAddress   : Opt(Addresses),               \* mRuntimeTypesAddress
   moduleSearched : BOOLEAN,                      \* mModuleDataSearched
   moduleAddress  : Opt(Addresses),               \* mModuleDataAddress
   module         : Opt(Addresses \X Versions),   \* mModuleData
   lookups        : Nat,                          \* history: searches for runtime.types
   scans          : Nat]                          \* history: searches for the moduledata

NewReader ==
  [version |-> None, symtab |-> FALSE,
   typesSearched |-> FALSE, typesAddress |-> None,
   moduleSearched |-> FALSE, moduleAddress |-> None, module |-> None,
   lookups |-> 0, scans |-> 0]

Init ==
  /\ image \in Images
  /\ reader = NewReader
  /\ call = [op |-> "none"]
  /\ ans = None

-----------------------------------------------------------------------------
(* Symbols.                                                                *)

(* Mutant: the table counts as loaded even if the file has none.           *)
LoadSymtabAlways(r) == [r EXCEPT !.symtab = TRUE]

(* findSymtabSymbol, called whenever no table has been kept.               *)
LoadSymtab(r) == IF r.symtab THEN r ELSE [r EXCEPT !.symtab = image.symtab]

(* Mutant: a table that has not been loaded yet is not loaded.             *)
AddressOfLoaded(r, key) == IF r.symtab THEN image.symbol[key] ELSE None

(* findSymbolAddress; it leaves LoadSymtab(r) behind.                      *)
AddressOf(r, key) == IF LoadSymtab(r).symtab THEN image.symbol[key] ELSE None

(* findSymtabByKey: the Go string whose header the symbol names.           *)
TextOf(r, key) == IF AddressOf(r, key) # None THEN image.text[key] ELSE None

-----------------------------------------------------------------------------
(* The version.                                                            *)
Parsed(text) == IF text # None THEN ParseVersion[text] ELSE None

(* The build info, when there is one, decides alone, even if no version    *)
(* can be read from it.                                                    *)
VersionOf(r) ==
  IF r.version # None THEN r.version
  ELSE IF image.buildInfo THEN image.recorded
  ELSE Parsed(TextOf(r, "runtime.buildVersion"))

(* Only the build info's version is kept by version() itself.              *)
AfterVersion(r) ==
  IF r.version # None THEN r
  ELSE IF image.buildInfo THEN [r EXCEPT !.version = image.recorded]
  ELSE LoadSymtab(r)

EnsureVersion(r) ==
  IF r.version # None THEN r ELSE [AfterVersion(r) EXCEPT !.version = VersionOf(r)]

-----------------------------------------------------------------------------
(* runtime.types and the moduledata: each is searched for once.            *)

(* Mutant: a search that found nothing is not remembered.                  *)
EnsureTypesForgetful(r) ==
  IF r.typesAddress # None THEN r
  ELSE [LoadSymtab(r) EXCEPT !.typesSearched = TRUE,
                             !.typesAddress = AddressOf(r, "runtime.types"),
                             !.lookups = r.lookups + 1]

EnsureTypes(r) ==
  IF r.typesSearched THEN r
  ELSE [LoadSymtab(r) EXCEPT !.typesSearched = TRUE,
                             !.typesAddress = AddressOf(r, "runtime.types"),
                             !.lookups = r.lookups + 1]

(* findModuleData: the symbol, or else the scan of the data sections for   *)
(* the address of the section named exactly .gopclntab.                    *)
ModuleAddressOf(r) ==
  IF AddressOf(r, "runtime.firstmoduledata") # None
  THEN AddressOf(r, "runtime.firstmoduledata")
  ELSE IF image.pclntab = "exact" THEN image.scan[r.version] ELSE None

EnsureModuleData(r) ==
  IF r.moduleSearched THEN r
  ELSE LET v == EnsureVersion([r EXCEPT !.moduleSearched = TRUE])
       IN  IF v.version = None THEN v
           ELSE [LoadSymtab(v) EXCEPT !.moduleAddress = ModuleAddressOf(v),
                                      !.scans = v.scans + 1]

(* ensureModuleDataObject.                                                 *)
EnsureModule(r) ==
  IF r.module # None THEN r
  ELSE LET d == EnsureModuleData(r)
           v == EnsureVersion(d)
       IN  IF d.moduleAddress = None THEN d
           ELSE IF v.version = None THEN v
           ELSE [v EXCEPT !.module = <<v.moduleAddress, v.version>>]

-----------------------------------------------------------------------------
(* Addresses.  The load bias: the caller's base less the page of the       *)
(* lowest segment, as unsigned 64-bit integers.                            *)
Lowest(S) == CHOOSE a \in S : \A b \in S : a <= b
MinVA == Lowest(image.loads) - (Lowest(image.loads) % PageSize)
Bias(b) == IF image.dynamic THEN (b - MinVA) % Space ELSE 0

(* findSectionAndBase: without a segment to load there is no bias.         *)
SectionBase(b) == IF image.loads = {} THEN 0 ELSE Bias(b)

-----------------------------------------------------------------------------
(* interfaces and typeLinks are the same procedure over different words:   *)
(* data is the section's content and word names its moduledata entry.      *)
AfterTable(r, data) ==
  LET v == EnsureVersion(r)
      t == EnsureTypes(v)
  IN  IF v.version = None THEN v
      ELSE IF t.typesAddress # None /\ data # None THEN t
      ELSE EnsureModule(t)

SectionTable(a, data, b) ==
  [data |-> data, version |-> a.version, types |-> a.typesAddress, base |-> SectionBase(b)]

(* Mutant: the types word is not checked.                                  *)
ModuleTableUnchecked(a, word) ==
  LET m == image.module[a.module]
  IN  IF m[word] = None THEN None
      ELSE [data |-> m[word], version |-> a.version, types |-> m.types, base |-> 0]

(* The base is dropped when the moduledata answers.                        *)
ModuleTable(a, word) ==
  LET m == image.module[a.module]
  IN  IF m.types = None \/ m[word] = None THEN None
      ELSE [data |-> m[word], version |-> a.version, types |-> m.types, base |-> 0]

TableOf(r, data, word, b) ==
  LET a == AfterTable(r, data)
  IN  IF a.version = None THEN None
      ELSE IF a.typesAddress # None /\ data # None THEN SectionTable(a, data, b)
      ELSE IF a.moduleAddress = None \/ a.module = None THEN None
      ELSE ModuleTable(a, word)

(* symbols(base), over a stream of its own on the file; opened is whether  *)
(* the file still opens.                                                   *)
StreamTable(b, opened) ==
  IF image.pclntab = "absent" \/ ~image.magic \/ ~opened THEN None
  ELSE [at |-> image.address, base |-> Bias(b)]

(* symbols(method, base): the section's bytes in the mapped file, a copy   *)
(* of them, or those of the running process.                               *)
MemoryTable(m, b) ==
  IF image.pclntab = "absent" \/ ~image.magic THEN None
  ELSE [method |-> m, base |-> 0,
        at |-> IF m # "Attached" THEN 0 ELSE (Bias(b) + image.address) % Space]

-----------------------------------------------------------------------------
(* The public operations.                                                  *)
GetVersion ==
  /\ call' = [op |-> "version"]
  /\ ans' = VersionOf(reader)
  /\ reader' = AfterVersion(reader)
  /\ UNCHANGED image

GetBuildInfo ==
  /\ call' = [op |-> "buildInfo"]
  /\ ans' = image.buildInfo
  /\ UNCHANGED <<image, reader>>

FindSymtabByKey(k) ==
  /\ call' = [op |-> "findSymtabByKey", key |-> k]
  /\ ans' = TextOf(reader, k)
  /\ reader' = LoadSymtab(reader)
  /\ UNCHANGED image

FindSymbolAddress(k) ==
  /\ call' = [op |-> "findSymbolAddress", key |-> k]
  /\ ans' = AddressOf(reader, k)
  /\ reader' = LoadSymtab(reader)
  /\ UNCHANGED image

Interfaces(b) ==
  /\ call' = [op |-> "interfaces", base |-> b]
  /\ ans' = TableOf(reader, image.itablink, "itabLinks", b)
  /\ reader' = AfterTable(reader, image.itablink)
  /\ UNCHANGED image

TypeLinks(b) ==
  /\ call' = [op |-> "typeLinks", base |-> b]
  /\ ans' = TableOf(reader, image.typelink, "typeLinks", b)
  /\ reader' = AfterTable(reader, image.typelink)
  /\ UNCHANGED image

StreamSymbols(b) ==
  /\ \E opened \in BOOLEAN :
       /\ call' = [op |-> "symbols", base |-> b, opened |-> opened]
       /\ ans' = StreamTable(b, opened)
  /\ UNCHANGED <<image, reader>>

MemorySymbols(m, b) ==
  /\ call' = [op |-> "memorySymbols", method |-> m, base |-> b]
  /\ ans' = MemoryTable(m, b)
  /\ UNCHANGED <<image, reader>>

Next ==
  \/ GetVersion
  \/ GetBuildInfo
  \/ \E k \in Keys : FindSymtabByKey(k) \/ FindSymbolAddress(k)
  \/ \E b \in Bases :
       \/ Interfaces(b)
       \/ TypeLinks(b)
       \/ StreamSymbols(b)
       \/ \E m \in Methods : MemorySymbols(m, b)

Spec == Init /\ [][Next]_vars

-----------------------------------------------------------------------------
TypeOK == IsImage(image) /\ reader \in ReaderState

(* What the image says, whoever asks: the version, the address of          *)
(* runtime.types, and that of the moduledata.                              *)
SymbolIn(key) == IF image.symtab THEN image.symbol[key] ELSE None

VersionIn ==
  IF image.buildInfo THEN image.recorded
  ELSE IF SymbolIn("runtime.buildVersion") # None
       THEN Parsed(image.text["runtime.buildVersion"]) ELSE None

ModuleIn ==
  IF VersionIn = None THEN None
  ELSE IF SymbolIn("runtime.firstmoduledata") # None THEN SymbolIn("runtime.firstmoduledata")
  ELSE IF image.pclntab = "exact" THEN image.scan[VersionIn] ELSE None

(* What the Reader keeps is what the image says.  A search is marked done  *)
(* before it runs, and before the version it depends on is known; yet no   *)
(* order of calls leaves a mark without its result, or an object made from *)
(* another address or version than those kept.                             *)
Coherent(r) ==
  /\ r.version \in {None, VersionIn}
  /\ r.symtab => image.symtab
  /\ r.typesAddress = IF r.typesSearched THEN SymbolIn("runtime.types") ELSE None
  /\ r.moduleAddress = IF r.moduleSearched THEN ModuleIn ELSE None
  /\ r.module # None =>
       /\ r.version # None /\ r.moduleAddress # None
       /\ r.module = <<r.moduleAddress, r.version>>

CacheCoherent == Coherent(reader)

(* The result of a call on a Reader in state r.                            *)
Answer(r, c) ==
  CASE c.op = "version" -> VersionOf(r)
    [] c.op = "buildInfo" -> image.buildInfo
    [] c.op = "findSymtabByKey" -> TextOf(r, c.key)
    [] c.op = "findSymbolAddress" -> AddressOf(r, c.key)
    [] c.op = "interfaces" -> TableOf(r, image.itablink, "itabLinks", c.base)
    [] c.op = "typeLinks" -> TableOf(r, image.typelink, "typeLinks", c.base)
    [] c.op = "symbols" -> StreamTable(c.base, c.opened)
    [] c.op = "memorySymbols" -> MemoryTable(c.method, c.base)
    [] OTHER -> None

(* What a caller gets depends on what it asks and on the file, never on    *)
(* the calls made before: a used Reader answers as a new one would.        *)
HistoryFree == ans = Answer(NewReader, call)

(* A search runs at most once in a Reader's life, also when it finds       *)
(* nothing.                                                                *)
SearchesOnce == reader.lookups <= 1 /\ reader.scans <= 1

(* A table is never made from a missing version, types address or array:   *)
(* the code dereferences all three without a check of their own.           *)
CompleteTables ==
  call.op \in {"interfaces", "typeLinks"} /\ ans # None =>
    /\ ans.version \in Versions
    /\ ans.types \in Addresses
    /\ ans.data \in Addresses
=============================================================================
