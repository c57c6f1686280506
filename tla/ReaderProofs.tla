--------------------------- MODULE ReaderProofs ---------------------------
(***************************************************************************)
(* A Reader answers as a new one would, for every image, version and order *)
(* of calls.  The argument follows the calls inside the code: each lemma   *)
(* says what one ensure... function leaves in the Reader it was called on. *)
(***************************************************************************)
EXTENDS Reader, TLAPS

(* The part of Coherent that holds in the middle of ensureModuleData, when *)
(* the search is marked done and has not run.                              *)
Known(r) ==
  /\ r \in ReaderState
  /\ r.version \in {None, VersionIn}
  /\ r.symtab => image.symtab

(* A search that is not marked done has not run.                           *)
Counted(r) ==
  /\ r.lookups <= IF r.typesSearched THEN 1 ELSE 0
  /\ r.scans <= IF r.moduleSearched THEN 1 ELSE 0

Good(r) == r \in ReaderState /\ Coherent(r) /\ Counted(r)

(* The members about the two searches.                                     *)
SameSearches(r, s) ==
  /\ s.typesSearched = r.typesSearched /\ s.typesAddress = r.typesAddress
  /\ s.moduleSearched = r.moduleSearched /\ s.moduleAddress = r.moduleAddress
  /\ s.module = r.module
  /\ s.lookups = r.lookups /\ s.scans = r.scans

(* Marking the search for the moduledata done changes nothing else.        *)
LEMMA MarkUpdate ==
  ASSUME NEW s \in ReaderState, NEW t, t = [s EXCEPT !.moduleSearched = TRUE]
  PROVE  /\ t \in ReaderState
         /\ t.moduleSearched = TRUE
         /\ t.version = s.version /\ t.symtab = s.symtab
         /\ t.typesSearched = s.typesSearched /\ t.typesAddress = s.typesAddress
         /\ t.moduleAddress = s.moduleAddress
         /\ t.module = s.module /\ t.lookups = s.lookups /\ t.scans = s.scans
  BY DEF ReaderState

LEMMA GoodKnown == ASSUME NEW r, Good(r) PROVE Known(r)
  BY DEF Good, Known, Coherent

(* Known and unchanged members make a Reader good again.                   *)
LEMMA GoodAgain ==
  ASSUME NEW r, Good(r), NEW s, Known(s), SameSearches(r, s),
         r.version # None => s.version = r.version
  PROVE  Good(s)
  BY DEF Good, Known, SameSearches, Coherent, Counted

LEMMA VersionInType == IsImage(image) => VersionIn \in Opt(Versions)
  BY ParseAssumption DEF IsImage, VersionIn, SymbolIn, Parsed, Opt, Keys

LEMMA SymbolInType ==
  ASSUME IsImage(image), NEW k \in Keys PROVE SymbolIn(k) \in Opt(Addresses)
  BY DEF IsImage, SymbolIn, Opt

LEMMA ModuleInType == IsImage(image) => ModuleIn \in Opt(Addresses)
  BY VersionInType, SymbolInType DEF IsImage, ModuleIn, Opt, Keys

LEMMA NewGood == Good(NewReader)
  BY DEF Good, NewReader, ReaderState, Coherent, Counted, Opt

(* Symbols are looked up alike whether or not the table has been loaded.   *)
LEMMA LoadSymtabKnown ==
  ASSUME IsImage(image), NEW r, Known(r)
  PROVE  /\ Known(LoadSymtab(r)) /\ SameSearches(r, LoadSymtab(r))
         /\ LoadSymtab(r).version = r.version
         /\ LoadSymtab(r).symtab = image.symtab
  BY DEF IsImage, Known, LoadSymtab, SameSearches, ReaderState

LEMMA AddressOfIn ==
  ASSUME IsImage(image), NEW r, Known(r), NEW k \in Keys
  PROVE  AddressOf(r, k) = SymbolIn(k)
  BY LoadSymtabKnown DEF AddressOf, SymbolIn

LEMMA VersionOfIn ==
  ASSUME IsImage(image), NEW r, Known(r) PROVE VersionOf(r) = VersionIn
<1>1. AddressOf(r, "runtime.buildVersion") = SymbolIn("runtime.buildVersion")
  BY AddressOfIn DEF Keys
<1> QED
  BY <1>1 DEF VersionOf, VersionIn, TextOf, Parsed, Known

LEMMA AfterVersionKnown ==
  ASSUME IsImage(image), NEW r, Known(r)
  PROVE  /\ Known(AfterVersion(r)) /\ SameSearches(r, AfterVersion(r))
         /\ r.version # None => AfterVersion(r).version = r.version
<1>1. CASE r.version # None
  BY <1>1 DEF AfterVersion, SameSearches
<1>2. CASE r.version = None /\ image.buildInfo
  BY <1>2 DEF AfterVersion, SameSearches, Known, ReaderState, VersionIn, IsImage
<1>3. CASE r.version = None /\ ~image.buildInfo
  BY <1>3, LoadSymtabKnown DEF AfterVersion
<1> QED
  BY <1>1, <1>2, <1>3

LEMMA EnsureVersionKnown ==
  ASSUME IsImage(image), NEW r, Known(r)
  PROVE  /\ Known(EnsureVersion(r)) /\ SameSearches(r, EnsureVersion(r))
         /\ EnsureVersion(r).version = VersionIn
<1>1. CASE r.version # None
  BY <1>1 DEF EnsureVersion, SameSearches, Known
<1>2. CASE r.version = None
  <2>1. Known(AfterVersion(r)) /\ SameSearches(r, AfterVersion(r))
    BY AfterVersionKnown
  <2>2. EnsureVersion(r) = [AfterVersion(r) EXCEPT !.version = VersionIn]
    BY <1>2, VersionOfIn DEF EnsureVersion
  <2> QED
    BY <2>1, <2>2, VersionInType DEF SameSearches, Known, ReaderState
<1> QED
  BY <1>1, <1>2

LEMMA EnsureTypesGood ==
  ASSUME IsImage(image), NEW r, Good(r)
  PROVE  /\ Good(EnsureTypes(r))
         /\ EnsureTypes(r).typesAddress = SymbolIn("runtime.types")
         /\ EnsureTypes(r).version = r.version
<1>1. CASE r.typesSearched
  BY <1>1 DEF EnsureTypes, Good, Coherent
<1>2. CASE ~r.typesSearched
  <2> DEFINE s == LoadSymtab(r)
  <2>1. Known(s) /\ SameSearches(r, s) /\ s.version = r.version
    BY GoodKnown, LoadSymtabKnown
  <2>2. AddressOf(r, "runtime.types") = SymbolIn("runtime.types")
    BY GoodKnown, AddressOfIn DEF Keys
  <2>3. Good(s)
    BY <2>1, GoodAgain
  <2>4. SymbolIn("runtime.types") \in Opt(Addresses)
    BY SymbolInType DEF Keys
  <2>6. r.lookups + 1 = 1
    BY <1>2 DEF Good, Counted, ReaderState
  <2>5. EnsureTypes(r) = [s EXCEPT !.typesSearched = TRUE,
                                   !.typesAddress = SymbolIn("runtime.types"),
                                   !.lookups = 1]
    BY <1>2, <2>2, <2>6 DEF EnsureTypes
  <2> HIDE DEF s
  <2> DEFINE t == EnsureTypes(r)
  <2>7. /\ t \in ReaderState
        /\ t.typesSearched = TRUE /\ t.typesAddress = SymbolIn("runtime.types")
        /\ t.lookups = 1 /\ t.version = s.version /\ t.symtab = s.symtab
        /\ t.moduleSearched = s.moduleSearched /\ t.moduleAddress = s.moduleAddress
        /\ t.module = s.module /\ t.scans = s.scans
    <3> HIDE DEF s, t
    <3>1. t = [s EXCEPT !.typesSearched = TRUE,
                        !.typesAddress = SymbolIn("runtime.types"), !.lookups = 1]
      BY <2>5 DEF t
    <3> QED
      BY <2>3, <2>4, <3>1 DEF Good, ReaderState
  <2> HIDE DEF t
  <2>8. Coherent(t) /\ Counted(t)
    BY <2>3, <2>7 DEF Good, Coherent, Counted
  <2> QED
    BY <2>1, <2>7, <2>8 DEF Good, t
<1> QED
  BY <1>1, <1>2 DEF Good, ReaderState

(* Wherever the search is marked done, its result is there too.            *)
LEMMA EnsureModuleDataGood ==
  ASSUME IsImage(image), NEW r, Good(r)
  PROVE  /\ Good(EnsureModuleData(r))
         /\ EnsureModuleData(r).moduleAddress = ModuleIn
         /\ r.version # None => EnsureModuleData(r).version = r.version
         /\ EnsureModuleData(r).typesAddress = r.typesAddress
<1>1. CASE r.moduleSearched
  BY <1>1 DEF EnsureModuleData, Good, Coherent
<1>2. CASE ~r.moduleSearched
  <2> DEFINE q == [r EXCEPT !.moduleSearched = TRUE]
             v == EnsureVersion(q)
             s == LoadSymtab(v)
  <2>0. r.module = None /\ r.moduleAddress = None /\ r.scans = 0
    BY <1>2 DEF Good, Coherent, Counted, ReaderState
  <2>2. /\ q \in ReaderState /\ q.symtab = r.symtab
        /\ q.typesSearched = r.typesSearched /\ q.typesAddress = r.typesAddress
        /\ q.moduleSearched /\ q.module = None /\ q.moduleAddress = None
        /\ q.lookups = r.lookups /\ q.scans = 0 /\ q.version = r.version
    BY <2>0, MarkUpdate DEF Good
  <2> HIDE DEF q
  <2>1. Known(q)
    BY <2>2, GoodKnown DEF Known
  <2>3. Known(v) /\ SameSearches(q, v) /\ v.version = VersionIn
    BY <2>1, EnsureVersionKnown
  <2>4. r.version # None => v.version = r.version
    BY <2>3 DEF Good, Coherent
  <2>5. CASE VersionIn = None
    <3>1. EnsureModuleData(r) = v
      BY <1>2, <2>3, <2>5 DEF EnsureModuleData, q
    <3>2. ModuleIn = None
      BY <2>5 DEF ModuleIn
    <3> HIDE DEF v
    <3> QED
      BY <2>2, <2>3, <2>4, <3>1, <3>2 DEF Good, Coherent, Counted, Known, SameSearches
  <2>6. CASE VersionIn # None
    <3>1. ModuleAddressOf(v) = ModuleIn
      BY <2>3, <2>6, AddressOfIn DEF ModuleAddressOf, ModuleIn, Keys
    <3>2. EnsureModuleData(r) = [s EXCEPT !.moduleAddress = ModuleIn, !.scans = 1]
      <4>1. v.scans + 1 = 1
        BY <2>2, <2>3 DEF SameSearches
      <4> QED
        BY <1>2, <2>3, <2>6, <3>1, <4>1 DEF EnsureModuleData, q
    <3>3. Known(s) /\ SameSearches(v, s) /\ s.version = VersionIn
      BY <2>3, LoadSymtabKnown
    <3>4. SameSearches(q, s)
      BY <2>3, <3>3 DEF SameSearches
    <3> HIDE DEF s, v
    <3> DEFINE t == EnsureModuleData(r)
    <3>5. /\ t \in ReaderState
          /\ t.moduleAddress = ModuleIn /\ t.scans = 1
          /\ t.version = s.version /\ t.symtab = s.symtab
          /\ t.typesSearched = s.typesSearched /\ t.typesAddress = s.typesAddress
          /\ t.moduleSearched = s.moduleSearched
          /\ t.module = s.module /\ t.lookups = s.lookups
      <4> HIDE DEF s, t, v
      <4>1. t = [s EXCEPT !.moduleAddress = ModuleIn, !.scans = 1]
        BY <3>2 DEF t
      <4> QED
        BY <3>3, <4>1, ModuleInType DEF Known, ReaderState
    <3>6. /\ t.typesSearched = r.typesSearched /\ t.typesAddress = r.typesAddress
          /\ t.moduleSearched = TRUE /\ t.module = None /\ t.lookups = r.lookups
      BY <2>2, <3>4, <3>5 DEF SameSearches
    <3> HIDE DEF t
    <3>7. Coherent(t)
      BY <3>3, <3>5, <3>6 DEF Good, Coherent, Known
    <3>8. Counted(t)
      BY <3>5, <3>6 DEF Good, Counted
    <3> QED
      BY <2>3, <2>4, <3>3, <3>5, <3>6, <3>7, <3>8 DEF Good, t
  <2> QED
    BY <2>5, <2>6
<1> QED
  BY <1>1, <1>2 DEF Good, ReaderState

LEMMA EnsureModuleGood ==
  ASSUME IsImage(image), NEW r, Good(r)
  PROVE  /\ Good(EnsureModule(r))
         /\ EnsureModule(r).moduleAddress = ModuleIn
         /\ r.version # None => EnsureModule(r).version = r.version
         /\ EnsureModule(r).typesAddress = r.typesAddress
         /\ r.version # None /\ ModuleIn # None =>
              EnsureModule(r).module = <<ModuleIn, VersionIn>>
<1>1. CASE r.module # None
  BY <1>1 DEF EnsureModule, Good, Coherent
<1>2. CASE r.module = None
  <2> DEFINE d == EnsureModuleData(r)
             v == EnsureVersion(d)
  <2>1. /\ Good(d) /\ d.moduleAddress = ModuleIn
        /\ r.version # None => d.version = r.version
        /\ d.typesAddress = r.typesAddress
    BY EnsureModuleDataGood
  <2>2. Known(v) /\ SameSearches(d, v) /\ v.version = VersionIn
    BY <2>1, GoodKnown, EnsureVersionKnown
  <2>3. d.version # None => v.version = d.version
    BY <2>1, <2>2 DEF Good, Coherent
  <2>4. Good(v)
    BY <2>1, <2>2, <2>3, GoodAgain
  <2>5. CASE ModuleIn = None
    BY <1>2, <2>1, <2>5 DEF EnsureModule
  <2>6. CASE ModuleIn # None
    <3>1. VersionIn # None
      BY <2>6 DEF ModuleIn
    <3>2. EnsureModule(r) = [v EXCEPT !.module = <<v.moduleAddress, v.version>>]
      BY <1>2, <2>1, <2>2, <2>6, <3>1 DEF EnsureModule
    <3>3. v.moduleAddress = ModuleIn /\ v.typesAddress = r.typesAddress
      BY <2>1, <2>2 DEF SameSearches
    <3>4. r.version # None => v.version = r.version
      BY <2>1, <2>3
    <3>5. <<ModuleIn, VersionIn>> \in Addresses \X Versions
      BY <2>6, <3>1, ModuleInType, VersionInType DEF Opt
    <3> HIDE DEF d, v
    <3> QED
      BY <2>2, <2>4, <2>6, <3>1, <3>2, <3>3, <3>4, <3>5, NoneAssumption
         DEF Good, Coherent, Counted, ReaderState, Opt
  <2> QED
    BY <2>5, <2>6
<1> QED
  BY <1>1, <1>2 DEF Good, ReaderState

-----------------------------------------------------------------------------
(* The table an image yields, whoever asks.                                *)
WordTableIn(word) ==
  LET m == image.module[<<ModuleIn, VersionIn>>]
  IN  IF m.types = None \/ m[word] = None THEN None
      ELSE [data |-> m[word], version |-> VersionIn, types |-> m.types, base |-> 0]

TableIn(data, word, b) ==
  IF VersionIn = None THEN None
  ELSE IF SymbolIn("runtime.types") # None /\ data # None
  THEN [data |-> data, version |-> VersionIn,
        types |-> SymbolIn("runtime.types"), base |-> SectionBase(b)]
  ELSE IF ModuleIn = None THEN None ELSE WordTableIn(word)

LEMMA AfterTableGood ==
  ASSUME IsImage(image), NEW r, Good(r), NEW data
  PROVE  /\ Good(AfterTable(r, data))
         /\ \A word, b : TableOf(r, data, word, b) = TableIn(data, word, b)
<1> DEFINE v == EnsureVersion(r)
           t == EnsureTypes(v)
           m == EnsureModule(t)
<1>1. Known(v) /\ SameSearches(r, v) /\ v.version = VersionIn
  BY GoodKnown, EnsureVersionKnown
<1>2. Good(v)
  <2>1. r.version # None => v.version = r.version
    BY <1>1 DEF Good, Coherent
  <2> QED
    BY <1>1, <2>1, GoodAgain
<1>3. Good(t) /\ t.typesAddress = SymbolIn("runtime.types") /\ t.version = VersionIn
  BY <1>1, <1>2, EnsureTypesGood
<1>4. /\ Good(m) /\ m.moduleAddress = ModuleIn
      /\ m.typesAddress = SymbolIn("runtime.types")
      /\ VersionIn # None => m.version = VersionIn
      /\ VersionIn # None /\ ModuleIn # None => m.module = <<ModuleIn, VersionIn>>
  BY <1>3, EnsureModuleGood
<1>5. CASE VersionIn = None
  <2>1. AfterTable(r, data) = v
    BY <1>1, <1>5 DEF AfterTable
  <2> QED
    BY <1>1, <1>2, <1>5, <2>1 DEF TableOf, TableIn
<1>6. CASE VersionIn # None /\ SymbolIn("runtime.types") # None /\ data # None
  <2>1. AfterTable(r, data) = t
    BY <1>1, <1>3, <1>6 DEF AfterTable
  <2> QED
    BY <1>3, <1>6, <2>1 DEF TableOf, TableIn, SectionTable
<1>7. CASE VersionIn # None /\ ~(SymbolIn("runtime.types") # None /\ data # None)
  <2>1. AfterTable(r, data) = m
    BY <1>1, <1>3, <1>7 DEF AfterTable
  <2>2. ModuleIn # None => m.module # None
    BY <1>4, <1>7, ModuleInType, VersionInType, NoneAssumption DEF Opt
  <2> HIDE DEF m
  <2> QED
    BY <1>4, <1>7, <2>1, <2>2 DEF TableOf, TableIn, ModuleTable, WordTableIn
<1> QED
  BY <1>5, <1>6, <1>7

(* The answer the image gives to a call, whoever asks.                     *)
AnswerIn(c) ==
  CASE c.op = "version" -> VersionIn
    [] c.op = "buildInfo" -> IF image.buildInfo THEN image.recorded ELSE None
    [] c.op = "findSymtabByKey" -> IF SymbolIn(c.key) # None THEN image.text[c.key] ELSE None
    [] c.op = "findSymbolAddress" -> SymbolIn(c.key)
    [] c.op = "interfaces" -> TableIn(image.itablink, "itabLinks", c.base)
    [] c.op = "typeLinks" -> TableIn(image.typelink, "typeLinks", c.base)
    [] c.op = "symbols" -> StreamTable(c.base, c.opened)
    [] c.op = "memorySymbols" -> MemoryTable(c.method, c.base)
    [] OTHER -> None

(* A call names a symbol of the table when it names one at all.            *)
IsCall(c) == c.op \in {"findSymtabByKey", "findSymbolAddress"} => c.key \in Keys

(* Every good Reader gives the image's answer.                             *)
LEMMA GoodAnswers ==
  ASSUME IsImage(image), NEW r, Good(r), NEW c, IsCall(c)
  PROVE  Answer(r, c) = AnswerIn(c)
<1>1. Known(r)
  BY GoodKnown
<1>2. VersionOf(r) = VersionIn
  BY <1>1, VersionOfIn
<1>3. ASSUME NEW k \in Keys
      PROVE  /\ AddressOf(r, k) = SymbolIn(k)
             /\ TextOf(r, k) = IF SymbolIn(k) # None THEN image.text[k] ELSE None
  BY <1>1, AddressOfIn DEF TextOf
<1>4. \A data, word, b : TableOf(r, data, word, b) = TableIn(data, word, b)
  BY AfterTableGood
<1> QED
  BY <1>2, <1>3, <1>4 DEF Answer, AnswerIn, IsCall

-----------------------------------------------------------------------------
(* What every call preserves: the Reader is good, and the answer is the    *)
(* image's answer to the call.                                             *)
IInv ==
  /\ IsImage(image)
  /\ Good(reader)
  /\ IsCall(call)
  /\ ans = AnswerIn(call)

(* A call on a good Reader that returns its answer and leaves it good.     *)
LEMMA CallKeepsIInv ==
  ASSUME IInv, image' = image, Good(reader'), IsCall(call'),
         ans' = Answer(reader, call')
  PROVE  IInv'
<1>1. Good(reader)'
  BY DEF Good, ReaderState, Coherent, Counted, SymbolIn, VersionIn, ModuleIn, Parsed
<1>2. ans' = AnswerIn(call')
  BY GoodAnswers DEF IInv
<1>3. (ans = AnswerIn(call))'
  BY <1>2 DEF AnswerIn, TableIn, WordTableIn, SymbolIn, VersionIn, ModuleIn, Parsed,
              SectionBase, StreamTable, MemoryTable, Bias, MinVA, Lowest
<1> QED
  BY <1>1, <1>3 DEF IInv, IsImage, IsCall

LEMMA NextIInv == IInv /\ [Next]_vars => IInv'
<1> SUFFICES ASSUME IInv, [Next]_vars PROVE IInv'
  OBVIOUS
<1>0. IsImage(image) /\ Good(reader) /\ Known(reader)
  BY GoodKnown DEF IInv
<1>s. Good(LoadSymtab(reader))
  BY <1>0, LoadSymtabKnown, GoodAgain
<1>1. CASE GetVersion
  <2>1. Good(reader')
    BY <1>0, <1>1, AfterVersionKnown, GoodAgain DEF GetVersion
  <2>2. ans' = Answer(reader, call') /\ IsCall(call')
    BY <1>1 DEF GetVersion, Answer, IsCall
  <2> QED
    BY <1>1, <2>1, <2>2, CallKeepsIInv DEF GetVersion
<1>2. CASE GetBuildInfo
  <2>1. ans' = Answer(reader, call') /\ IsCall(call')
    BY <1>2 DEF GetBuildInfo, Answer, IsCall
  <2> QED
    BY <1>0, <1>2, <2>1, CallKeepsIInv DEF GetBuildInfo
<1>3. ASSUME NEW k \in Keys, FindSymtabByKey(k) PROVE IInv'
  <2>1. ans' = Answer(reader, call') /\ IsCall(call')
    BY <1>3 DEF FindSymtabByKey, Answer, IsCall
  <2> QED
    BY <1>s, <1>3, <2>1, CallKeepsIInv DEF FindSymtabByKey
<1>4. ASSUME NEW k \in Keys, FindSymbolAddress(k) PROVE IInv'
  <2>1. ans' = Answer(reader, call') /\ IsCall(call')
    BY <1>4 DEF FindSymbolAddress, Answer, IsCall
  <2> QED
    BY <1>s, <1>4, <2>1, CallKeepsIInv DEF FindSymbolAddress
<1>5. ASSUME NEW b \in Bases, Interfaces(b) PROVE IInv'
  <2>1. ans' = Answer(reader, call') /\ IsCall(call')
    BY <1>5 DEF Interfaces, Answer, IsCall
  <2>2. Good(reader')
    BY <1>0, <1>5, AfterTableGood DEF Interfaces
  <2> QED
    BY <1>5, <2>1, <2>2, CallKeepsIInv DEF Interfaces
<1>6. ASSUME NEW b \in Bases, TypeLinks(b) PROVE IInv'
  <2>1. ans' = Answer(reader, call') /\ IsCall(call')
    BY <1>6 DEF TypeLinks, Answer, IsCall
  <2>2. Good(reader')
    BY <1>0, <1>6, AfterTableGood DEF TypeLinks
  <2> QED
    BY <1>6, <2>1, <2>2, CallKeepsIInv DEF TypeLinks
<1>7. ASSUME NEW b \in Bases, StreamSymbols(b) PROVE IInv'
  <2>1. ans' = Answer(reader, call') /\ IsCall(call')
    BY <1>7 DEF StreamSymbols, Answer, IsCall
  <2> QED
    BY <1>0, <1>7, <2>1, CallKeepsIInv DEF StreamSymbols
<1>8. ASSUME NEW m \in Methods, NEW b \in Bases, MemorySymbols(m, b) PROVE IInv'
  <2>1. ans' = Answer(reader, call') /\ IsCall(call')
    BY <1>8 DEF MemorySymbols, Answer, IsCall
  <2> QED
    BY <1>0, <1>8, <2>1, CallKeepsIInv DEF MemorySymbols
<1>9. CASE UNCHANGED vars
  <2>1. ans' = Answer(reader, call')
    BY <1>0, <1>9, GoodAnswers DEF vars, IInv
  <2> QED
    BY <1>0, <1>9, <2>1, CallKeepsIInv DEF vars, IInv
<1> QED
  BY <1>1, <1>2, <1>3, <1>4, <1>5, <1>6, <1>7, <1>8, <1>9 DEF Next

LEMMA InitIInv == Init => IInv
<1> SUFFICES ASSUME Init PROVE IInv
  OBVIOUS
<1>1. IsImage(image) /\ Good(reader)
  BY ImagesAssumption, NewGood DEF Init
<1>2. IsCall(call) /\ ans = AnswerIn(call)
  BY DEF Init, IsCall, AnswerIn
<1> QED
  BY <1>1, <1>2 DEF IInv

(* In every reachable state the Reader knows nothing but what the image    *)
(* says, and its last answer is the image's.                               *)
THEOREM SpecIInv == Spec => []IInv
  BY InitIInv, NextIInv, PTL DEF Spec

THEOREM TypeCorrect == Spec => []TypeOK
<1>1. IInv => TypeOK
  BY DEF IInv, Good, TypeOK
<1> QED
  BY <1>1, SpecIInv, PTL

(* No order of calls leaves the kept results out of step with each other   *)
(* or with the image.                                                      *)
THEOREM CacheCoherentHolds == Spec => []CacheCoherent
<1>1. IInv => CacheCoherent
  BY DEF IInv, Good, CacheCoherent
<1> QED
  BY <1>1, SpecIInv, PTL

(* A used Reader answers as a new one would.                               *)
THEOREM HistoryFreeHolds == Spec => []HistoryFree
<1>1. IInv => HistoryFree
  <2> SUFFICES ASSUME IInv PROVE HistoryFree
    OBVIOUS
  <2>1. Answer(NewReader, call) = AnswerIn(call)
    BY NewGood, GoodAnswers DEF IInv
  <2> QED
    BY <2>1 DEF IInv, HistoryFree
<1> QED
  BY <1>1, SpecIInv, PTL

(* Neither search is ever repeated, even after it found nothing.           *)
THEOREM SearchesOnceHolds == Spec => []SearchesOnce
<1>1. IInv => SearchesOnce
  BY DEF IInv, Good, Counted, ReaderState, SearchesOnce
<1> QED
  BY <1>1, SpecIInv, PTL

LEMMA WordTableInType ==
  ASSUME IsImage(image), VersionIn # None, ModuleIn # None,
         NEW word \in {"itabLinks", "typeLinks"}, WordTableIn(word) # None
  PROVE  /\ WordTableIn(word).version \in Versions
         /\ WordTableIn(word).types \in Addresses
         /\ WordTableIn(word).data \in Addresses
<1> DEFINE m == image.module[<<ModuleIn, VersionIn>>]
<1>1. VersionIn \in Versions /\ ModuleIn \in Addresses
  BY VersionInType, ModuleInType DEF Opt
<1>2. m \in ModuleWords
  BY <1>1 DEF IsImage
<1> HIDE DEF m
<1>3. m.types # None /\ m[word] # None
  BY DEF WordTableIn, m
<1>4. m.types \in Addresses /\ m[word] \in Addresses
  BY <1>2, <1>3 DEF ModuleWords, Opt
<1>5. WordTableIn(word) = [data |-> m[word], version |-> VersionIn,
                           types |-> m.types, base |-> 0]
  BY <1>3 DEF WordTableIn, m
<1> QED
  BY <1>1, <1>4, <1>5

LEMMA TableInComplete ==
  ASSUME IsImage(image), NEW data \in Opt(Addresses), NEW b,
         NEW word \in {"itabLinks", "typeLinks"}, TableIn(data, word, b) # None
  PROVE  /\ TableIn(data, word, b).version \in Versions
         /\ TableIn(data, word, b).types \in Addresses
         /\ TableIn(data, word, b).data \in Addresses
<1>1. VersionIn # None
  BY DEF TableIn
<1>2. CASE SymbolIn("runtime.types") # None /\ data # None
  BY <1>1, <1>2, VersionInType, SymbolInType DEF TableIn, Opt, Keys
<1>3. CASE ~(SymbolIn("runtime.types") # None /\ data # None)
  BY <1>1, <1>3, WordTableInType DEF TableIn
<1> QED
  BY <1>2, <1>3

(* No table is handed out with a missing version, types address or array.  *)
THEOREM CompleteTablesHolds == Spec => []CompleteTables
<1>1. IInv => CompleteTables
  <2> SUFFICES ASSUME IInv, call.op \in {"interfaces", "typeLinks"}, ans # None
               PROVE  ans.version \in Versions /\ ans.types \in Addresses /\ ans.data \in Addresses
    BY DEF CompleteTables
  <2>1. CASE call.op = "interfaces"
    <3>1. ans = TableIn(image.itablink, "itabLinks", call.base)
      BY <2>1 DEF IInv, AnswerIn
    <3>2. image.itablink \in Opt(Addresses)
      BY DEF IInv, IsImage
    <3> QED
      BY <3>1, <3>2, TableInComplete DEF IInv
  <2>2. CASE call.op = "typeLinks"
    <3>1. ans = TableIn(image.typelink, "typeLinks", call.base)
      BY <2>2 DEF IInv, AnswerIn
    <3>2. image.typelink \in Opt(Addresses)
      BY DEF IInv, IsImage
    <3> QED
      BY <3>1, <3>2, TableInComplete DEF IInv
  <2> QED
    BY <2>1, <2>2
<1> QED
  BY <1>1, SpecIInv, PTL
=============================================================================
