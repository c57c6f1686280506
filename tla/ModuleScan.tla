----------------------------- MODULE ModuleScan -----------------------------
(***************************************************************************)
(* Reader::findModuleData with validateModuleData                          *)
(* (src/src/symbol/reader.cpp), and the ModuleData object made from what   *)
(* it finds (src/src/symbol/module_data.cpp, offset_map.h).  Without a     *)
(* symbol for it the moduledata is searched word by word: a word of a data *)
(* section that holds the address of the pclntab may be its first word.    *)
(*                                                                         *)
(* image.word[a] is the converted word at address a; an address outside    *)
(* its domain is one readVirtualMemory cannot read.                        *)
(***************************************************************************)
EXTENDS Version

CONSTANT Images   \* the executables, each with the version the Reader found out

VARIABLES
  image,
  st,     \* "new", "scan", "found" or "missing"
  sec,    \* the section the scan is in: index into section_names
  k,      \* words of that section passed: current_addr is k words behind search_start
  found,  \* the moduledata's address, once found
  ans     \* what the last question to the ModuleData was answered with

vars == <<image, st, sec, k, found, ans>>

(* .rodata, .noptrdata and .data, in the order of the search.              *)
Sections == 1..3

-----------------------------------------------------------------------------
(* getOffsets, in words: where types, etypes and the two arrays are, and   *)
(* where the arrays' lengths.                                              *)
Row(types, etypes, typeLinks, typeLinksLen, itabLinks, itabLinksLen) ==
  [types |-> types, etypes |-> etypes, typeLinks |-> typeLinks, typeLinksLen |-> typeLinksLen,
   itabLinks |-> itabLinks, itabLinksLen |-> itabLinksLen]

Offsets(v) ==
  CASE AtLeast(v, <<1, 20>>) -> Row(39, 40, 44, 45, 47, 48)
    [] Before(v, <<1, 20>>) /\ AtLeast(v, <<1, 18>>) -> Row(35, 36, 42, 43, 45, 46)
    [] Before(v, <<1, 18>>) /\ AtLeast(v, <<1, 16>>) -> Row(35, 36, 40, 41, 43, 44)
    [] Before(v, <<1, 16>>) /\ AtLeast(v, <<1, 10>>) -> Row(25, 26, 30, 31, 33, 34)
    [] OTHER -> None

-----------------------------------------------------------------------------
Readable(i, a) == a \in DOMAIN i.word

(* The j-th data section's words, and the address of one.                  *)
Words(i, j) == IF i.section[j] = None THEN {} ELSE {w \in 0..i.section[j].size : w * i.ptrSize < i.section[j].size}
AddressAt(i, j, w) == i.section[j].at + w * i.ptrSize

(* The word at a is there and is x.                                        *)
Reads(i, a, x) == Readable(i, a) /\ i.word[a] = x

(* Mutant: before Go 1.16 the text addresses are not compared.             *)
ValidateByFirstWord(i, a) == Reads(i, a, i.pclntab)

(* validateModuleData: from Go 1.16 on the first word, which is then the   *)
(* pcHeader; before, also the text's address as the pclntab has it, and    *)
(* that the pcs begin with the text section and end in it.                 *)
Validate(i, a) ==
  /\ Reads(i, a, i.pclntab)
  /\ Before(i.version, <<1, 16>>) =>
       /\ Readable(i, a + 12 * i.ptrSize)
       /\ Reads(i, i.pclntab + 8 + i.ptrSize, i.word[a + 12 * i.ptrSize])
       /\ Reads(i, a + 10 * i.ptrSize, i.text.at)
       /\ Readable(i, a + 11 * i.ptrSize)
       /\ i.word[a + 11 * i.ptrSize] <= i.text.at + i.text.size

Matches(i, a) == Reads(i, a, i.pclntab) /\ Validate(i, a)

-----------------------------------------------------------------------------
Init ==
  /\ image \in Images
  /\ st = "new"
  /\ sec = 1 /\ k = 0
  /\ found = None /\ ans = None

FindSymbol ==
  /\ st = "new" /\ image.version # None /\ image.symbol # None
  /\ st' = "found" /\ found' = image.symbol
  /\ UNCHANGED <<image, sec, k, ans>>

(* No version, or nothing to look for.                                     *)
NoSearch ==
  /\ st = "new"
  /\ image.version = None \/ (image.symbol = None /\ image.pclntab = None)
  /\ st' = "missing"
  /\ UNCHANGED <<image, sec, k, found, ans>>

BeginScan ==
  /\ st = "new" /\ image.version # None /\ image.symbol = None /\ image.pclntab # None
  /\ st' = "scan"
  /\ UNCHANGED <<image, sec, k, found, ans>>

(* The section is not there or its end is reached.                         *)
NextSection ==
  /\ st = "scan" /\ k \notin Words(image, sec)
  /\ IF sec + 1 \in Sections THEN sec' = sec + 1 /\ st' = st
     ELSE st' = "missing" /\ sec' = sec
  /\ k' = 0
  /\ UNCHANGED <<image, found, ans>>

(* Mutants: the scan moves two words at a time; it stays where it cannot   *)
(* read.                                                                   *)
PassTwo ==
  /\ st = "scan" /\ k \in Words(image, sec)
  /\ ~Matches(image, AddressAt(image, sec, k))
  /\ k' = k + 2
  /\ UNCHANGED <<image, st, sec, found, ans>>

PassStuck ==
  /\ st = "scan" /\ k \in Words(image, sec)
  /\ ~Matches(image, AddressAt(image, sec, k))
  /\ k' = IF Readable(image, AddressAt(image, sec, k)) THEN k + 1 ELSE k
  /\ UNCHANGED <<image, st, sec, found, ans>>

(* A word that cannot be read, is another one or does not validate.        *)
Pass ==
  /\ st = "scan" /\ k \in Words(image, sec)
  /\ ~Matches(image, AddressAt(image, sec, k))
  /\ k' = k + 1
  /\ UNCHANGED <<image, st, sec, found, ans>>

Accept ==
  /\ st = "scan" /\ k \in Words(image, sec)
  /\ Matches(image, AddressAt(image, sec, k))
  /\ st' = "found" /\ found' = AddressAt(image, sec, k)
  /\ UNCHANGED <<image, sec, k, ans>>

-----------------------------------------------------------------------------
(* The ModuleData at address found.                                        *)
FieldAt(f) == found + Offsets(image.version)[f] * image.ptrSize
WordAt(a) == IF Readable(image, a) THEN image.word[a] ELSE None
Supported == Offsets(image.version) # None

(* types, etypes; ranges needs both.                                       *)
Range ==
  IF ~Supported \/ WordAt(FieldAt("types")) = None \/ WordAt(FieldAt("etypes")) = None THEN None
  ELSE <<WordAt(FieldAt("types")), WordAt(FieldAt("etypes"))>>

(* Mutant: both arrays use the column of the first one's length.           *)
LengthOfFirst(f) ==
  IF Before(image.version, <<1, 16>>) THEN WordAt(FieldAt("typeLinksLen"))
  ELSE WordAt(FieldAt(f) + image.ptrSize)

(* Before Go 1.16 the length has a column of its own in getOffsets, from   *)
(* then on it is read behind the array's address.                          *)
LengthOf(f) ==
  IF Before(image.version, <<1, 16>>)
  THEN WordAt(FieldAt(IF f = "typeLinks" THEN "typeLinksLen" ELSE "itabLinksLen"))
  ELSE WordAt(FieldAt(f) + image.ptrSize)

(* Where the array's address could not be read, anything is dereferenced.  *)
Array(f, a) == IF a \in image.mapped THEN <<a, LengthOf(f)>> ELSE None
Links(f) ==
  IF ~Supported \/ LengthOf(f) = None THEN {None}
  ELSE IF LengthOf(f) = 0 THEN {<<None, 0>>}
  ELSE IF WordAt(FieldAt(f)) = None THEN {Array(f, a) : a \in image.mapped} \cup {None}
  ELSE {Array(f, WordAt(FieldAt(f)))}

(* pcHeader exists from Go 1.16 on.                                        *)
PcHeaderOf == IF Before(image.version, <<1, 16>>) THEN None ELSE WordAt(found)

Answer(q, v) ==
  /\ ans' = [q |-> q, is |-> v]
  /\ UNCHANGED <<image, st, sec, k, found>>

Ask ==
  /\ st = "found"
  /\ \/ Answer("ranges", Range)
     \/ Answer("pcHeader", PcHeaderOf)
     \/ \E f \in {"typeLinks", "itabLinks"} : \E v \in Links(f) : Answer(f, v)

Search == FindSymbol \/ NoSearch \/ BeginScan \/ NextSection \/ Pass \/ Accept

Next == Search \/ Ask

Spec == Init /\ [][Next]_vars

(* The search is a plain loop: once begun it keeps running.                *)
FairSpec == Spec /\ WF_vars(Search)

-----------------------------------------------------------------------------
(* An image: real is where the linker put the moduledata, a section and a  *)
(* word of it, and says its contents; an array is its address, its length  *)
(* and its capacity.                                                       *)
Fields == {"types", "etypes", "typeLinks", "itabLinks"}
Columns == Fields \cup {"typeLinksLen", "itabLinksLen"}

(* The moduledata struct as the Go runtime of a version declares it, from  *)
(* Go 1.10 on: the words in front of a field are those of the fields that  *)
(* stand before it.  A slice is three words.                               *)
Slice == 3
StructOf(v) ==
  LET older(minor) == v[1] < 1 \/ (v[1] = 1 /\ v[2] < minor)
      tables == IF older(16) THEN 3 * Slice   \* pclntable, ftab, filetab
                ELSE 1 + 6 * Slice            \* pcHeader; funcnametab, cutab, filetab, pctab, pclntable, ftab
      minpc == tables + 1                     \* findfunctab
      text == minpc + 2                       \* minpc, maxpc
      counters == text + 5 * 2                \* text, noptrdata, data, bss, noptrbss: where each begins and ends
      end == counters + IF older(20) THEN 0 ELSE 2  \* covctrs, ecovctrs
      types == end + 3                        \* end, gcdata, gcbss
      rodata == types + 2                     \* types, etypes
      textsectmap == rodata + IF older(18) THEN 0 ELSE 2  \* rodata, gofunc
  IN  [minpc |-> minpc, text |-> text, types |-> types, etypes |-> types + 1,
       typeLinks |-> textsectmap + Slice, itabLinks |-> textsectmap + 2 * Slice]

IsImage(i) ==
  /\ i.version \in (Nat \X Nat) \cup {None} /\ i.ptrSize \in {4, 8}
  /\ i.symbol \in Nat \cup {None} /\ i.pclntab \in Nat \cup {None}
  /\ \A j \in Sections : i.section[j] = None \/ (i.section[j].at \in Nat /\ i.section[j].size \in Nat)
  /\ i.text.at \in Nat /\ i.text.size \in Nat
  /\ \A a \in DOMAIN i.word : a \in Nat /\ i.word[a] \in Nat
  /\ i.mapped \subseteq Nat

RealAt(i) == AddressAt(i, i.real[1], i.real[2])

(* The moduledata of an executable, as far as it is looked at: its first   *)
(* word, the text it describes, and the four fields.                       *)
IsReal(i) ==
  /\ i.real[1] \in Sections /\ i.real[2] \in Words(i, i.real[1])
  /\ Reads(i, RealAt(i), i.pclntab)
  /\ Before(i.version, <<1, 16>>) =>
       /\ Reads(i, RealAt(i) + StructOf(i.version).minpc * i.ptrSize, i.text.at)
       /\ \E end \in i.text.at..(i.text.at + i.text.size) :
            Reads(i, RealAt(i) + (StructOf(i.version).minpc + 1) * i.ptrSize, end)
       /\ Reads(i, RealAt(i) + StructOf(i.version).text * i.ptrSize, i.text.at)
       /\ Reads(i, i.pclntab + 8 + i.ptrSize, i.text.at)
  /\ i.says \in [Fields -> Nat \X Nat]
  /\ AtLeast(i.version, <<1, 10>>) =>
       LET slot == StructOf(i.version)
       IN  /\ \A f \in Fields : Reads(i, RealAt(i) + slot[f] * i.ptrSize, i.says[f][1])
           /\ \A f \in {"typeLinks", "itabLinks"} :
                /\ Reads(i, RealAt(i) + (slot[f] + 1) * i.ptrSize, i.says[f][2])
                /\ i.says[f][1] \in i.mapped

(* Another word of the data sections that holds the pclntab's address.     *)
Decoy(i, j, w) ==
  w \in Words(i, j) /\ <<j, w>> # i.real /\ Reads(i, AddressAt(i, j, w), i.pclntab)
Earlier(i, j, w) == j < i.real[1] \/ (j = i.real[1] /\ w < i.real[2])

(* Before Go 1.16 no decoy is followed by the text's addresses.            *)
DecoysDiffer(i) ==
  \A j \in Sections : \A w \in Words(i, j) :
    Decoy(i, j, w) /\ Before(i.version, <<1, 16>>) =>
      ~Reads(i, AddressAt(i, j, w) + 10 * i.ptrSize, i.text.at)

ASSUME NoneAssumption == None \notin Nat /\ None \notin [Columns -> Nat]
ASSUME ImagesAssumption ==
  \A i \in Images :
    /\ IsImage(i)
    /\ i.real # None =>
         i.version # None /\ i.pclntab # None /\ IsReal(i) /\ DecoysDiffer(i)

-----------------------------------------------------------------------------
TypeOK ==
  /\ image \in Images
  /\ st \in {"new", "scan", "found", "missing"}
  /\ sec \in Sections /\ k \in Nat
  /\ found \in Nat \cup {None}
  /\ st = "found" <=> found # None

Searched(i) == i.version # None /\ i.symbol = None /\ i.pclntab # None

(* No word behind the scan would have been accepted: every section in      *)
(* front, and the words passed of this one.                                *)
NothingMissed ==
  st \in {"scan", "missing"} /\ Searched(image) =>
    \A j \in Sections : \A w \in Words(image, j) :
      st = "missing" \/ j < sec \/ (j = sec /\ w < k) => ~Matches(image, AddressAt(image, j, w))

(* The scan finds the moduledata the linker wrote, in any of the sections, *)
(* unless from Go 1.16 on, where only one word is looked at, another word  *)
(* in front of it holds the pclntab's address.                             *)
Misleading(i) ==
  AtLeast(i.version, <<1, 16>>) /\ \E j \in Sections : \E w \in Words(i, j) : Decoy(i, j, w) /\ Earlier(i, j, w)

FindsReal ==
  /\ image.real # None /\ Searched(image) /\ ~Misleading(image)
  /\ st \in {"found", "missing"}
  => found = RealAt(image)

(* The object made from it answers what the linker wrote, in every version *)
(* from Go 1.10 on and for both pointer sizes; but of the range of the     *)
(* types only before Go 1.20.  From there on getOffsets is two words past  *)
(* the struct's types and etypes.                                          *)
AnswersReal ==
  image.real # None /\ AtLeast(image.version, <<1, 10>>) /\ found = RealAt(image) /\ ans # None =>
    LET says == image.says
    IN  CASE ans.q = "ranges" ->
               Before(image.version, <<1, 20>>) => ans.is = <<says["types"][1], says["etypes"][1]>>
          [] ans.q = "pcHeader" -> ans.is = IF Before(image.version, <<1, 16>>) THEN None ELSE image.pclntab
          [] OTHER -> ans.is = IF says[ans.q][2] = 0 THEN <<None, 0>> ELSE says[ans.q]

(* Every search comes to an end.                                           *)
SearchEnds == <>(st \in {"found", "missing"})
=============================================================================
