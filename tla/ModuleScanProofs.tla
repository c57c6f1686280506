-------------------------- MODULE ModuleScanProofs --------------------------
(***************************************************************************)
(* For every set of executables: the search for the moduledata passes over *)
(* no word that it would have accepted, and finds the one the linker wrote *)
(* unless a word in front of it says the same.  The object made from that  *)
(* one answers what the linker wrote, in every version from Go 1.10 on,    *)
(* the range of the types only before Go 1.20: there getOffsets is not the *)
(* struct.                                                                 *)
(***************************************************************************)
EXTENDS ModuleScan, TLAPS

(* The word w of section j is behind the scan.                             *)
Passed(j, w) == st = "missing" \/ j < sec \/ (j = sec /\ w < k)

NonePassed == \A j \in Sections : \A w \in Words(image, j) : Passed(j, w) => ~Matches(image, AddressAt(image, j, w))

IInv ==
  /\ TypeOK
  /\ st = "new" => sec = 1 /\ k = 0
  /\ st = "scan" => Searched(image)
  /\ Searched(image) => NonePassed
  /\ st = "found" /\ Searched(image) =>
       k \in Words(image, sec) /\ found = AddressAt(image, sec, k) /\ Matches(image, found)

-----------------------------------------------------------------------------
(* The struct of the runtime, field by field, has what validateModuleData  *)
(* compares in words 10, 11 and 12 before Go 1.16; and the rows of         *)
(* getOffsets, chosen by comparing versions, are its places from Go 1.10   *)
(* on: of the arrays and their lengths in every version, of types and      *)
(* etypes before Go 1.20, and from then on of the fields two words behind. *)
LEMMA StructWords ==
  ASSUME NEW v \in Nat \X Nat
  PROVE  /\ StructOf(v) \in [Fields \cup {"minpc", "text"} -> Nat]
         /\ Before(v, <<1, 16>>) => StructOf(v).minpc = 10 /\ StructOf(v).text = 12
         /\ StructOf(v).etypes = StructOf(v).types + 1
  BY DEF StructOf, Before, Fields, Slice

LEMMA OffsetsAreTheStruct ==
  ASSUME NEW v \in Nat \X Nat, AtLeast(v, <<1, 10>>)
  PROVE  /\ Offsets(v) \in [Columns -> Nat]
         /\ Offsets(v).typeLinks = StructOf(v).typeLinks
         /\ Offsets(v).itabLinks = StructOf(v).itabLinks
         /\ Offsets(v).typeLinksLen = StructOf(v).typeLinks + 1
         /\ Offsets(v).itabLinksLen = StructOf(v).itabLinks + 1
         /\ Offsets(v).etypes = Offsets(v).types + 1
         /\ Offsets(v).types = StructOf(v).types + IF Before(v, <<1, 20>>) THEN 0 ELSE 2
<1>1. v[1] \in Nat /\ v[2] \in Nat
  OBVIOUS
<1>2. \A m \in Nat : Before(v, <<1, m>>) <=> v[1] < 1 \/ (v[1] = 1 /\ v[2] < m)
  BY DEF Before
<1>3. CASE v[1] = 1 /\ v[2] < 16
  BY <1>1, <1>2, <1>3 DEF Offsets, Row, AtLeast, StructOf, Slice, Columns, Fields
<1>4. CASE v[1] = 1 /\ v[2] \in 16..17
  BY <1>1, <1>2, <1>4 DEF Offsets, Row, AtLeast, StructOf, Slice, Columns, Fields
<1>5. CASE v[1] = 1 /\ v[2] \in 18..19
  BY <1>1, <1>2, <1>5 DEF Offsets, Row, AtLeast, StructOf, Slice, Columns, Fields
<1>6. CASE v[1] # 1 \/ v[2] >= 20
  BY <1>1, <1>2, <1>6 DEF Offsets, Row, AtLeast, StructOf, Slice, Columns, Fields
<1> QED BY <1>1, <1>3, <1>4, <1>5, <1>6

-----------------------------------------------------------------------------
LEMMA ImageNumbers ==
  ASSUME NEW i \in Images, NEW j \in Sections, NEW w \in Words(i, j)
  PROVE  w \in Nat /\ AddressAt(i, j, w) \in Nat
<1>1. /\ i.ptrSize \in {4, 8} /\ i.section[j] # None
      /\ i.section[j].at \in Nat /\ i.section[j].size \in Nat
  BY ImagesAssumption DEF IsImage, Words
<1> QED BY <1>1 DEF Words, AddressAt

(* The words of a section are the first ones.                              *)
LEMMA WordsAreFirst ==
  ASSUME NEW i \in Images, NEW j \in Sections, NEW n \in Nat, n \notin Words(i, j), NEW w \in Words(i, j)
  PROVE  w < n
<1>1. /\ i.ptrSize \in {4, 8} /\ i.section[j] # None /\ i.section[j].size \in Nat
      /\ w \in Nat /\ w * i.ptrSize < i.section[j].size
  BY ImagesAssumption DEF IsImage, Words
<1>2. CASE i.ptrSize = 4
  BY <1>1, <1>2 DEF Words
<1>3. CASE i.ptrSize = 8
  BY <1>1, <1>3 DEF Words
<1> QED BY <1>1, <1>2, <1>3

(* What the linker wrote is accepted.                                      *)
LEMMA RealMatches ==
  ASSUME NEW i \in Images, i.real # None
  PROVE  /\ i.real[1] \in Sections /\ i.real[2] \in Words(i, i.real[1])
         /\ Matches(i, AddressAt(i, i.real[1], i.real[2]))
<1> DEFINE a == RealAt(i)
<1>1. IsReal(i) /\ i.text.at \in Nat /\ i.text.size \in Nat /\ i.version \in Nat \X Nat
  BY ImagesAssumption DEF IsImage
<1>2. Reads(i, a, i.pclntab) /\ i.real[1] \in Sections /\ i.real[2] \in Words(i, i.real[1])
  BY <1>1 DEF IsReal
<1>3. Before(i.version, <<1, 16>>) =>
        /\ Reads(i, a + 10 * i.ptrSize, i.text.at)
        /\ \E end \in i.text.at..(i.text.at + i.text.size) : Reads(i, a + 11 * i.ptrSize, end)
        /\ Reads(i, a + 12 * i.ptrSize, i.text.at)
        /\ Reads(i, i.pclntab + 8 + i.ptrSize, i.text.at)
  BY <1>1, StructWords DEF IsReal
<1> HIDE DEF a
<1>4. Validate(i, a)
  <2> SUFFICES ASSUME Before(i.version, <<1, 16>>)
               PROVE  /\ Readable(i, a + 12 * i.ptrSize)
                      /\ Reads(i, i.pclntab + 8 + i.ptrSize, i.word[a + 12 * i.ptrSize])
                      /\ Reads(i, a + 10 * i.ptrSize, i.text.at)
                      /\ Readable(i, a + 11 * i.ptrSize)
                      /\ i.word[a + 11 * i.ptrSize] <= i.text.at + i.text.size
    BY <1>2 DEF Validate
  <2> QED BY <1>1, <1>3 DEF Reads
<1> QED BY <1>2, <1>4 DEF Matches, a, RealAt

-----------------------------------------------------------------------------
LEMMA InitIInv == Init => IInv
BY ImagesAssumption, ImageNumbers DEF Init, IInv, TypeOK, NonePassed, Passed, Sections, Searched

LEMMA NextIInv == IInv /\ [Next]_vars => IInv'
<1> SUFFICES ASSUME IInv, [Next]_vars PROVE IInv'
  OBVIOUS
<1> USE DEF IInv
<1>0. image \in Images /\ sec \in Sections /\ k \in Nat
  BY DEF TypeOK
<1>1. CASE FindSymbol
  <2>1. image.symbol \in Nat \cup {None}
    BY <1>0, ImagesAssumption DEF IsImage
  <2> QED BY <1>1, <2>1, NoneAssumption DEF FindSymbol, TypeOK, Searched, NonePassed, Passed
<1>2. CASE NoSearch
  BY <1>2 DEF NoSearch, TypeOK, Searched
<1>3. CASE BeginScan
  BY <1>3 DEF BeginScan, TypeOK, Searched, NonePassed, Passed
<1>4. CASE NextSection
  <2>1. st = "scan" /\ Searched(image) /\ NonePassed /\ image' = image /\ k' = 0 /\ found' = found
    BY <1>4 DEF NextSection
  <2>2. TypeOK'
    BY <1>4 DEF NextSection, TypeOK
  <2>3. \A w \in Words(image, sec) : ~Matches(image, AddressAt(image, sec, w))
    BY <1>0, <1>4, <2>1, WordsAreFirst DEF NextSection, NonePassed, Passed
  <2>4. \A j \in Sections : j <= sec => \A w \in Words(image, j) : ~Matches(image, AddressAt(image, j, w))
    BY <1>0, <2>1, <2>3 DEF NonePassed, Passed, Sections
  <2>5. ASSUME NEW j \in Sections, NEW w \in Words(image, j), Passed(j, w)' PROVE j <= sec
    <3>1. w \in Nat
      BY <1>0, ImageNumbers
    <3> QED BY <1>0, <1>4, <2>1, <2>5, <3>1 DEF NextSection, Passed, Sections
  <2>6. NonePassed'
    BY <2>1, <2>4, <2>5 DEF NonePassed
  <2> QED BY <1>4, <2>1, <2>2, <2>6 DEF NextSection
<1>5. CASE Pass
  <2>1. st = "scan" /\ Searched(image) /\ NonePassed /\ UNCHANGED <<image, st, sec, found>> /\ k' = k + 1
    BY <1>5 DEF Pass
  <2>2. ~Matches(image, AddressAt(image, sec, k))
    BY <1>5 DEF Pass
  <2>3. ASSUME NEW j \in Sections, NEW w \in Words(image, j), Passed(j, w)'
        PROVE  ~Matches(image, AddressAt(image, j, w))
    <3>1. w \in Nat
      BY <1>0, ImageNumbers
    <3>2. Passed(j, w) \/ (j = sec /\ w = k)
      BY <1>0, <2>1, <2>3, <3>1 DEF Passed
    <3> QED BY <2>1, <2>2, <3>2 DEF NonePassed
  <2> QED BY <1>0, <2>1, <2>3 DEF TypeOK, NonePassed
<1>6. CASE Accept
  <2>1. AddressAt(image, sec, k) \in Nat
    BY <1>0, <1>6, ImageNumbers DEF Accept
  <2>2. TypeOK'
    BY <1>6, <2>1, NoneAssumption DEF Accept, TypeOK
  <2>3. NonePassed'
    BY <1>6 DEF Accept, NonePassed, Passed
  <2> QED BY <1>6, <2>2, <2>3 DEF Accept
<1>7. CASE Ask
  <2>1. UNCHANGED <<image, st, sec, k, found>>
    BY <1>7 DEF Ask, Answer
  <2> QED BY <2>1 DEF TypeOK, NonePassed, Passed
<1>8. CASE UNCHANGED vars
  BY <1>8 DEF vars, TypeOK, NonePassed, Passed
<1> QED BY <1>1, <1>2, <1>3, <1>4, <1>5, <1>6, <1>7, <1>8 DEF Next, Search

LEMMA SpecIInv == Spec => []IInv
BY InitIInv, NextIInv, PTL DEF Spec

(* The variables keep their types; an address is there once it is found.   *)
THEOREM TypeCorrect == Spec => []TypeOK
<1>1. IInv => TypeOK
  BY DEF IInv
<1> QED BY <1>1, SpecIInv, PTL

(* The scan passes over nothing it would have accepted.                    *)
THEOREM ScanComplete == Spec => []NothingMissed
<1>1. IInv => NothingMissed
  BY DEF IInv, NothingMissed, NonePassed, Passed
<1> QED BY <1>1, SpecIInv, PTL

(* A decoy is not accepted before Go 1.16.                                 *)
LEMMA OldDecoy ==
  ASSUME NEW i \in Images, i.real # None, NEW j \in Sections, NEW w \in Words(i, j),
         Matches(i, AddressAt(i, j, w)), Before(i.version, <<1, 16>>)
  PROVE  <<j, w>> = i.real
<1>1. DecoysDiffer(i)
  BY ImagesAssumption
<1>2. Reads(i, AddressAt(i, j, w), i.pclntab) /\ Reads(i, AddressAt(i, j, w) + 10 * i.ptrSize, i.text.at)
  BY DEF Matches, Validate
<1> QED BY <1>1, <1>2 DEF DecoysDiffer, Decoy

(* The search ends with the moduledata that the linker wrote, unless from  *)
(* Go 1.16 on another word in front of it holds the pclntab's address.     *)
THEOREM ScanFindsReal == Spec => []FindsReal
<1>1. IInv => FindsReal
  <2> SUFFICES ASSUME IInv, image.real # None, Searched(image), ~Misleading(image), st \in {"found", "missing"}
               PROVE  found = RealAt(image)
    BY DEF FindsReal
  <2> DEFINE j == image.real[1]
             w == image.real[2]
  <2>1. image \in Images /\ sec \in Sections /\ k \in Nat /\ NonePassed
    BY DEF IInv, TypeOK
  <2>2. j \in Sections /\ w \in Words(image, j) /\ Matches(image, AddressAt(image, j, w)) /\ w \in Nat
    BY <2>1, RealMatches, ImageNumbers
  <2>3. ~Passed(j, w)
    BY <2>1, <2>2 DEF NonePassed
  <2>4. st = "found" /\ k \in Words(image, sec) /\ found = AddressAt(image, sec, k) /\ Matches(image, found)
    BY <2>3 DEF IInv, Passed
  <2>5. CASE j = sec /\ w = k
    BY <2>4, <2>5 DEF RealAt
  <2>6. CASE ~(j = sec /\ w = k)
    <3>1. <<sec, k>> # image.real
      BY <2>6
    <3>2. ~Before(image.version, <<1, 16>>)
      BY <2>1, <2>4, <3>1, OldDecoy
    <3>3. Decoy(image, sec, k)
      BY <2>4, <3>1 DEF Decoy, Matches
    <3>4. Earlier(image, sec, k)
      BY <2>1, <2>2, <2>3, <2>6 DEF Passed, Earlier, Sections
    <3> QED BY <2>1, <2>4, <3>2, <3>3, <3>4 DEF Misleading, AtLeast
  <2> QED BY <2>5, <2>6
<1> QED BY <1>1, SpecIInv, PTL

-----------------------------------------------------------------------------
(* What is at the offsets of the moduledata the linker wrote: the arrays   *)
(* and their lengths, and before Go 1.20 the range of the types.           *)
Right(f) == f \in {"typeLinks", "itabLinks"} \/ Before(image.version, <<1, 20>>)

LEMMA RealFields ==
  ASSUME image \in Images, image.real # None, found = RealAt(image),
         AtLeast(image.version, <<1, 10>>)
  PROVE  /\ Supported /\ WordAt(found) = image.pclntab
         /\ \A f \in Fields : Right(f) => WordAt(FieldAt(f)) = image.says[f][1] /\ image.says[f][1] # None
         /\ \A f \in {"typeLinks", "itabLinks"} :
              LengthOf(f) = image.says[f][2] /\ LengthOf(f) # None /\ image.says[f][1] \in image.mapped
<1> DEFINE slot == StructOf(image.version)
           row == Offsets(image.version)
           says == image.says
           ptr == image.ptrSize
<1>1. IsImage(image) /\ IsReal(image) /\ image.version \in Nat \X Nat
  BY ImagesAssumption DEF IsImage
<1>s. slot \in [Fields \cup {"minpc", "text"} -> Nat] /\ slot.etypes = slot.types + 1
  BY <1>1, StructWords
<1>v. /\ row \in [Columns -> Nat]
      /\ row.typeLinks = slot.typeLinks /\ row.typeLinksLen = slot.typeLinks + 1
      /\ row.itabLinks = slot.itabLinks /\ row.itabLinksLen = slot.itabLinks + 1
      /\ row.etypes = row.types + 1
      /\ Before(image.version, <<1, 20>>) => row.types = slot.types
  <2>1. row.types = slot.types + IF Before(image.version, <<1, 20>>) THEN 0 ELSE 2
    BY <1>1, OffsetsAreTheStruct
  <2>2. slot.types \in Nat
    BY <1>s DEF Fields
  <2> HIDE DEF slot, row
  <2>3. Before(image.version, <<1, 20>>) => row.types = slot.types
    BY <2>1, <2>2
  <2> QED BY <1>1, <2>3, OffsetsAreTheStruct DEF slot, row
<1>r. /\ \A f \in Fields : Reads(image, RealAt(image) + slot[f] * ptr, says[f][1])
      /\ \A f \in {"typeLinks", "itabLinks"} :
           Reads(image, RealAt(image) + (slot[f] + 1) * ptr, says[f][2]) /\ says[f][1] \in image.mapped
  BY <1>1 DEF IsReal
<1>2. /\ says \in [Fields -> Nat \X Nat] /\ ptr \in Nat /\ found \in Nat
      /\ image.real[1] \in Sections /\ image.real[2] \in Words(image, image.real[1])
  BY <1>1, ImageNumbers DEF IsReal, IsImage, RealAt
<1>3. \A a, x : Reads(image, a, x) => WordAt(a) = x
  BY DEF Reads, WordAt
<1>o. \A f : FieldAt(f) = found + row[f] * ptr
  BY DEF FieldAt
<1> HIDE DEF slot, row, ptr
<1>4. ASSUME NEW f \in Fields, Right(f) PROVE WordAt(FieldAt(f)) = says[f][1] /\ says[f][1] # None
  <2>1. row[f] = slot[f]
    BY <1>4, <1>s, <1>v DEF Right, Fields
  <2>2. Reads(image, found + slot[f] * ptr, says[f][1]) /\ says[f][1] \in Nat
    BY <1>2, <1>r
  <2> QED BY <1>3, <1>o, <2>1, <2>2, NoneAssumption
<1>5. ASSUME NEW f \in {"typeLinks", "itabLinks"}
      PROVE  LengthOf(f) = says[f][2] /\ LengthOf(f) # None /\ says[f][1] \in image.mapped
  <2>1. Reads(image, found + (slot[f] + 1) * ptr, says[f][2]) /\ says[f][1] \in image.mapped
    BY <1>r
  <2>2. says[f][2] \in Nat /\ slot[f] \in Nat /\ row[f] = slot[f]
    BY <1>2, <1>s, <1>v DEF Fields
  <2>3. LengthOf(f) = WordAt(found + (slot[f] + 1) * ptr)
    <3>1. CASE Before(image.version, <<1, 16>>)
      <4>1. CASE f = "typeLinks"
        BY <1>o, <1>v, <3>1, <4>1 DEF LengthOf
      <4>2. CASE f = "itabLinks"
        BY <1>o, <1>v, <3>1, <4>2 DEF LengthOf
      <4> QED BY <4>1, <4>2
    <3>2. CASE ~Before(image.version, <<1, 16>>)
      <4>1. (slot[f] + 1) * ptr = slot[f] * ptr + ptr /\ slot[f] * ptr \in Nat
        BY <1>2, <2>2
      <4>2. found + (slot[f] + 1) * ptr = found + slot[f] * ptr + ptr
        BY <1>2, <4>1
      <4>3. LengthOf(f) = WordAt(FieldAt(f) + ptr)
        BY <3>2 DEF LengthOf, ptr
      <4> QED BY <1>o, <2>2, <4>2, <4>3
    <3> QED BY <3>1, <3>2
  <2> QED BY <1>3, <2>1, <2>2, <2>3, NoneAssumption
<1>6. Supported
  BY <1>v, NoneAssumption DEF Supported, row
<1>7. WordAt(found) = image.pclntab
  BY <1>1, <1>3 DEF IsReal
<1> QED BY <1>4, <1>5, <1>6, <1>7

(* The answer to each question.                                            *)
LEMMA AskReal ==
  ASSUME image \in Images, image.real # None, found = RealAt(image),
         AtLeast(image.version, <<1, 10>>), Ask
  PROVE  AnswersReal'
<1> DEFINE says == image.says
<1>1. UNCHANGED <<image, found>>
  BY DEF Ask, Answer
<1>2. CASE Answer("ranges", Range)
  <2>1. Before(image.version, <<1, 20>>) => Range = <<says["types"][1], says["etypes"][1]>>
    BY RealFields DEF Range, Fields, Right
  <2> QED BY <1>1, <1>2, <2>1 DEF Answer, AnswersReal
<1>3. CASE Answer("pcHeader", PcHeaderOf)
  <2>1. PcHeaderOf = IF Before(image.version, <<1, 16>>) THEN None ELSE image.pclntab
    BY RealFields DEF PcHeaderOf
  <2> QED BY <1>1, <1>3, <2>1 DEF Answer, AnswersReal
<1>4. ASSUME NEW f \in {"typeLinks", "itabLinks"}, NEW v \in Links(f), Answer(f, v) PROVE AnswersReal'
  <2>1. f \in Fields /\ f # "ranges" /\ f # "pcHeader" /\ Right(f)
    BY DEF Fields, Right
  <2>2. /\ Supported /\ LengthOf(f) = says[f][2] /\ LengthOf(f) # None /\ says[f][1] \in image.mapped
        /\ WordAt(FieldAt(f)) = says[f][1] /\ says[f][1] # None
    BY <2>1, RealFields
  <2>3. says[f] = <<says[f][1], says[f][2]>>
    BY <2>1, ImagesAssumption DEF IsReal
  <2>4. v = IF says[f][2] = 0 THEN <<None, 0>> ELSE says[f]
    BY <2>2, <2>3 DEF Links, Array
  <2> QED BY <1>1, <1>4, <2>1, <2>4 DEF Answer, AnswersReal
<1> QED BY <1>2, <1>3, <1>4 DEF Ask

(* The object made from the moduledata that the linker wrote answers what  *)
(* it says, for both pointer sizes: the arrays and the pcHeader in every   *)
(* version from Go 1.10 on, the range of the types before Go 1.20.         *)
THEOREM AnswersRealHolds == Spec => []AnswersReal
<1> DEFINE Inv == IInv /\ (ans # None => st = "found") /\ AnswersReal
<1>1. Init => Inv
  BY InitIInv DEF Init, AnswersReal
<1>2. Inv /\ [Next]_vars => Inv'
  <2> SUFFICES ASSUME Inv, [Next]_vars PROVE Inv'
    OBVIOUS
  <2>1. IInv'
    BY NextIInv
  <2>2. CASE Ask
    <3>1. image \in Images /\ st = "found" /\ UNCHANGED <<image, found, st>>
      BY <2>2 DEF IInv, TypeOK, Ask, Answer
    <3>2. CASE image.real # None /\ AtLeast(image.version, <<1, 10>>) /\ found = RealAt(image)
      BY <2>1, <2>2, <3>1, <3>2, AskReal
    <3>3. CASE ~(image.real # None /\ AtLeast(image.version, <<1, 10>>) /\ found = RealAt(image))
      BY <2>1, <3>1, <3>3 DEF AnswersReal
    <3> QED BY <3>2, <3>3
  <2>3. CASE Search
    <3>1. st # "found" /\ ans' = ans
      BY <2>3 DEF Search, FindSymbol, NoSearch, BeginScan, NextSection, Pass, Accept
    <3> QED BY <2>1, <3>1 DEF AnswersReal
  <2>4. CASE UNCHANGED vars
    BY <2>1, <2>4 DEF vars, AnswersReal
  <2> QED BY <2>2, <2>3, <2>4 DEF Next
<1>3. Inv => AnswersReal
  OBVIOUS
<1> QED BY <1>1, <1>2, <1>3, PTL DEF Spec
=============================================================================
