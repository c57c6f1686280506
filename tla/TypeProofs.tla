----------------------------- MODULE TypeProofs -----------------------------
(***************************************************************************)
(* Struct and Interface, and the tables of them, for every set of images   *)
(* and of tables.                                                          *)
(*                                                                         *)
(* The walk of fieldCount and field goes no deeper than a type is nested,  *)
(* never returns for a type that is its own element, and ends at the       *)
(* struct whose count and fields it answers.  A loop over a table sees the *)
(* objects of operator[], and they answer what the linker wrote.           *)
(***************************************************************************)
EXTENDS TypeWalk, TypeTables, TLAPS

(* Where the walk is: on the chain of its type's elements, as deep in it   *)
(* as it has made calls.                                                   *)
OnChain ==
  IF self \in image.endless THEN cur \in image.endless
  ELSE /\ cur \notin image.endless
       /\ depth + Nest(image, cur) <= Nest(image, self)
       /\ Leaf(image, cur) = Leaf(image, self)

Answered ==
  /\ ~Follows(image, cur)
  /\ ans = IF IsStruct(image, cur) THEN StructAnswer(image, cur, want) ELSE Nothing(want)

WalkInv ==
  /\ TypeOK
  /\ st = "idle" => depth = 0
  /\ Asked => OnChain
  /\ st = "done" => Answered

-----------------------------------------------------------------------------
(* Numbers of an image.                                                    *)
LEMMA NestIsNat ==
  ASSUME NEW g \in Images, NEW a
  PROVE  Nest(g, a) \in Nat
BY ImagesAssumption DEF IsImage, Nest

(* A type that is followed is one of the image, and its element an         *)
(* address.                                                                *)
LEMMA FollowsType ==
  ASSUME NEW g \in Images, NEW a, Follows(g, a)
  PROVE  a \in DOMAIN g.type /\ Elem(g, a) \in Nat
BY ImagesAssumption DEF IsImage, Follows, HasKind, Elem

(* One step along the elements keeps to the types with an end, or to those *)
(* without, comes closer to the end and to the same end.                   *)
LEMMA StepsNearer ==
  ASSUME NEW g \in Images, NEW a, Follows(g, a)
  PROVE  /\ a \in g.endless => Elem(g, a) \in g.endless
         /\ a \notin g.endless =>
              /\ Elem(g, a) \notin g.endless
              /\ Nest(g, Elem(g, a)) < Nest(g, a)
              /\ Leaf(g, a) = Leaf(g, Elem(g, a))
BY ImagesAssumption, FollowsType DEF IsNested

(* Where nothing is followed is the end.                                   *)
LEMMA LeafHere ==
  ASSUME NEW g \in Images, NEW a, ~Follows(g, a)
  PROVE  a \notin g.endless /\ Leaf(g, a) = a
BY ImagesAssumption DEF IsNested, Leaf

(* A struct is not followed.                                               *)
LEMMA StructEnds ==
  ASSUME NEW g, NEW a, IsStruct(g, a)
  PROVE  ~Follows(g, a)
BY DEF IsStruct, Follows, Struct, Wrappers, Map

(* A struct's count is a number.                                           *)
LEMMA CountIsNat ==
  ASSUME NEW g \in Images, NEW a, IsStruct(g, a)
  PROVE  g.type[a].count \in Nat
BY ImagesAssumption DEF IsImage, IsStruct, HasKind

-----------------------------------------------------------------------------
LEMMA InitWalk == Init => WalkInv
BY BoundAssumption DEF Init, WalkInv, TypeOK, Asked, Wants

LEMMA NextWalk == WalkInv /\ [Next]_vars => WalkInv'
<1> SUFFICES ASSUME WalkInv, [Next]_vars PROVE WalkInv'
  OBVIOUS
<1> USE DEF WalkInv, Asked
<1>1. ASSUME NEW a \in image.asked, NEW w \in Wants, Call(a, w) PROVE WalkInv'
  <2>1. a \in Nat
    BY ImagesAssumption DEF IsImage, TypeOK
  <2>2. TypeOK'
    BY <1>1, <2>1 DEF Call, TypeOK
  <2>3. Nest(image, a) \in Nat
    BY NestIsNat DEF TypeOK
  <2>4. OnChain'
    BY <1>1, <2>3 DEF Call, OnChain
  <2> QED BY <1>1, <2>2, <2>4 DEF Call
<1>2. CASE NoFields
  <2>1. TypeOK'
    BY <1>2 DEF NoFields, Return, TypeOK, Nothing
  <2> QED BY <1>2, <2>1 DEF NoFields, Return, OnChain, Answered
<1>3. CASE Follow
  <2>1. image \in Images /\ Follows(image, cur)
    BY <1>3 DEF Follow, TypeOK
  <2>2. TypeOK'
    BY <1>3, <2>1, FollowsType, BoundAssumption DEF Follow, TypeOK
  <2>3. Nest(image, cur) \in Nat /\ Nest(image, Elem(image, cur)) \in Nat /\ Nest(image, self) \in Nat
    BY <2>1, NestIsNat
  <2>4. /\ cur \in image.endless => Elem(image, cur) \in image.endless
        /\ cur \notin image.endless =>
              /\ Elem(image, cur) \notin image.endless
              /\ Nest(image, Elem(image, cur)) < Nest(image, cur)
              /\ Leaf(image, cur) = Leaf(image, Elem(image, cur))
    BY <2>1, StepsNearer
  <2>5. image' = image /\ self' = self /\ cur' = Elem(image, cur) /\ depth' <= depth + 1 /\ depth' \in Nat
    BY <1>3, BoundAssumption DEF Follow, TypeOK
  <2>6. OnChain /\ depth \in Nat
    BY <1>3 DEF Follow, TypeOK
  <2>7. OnChain'
    BY <2>3, <2>4, <2>5, <2>6 DEF OnChain
  <2> QED BY <1>3, <2>2, <2>7 DEF Follow
<1>4. CASE AtStruct
  <2>1. image \in Images /\ IsStruct(image, cur)
    BY <1>4 DEF AtStruct, TypeOK
  <2>2. want = Count => StructAnswer(image, cur, want) \in Nat
    BY <2>1, CountIsNat DEF StructAnswer, Nothing
  <2>3. TypeOK'
    BY <1>4, <2>2 DEF AtStruct, Return, TypeOK
  <2>4. Answered'
    BY <1>4, <2>1, StructEnds DEF AtStruct, Return, Answered
  <2> QED BY <1>4, <2>3, <2>4 DEF AtStruct, Return, OnChain
<1>5. CASE Forget
  BY <1>5, BoundAssumption DEF Forget, TypeOK, Wants
<1>6. CASE UNCHANGED vars
  BY <1>6 DEF vars, TypeOK, OnChain, Answered
<1> QED BY <1>1, <1>2, <1>3, <1>4, <1>5, <1>6 DEF Next, Walk

LEMMA SpecWalk == Spec => []WalkInv
BY InitWalk, NextWalk, PTL DEF Spec

(* The variables keep their types, and fieldCount always answers a number. *)
THEOREM TypeCorrect == Spec => []TypeOK
<1>1. WalkInv => TypeOK
  BY DEF WalkInv
<1> QED BY <1>1, SpecWalk, PTL

(* The stack of calls grows no deeper than the type is nested.             *)
THEOREM StackBounded == Spec => []DepthBounded
<1>1. WalkInv => DepthBounded
  BY DEF WalkInv, DepthBounded, OnChain
<1> QED BY <1>1, SpecWalk, PTL

(* fieldCount and field never return for a type that is its own element.   *)
THEOREM NoReturnFromCycle == Spec => []EndlessNeverReturns
<1>1. WalkInv => EndlessNeverReturns
  <2> SUFFICES ASSUME WalkInv, self \in image.endless, st = "done" PROVE FALSE
    BY DEF EndlessNeverReturns
  <2>1. cur \in image.endless /\ ~Follows(image, cur) /\ image \in Images
    BY DEF WalkInv, Asked, OnChain, Answered, TypeOK
  <2> QED BY <2>1, LeafHere
<1> QED BY <1>1, SpecWalk, PTL

(* A call that returned has come to the end of its type's elements.        *)
LEMMA DoneAtLeaf == WalkInv /\ st = "done" => cur = Leaf(image, self)
<1> SUFFICES ASSUME WalkInv, st = "done" PROVE cur = Leaf(image, self)
  OBVIOUS
<1>1. image \in Images /\ ~Follows(image, cur) /\ OnChain
  BY DEF WalkInv, TypeOK, Asked, Answered
<1>2. cur \notin image.endless /\ Leaf(image, cur) = cur
  BY <1>1, LeafHere
<1> QED BY <1>1, <1>2 DEF OnChain

(* A field is answered only for an index below the number of fields that   *)
(* is answered for the same type.                                          *)
THEOREM NoFieldBeyondCount == Spec => []FieldBelowCount
<1>1. WalkInv => FieldBelowCount
  <2> SUFFICES ASSUME WalkInv, st = "done"
               PROVE  IF want = Count THEN ans = FieldCountOf(self)
                      ELSE ans # None => want < FieldCountOf(self)
    BY DEF FieldBelowCount
  <2>1. cur = Leaf(image, self) /\ Answered /\ image \in Images /\ want \in Wants
    BY DoneAtLeaf DEF WalkInv, TypeOK
  <2>2. CASE want = Count
    BY <2>1, <2>2 DEF Answered, FieldCountOf, StructAnswer, Nothing
  <2>3. CASE want # Count
    <3>1. want \in Nat
      BY <2>1, <2>3, BoundAssumption DEF Wants
    <3>2. CASE IsStruct(image, cur) /\ HasFields(image, cur)
      <4>1. image.type[cur].count \in Nat
        BY <2>1, <3>2, CountIsNat
      <4>2. ans = FieldOf(image, cur, want)
        BY <2>1, <2>3, <3>2 DEF Answered, StructAnswer
      <4>3. ans # None => ~Refused(image, cur, want)
        BY <4>2 DEF FieldOf
      <4>4. FieldCountOf(self) = image.type[cur].count
        BY <2>1, <3>2 DEF FieldCountOf
      <4> QED BY <2>3, <3>1, <4>1, <4>3, <4>4 DEF Refused
    <3>3. CASE ~(IsStruct(image, cur) /\ HasFields(image, cur))
      BY <2>1, <2>3, <3>3 DEF Answered, StructAnswer, Nothing
    <3> QED BY <3>2, <3>3
  <2> QED BY <2>2, <2>3
<1> QED BY <1>1, SpecWalk, PTL

-----------------------------------------------------------------------------
(* The name the linker wrote is read in the encoding of every version.     *)
LEMMA NameRight ==
  ASSUME NEW g, NEW p, NEW x \in Nat \X Nat, SaysName(g, p, x), Room(g, p) \in Nat
  PROVE  Name(g, p) = x
<1>1. x = <<x[1], x[2]>> /\ x[1] \in Nat /\ x[2] \in Nat
  OBVIOUS
<1> p \in Nat /\ p # 0
  BY DEF SaysName
<1>2. CASE Before(g.version, <<1, 17>>)
  <2>1. g.name[p].short = x[2] /\ x[2] <= 4096 /\ x[1] = p + 3 /\ Room(g, p) >= 3 + x[2]
    BY <1>2 DEF SaysName
  <2>2. OldName(g, p) = <<p + 3, x[2]>>
    BY <1>1, <2>1 DEF OldName
  <2> QED BY <1>1, <1>2, <2>1, <2>2 DEF Name, SaysName
<1>3. CASE ~Before(g.version, <<1, 17>>)
  <2> DEFINE int == g.name[p].long
  <2>1. int = <<x[2], x[1] - p - 1>> /\ Room(g, p) >= 11 /\ Room(g, p) >= (x[1] - p) + x[2]
    BY <1>3 DEF SaysName
  <2>2. int[1] = x[2] /\ int[2] = x[1] - p - 1 /\ int # None
    BY <1>3, <2>1 DEF SaysName
  <2>3. p + 1 + int[2] = x[1] /\ ~(Room(g, p) < 1 + int[2] + int[1]) /\ ~(Room(g, p) < 11)
    BY <1>1, <2>1, <2>2
  <2>4. NewName(g, p) = <<x[1], x[2]>>
    BY <2>2, <2>3 DEF NewName
  <2> QED BY <1>1, <1>3, <2>4 DEF Name, SaysName
<1> QED BY <1>2, <1>3

(* A field is read as the linker wrote it, and none is read behind the     *)
(* last one.                                                               *)
LEMMA FieldRight ==
  ASSUME NEW g \in Images, NEW a \in DOMAIN g.says, NEW i \in Indices
  PROVE  FieldOf(g, a, i) = IF i \in DOMAIN g.says[a] THEN g.says[a][i] ELSE None
<1>1. IsStruct(g, a) /\ DOMAIN g.says[a] = 0..(g.type[a].count - 1) /\ g.type[a].count \in Nat /\ i \in Nat
  BY ImagesAssumption, CountIsNat, BoundAssumption DEF IsLinked
<1>2. CASE i \notin DOMAIN g.says[a]
  BY <1>1, <1>2 DEF FieldOf, Refused
<1>3. CASE i \in DOMAIN g.says[a]
  <2> DEFINE p == FieldAddress(g, a, i)
             x == g.says[a][i][1]
             off == g.says[a][i][2]
             f == g.field[p]
  <2>1. g.type[a].fields # 0 /\ SaysField(g, a, i)
    BY <1>3, ImagesAssumption DEF IsLinked
  <2> HIDE DEF p
  <2>2. /\ Room(g, p) >= 3 * g.ptrSize
        /\ g.says[a][i] \in (Nat \X Nat) \X Nat /\ x # None
        /\ SaysName(g, f.name, x)
        /\ \E embedded \in {0, 1} :
             f.word = IF AtMost(g.version, <<1, 18>>) THEN 2 * off + embedded ELSE off
    BY <2>1 DEF SaysField, p
  <2>3. x \in Nat \X Nat /\ off \in Nat /\ g.says[a][i] = <<x, off>>
    BY <2>2
  <2>4. \A q : Room(g, q) \in Nat
    BY ImagesAssumption DEF IsImage, Room
  <2>5. Name(g, f.name) = x
    BY <2>2, <2>3, <2>4, NameRight
  <2>6. Offset(g, f.word) = off
    <3>1. PICK embedded \in {0, 1} :
            f.word = IF AtMost(g.version, <<1, 18>>) THEN 2 * off + embedded ELSE off
      BY <2>2
    <3> QED BY <2>3, <3>1 DEF Offset
  <2>7. ~Refused(g, a, i) /\ ~(Room(g, p) < 3 * g.ptrSize)
    <3>1. g.ptrSize \in Nat /\ Room(g, p) \in Nat
      BY <2>4, ImagesAssumption DEF IsImage
    <3> QED BY <1>1, <1>3, <2>1, <2>2, <3>1 DEF Refused
  <2>8. FieldOf(g, a, i) = <<Name(g, f.name), Offset(g, f.word)>>
    BY <2>2, <2>5, <2>7 DEF FieldOf, p
  <2> QED BY <1>3, <2>3, <2>5, <2>6, <2>8
<1> QED BY <1>2, <1>3

(* For a struct of the linker's every field is answered with its name and  *)
(* its offset, from any type whose elements end at it.                     *)
THEOREM FieldsAsLinked == Spec => []FieldsRight
<1>1. WalkInv => FieldsRight
  <2> DEFINE b == Leaf(image, self)
  <2> SUFFICES ASSUME WalkInv, st = "done", b \in DOMAIN image.says, want # Count
               PROVE  ans = IF want \in DOMAIN image.says[b] THEN image.says[b][want] ELSE None
    BY DEF FieldsRight
  <2>1. cur = b /\ Answered /\ image \in Images /\ want \in Indices
    BY DoneAtLeaf DEF WalkInv, TypeOK, Wants
  <2>2. IsStruct(image, b) /\ HasFields(image, b)
    BY <2>1, ImagesAssumption DEF IsLinked
  <2>3. ans = FieldOf(image, b, want)
    BY <2>1, <2>2 DEF Answered, StructAnswer
  <2> QED BY <2>1, <2>3, FieldRight
<1> QED BY <1>1, SpecWalk, PTL

-----------------------------------------------------------------------------
(* The iterator is as many steps from the data as objects were seen, and   *)
(* in a table of whole rows they are the first ones.                       *)
InStep ==
  /\ at = Len(seen) * Step(table)
  /\ loop = "idle" => seen = <<>>
  /\ loop = "end" => at = End(table)
  /\ ~Ragged(table) =>
       /\ Len(seen) <= SizeOf(table)
       /\ \A k \in DOMAIN seen : seen[k] = AtIndex(table, k - 1)

TableInv ==
  /\ table \in Tables
  /\ loop \in {"idle", "walk", "end"} /\ at \in Nat /\ seen \in Seq(Nat \cup {None})
  /\ InStep
  /\ AnswersLinked

-----------------------------------------------------------------------------
LEMMA StepFacts ==
  ASSUME NEW t \in Tables
  PROVE  Step(t) \in {4, 8}
BY TablesAssumption DEF IsTable, Step

LEMMA SizeFacts ==
  ASSUME NEW t \in Tables
  PROVE  /\ SizeOf(t) \in Nat
         /\ ~Ragged(t) => End(t) = SizeOf(t) * Step(t)
         /\ Ragged(t) => \A n \in Nat : End(t) # n * Step(t)
<1> DEFINE s == Step(t)
<1>1. t.count \in Nat /\ t.bytes \in Nat \cup {None} /\ t.data \in BOOLEAN /\ (~t.data => t.bytes = None /\ t.count = 0)
  BY TablesAssumption DEF IsTable
<1>2. s = 4 \/ s = 8
  BY StepFacts
<1>3. SizeOf(t) \in Nat
  BY <1>1, <1>2 DEF SizeOf
<1>4. ASSUME ~Ragged(t) PROVE End(t) = SizeOf(t) * s
  <2>1. CASE ~t.data
    BY <1>1, <1>2, <2>1 DEF End, SizeOf
  <2>2. CASE t.data /\ IsStructs(t) /\ t.bytes # None
    <3>1. t.bytes \in Nat /\ t.bytes % 4 = 0 /\ s = 4
      BY <1>1, <1>4, <2>2 DEF Ragged, Step
    <3>2. (t.bytes \div 4) * 4 = t.bytes
      BY <3>1
    <3> QED BY <2>2, <3>1, <3>2 DEF End, SizeOf
  <2>3. CASE t.data /\ ~(IsStructs(t) /\ t.bytes # None)
    BY <2>3 DEF End
  <2> QED BY <1>1, <2>1, <2>2, <2>3
<1>5. ASSUME Ragged(t), NEW n \in Nat PROVE End(t) # n * s
  <2>1. IsStructs(t) /\ t.bytes \in Nat /\ t.bytes # None /\ t.bytes % 4 # 0 /\ s = 4
    BY <1>1, <1>5 DEF Ragged, Step
  <2>2. End(t) = t.bytes
    BY <1>1, <2>1 DEF End
  <2>3. (n * 4) % 4 = 0
    OBVIOUS
  <2> QED BY <2>1, <2>2, <2>3
<1> QED BY <1>3, <1>4, <1>5

(* The row the iterator stands on, before the end.                         *)
LEMMA OnRow ==
  ASSUME TableInv, loop = "walk", at # End(table)
  PROVE  /\ ~Ragged(table) =>
              /\ Len(seen) < SizeOf(table)
              /\ at \in DOMAIN table.row
              /\ ObjectAt(table, at) = AtIndex(table, Len(seen))
         /\ at \in DOMAIN table.row => ObjectAt(table, at) \in Nat
<1>1. table \in Tables /\ seen \in Seq(Nat \cup {None}) /\ Len(seen) \in Nat /\ InStep
  BY DEF TableInv
<1>2. at \in DOMAIN table.row => ObjectAt(table, at) \in Nat
  BY <1>1, TablesAssumption DEF IsTable, ObjectAt
<1>3. ASSUME ~Ragged(table)
      PROVE  Len(seen) < SizeOf(table) /\ at \in DOMAIN table.row /\ ObjectAt(table, at) = AtIndex(table, Len(seen))
  <2>1. Len(seen) <= SizeOf(table) /\ at = Len(seen) * Step(table) /\ SizeOf(table) \in Nat
    BY <1>1, <1>3, SizeFacts DEF InStep
  <2>2. Len(seen) # SizeOf(table)
    BY <1>1, <1>3, <2>1, SizeFacts
  <2>3. Len(seen) + 1 \in 1..SizeOf(table) /\ (Len(seen) + 1) - 1 = Len(seen)
    BY <1>1, <2>1, <2>2
  <2>4. at \in DOMAIN table.row
    BY <1>1, <2>1, <2>3, TablesAssumption DEF IsTable
  <2> QED BY <1>1, <2>1, <2>2, <2>4 DEF AtIndex
<1> QED BY <1>2, <1>3

(* What the linker wrote is read.                                          *)
LEMMA TypeNameRight ==
  ASSUME NEW t \in Tables, NEW a, NEW x, SaysType(t, a, x)
  PROVE  NameOf(t, a) = x
<1>1. t.version \in Nat \X Nat
  BY TablesAssumption DEF IsTable
<1>2. AtMost(t.version, <<1, 16>>) <=> Before(t.version, <<1, 17>>)
  BY <1>1 DEF AtMost, Before
<1> DEFINE p == t.types + t.word[a + (IF t.ptrSize = 8 THEN 40 ELSE 24)]
<1>3. CASE x = None
  BY <1>3 DEF SaysType, NameOf
<1>4. CASE x # None
  <2>1. a \in t.mapped /\ t.word[a + (IF t.ptrSize = 8 THEN 40 ELSE 24)] # 0 /\ SaysNameAt(t, p, x)
    BY <1>4 DEF SaysType
  <2>2. NameOf(t, a) = NameIn(t, p)
    BY <2>1 DEF NameOf
  <2> HIDE DEF p
  <2>3. NameIn(t, p) = x
    BY <1>2, <2>1 DEF NameIn, SaysNameAt
  <2> QED BY <2>2, <2>3
<1> QED BY <1>3, <1>4

LEMMA ItabRight ==
  ASSUME NEW t \in Tables, NEW a \in DOMAIN t.says, ~IsStructs(t)
  PROVE  /\ ImplementsName(t, a) = t.says[a].name
         /\ InterfaceName(t, a) = t.says[a].interface
         /\ MethodCount(t, a) = Len(t.says[a].methods)
         /\ \A i \in 0..(MethodCount(t, a) - 1) :
              i + 1 \in DOMAIN t.says[a].methods => Method(t, a, i) = t.says[a].methods[i + 1]
<1> DEFINE says == t.says[a]
<1>1. SaysItab(t, a, says)
  BY TablesAssumption DEF IsLinkedTable
<1>2. a \in t.mapped /\ a + t.ptrSize \in t.mapped
  BY <1>1 DEF SaysItab
<1>3. SaysType(t, t.word[a], says.interface) /\ SaysType(t, t.word[a + t.ptrSize], says.name)
  BY <1>1 DEF SaysItab
<1>4. ImplementsName(t, a) = says.name /\ InterfaceName(t, a) = says.interface
  BY <1>2, <1>3, TypeNameRight DEF ImplementsName, InterfaceName, TypeNameAt
<1>5. MethodCount(t, a) = Len(says.methods)
  BY <1>1, <1>2 DEF SaysItab, MethodCount
<1>6. ASSUME NEW i \in 0..(MethodCount(t, a) - 1), i + 1 \in DOMAIN says.methods
      PROVE  Method(t, a, i) = says.methods[i + 1]
  <2>1. (i + 1) - 1 = i
    OBVIOUS
  <2>2. t.word[a + (IF t.ptrSize = 8 THEN 24 ELSE 16) + ((i + 1) - 1) * t.ptrSize] = says.methods[i + 1]
    BY <1>1, <1>6 DEF SaysItab
  <2> QED BY <1>2, <2>1, <2>2 DEF Method
<1> QED BY <1>4, <1>5, <1>6

-----------------------------------------------------------------------------
LEMMA InitTable == TableInit => TableInv
<1> SUFFICES ASSUME TableInit PROVE TableInv
  OBVIOUS
<1>1. table \in Tables /\ loop = "idle" /\ at = 0 /\ seen = <<>> /\ answer = None
  BY DEF TableInit
<1>2. Step(table) \in Nat /\ SizeOf(table) \in Nat
  BY <1>1, StepFacts, SizeFacts
<1> QED BY <1>1, <1>2 DEF TableInv, InStep, AnswersLinked

LEMMA AdvanceTable == TableInv /\ Advance => TableInv'
<1> SUFFICES ASSUME TableInv, Advance PROVE TableInv'
  OBVIOUS
<1> DEFINE o == IF at \in DOMAIN table.row THEN ObjectAt(table, at) ELSE None
<1>1. /\ table \in Tables /\ loop = "walk" /\ at # End(table) /\ seen \in Seq(Nat \cup {None})
      /\ InStep /\ AnswersLinked /\ at \in Nat /\ Step(table) \in Nat /\ SizeOf(table) \in Nat
      /\ UNCHANGED <<table, loop, answer>> /\ seen' = Append(seen, o) /\ at' = at + Step(table)
  BY StepFacts, SizeFacts DEF TableInv, Advance
<1>2. o \in Nat \cup {None}
  BY <1>1, OnRow
<1>3. /\ seen' \in Seq(Nat \cup {None}) /\ Len(seen') = Len(seen) + 1 /\ Len(seen) \in Nat
      /\ \A k \in DOMAIN seen' : seen'[k] = IF k = Len(seen) + 1 THEN o ELSE seen[k]
      /\ \A k \in DOMAIN seen' : k \in Nat /\ (k # Len(seen) + 1 => k \in DOMAIN seen)
  <2> HIDE DEF o
  <2> QED BY <1>1, <1>2
<1>4. at' = Len(seen') * Step(table)
  BY <1>1, <1>3 DEF InStep
<1>5. ASSUME ~Ragged(table)
      PROVE  Len(seen') <= SizeOf(table) /\ \A k \in DOMAIN seen' : seen'[k] = AtIndex(table, k - 1)
  <2>1. Len(seen) < SizeOf(table) /\ o = AtIndex(table, Len(seen))
    BY <1>1, <1>5, OnRow
  <2>2. \A k \in DOMAIN seen : seen[k] = AtIndex(table, k - 1)
    BY <1>1, <1>5 DEF InStep
  <2>3. (Len(seen) + 1) - 1 = Len(seen)
    BY <1>3
  <2> HIDE DEF o
  <2>4. ASSUME NEW k \in DOMAIN seen' PROVE seen'[k] = AtIndex(table, k - 1)
    BY <1>3, <2>1, <2>2, <2>3
  <2> QED BY <1>1, <1>3, <2>1, <2>4
<1>6. InStep'
  BY <1>1, <1>4, <1>5 DEF InStep
<1> QED BY <1>1, <1>3, <1>6 DEF TableInv, AnswersLinked

LEMMA AskTable == TableInv /\ (AskStruct \/ AskInterface) => TableInv'
<1> SUFFICES ASSUME TableInv, AskStruct \/ AskInterface PROVE TableInv'
  OBVIOUS
<1>1. table \in Tables /\ UNCHANGED <<table, loop, at, seen>>
  BY DEF TableInv, AskStruct, AskInterface, Ask
<1>2. \A a \in DOMAIN table.says : Address(table, a) = table.says[a].loaded
  BY <1>1, TablesAssumption DEF IsLinkedTable, Address
<1>3. CASE AskStruct
  <2>1. PICK k \in DOMAIN seen :
          \/ answer' = [q |-> "name", index |-> 0, of |-> seen[k], is |-> NameOf(table, seen[k])]
          \/ answer' = [q |-> "address", index |-> 0, of |-> seen[k], is |-> Address(table, seen[k])]
    BY <1>3 DEF AskStruct, Ask
  <2>2. ASSUME seen[k] \in DOMAIN table.says PROVE NameOf(table, seen[k]) = table.says[seen[k]].name
    BY <1>1, <1>3, <2>2, TypeNameRight, TablesAssumption DEF IsLinkedTable, AskStruct
  <2>3. AnswersLinked'
    BY <1>1, <1>2, <2>1, <2>2 DEF AnswersLinked
  <2> QED BY <1>1, <2>3 DEF TableInv, InStep
<1>4. CASE AskInterface
  <2>1. PICK k \in DOMAIN seen :
          \/ answer' = [q |-> "name", index |-> 0, of |-> seen[k], is |-> ImplementsName(table, seen[k])]
          \/ answer' = [q |-> "interfaceName", index |-> 0, of |-> seen[k], is |-> InterfaceName(table, seen[k])]
          \/ answer' = [q |-> "methodCount", index |-> 0, of |-> seen[k], is |-> MethodCount(table, seen[k])]
          \/ answer' = [q |-> "address", index |-> 0, of |-> seen[k], is |-> Address(table, seen[k])]
          \/ \E i \in 0..(MethodCount(table, seen[k]) - 1) :
               answer' = [q |-> "method", index |-> i, of |-> seen[k], is |-> Method(table, seen[k], i)]
    BY <1>4 DEF AskInterface, Ask
  <2> DEFINE a == seen[k]
  <2>2. ASSUME a \notin DOMAIN table.says PROVE AnswersLinked'
    BY <1>1, <2>1, <2>2 DEF AnswersLinked
  <2>3. ASSUME a \in DOMAIN table.says PROVE AnswersLinked'
    <3>1. /\ ImplementsName(table, a) = table.says[a].name
          /\ InterfaceName(table, a) = table.says[a].interface
          /\ MethodCount(table, a) = Len(table.says[a].methods)
          /\ \A i \in 0..(MethodCount(table, a) - 1) : Method(table, a, i) = table.says[a].methods[i + 1]
      BY <1>1, <1>4, <2>3, ItabRight DEF AskInterface
    <3> HIDE DEF a
    <3> QED BY <1>1, <1>2, <2>1, <2>3, <3>1 DEF AnswersLinked, a
  <2>4. AnswersLinked'
    BY <2>2, <2>3
  <2> QED BY <1>1, <2>4 DEF TableInv, InStep
<1> QED BY <1>3, <1>4

LEMMA NextTable == TableInv /\ [TableNext]_tableVars => TableInv'
<1>1. TableInv /\ Begin => TableInv'
  BY DEF TableInv, InStep, AnswersLinked, Begin
<1>2. TableInv /\ Finish => TableInv'
  BY DEF TableInv, InStep, AnswersLinked, Finish
<1>3. TableInv /\ UNCHANGED tableVars => TableInv'
  BY DEF TableInv, InStep, AnswersLinked, tableVars
<1> QED BY <1>1, <1>2, <1>3, AdvanceTable, AskTable DEF TableNext, Loop

LEMMA SpecTable == TableSpec => []TableInv
BY InitTable, NextTable, PTL DEF TableSpec

(* A loop over a table sees the objects operator[] gives, in order and all *)
(* of them, for tables of every size.                                      *)
THEOREM SeesTheTableHolds == TableSpec => []SeesTheTable
<1>1. TableInv => SeesTheTable
  <2> SUFFICES ASSUME TableInv PROVE SeesTheTable
    OBVIOUS
  <2>1. /\ table \in Tables /\ InStep /\ seen \in Seq(Nat \cup {None}) /\ Len(seen) \in Nat
        /\ SizeOf(table) \in Nat /\ Step(table) \in {4, 8}
    BY StepFacts, SizeFacts DEF TableInv
  <2>2. ASSUME NEW k \in DOMAIN seen, ~Ragged(table)
        PROVE  k <= SizeOf(table) /\ seen[k] = AtIndex(table, k - 1)
    BY <2>1, <2>2 DEF InStep
  <2>3. ASSUME loop = "end" PROVE Len(seen) = SizeOf(table)
    <3>1. Len(seen) * Step(table) = End(table)
      BY <2>1, <2>3 DEF InStep
    <3>2. ~Ragged(table) /\ End(table) = SizeOf(table) * Step(table)
      BY <2>1, <3>1, SizeFacts
    <3> QED BY <2>1, <3>1, <3>2
  <2> QED BY <2>2, <2>3 DEF SeesTheTable
<1> QED BY <1>1, SpecTable, PTL

(* Every object answers what the linker wrote.                             *)
THEOREM AnswersLinkedHolds == TableSpec => []AnswersLinked
<1>1. TableInv => AnswersLinked
  BY DEF TableInv
<1> QED BY <1>1, SpecTable, PTL
=============================================================================
