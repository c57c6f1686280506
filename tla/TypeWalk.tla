------------------------------ MODULE TypeWalk ------------------------------
(***************************************************************************)
(* Struct::kind, fieldCount and field (src/src/symbol/struct.cpp) and      *)
(* StructField (struct_field.cpp).  fieldCount and field call themselves   *)
(* on the element type of an array, channel, pointer, slice or map until   *)
(* they meet a struct; every call is a step of the walk here.              *)
(*                                                                         *)
(* Of an image g: g.type[a] is the Go type at address a, as kind byte,     *)
(* element type, address of the fields and their count; g.room[a] is how   *)
(* many bytes can be read from a on.  A name is where its bytes begin and  *)
(* how many they are; g.name[p] is what two bytes of length say at p, and  *)
(* what uVarInt makes of the bytes there (module UVarInt).                 *)
(***************************************************************************)
EXTENDS Version

CONSTANTS
  Images,
  Indices,    \* the fields a caller may ask for
  DepthBound, \* calls are counted up to this
  Count       \* stands for a call of fieldCount

VARIABLES
  image,
  self,    \* the type a call was made for
  want,    \* Count, or the index of a field
  cur,     \* the type the walk has reached
  depth,   \* calls on the stack above the caller's
  st,      \* "idle", "walk" or "done"
  ans      \* the count, or <<name, offset>>

vars == <<image, self, want, cur, depth, st, ans>>

Wants == {Count} \cup Indices

-----------------------------------------------------------------------------
TypeSize(g) == IF g.ptrSize = 8 THEN 48 ELSE 32
FieldsAt(g) == IF g.ptrSize = 8 THEN 56 ELSE 36

Room(g, a) == IF a \in DOMAIN g.room THEN g.room[a] ELSE 0

(* kind: the byte's upper bits are flags.                                  *)
HasKind(g, a) == a \in DOMAIN g.type /\ Room(g, a) >= 2 * g.ptrSize + 8
Kind(g, a) == g.type[a].kind % 32
Struct == 25
Map == 21
Wrappers == {17, 18, Map, 22, 23}   \* Array, Chan, Ptr, Slice

(* The element type of a: 0 if it cannot be read.                          *)
ElemAt(g, a) == IF Kind(g, a) = Map THEN TypeSize(g) + g.ptrSize ELSE TypeSize(g)
Elem(g, a) == IF Room(g, a) >= ElemAt(g, a) + g.ptrSize THEN g.type[a].elem ELSE 0

Follows(g, a) == HasKind(g, a) /\ Kind(g, a) \in Wrappers /\ Elem(g, a) # 0
IsStruct(g, a) == HasKind(g, a) /\ Kind(g, a) = Struct

HasFields(g, a) == Room(g, a) >= FieldsAt(g) + 2 * g.ptrSize

-----------------------------------------------------------------------------
(* StructField::name: before Go 1.17 two bytes of length, then the length  *)
(* uVarInt makes of the ten bytes behind the flags.                        *)
OldName(g, p) ==
  LET len == g.name[p].short
  IN  IF Room(g, p) < 3 \/ len > 4096 \/ Room(g, p) < 3 + len THEN None ELSE <<p + 3, len>>

NewName(g, p) ==
  LET int == g.name[p].long
  IN  IF Room(g, p) < 11 \/ int = None \/ Room(g, p) < 1 + int[2] + int[1] THEN None
      ELSE <<p + 1 + int[2], int[1]>>

Name(g, p) ==
  IF p = 0 THEN None
  ELSE IF Before(g.version, <<1, 17>>) THEN OldName(g, p) ELSE NewName(g, p)

(* Mutant: the offset is never shifted.                                    *)
OffsetWhole(g, word) == word

(* Up to Go 1.18 the last bit says whether the field is embedded.          *)
Offset(g, word) == IF AtMost(g.version, <<1, 18>>) THEN word \div 2 ELSE word

(* Mutant: the index behind the last field is let through.                 *)
RefusedLate(g, a, i) == i > g.type[a].count \/ g.type[a].fields = 0

Refused(g, a, i) == i >= g.type[a].count \/ g.type[a].fields = 0

(* The field at index i of the struct type at a.                           *)
FieldAddress(g, a, i) == g.type[a].fields + i * (3 * g.ptrSize)
FieldOf(g, a, i) ==
  LET p == FieldAddress(g, a, i)
  IN  IF Refused(g, a, i) \/ Room(g, p) < 3 * g.ptrSize THEN None
      ELSE IF Name(g, g.field[p].name) = None THEN None
      ELSE <<Name(g, g.field[p].name), Offset(g, g.field[p].word)>>

Nothing(w) == IF w = Count THEN 0 ELSE None

StructAnswer(g, a, w) ==
  IF ~HasFields(g, a) THEN Nothing(w)
  ELSE IF w = Count THEN g.type[a].count ELSE FieldOf(g, a, w)

-----------------------------------------------------------------------------
(* g.nest[a] is how many element types deep the type at a is, for types    *)
(* that end; g.endless holds the others, which are elements of themselves, *)
(* as in type T []T.  g.leaf[a] is where the elements of a end.            *)
Nest(g, a) == IF a \in DOMAIN g.nest THEN g.nest[a] ELSE 0
Leaf(g, a) == IF a \in DOMAIN g.leaf THEN g.leaf[a] ELSE a

IsImage(g) ==
  /\ g.version \in Nat \X Nat /\ g.ptrSize \in {4, 8}
  /\ g.asked \subseteq Nat
  /\ \A a \in DOMAIN g.room : g.room[a] \in Nat
  /\ \A a \in DOMAIN g.type :
       /\ a \in Nat /\ g.type[a].kind \in 0..255 /\ g.type[a].elem \in Nat
       /\ g.type[a].fields \in Nat /\ g.type[a].count \in Nat
  /\ \A a \in DOMAIN g.nest : g.nest[a] \in Nat

IsNested(g) ==
  /\ DOMAIN g.leaf \subseteq DOMAIN g.type
  /\ \A a \in g.endless : Follows(g, a) /\ Elem(g, a) \in g.endless
  /\ \A a \in DOMAIN g.type \ g.endless :
       IF Follows(g, a)
       THEN /\ Elem(g, a) \notin g.endless
            /\ Nest(g, Elem(g, a)) < Nest(g, a)
            /\ Leaf(g, a) = Leaf(g, Elem(g, a))
       ELSE Leaf(g, a) = a

(* What the linker writes for the fields of a struct type: g.says[a][i] is *)
(* the name and the offset of the field at index i.  A name's bytes follow *)
(* its length, and up to Go 1.18 an offset is shifted to make room for a   *)
(* bit.  Ten bytes can be read behind a name's flags, whatever its length. *)
SaysName(g, p, x) ==
  /\ p \in Nat \ {0}
  /\ IF Before(g.version, <<1, 17>>)
     THEN /\ g.name[p].short = x[2] /\ x[2] <= 4096 /\ x[1] = p + 3
          /\ Room(g, p) >= 3 + x[2]
     ELSE /\ g.name[p].long # None
          /\ g.name[p].long = <<x[2], x[1] - p - 1>>
          /\ Room(g, p) >= 11 /\ Room(g, p) >= (x[1] - p) + x[2]

SaysField(g, a, i) ==
  LET p == FieldAddress(g, a, i)
  IN  /\ Room(g, p) >= 3 * g.ptrSize
      /\ g.says[a][i] \in (Nat \X Nat) \X Nat /\ g.says[a][i][1] # None
      /\ SaysName(g, g.field[p].name, g.says[a][i][1])
      /\ \E embedded \in {0, 1} :
           g.field[p].word = IF AtMost(g.version, <<1, 18>>) THEN 2 * g.says[a][i][2] + embedded
                             ELSE g.says[a][i][2]

IsLinked(g) ==
  \A a \in DOMAIN g.says :
    /\ IsStruct(g, a) /\ HasFields(g, a)
    /\ DOMAIN g.says[a] = 0..(g.type[a].count - 1)
    /\ \A i \in DOMAIN g.says[a] : g.type[a].fields # 0 /\ SaysField(g, a, i)

ASSUME BoundAssumption == Indices \subseteq Nat /\ DepthBound \in Nat /\ Count \notin Nat
ASSUME ImagesAssumption == \A g \in Images : IsImage(g) /\ IsNested(g) /\ IsLinked(g)

-----------------------------------------------------------------------------
Init ==
  /\ image \in Images
  /\ self = 0 /\ want = Count /\ cur = 0 /\ depth = 0
  /\ st = "idle" /\ ans = None

Call(a, w) ==
  /\ st = "idle"
  /\ st' = "walk"
  /\ self' = a /\ want' = w
  /\ cur' = a
  /\ UNCHANGED <<image, depth, ans>>

Return(v) ==
  /\ st' = "done" /\ ans' = v
  /\ UNCHANGED <<image, self, want, cur, depth>>

(* Mutant: the case of a map is forgotten.                                 *)
NoFieldsInMaps ==
  /\ st = "walk"
  /\ \/ ~Follows(image, cur) /\ ~IsStruct(image, cur)
     \/ HasKind(image, cur) /\ Kind(image, cur) = Map
  /\ Return(Nothing(want))

(* The kind cannot be read, is one without fields, or its element is not   *)
(* there.                                                                  *)
NoFields ==
  /\ st = "walk" /\ ~Follows(image, cur) /\ ~IsStruct(image, cur)
  /\ Return(Nothing(want))

(* Mutant: the call is made for the same type again.                       *)
FollowSelf ==
  /\ st = "walk" /\ Follows(image, cur)
  /\ cur' = cur
  /\ depth' = IF depth < DepthBound THEN depth + 1 ELSE depth
  /\ UNCHANGED <<image, self, want, st, ans>>

Follow ==
  /\ st = "walk" /\ Follows(image, cur)
  /\ cur' = Elem(image, cur)
  /\ depth' = IF depth < DepthBound THEN depth + 1 ELSE depth
  /\ UNCHANGED <<image, self, want, st, ans>>

AtStruct ==
  /\ st = "walk" /\ IsStruct(image, cur)
  /\ Return(StructAnswer(image, cur, want))

Forget ==
  /\ st = "done"
  /\ st' = "idle" /\ self' = 0 /\ want' = Count /\ cur' = 0 /\ depth' = 0 /\ ans' = None
  /\ UNCHANGED image

Walk == NoFields \/ Follow \/ AtStruct

Next == (\E a \in image.asked, w \in Wants : Call(a, w)) \/ Walk \/ Forget

Spec == Init /\ [][Next]_vars

(* A call runs until it returns.                                           *)
FairSpec == Spec /\ WF_vars(Walk)

-----------------------------------------------------------------------------
TypeOK ==
  /\ image \in Images
  /\ st \in {"idle", "walk", "done"}
  /\ self \in Nat /\ want \in Wants /\ cur \in Nat
  /\ depth \in 0..DepthBound
  /\ st = "done" /\ want = Count => ans \in Nat

Asked == st # "idle"

(* The stack grows no deeper than the type is nested.                      *)
DepthBounded == Asked /\ self \notin image.endless => depth + Nest(image, cur) <= Nest(image, self)

(* A type that is its own element keeps fieldCount and field from ever     *)
(* returning: the code has no guard against it.                            *)
EndlessNeverReturns == self \in image.endless => st # "done"

(* field answers only for an index that is below what fieldCount answers   *)
(* for the same type, however many pointers and slices are in between.     *)
FieldCountOf(a) ==
  LET b == Leaf(image, a)
  IN  IF IsStruct(image, b) /\ HasFields(image, b) THEN image.type[b].count ELSE 0

FieldBelowCount ==
  st = "done" =>
    IF want = Count THEN ans = FieldCountOf(self)
    ELSE ans # None => want < FieldCountOf(self)

(* For what the linker wrote all fields are found, with their names and    *)
(* offsets, in the encodings of all versions, and no more than those.      *)
FieldsRight ==
  LET b == Leaf(image, self)
  IN  st = "done" /\ b \in DOMAIN image.says /\ want # Count =>
        ans = IF want \in DOMAIN image.says[b] THEN image.says[b][want] ELSE None

(* A call for any other type returns.                                      *)
WalkEnds == (st = "walk" /\ self \notin image.endless) ~> (st = "done")
=============================================================================
