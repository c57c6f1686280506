-------------------------- MODULE BuildInfoProofs --------------------------
(***************************************************************************)
(* For sections of every layout and module lists of every length: the      *)
(* strings read are the ones the linker wrote, and at every line what has  *)
(* been made of the list is what the lines kept so far say.                *)
(***************************************************************************)
EXTENDS BuildInfo, FiniteSetTheorems, TLAPS

(* x is the name in the last of the lines S, without a CHOOSE.             *)
LastIs(lines, S, x) ==
  IF S = {} THEN x = None
  ELSE \E j \in S : (\A i \in S : i <= j) /\ x = lines[j].names

(* The place of the dependency at line d among those kept.                 *)
Rank(d) == Cardinality({e \in Kept("dep") : e <= d})

(* Dependencies and kept lines belong together one to one, in order.       *)
DepsRight ==
  /\ Cardinality(Kept("dep")) = Len(deps)
  /\ \A d \in Kept("dep") :
       /\ Rank(d) \in 1..Len(deps)
       /\ deps[Rank(d)].is = Lines[d].names
       /\ LastIs(Lines, Behind(d), deps[Rank(d)].replace)
  /\ \A n \in DOMAIN deps : \E d \in Kept("dep") : Rank(d) = n

ListRight ==
  /\ text = ModuleText(section) /\ text # None /\ ~(text[2] < 32)
  /\ k \in 0..Len(Lines)
  /\ LastIs(Lines, Kept("path"), path) /\ LastIs(Lines, Kept("mod"), main)
  /\ DepsRight

InfoTypeOK ==
  /\ section \in Sections /\ k \in Nat
  /\ st \in {"idle", "lines", "undefined"}
  /\ path \in Names \cup {None} /\ main \in Names \cup {None} /\ deps \in Seq(Deps)

IInv ==
  /\ InfoTypeOK
  /\ st = "idle" => NoInfo /\ k = 0
  /\ st = "lines" => ListRight
  /\ TextsRight

-----------------------------------------------------------------------------
(* The last line is one, so LastName is what LastIs says.                  *)
LEMMA LastNameIs ==
  ASSUME NEW S \in SUBSET Int, NEW x, LastIs(Lines, S, x)
  PROVE  x = LastName(S)
<1>1. CASE S = {}
  BY <1>1 DEF LastIs, LastName
<1>2. CASE S # {}
  <2>1. PICK j \in S : (\A i \in S : i <= j) /\ x = Lines[j].names
    BY <1>2 DEF LastIs
  <2> DEFINE last == CHOOSE l \in S : \A i \in S : i <= l
  <2>2. \A l \in S : (\A i \in S : i <= l) => l = j
    BY <2>1
  <2>3. last = j
    BY <2>1, <2>2
  <2>4. LastName(S) = Lines[last].names
    BY <1>2, Zenon DEF LastName
  <2> QED BY <2>1, <2>3, <2>4
<1> QED BY <1>1, <1>2

(* A line behind all of S becomes the last one.                            *)
LEMMA LastGrows ==
  ASSUME NEW S \in SUBSET Int, NEW m \in Int, \A i \in S : i <= m
  PROVE  LastIs(Lines, S \cup {m}, Lines[m].names)
BY DEF LastIs

LEMMA KeptFacts ==
  ASSUME k \in Nat
  PROVE  \A w : /\ Kept(w) \subseteq 1..k /\ Kept(w) \subseteq Int
                /\ k + 1 \notin Kept(w) /\ \A j \in Kept(w) : j < k + 1
                /\ IsFiniteSet(Kept(w))
<1> TAKE w
<1>1. Kept(w) \subseteq 1..k
  BY DEF Kept
<1>2. IsFiniteSet(1..k)
  BY FS_Interval
<1>3. IsFiniteSet(Kept(w))
  BY <1>1, <1>2, FS_Subset
<1> QED BY <1>1, <1>3

(* A line read is kept or not, and it is the last one.                     *)
LEMMA KeptGrows ==
  ASSUME k \in Nat, k' = k + 1, UNCHANGED <<section, text>>
  PROVE  \A w : Kept(w)' = IF Good(Line) /\ Line.word = w THEN Kept(w) \cup {k + 1} ELSE Kept(w)
<1> TAKE w
<1>1. Lines' = Lines
  BY DEF Lines
<1>2. 1..k' = 1..k \cup {k + 1}
  OBVIOUS
<1>3. Kept(w)' = {j \in 1..k \cup {k + 1} : Good(Lines[j]) /\ Lines[j].word = w}
  BY <1>1, <1>2 DEF Kept, Good
<1> QED BY <1>3 DEF Kept, Line

(* The dependencies counted up to a line.                                  *)
LEMMA RankFacts ==
  ASSUME k \in Nat, NEW d \in Kept("dep")
  PROVE  /\ Rank(d) \in Nat
         /\ Rank(d) <= Cardinality(Kept("dep"))
         /\ Rank(d) = Cardinality(Kept("dep")) <=> \A e \in Kept("dep") : e <= d
<1> DEFINE S == Kept("dep")
           T == {e \in S : e <= d}
<1>1. IsFiniteSet(S) /\ T \in SUBSET S
  BY KeptFacts
<1>2. IsFiniteSet(T) /\ Cardinality(T) <= Cardinality(S) /\ (Cardinality(S) = Cardinality(T) => S = T)
  <2> HIDE DEF S, T
  <2> QED BY <1>1, FS_Subset
<1>3. Cardinality(T) \in Nat
  BY <1>2, FS_CardinalityType
<1>4. S = T <=> \A e \in S : e <= d
  OBVIOUS
<1> QED BY <1>2, <1>3, <1>4 DEF Rank

-----------------------------------------------------------------------------
(* A line that neither starts nor replaces a dependency leaves them alone. *)
LEMMA DepsStay ==
  ASSUME k \in Nat, DepsRight, UNCHANGED <<section, text, deps>>,
         Kept("dep")' = Kept("dep"), Kept("=>")' = Kept("=>")
  PROVE  DepsRight'
<1>1. Lines' = Lines
  BY DEF Lines
<1>2. \A d : Rank(d)' = Rank(d) /\ Behind(d)' = Behind(d)
  BY DEF Rank, Behind
<1> QED BY <1>1, <1>2 DEF DepsRight

(* A dependency more: its place is the one behind those there are.         *)
LEMMA DepsAppend ==
  ASSUME k \in Nat, DepsRight, deps \in Seq(Deps), NEW x \in Names, x = Lines[k + 1].names,
         UNCHANGED <<section, text>>, deps' = Append(deps, [is |-> x, replace |-> None]),
         Kept("dep")' = Kept("dep") \cup {k + 1}, Kept("=>")' = Kept("=>")
  PROVE  DepsRight'
<1> DEFINE new == [is |-> x, replace |-> None]
           n == Len(deps)
<1>1. Lines' = Lines
  BY DEF Lines
<1>2. PICK m \in Nat : m = k + 1
  OBVIOUS
<1>3. /\ n \in Nat /\ Len(deps') = n + 1 /\ deps'[n + 1] = new /\ DOMAIN deps' = 1..(n + 1)
      /\ \A i \in 1..n : deps'[i] = deps[i] /\ DOMAIN deps = 1..n
  <2>1. new \in Deps
    BY DEF Deps
  <2>2. deps' = Append(deps, new)
    OBVIOUS
  <2> HIDE DEF new
  <2> QED BY <2>1, <2>2
<1>4. /\ m \notin Kept("dep") /\ IsFiniteSet(Kept("dep")) /\ Kept("dep") \subseteq Int
      /\ \A j \in Kept("dep") \cup Kept("=>") : j < m /\ j \in Int
      /\ Kept("dep")' = Kept("dep") \cup {m}
  BY <1>2, KeptFacts
<1>5. Cardinality(Kept("dep") \cup {m}) = n + 1
  <2>1. Cardinality(Kept("dep")) = n
    BY DEF DepsRight
  <2>2. \A S, z : IsFiniteSet(S) /\ z \notin S => Cardinality(S \cup {z}) = Cardinality(S) + 1
    BY FS_AddElement
  <2> HIDE DEF n
  <2> QED BY <1>4, <2>1, <2>2
<1>6. ASSUME NEW d \in Kept("dep")
      PROVE  Rank(d)' = Rank(d) /\ Behind(d)' = Behind(d)
  <2>1. {e \in Kept("dep") \cup {m} : e <= d} = {e \in Kept("dep") : e <= d}
    BY <1>4
  <2>2. \A j \in Kept("=>") :
          (\E e \in Kept("dep") \cup {m} : d < e /\ e < j) <=> (\E e \in Kept("dep") : d < e /\ e < j)
    BY <1>4
  <2> QED BY <1>4, <2>1, <2>2 DEF Rank, Behind
<1>7. Rank(m)' = n + 1 /\ Behind(m)' = {}
  <2>1. {e \in Kept("dep") \cup {m} : e <= m} = Kept("dep") \cup {m}
    BY <1>4
  <2>2. ~\E j \in Kept("=>") : j > m
    BY <1>4
  <2> QED BY <1>4, <1>5, <2>1, <2>2 DEF Rank, Behind
<1>8. (Cardinality(Kept("dep")) = Len(deps))'
  BY <1>3, <1>4, <1>5
<1>9. ASSUME NEW d \in Kept("dep")'
      PROVE  (/\ Rank(d) \in 1..Len(deps)
              /\ deps[Rank(d)].is = Lines[d].names
              /\ LastIs(Lines, Behind(d), deps[Rank(d)].replace))'
  <2>1. CASE d = m
    <3>1. LastIs(Lines, {}, None)
      BY DEF LastIs
    <3>2. deps'[n + 1].is = x /\ deps'[n + 1].replace = None /\ n + 1 \in 1..(n + 1) /\ Lines[m].names = x
      BY <1>2, <1>3
    <3>3. Rank(d)' = n + 1 /\ Behind(d)' = {}
      BY <1>7, <2>1
    <3> HIDE DEF n, new
    <3> QED BY <1>1, <1>3, <2>1, <3>1, <3>2, <3>3
  <2>2. CASE d \in Kept("dep")
    <3>1. Rank(d) \in 1..n /\ deps[Rank(d)].is = Lines[d].names /\ LastIs(Lines, Behind(d), deps[Rank(d)].replace)
      BY <2>2 DEF DepsRight
    <3>2. deps'[Rank(d)] = deps[Rank(d)] /\ Rank(d) \in 1..(n + 1)
      BY <1>3, <3>1
    <3> QED BY <1>1, <1>3, <1>6, <2>2, <3>1, <3>2
  <2> QED BY <1>4, <2>1, <2>2
<1>10. ASSUME NEW i \in DOMAIN deps' PROVE \E d \in Kept("dep")' : Rank(d)' = i
  <2>1. CASE i = n + 1
    BY <1>4, <1>7, <2>1
  <2>2. CASE i # n + 1
    <3>1. i \in DOMAIN deps
      BY <1>3, <2>2
    <3>2. PICK d \in Kept("dep") : Rank(d) = i
      BY <3>1 DEF DepsRight
    <3> QED BY <1>4, <1>6, <3>2
  <2> QED BY <2>1, <2>2
<1> QED BY <1>8, <1>9, <1>10 DEF DepsRight

(* A replacement is behind the last dependency kept, and behind no other.  *)
LEMMA DepsReplace ==
  ASSUME k \in Nat, DepsRight, deps \in Seq(Deps), deps # <<>>, NEW x \in Names, x = Lines[k + 1].names,
         UNCHANGED <<section, text>>, deps' = [deps EXCEPT ![Len(deps)].replace = x],
         Kept("dep")' = Kept("dep"), Kept("=>")' = Kept("=>") \cup {k + 1}
  PROVE  DepsRight'
<1> DEFINE n == Len(deps)
<1>1. Lines' = Lines
  BY DEF Lines
<1>3. /\ n \in Nat /\ n > 0 /\ Len(deps') = n /\ DOMAIN deps' = 1..n /\ DOMAIN deps = 1..n
      /\ \A i \in 1..n : i # n => deps'[i] = deps[i]
      /\ deps'[n].is = deps[n].is /\ deps'[n].replace = x
  BY DEF Deps
<1>4. /\ \A j \in Kept("dep") \cup Kept("=>") : j < k + 1 /\ j \in Int
      /\ \A d : Behind(d) \in SUBSET Kept("=>")
  BY KeptFacts DEF Behind
<1>5. \A d : Rank(d)' = Rank(d)
  BY DEF Rank
<1>6. ASSUME NEW d \in Kept("dep")
      PROVE  /\ Rank(d) = n => Behind(d)' = Behind(d) \cup {k + 1}
             /\ Rank(d) # n => Behind(d)' = Behind(d)
  <2>1. Rank(d) = n <=> \A e \in Kept("dep") : e <= d
    BY RankFacts DEF DepsRight
  <2>2. Rank(d) = n <=> ~\E e \in Kept("dep") : d < e /\ e < k + 1
    BY <1>4, <2>1
  <2>3. k + 1 > d
    BY <1>4
  <2> QED BY <2>2, <2>3 DEF Behind
<1>7. ASSUME NEW d \in Kept("dep")'
      PROVE  (/\ Rank(d) \in 1..Len(deps)
              /\ deps[Rank(d)].is = Lines[d].names
              /\ LastIs(Lines, Behind(d), deps[Rank(d)].replace))'
  <2>1. Rank(d) \in 1..n /\ deps[Rank(d)].is = Lines[d].names /\ LastIs(Lines, Behind(d), deps[Rank(d)].replace)
    BY DEF DepsRight
  <2>2. CASE Rank(d) = n
    <3>1. Behind(d) \in SUBSET Int /\ k + 1 \in Int /\ \A i \in Behind(d) : i <= k + 1
      BY <1>4
    <3>2. LastIs(Lines, Behind(d) \cup {k + 1}, x)
      BY <3>1, LastGrows
    <3> QED BY <1>1, <1>3, <1>5, <1>6, <2>1, <2>2, <3>2
  <2>3. CASE Rank(d) # n
    BY <1>1, <1>3, <1>5, <1>6, <2>1, <2>3
  <2> QED BY <2>2, <2>3
<1>8. \A i \in DOMAIN deps' : \E d \in Kept("dep")' : Rank(d)' = i
  BY <1>3, <1>5 DEF DepsRight
<1> QED BY <1>3, <1>7, <1>8 DEF DepsRight

-----------------------------------------------------------------------------
(* The strings the linker wrote are found, in both layouts.                *)
LEMMA TextFound ==
  ASSUME NEW s \in Sections, s.says # None
  PROVE  VersionText(s) = s.says[1] /\ ModuleText(s) = s.says[2] /\ s.says[2] # None
<1> DEFINE version == s.says[1]
           modules == s.says[2]
<1>1. version \in Nat \X Nat /\ modules \in Nat \X Nat /\ version # None /\ modules # None
  BY SectionsAssumption, NoneAssumption DEF IsLinked
<1>2. version = <<version[1], version[2]>> /\ modules = <<modules[1], modules[2]>>
  BY <1>1
<1>3. CASE s.flags \in {0, 1} /\ PointsTo(s, 16, version) /\ PointsTo(s, 16 + s.ptrSize, modules)
  <2>1. ~PointerFree(s) /\ Endian(s) = IF s.flags = 1 THEN "big" ELSE "little"
    BY <1>3 DEF PointerFree, Endian
  <2>2. ASSUME NEW p, NEW x \in Nat \X Nat, PointsTo(s, p, x) PROVE ReadString(s, p) = x
    <3> DEFINE At(q) == <<Endian(s), q>>
               header == s.word[At(p)]
    <3>1. /\ {At(p), At(header), At(header + s.ptrSize)} \subseteq DOMAIN s.word
          /\ header \in Nat /\ <<s.word[At(header)], s.word[At(header + s.ptrSize)]>> = x
          /\ x \in s.readable
      BY <2>1, <2>2 DEF PointsTo
    <3>2. WordAt(s, p) = header /\ header # None
      BY <3>1, NoneAssumption DEF WordAt
    <3>3. WordAt(s, header) = x[1] /\ WordAt(s, header + s.ptrSize) = x[2] /\ x[1] \in Nat /\ x[2] \in Nat
      BY <3>1 DEF WordAt
    <3>4. <<x[1], x[2]>> = x /\ x \in s.readable
      BY <3>1
    <3> HIDE DEF header
    <3> QED BY <3>2, <3>3, <3>4, NoneAssumption DEF ReadString
  <2> QED BY <1>1, <1>3, <2>1, <2>2 DEF VersionText, ModuleText
<1>4. CASE s.flags \in {2, 3} /\ Follows(s, 32, version) /\ Follows(s, version[1] + version[2], modules)
  <2>1. PointerFree(s)
    BY <1>4 DEF PointerFree
  <2>2. ASSUME NEW p \in Nat, NEW x \in Nat \X Nat, Follows(s, p, x)
        PROVE  Inline(s, p) = x /\ s.int[p] # None /\ p + s.int[p][1] + s.int[p][2] = x[1] + x[2]
    <3>1. s.int[p] # None /\ s.int[p][1] = x[2] /\ s.int[p][2] = x[1] - p
      BY <2>2 DEF Follows
    <3>2. p + s.int[p][2] = x[1] /\ p + s.int[p][1] + s.int[p][2] = x[1] + x[2]
      BY <3>1
    <3> QED BY <3>1, <3>2 DEF Inline
  <2>3. Inline(s, 32) = version /\ s.int[32] # None /\ 32 + s.int[32][1] + s.int[32][2] = version[1] + version[2]
    BY <1>1, <1>4, <2>2
  <2>4. Inline(s, version[1] + version[2]) = modules
    BY <1>1, <1>4, <2>2
  <2> QED BY <1>1, <2>1, <2>3, <2>4 DEF VersionText, ModuleText
<1> QED BY <1>1, <1>3, <1>4, SectionsAssumption DEF IsLinked

LEMMA InitIInv == Init => IInv
BY NoneAssumption DEF Init, NoInfo, IInv, InfoTypeOK, TextsRight

LEMMA GetVersionIInv == IInv /\ GetVersion => IInv'
<1> SUFFICES ASSUME IInv, GetVersion PROVE IInv'
  OBVIOUS
<1>1. TextsRight'
  BY TextFound DEF IInv, InfoTypeOK, GetVersion, TextsRight
<1> QED BY <1>1 DEF IInv, InfoTypeOK, GetVersion, NoInfo

LEMMA BeginIInv == IInv /\ Begin => IInv'
<1> SUFFICES ASSUME IInv, Begin PROVE IInv'
  OBVIOUS
<1>1. /\ st = "idle" /\ NoInfo /\ k = 0 /\ section \in Sections /\ text' = ModuleText(section)
      /\ UNCHANGED <<section, k, path, main, deps>>
  BY DEF IInv, InfoTypeOK, Begin
<1>2. CASE text' = None \/ text'[2] < 32
  <2>1. st' = "idle" /\ ans' = [call |-> "moduleInfo", is |-> None]
    BY <1>1, <1>2 DEF Begin
  <2>2. TextsRight'
    BY <1>1, <1>2, <2>1, TextFound DEF TextsRight
  <2> QED BY <1>1, <2>1, <2>2 DEF IInv, InfoTypeOK, NoInfo
<1>3. CASE ~(text' = None \/ text'[2] < 32)
  <2>1. st' = "lines" /\ ans' = None
    BY <1>3 DEF Begin
  <2>2. TextsRight'
    BY <1>1, <1>3, <2>1, TextFound DEF TextsRight
  <2>3. Kept("path")' = {} /\ Kept("mod")' = {} /\ Kept("dep")' = {}
    BY <1>1 DEF Kept
  <2>4. k' \in 0..Len(Lines')
    <3>1. Lines' = section.lines[ModuleText(section)]
      BY <1>1 DEF Lines
    <3>2. Lines' \in Seq(LineSet)
      <4>1. ModuleText(section) # None
        BY <1>1, <1>3
      <4>2. HasLines(section)
        BY <1>1, SectionsAssumption
      <4> QED BY <1>1, <1>3, <3>1, <4>1, <4>2 DEF HasLines
    <3> QED BY <1>1, <3>2
  <2>5. DepsRight'
    BY <1>1, <2>3, FS_EmptySet DEF DepsRight, NoInfo
  <2>6. LastIs(Lines', {}, None)
    BY DEF LastIs
  <2> QED BY <1>1, <1>3, <2>1, <2>2, <2>3, <2>4, <2>5, <2>6 DEF IInv, InfoTypeOK, ListRight, NoInfo
<1> QED BY <1>2, <1>3

(* The line that is read.                                                  *)
LEMMA ReadLine ==
  ASSUME IInv, Reading
  PROVE  /\ k \in Nat /\ ListRight /\ Line \in LineSet /\ k + 1 \in 0..Len(Lines)
         /\ section \in Sections
<1>1. k \in Nat /\ ListRight /\ section \in Sections /\ k < Len(Lines)
  BY DEF IInv, InfoTypeOK, Reading
<1>2. Lines \in Seq(LineSet)
  BY <1>1, SectionsAssumption DEF ListRight, HasLines, Lines
<1> QED BY <1>1, <1>2 DEF Line

(* The parts of the invariant that reading a line has in common.           *)
LEMMA LineIInv ==
  ASSUME IInv, Reading, k' = k + 1, UNCHANGED <<section, text, ans, st>>, InfoTypeOK',
         LastIs(Lines, Kept("path")', path'), LastIs(Lines, Kept("mod")', main'), DepsRight'
  PROVE  IInv'
<1>1. ListRight /\ k + 1 \in 0..Len(Lines) /\ st = "lines"
  BY ReadLine DEF Reading
<1>2. Lines' = Lines
  BY DEF Lines
<1>3. ListRight'
  BY <1>1, <1>2 DEF ListRight
<1>4. TextsRight'
  BY DEF IInv, TextsRight
<1> QED BY <1>1, <1>3, <1>4 DEF IInv

LEMMA LinesIInv ==
  ASSUME IInv, Skip \/ Path \/ Mod \/ Dep \/ Replace
  PROVE  IInv'
<1> DEFINE w == Line.word
<1>1. /\ Reading /\ k' = k + 1 /\ UNCHANGED <<section, text, ans, st>>
  BY DEF Skip, Path, Mod, Dep, Replace
<1>2. /\ k \in Nat /\ InfoTypeOK /\ ListRight /\ DepsRight /\ Line.names \in Names
      /\ LastIs(Lines, Kept("path"), path) /\ LastIs(Lines, Kept("mod"), main)
  BY <1>1, ReadLine DEF IInv, ListRight, LineSet
<1>3. \A v : Kept(v)' = IF Good(Line) /\ w = v THEN Kept(v) \cup {k + 1} ELSE Kept(v)
  BY <1>1, <1>2, KeptGrows
<1>4. \A v : LastIs(Lines, Kept(v) \cup {k + 1}, Line.names)
  <2> TAKE v
  <2>1. Kept(v) \in SUBSET Int /\ k + 1 \in Int /\ \A i \in Kept(v) : i <= k + 1
    BY <1>2, KeptFacts
  <2> QED BY <2>1, LastGrows DEF Line
<1>5. CASE Skip
  <2>1. /\ Kept("path")' = Kept("path") /\ Kept("mod")' = Kept("mod")
        /\ Kept("dep")' = Kept("dep") /\ Kept("=>")' = Kept("=>")
    BY <1>3, <1>5 DEF Skip
  <2>2. UNCHANGED <<path, main, deps>>
    BY <1>5 DEF Skip
  <2>3. DepsRight' /\ InfoTypeOK'
    BY <1>1, <1>2, <2>1, <2>2, DepsStay DEF InfoTypeOK
  <2> QED BY <1>1, <1>2, <2>1, <2>2, <2>3, LineIInv
<1>6. CASE Path
  <2>1. /\ Kept("path")' = Kept("path") \cup {k + 1} /\ Kept("mod")' = Kept("mod")
        /\ Kept("dep")' = Kept("dep") /\ Kept("=>")' = Kept("=>")
    BY <1>3, <1>6 DEF Path
  <2>2. path' = Line.names /\ UNCHANGED <<main, deps>>
    BY <1>6 DEF Path
  <2>3. DepsRight' /\ InfoTypeOK'
    BY <1>1, <1>2, <2>1, <2>2, DepsStay DEF InfoTypeOK
  <2> QED BY <1>1, <1>2, <1>4, <2>1, <2>2, <2>3, LineIInv
<1>7. CASE Mod
  <2>1. /\ Kept("path")' = Kept("path") /\ Kept("mod")' = Kept("mod") \cup {k + 1}
        /\ Kept("dep")' = Kept("dep") /\ Kept("=>")' = Kept("=>")
    BY <1>3, <1>7 DEF Mod
  <2>2. main' = Line.names /\ UNCHANGED <<path, deps>>
    BY <1>7 DEF Mod
  <2>3. DepsRight' /\ InfoTypeOK'
    BY <1>1, <1>2, <2>1, <2>2, DepsStay DEF InfoTypeOK
  <2> QED BY <1>1, <1>2, <1>4, <2>1, <2>2, <2>3, LineIInv
<1>8. CASE Dep
  <2>1. /\ Kept("path")' = Kept("path") /\ Kept("mod")' = Kept("mod")
        /\ Kept("dep")' = Kept("dep") \cup {k + 1} /\ Kept("=>")' = Kept("=>")
    BY <1>3, <1>8 DEF Dep
  <2>2. deps' = Append(deps, [is |-> Line.names, replace |-> None]) /\ UNCHANGED <<path, main>>
    BY <1>8 DEF Dep
  <2>3. DepsRight'
    BY <1>1, <1>2, <2>1, <2>2, DepsAppend DEF InfoTypeOK, Line
  <2>4. InfoTypeOK'
    <3>1. [is |-> Line.names, replace |-> None] \in Deps
      BY <1>2 DEF Deps
    <3> QED BY <1>1, <1>2, <2>2, <3>1 DEF InfoTypeOK
  <2> QED BY <1>1, <1>2, <2>1, <2>2, <2>3, <2>4, LineIInv
<1>9. CASE Replace
  <2>1. /\ Kept("path")' = Kept("path") /\ Kept("mod")' = Kept("mod")
        /\ Kept("dep")' = Kept("dep") /\ Kept("=>")' = Kept("=>") \cup {k + 1}
    BY <1>3, <1>9 DEF Replace
  <2>2. /\ deps' = [deps EXCEPT ![Len(deps)].replace = Line.names] /\ deps # <<>>
        /\ UNCHANGED <<path, main>>
    BY <1>9 DEF Replace
  <2>3. DepsRight'
    BY <1>1, <1>2, <2>1, <2>2, DepsReplace DEF InfoTypeOK, Line
  <2>4. InfoTypeOK'
    <3> DEFINE n == Len(deps)
               new == [deps[n] EXCEPT !.replace = Line.names]
    <3>1. deps \in Seq(Deps) /\ n \in Nat /\ n > 0 /\ DOMAIN deps = 1..n /\ deps[n] \in Deps
      BY <1>2, <2>2 DEF InfoTypeOK
    <3>2. new \in Deps
      BY <1>2, <3>1 DEF Deps
    <3>3. deps' = [deps EXCEPT ![n] = new]
      BY <2>2
    <3> HIDE DEF new, n
    <3>4. deps' \in Seq(Deps)
      BY <3>1, <3>2, <3>3
    <3> QED BY <1>1, <1>2, <2>2, <3>4 DEF InfoTypeOK
  <2> QED BY <1>1, <1>2, <2>1, <2>2, <2>3, <2>4, LineIInv
<1> QED BY <1>5, <1>6, <1>7, <1>8, <1>9

LEMMA ReturnIInv == IInv /\ Return => IInv'
<1> SUFFICES ASSUME IInv, Return PROVE IInv'
  OBVIOUS
<1>1. InfoTypeOK'
  BY DEF IInv, InfoTypeOK, Return
<1>2. TextsRight'
  <2>1. ans'.is \in Infos /\ ans'.call = "moduleInfo" /\ text' = text /\ section' = section /\ st' = "idle"
    BY DEF Return, IInv, InfoTypeOK, Infos
  <2> QED BY <2>1, NoneAssumption DEF IInv, TextsRight, Return
<1> QED BY <1>1, <1>2 DEF IInv, Return, NoInfo

LEMMA NextIInv == IInv /\ [Next]_vars => IInv'
<1>1. IInv /\ ReplaceNone => IInv'
  BY DEF IInv, InfoTypeOK, TextsRight, ReplaceNone, Reading
<1>2. IInv /\ UNCHANGED vars => IInv'
  <2> SUFFICES ASSUME IInv, UNCHANGED vars PROVE IInv'
    OBVIOUS
  <2>1. \A w : Kept(w)' = Kept(w)
    BY DEF vars, Kept, Lines, Good
  <2>2. st = "lines" => ListRight'
    <3>1. k \in Nat /\ UNCHANGED <<section, text, deps, k, path, main>> /\ Lines' = Lines
      BY DEF IInv, InfoTypeOK, vars, Lines
    <3>2. st = "lines" => DepsRight'
      BY <2>1, <3>1, DepsStay DEF IInv, ListRight
    <3> QED BY <2>1, <3>1, <3>2 DEF IInv, ListRight
  <2>3. TextsRight'
    BY DEF IInv, TextsRight, vars
  <2> QED BY <2>2, <2>3 DEF vars, IInv, InfoTypeOK, NoInfo
<1> QED BY <1>1, <1>2, GetVersionIInv, BeginIInv, LinesIInv, ReturnIInv DEF Next

LEMMA SpecIInv == Spec => []IInv
BY InitIInv, NextIInv, PTL DEF Spec

-----------------------------------------------------------------------------
(* The state of the loop keeps its types, the list of dependencies too.    *)
THEOREM InfoTypeCorrect == Spec => []InfoTypeOK
<1>1. IInv => InfoTypeOK
  BY DEF IInv
<1> QED BY <1>1, SpecIInv, PTL

(* Of a list of any length the loop keeps at every line the last path and  *)
(* main module, and every dependency with its last replacement.            *)
THEOREM KeepsWhatIsSaidHolds == Spec => []KeepsWhatIsSaid
<1>1. IInv => KeepsWhatIsSaid
  <2> SUFFICES ASSUME IInv, st = "lines" PROVE KeepsWhatIsSaid
    BY DEF KeepsWhatIsSaid
  <2>1. /\ k \in Nat /\ DepsRight /\ Len(deps) \in Nat
        /\ LastIs(Lines, Kept("path"), path) /\ LastIs(Lines, Kept("mod"), main)
    BY DEF IInv, InfoTypeOK, ListRight
  <2>2. path = LastName(Kept("path")) /\ main = LastName(Kept("mod"))
    BY <2>1, KeptFacts, LastNameIs
  <2>3. ASSUME NEW d \in Kept("dep")
        PROVE  /\ Rank(d) <= Len(deps) /\ deps[Rank(d)].is = Lines[d].names
               /\ deps[Rank(d)].replace = LastName(Behind(d))
    <3>1. Behind(d) \in SUBSET Int
      BY <2>1, KeptFacts DEF Behind
    <3> QED BY <2>1, <3>1, LastNameIs DEF DepsRight
  <2> QED BY <2>2, <2>3 DEF KeepsWhatIsSaid, Rank
<1> QED BY <1>1, SpecIInv, PTL

(* A replacement kept has a dependency kept in front of it, until one has  *)
(* none and the list is undefined.                                         *)
Fronts ==
  /\ st = "lines" => \A j \in Kept("=>") : \E d \in Kept("dep") : d < j
  /\ st = "undefined" => /\ deps = <<>>
                         /\ \E j \in Kept("=>") : \A d \in Kept("dep") : d > j

(* There is a dependency in the list as soon as a line of one is kept.     *)
LEMMA DepsAreKept ==
  ASSUME DepsRight, deps \in Seq(Deps)
  PROVE  deps = <<>> <=> Kept("dep") = {}
<1>1. CASE deps = <<>>
  <2>1. \A d \in Kept("dep") : Rank(d) \in 1..0
    BY <1>1 DEF DepsRight
  <2> QED BY <1>1, <2>1
<1>2. CASE deps # <<>>
  <2>1. 1 \in DOMAIN deps
    BY <1>2
  <2> QED BY <1>2, <2>1 DEF DepsRight
<1> QED BY <1>1, <1>2

LEMMA NextFronts == IInv /\ Fronts /\ [Next]_vars => Fronts'
<1> SUFFICES ASSUME IInv, Fronts, [Next]_vars PROVE Fronts'
  OBVIOUS
<1>1. CASE GetVersion \/ Return
  BY <1>1 DEF IInv, GetVersion, Return, Fronts
<1>2. CASE Begin
  <2>1. Kept("=>")' = {} /\ st' \in {"idle", "lines"}
    BY <1>2 DEF IInv, Begin, Kept
  <2> QED BY <2>1 DEF Fronts
<1>3. CASE Skip \/ Path \/ Mod \/ Dep \/ Replace
  <2>1. Reading /\ k' = k + 1 /\ UNCHANGED <<section, text, st>> /\ st = "lines"
    BY <1>3 DEF Skip, Path, Mod, Dep, Replace, Reading
  <2>2. k \in Nat /\ DepsRight /\ deps \in Seq(Deps)
    BY <2>1, ReadLine DEF IInv, InfoTypeOK, ListRight
  <2>3. \A v : Kept(v)' = IF Good(Line) /\ Line.word = v THEN Kept(v) \cup {k + 1} ELSE Kept(v)
    BY <2>1, <2>2, KeptGrows
  <2>4. Kept("dep") \subseteq Kept("dep")'
    BY <2>3
  <2>5. ASSUME NEW j \in Kept("=>")' PROVE \E d \in Kept("dep")' : d < j
    <3>1. CASE j \in Kept("=>")
      BY <2>1, <2>4, <3>1 DEF Fronts
    <3>2. CASE j \notin Kept("=>")
      <4>1. j = k + 1 /\ Good(Line) /\ Line.word = "=>"
        BY <2>3, <3>2
      <4>2. deps # <<>>
        BY <1>3, <4>1 DEF Skip, Path, Mod, Dep, Replace
      <4>3. Kept("dep") # {} /\ \A d \in Kept("dep") : d < k + 1
        BY <2>2, <4>2, DepsAreKept, KeptFacts
      <4> QED BY <2>4, <4>1, <4>3
    <3> QED BY <3>1, <3>2
  <2> QED BY <2>1, <2>5 DEF Fronts
<1>4. CASE ReplaceNone
  <2>1. /\ Reading /\ k' = k + 1 /\ UNCHANGED <<section, text, deps>> /\ st' = "undefined"
        /\ Good(Line) /\ Line.word = "=>" /\ deps = <<>>
    BY <1>4 DEF ReplaceNone
  <2>2. k \in Nat /\ DepsRight /\ deps \in Seq(Deps)
    BY <2>1, ReadLine DEF IInv, InfoTypeOK, ListRight
  <2>3. Kept("dep")' = Kept("dep") /\ k + 1 \in Kept("=>")'
    BY <2>1, <2>2, KeptGrows
  <2>4. Kept("dep") = {}
    BY <2>1, <2>2, DepsAreKept
  <2> QED BY <2>1, <2>3, <2>4 DEF Fronts
<1>5. CASE UNCHANGED vars
  <2>1. \A w : Kept(w)' = Kept(w)
    BY <1>5 DEF vars, Kept, Lines, Good
  <2> QED BY <1>5, <2>1 DEF vars, Fronts
<1> QED BY <1>1, <1>2, <1>3, <1>4, <1>5 DEF Next

(* In the lists Go writes a replacement reported is that of another module *)
(* than the one it is reported with, further down and lost itself; and     *)
(* back() of an empty list is hit exactly where none is kept in front.     *)
THEOREM ReplacementsAstrayHolds == Spec => []ReplacementsAstray
<1>1. Init => Fronts
  BY DEF Init, Fronts
<1>2. IInv /\ Fronts => ReplacementsAstray
  <2> SUFFICES ASSUME IInv, Fronts, st \in {"lines", "undefined"}, Written(Lines)
               PROVE  /\ st = "undefined" <=> \E j \in Kept("=>") : \A d \in Kept("dep") : d > j
                      /\ \A n \in DOMAIN deps : deps[n].replace # None =>
                           \E j \in Kept("=>"), d \in Kept("dep") :
                             /\ Lines[j].names = deps[n].replace /\ Lines[d].names = deps[n].is
                             /\ d < j - 1 /\ Lines[j - 1].word = "dep"
                             /\ \A e \in (d + 1)..(j - 1) : e \notin Kept("dep")
    BY DEF ReplacementsAstray
  <2>1. st = "undefined" <=> \E j \in Kept("=>") : \A d \in Kept("dep") : d > j
    <3>1. k \in Nat
      BY DEF IInv, InfoTypeOK
    <3>2. \A d \in Kept("dep"), j \in Kept("=>") : d < j => ~(d > j)
      BY <3>1, KeptFacts
    <3> QED BY <3>2 DEF Fronts
  <2>2. ASSUME NEW n \in DOMAIN deps, deps[n].replace # None
        PROVE  \E j \in Kept("=>"), d \in Kept("dep") :
                 /\ Lines[j].names = deps[n].replace /\ Lines[d].names = deps[n].is
                 /\ d < j - 1 /\ Lines[j - 1].word = "dep"
                 /\ \A e \in (d + 1)..(j - 1) : e \notin Kept("dep")
    <3>1. st = "lines"
      BY DEF Fronts
    <3>2. k \in 0..Len(Lines) /\ k \in Nat /\ DepsRight /\ Lines \in Seq(LineSet)
      BY <3>1, SectionsAssumption DEF IInv, InfoTypeOK, ListRight, HasLines, Lines
    <3>3. PICK d \in Kept("dep") : Rank(d) = n
      BY <3>2 DEF DepsRight
    <3>4. deps[n].is = Lines[d].names /\ LastIs(Lines, Behind(d), deps[n].replace)
      BY <3>2, <3>3 DEF DepsRight
    <3>5. PICK j \in Behind(d) : deps[n].replace = Lines[j].names
      BY <2>2, <3>4 DEF LastIs
    <3>6. j \in Kept("=>") /\ d < j /\ ~\E e \in Kept("dep") : d < e /\ e < j
      BY DEF Behind
    <3>7. j \in DOMAIN Lines /\ d \in Int /\ j \in Int /\ Lines[j].word = "=>" /\ Good(Lines[d])
      BY <3>2, <3>6 DEF Kept
    <3>8. Lines[j - 1].word = "dep" /\ ~Good(Lines[j - 1])
      BY <3>7 DEF Written, Good
    <3>9. d # j - 1
      BY <3>7, <3>8
    <3>10. d < j - 1 /\ \A e \in (d + 1)..(j - 1) : e \notin Kept("dep")
      BY <3>6, <3>7, <3>9
    <3> QED BY <3>4, <3>5, <3>6, <3>8, <3>10
  <2> QED BY <2>1, <2>2
<1> QED BY <1>1, <1>2, NextFronts, InitIInv, NextIInv, PTL DEF Spec

(* The version and the list are the strings the linker wrote, whatever the *)
(* layout, the byte order, the size of a pointer and the lengths.          *)
THEOREM TextsRightHolds == Spec => []TextsRight
<1>1. IInv => TextsRight
  BY DEF IInv
<1> QED BY <1>1, SpecIInv, PTL
=============================================================================
