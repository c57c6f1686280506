----------------------------- MODULE BuildInfo -----------------------------
(***************************************************************************)
(* BuildInfo (src/src/symbol/build_info.cpp): the version and the module   *)
(* list of the .go.buildinfo section.  Until Go 1.17 the section points to *)
(* two Go strings, later ("pointer free") they are in it, a length in      *)
(* front of each.  moduleInfo then reads the list line by line.            *)
(*                                                                         *)
(* Of a section s, s.flags is its byte 15, s.word[<<e, p>>] the word at    *)
(* position or address p in byte order e, and s.int[p] what uVarInt makes  *)
(* of the bytes at p (module UVarInt).  A string is where its bytes begin  *)
(* and how many they are; s.lines[x] are the lines of string x without its *)
(* first and its last 16 bytes: the word a line starts with, how many      *)
(* tokens its tabs make, and the module it names.                          *)
(***************************************************************************)
EXTENDS Integers, Sequences, FiniteSets

CONSTANTS
  Sections,
  Names,     \* what a line can name: a path, or a module with its version
  None

VARIABLES
  section,
  st,       \* "idle", "lines", or "undefined" behind an empty list's back()
  text,     \* the string the last call read, None if it could not
  k,        \* lines read
  path, main, deps,  \* the ModuleInfo
  ans       \* what the last call returned

vars == <<section, st, text, k, path, main, deps, ans>>

-----------------------------------------------------------------------------
(* The constructor's members; any flag at all makes the order big endian.  *)
PointerFree(s) == (s.flags \div 2) % 2 = 1
Endian(s) == IF s.flags # 0 THEN "big" ELSE "little"

WordAt(s, p) == IF <<Endian(s), p>> \in DOMAIN s.word THEN s.word[<<Endian(s), p>>] ELSE None

(* readString: a pointer to a pointer and a length, whose bytes are there. *)
ReadString(s, p) ==
  LET header == WordAt(s, p)
      start == IF header = None THEN None ELSE WordAt(s, header)
      len == IF header = None THEN None ELSE WordAt(s, header + s.ptrSize)
  IN  IF header = None \/ start = None \/ len = None \/ <<start, len>> \notin s.readable THEN None
      ELSE <<start, len>>

(* The string whose length is at p.                                        *)
Inline(s, p) == IF s.int[p] = None THEN None ELSE <<p + s.int[p][2], s.int[p][1]>>

VersionText(s) == IF PointerFree(s) THEN Inline(s, 32) ELSE ReadString(s, 16)

(* Mutant: the length's own bytes are not skipped.                         *)
ModuleTextShort(s) ==
  IF ~PointerFree(s) THEN ReadString(s, 16 + s.ptrSize)
  ELSE IF s.int[32] = None THEN None ELSE Inline(s, 32 + s.int[32][1])

ModuleText(s) ==
  IF ~PointerFree(s) THEN ReadString(s, 16 + s.ptrSize)
  ELSE IF s.int[32] = None THEN None ELSE Inline(s, 32 + s.int[32][1] + s.int[32][2])

-----------------------------------------------------------------------------
(* What the linker writes: flag 1 is the byte order of the pointers, flag  *)
(* 2 that there are none and the strings follow each other.                *)
PointsTo(s, p, x) ==
  LET At(q) == <<IF s.flags = 1 THEN "big" ELSE "little", q>>
      header == s.word[At(p)]
  IN  /\ {At(p), At(header), At(header + s.ptrSize)} \subseteq DOMAIN s.word
      /\ header \in Nat /\ <<s.word[At(header)], s.word[At(header + s.ptrSize)]>> = x
      /\ x \in s.readable

Follows(s, p, x) == s.int[p] # None /\ s.int[p] = <<x[2], x[1] - p>>

IsLinked(s) ==
  LET version == s.says[1]
      modules == s.says[2]
  IN  /\ {version, modules} \subseteq Nat \X Nat
      /\ \/ /\ s.flags \in {0, 1}
            /\ PointsTo(s, 16, version) /\ PointsTo(s, 16 + s.ptrSize, modules)
         \/ /\ s.flags \in {2, 3}
            /\ Follows(s, 32, version) /\ Follows(s, version[1] + version[2], modules)

Words == {"path", "mod", "dep", "=>", "other"}
LineSet == [word : Words, tokens : Nat, names : Names]
Deps == [is : Names, replace : Names \cup {None}]
Infos == [path : Names \cup {None}, main : Names \cup {None}, deps : Seq(Deps)]

(* What is cut into lines is a list of them.                               *)
HasLines(s) ==
  LET x == ModuleText(s)
  IN  x = None \/ x[2] < 32 \/ s.lines[x] \in Seq(LineSet)

ASSUME NoneAssumption == None \notin Names /\ None \notin Nat /\ None \notin Nat \X Nat /\ None \notin Infos
ASSUME SectionsAssumption == \A s \in Sections : HasLines(s) /\ (s.says # None => IsLinked(s))

-----------------------------------------------------------------------------
NoInfo == path = None /\ main = None /\ deps = <<>>

Init ==
  /\ section \in Sections
  /\ st = "idle" /\ text = None /\ k = 0
  /\ NoInfo /\ ans = None

(* What is made of the text is module Reader's subject.                    *)
GetVersion ==
  /\ st = "idle"
  /\ text' = VersionText(section)
  /\ ans' = [call |-> "version", is |-> text']
  /\ UNCHANGED <<section, st, k, path, main, deps>>

(* The length of the list has to cover what is cut off.                    *)
Begin ==
  /\ st = "idle"
  /\ text' = ModuleText(section)
  /\ IF text' = None \/ text'[2] < 32
     THEN st' = st /\ ans' = [call |-> "moduleInfo", is |-> None]
     ELSE st' = "lines" /\ ans' = None
  /\ UNCHANGED <<section, k, path, main, deps>>

Lines == section.lines[text]
Line == Lines[k + 1]
Good(line) == line.tokens = (IF line.word = "path" THEN 2 ELSE 4)

Reading == st = "lines" /\ k < Len(Lines)

(* A line with another number of tokens, or another word, is skipped.      *)
Skip ==
  /\ Reading /\ (~Good(Line) \/ Line.word = "other")
  /\ k' = k + 1
  /\ UNCHANGED <<section, st, text, path, main, deps, ans>>

Path ==
  /\ Reading /\ Good(Line) /\ Line.word = "path"
  /\ path' = Line.names /\ k' = k + 1
  /\ UNCHANGED <<section, st, text, main, deps, ans>>

Mod ==
  /\ Reading /\ Good(Line) /\ Line.word = "mod"
  /\ main' = Line.names /\ k' = k + 1
  /\ UNCHANGED <<section, st, text, path, deps, ans>>

(* Mutant: a dependency is pushed at the front.                            *)
DepFront ==
  /\ Reading /\ Good(Line) /\ Line.word = "dep"
  /\ deps' = <<[is |-> Line.names, replace |-> None]>> \o deps /\ k' = k + 1
  /\ UNCHANGED <<section, st, text, path, main, ans>>

Dep ==
  /\ Reading /\ Good(Line) /\ Line.word = "dep"
  /\ deps' = Append(deps, [is |-> Line.names, replace |-> None]) /\ k' = k + 1
  /\ UNCHANGED <<section, st, text, path, main, ans>>

(* Mutant: the first dependency gets the replacement.                      *)
ReplaceFirst ==
  /\ Reading /\ Good(Line) /\ Line.word = "=>" /\ deps # <<>>
  /\ deps' = [deps EXCEPT ![1].replace = Line.names] /\ k' = k + 1
  /\ UNCHANGED <<section, st, text, path, main, ans>>

(* A replacement goes to the last dependency kept.                         *)
Replace ==
  /\ Reading /\ Good(Line) /\ Line.word = "=>" /\ deps # <<>>
  /\ deps' = [deps EXCEPT ![Len(deps)].replace = Line.names] /\ k' = k + 1
  /\ UNCHANGED <<section, st, text, path, main, ans>>

(* deps.back() of an empty list: what happens from here on is undefined.   *)
ReplaceNone ==
  /\ Reading /\ Good(Line) /\ Line.word = "=>" /\ deps = <<>>
  /\ st' = "undefined" /\ k' = k + 1
  /\ UNCHANGED <<section, text, path, main, deps, ans>>

Return ==
  /\ st = "lines" /\ k = Len(Lines)
  /\ st' = "idle" /\ k' = 0
  /\ ans' = [call |-> "moduleInfo", is |-> [path |-> path, main |-> main, deps |-> deps]]
  /\ path' = None /\ main' = None /\ deps' = <<>>
  /\ UNCHANGED <<section, text>>

Next ==
  \/ GetVersion \/ Begin \/ Return
  \/ Skip \/ Path \/ Mod \/ Dep \/ Replace \/ ReplaceNone

Spec == Init /\ [][Next]_vars

-----------------------------------------------------------------------------
(* A reading of the list without a loop: which lines are kept, and for a   *)
(* kept dependency at line d the replacements that belong to it.           *)
Kept(word) == {j \in 1..k : Good(Lines[j]) /\ Lines[j].word = word}
Behind(d) == {j \in Kept("=>") : j > d /\ ~\E e \in Kept("dep") : d < e /\ e < j}
LastName(S) == IF S = {} THEN None ELSE Lines[CHOOSE j \in S : \A i \in S : i <= j].names

(* At every line the list so far is what the lines kept say: the last path *)
(* and main module, and the dependencies in their order.                   *)
KeepsWhatIsSaid ==
  st = "lines" =>
    /\ path = LastName(Kept("path")) /\ main = LastName(Kept("mod"))
    /\ \A d \in Kept("dep") :
         LET n == Cardinality({e \in Kept("dep") : e <= d})
         IN  n <= Len(deps) /\ deps[n].is = Lines[d].names
                /\ deps[n].replace = LastName(Behind(d))

(* A list as Go writes it: a replacement stands directly behind its        *)
(* dependency, whose own line then has no checksum and so three tokens.    *)
Written(lines) ==
  \A j \in DOMAIN lines : lines[j].word = "=>" =>
    j > 1 /\ lines[j - 1].word = "dep" /\ lines[j - 1].tokens = 3

(* In such a list the module replaced is lost, and a replacement reported  *)
(* is never that of the module it is reported with: it belongs to one      *)
(* further down, and that module is the last one kept in front.  Where     *)
(* there is none in front, and only there, back() of an empty list is hit. *)
ReplacementsAstray ==
  st \in {"lines", "undefined"} /\ Written(Lines) =>
    /\ st = "undefined" <=> \E j \in Kept("=>") : \A d \in Kept("dep") : d > j
    /\ \A n \in DOMAIN deps : deps[n].replace # None =>
         \E j \in Kept("=>"), d \in Kept("dep") :
           /\ Lines[j].names = deps[n].replace /\ Lines[d].names = deps[n].is
           /\ d < j - 1 /\ Lines[j - 1].word = "dep"
           /\ \A e \in (d + 1)..(j - 1) : e \notin Kept("dep")

(* Both layouts, byte orders and pointer sizes give the strings the linker *)
(* wrote; s.says is None for a section it did not write.                   *)
TextsRight ==
  section.says # None =>
    /\ ans # None /\ ans.call = "version" => text = section.says[1]
    /\ st = "lines" => text = section.says[2]
    /\ ans # None /\ ans.call = "moduleInfo" => text = section.says[2] /\ (ans.is = None => text[2] < 32)
=============================================================================
