---------------------------- MODULE MCModuleScan ----------------------------
(* ModuleScan on executables of every layout of the moduledata and both    *)
(* pointer sizes, the moduledata in each of the sections, with and without *)
(* decoys in front and behind, and executables that lost parts of it.      *)
EXTENDS ModuleScan, TLC

Text == [at |-> 100, size |-> 50]
Pclntab == 200

Says(n) ==
  [types |-> <<7000, 0>>, etypes |-> <<7900, 0>>, typeLinks |-> <<8000, n>>, itabLinks |-> <<8100, 2 - n>>]

(* The words of a moduledata at address a.  Behind etypes there is rodata  *)
(* or textsectmap.                                                         *)
Module(a, ptr, slot, says) ==
  (a :> Pclntab) @@ (a + 10 * ptr :> Text.at) @@ (a + 11 * ptr :> 150) @@ (a + 12 * ptr :> Text.at)
    @@ (a + slot["types"] * ptr :> says["types"][1]) @@ (a + slot["etypes"] * ptr :> says["etypes"][1])
    @@ (a + (slot["etypes"] + 1) * ptr :> 7950) @@ (a + (slot["etypes"] + 2) * ptr :> 7960)
    @@ (a + slot["typeLinks"] * ptr :> says["typeLinks"][1])
    @@ (a + (slot["typeLinks"] + 1) * ptr :> says["typeLinks"][2])
    @@ (a + (slot["typeLinks"] + 2) * ptr :> 9)
    @@ (a + slot["itabLinks"] * ptr :> says["itabLinks"][1])
    @@ (a + (slot["itabLinks"] + 1) * ptr :> says["itabLinks"][2])
    @@ (a + (slot["itabLinks"] + 2) * ptr :> 9)

(* Sections 1 and 3 are small, one of them may not be there; the real one  *)
(* has room for the struct and a few words.                                *)
SectionOf(j, real, gone, ptr) ==
  IF j = gone THEN None ELSE [at |-> 1000 * j, size |-> IF j = real THEN 52 * ptr ELSE 3 * ptr - 1]

(* decoys: words that hold the pclntab's address.                          *)
MkImage(v, ptr, real, gone, decoys, n, symbol) ==
  LET at == 1000 * real[1] + real[2] * ptr
      says == Says(n)
      words == Module(at, ptr, StructOf(v), says) @@ (Pclntab + 8 + ptr :> Text.at)
                 @@ [a \in {1000 * d[1] + d[2] * ptr : d \in decoys} |-> Pclntab]
                 @@ (2000 + 2 * ptr :> 5)
  IN  [version |-> v, ptrSize |-> ptr, symbol |-> IF symbol THEN at ELSE None, pclntab |-> Pclntab,
       section |-> [j \in Sections |-> SectionOf(j, real[1], gone, ptr)], text |-> Text,
       word |-> words, mapped |-> {8000, 8100}, real |-> real, says |-> says]

Versions == {<<1, 10>>, <<1, 15>>, <<1, 16>>, <<1, 17>>, <<1, 18>>, <<1, 19>>, <<1, 20>>, <<2, 0>>}
Ahead == {<<1, 0>>, <<2, 1>>}

Whole ==
  {MkImage(v, ptr, real, gone, decoys, n, FALSE) :
     v \in Versions, ptr \in {4, 8}, real \in {<<2, 3>>, <<3, 0>>}, gone \in {None, 1},
     decoys \in {{}, Ahead}, n \in {0, 2}}
    \cup {MkImage(v, 8, <<1, 0>>, 2, {<<3, 1>>}, 1, symbol) :
            v \in {<<1, 15>>, <<1, 18>>}, symbol \in BOOLEAN}

(* Executables the linker's output was changed in: no moduledata behind    *)
(* the symbol, no pclntab, an unknown or an unsupported version, only      *)
(* decoys left, and fields that cannot be read or lead nowhere.            *)
Base == MkImage(<<1, 18>>, 8, <<2, 1>>, None, {<<1, 0>>}, 2, FALSE)
Lost(i) == [i EXCEPT !.real = None]
Without(i, gone) == [Lost(i) EXCEPT !.word = [a \in DOMAIN i.word \ gone |-> i.word[a]]]
Broken ==
  {[Lost(Base) EXCEPT !.pclntab = None], [Lost(Base) EXCEPT !.version = None],
   [Lost(Base) EXCEPT !.version = <<1, 9>>], [Lost(Base) EXCEPT !.symbol = 4242],
   [Lost(Base) EXCEPT !.version = <<1, 15>>],
   [Lost(Base) EXCEPT !.mapped = {8100}, !.symbol = 2008],
   Without([Base EXCEPT !.symbol = 2008], {2008 + 42 * 8}),
   Without([Base EXCEPT !.symbol = 2008], {2008 + 43 * 8, 2008 + 36 * 8}),
   Without(MkImage(<<1, 15>>, 4, <<2, 1>>, None, {<<1, 0>>, <<3, 2>>}, 2, FALSE), {2004 + 48}),
   Without(MkImage(<<1, 15>>, 4, <<2, 1>>, None, {<<1, 0>>, <<3, 2>>}, 2, FALSE), {212})}

mcImages == Whole \cup Broken
=============================================================================
