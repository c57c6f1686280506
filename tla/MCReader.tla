----------------------------- MODULE MCReader -----------------------------
(* Reader on images that differ in everything one of its lookups can meet. *)
EXTENDS Reader

mcVersions == {"1.15", "1.20"}
mcTexts == {"go1.15", "devel"}
mcParse == [t \in mcTexts |-> IF t = "go1.15" THEN "1.15" ELSE None]
mcAddresses == {8, 10, 20, 30, 31, 40, 41, 50, 51}
mcBases == {12288}

(* Build info: none, one without a readable version, one with a version.   *)
Infos == {<<FALSE, None>>, <<TRUE, None>>, <<TRUE, "1.20">>}

(* Symbols: none at all, or those of an unstripped or a partly stripped    *)
(* binary; the version symbol's string may be unreadable or no version.    *)
Tables ==
  {[symtab |-> FALSE, version |-> None, text |-> None, types |-> None, module |-> None]}
  \cup {[symtab |-> TRUE, version |-> v[1], text |-> v[2], types |-> t, module |-> m] :
          v \in {<<None, None>>, <<10, None>>, <<10, "devel">>, <<10, "go1.15">>},
          t \in {None, 20}, m \in {None, 30}}

Scans == {<<"absent", None>>, <<"suffix", 31>>, <<"exact", None>>, <<"exact", 31>>}

Words == {[types |-> 20, itabLinks |-> 41, typeLinks |-> 51],
          [types |-> None, itabLinks |-> 41, typeLinks |-> 51],
          [types |-> 20, itabLinks |-> None, typeLinks |-> 51]}

Sections == {<<None, None>>, <<40, None>>, <<None, 50>>, <<40, 50>>}

MkImage(b, t, s, w, l) ==
  [buildInfo |-> b[1], recorded |-> b[2],
   symtab |-> t.symtab,
   symbol |-> [k \in Keys |-> CASE k = "runtime.buildVersion" -> t.version
                                [] k = "runtime.types" -> t.types
                                [] OTHER -> t.module],
   text |-> [k \in Keys |-> IF k = "runtime.buildVersion" THEN t.text ELSE None],
   itablink |-> l[1], typelink |-> l[2],
   pclntab |-> s[1], address |-> 8, magic |-> t.types # None,
   dynamic |-> l[2] # None,
   loads |-> IF s[1] = "absent" /\ l[1] = None THEN {} ELSE {4100, 9000},
   scan |-> [v \in Versions |-> s[2]],
   module |-> [p \in mcAddresses \X Versions |-> w]]

mcImages ==
  {MkImage(b, t, s, w, l) :
     b \in Infos, t \in Tables, s \in Scans, w \in Words, l \in Sections}
=============================================================================
