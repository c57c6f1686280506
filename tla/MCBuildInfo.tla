---------------------------- MODULE MCBuildInfo ----------------------------
(* BuildInfo on sections of both layouts, byte orders and pointer sizes,   *)
(* on damaged ones, on every list of three lines, and on every one of four *)
(* or five dependencies and replacements.                                  *)
EXTENDS BuildInfo, TLC

mcNames == 1..5
LineKinds == {<<"path", 2>>, <<"mod", 4>>, <<"dep", 4>>, <<"dep", 3>>, <<"=>", 4>>, <<"=>", 3>>, <<"other", 2>>}
Lists == [1..3 -> LineKinds] \cup UNION {[1..n -> {<<"dep", 4>>, <<"dep", 3>>, <<"=>", 4>>}] : n \in {4, 5}}
Made(list) == [j \in DOMAIN list |-> [word |-> list[j][1], tokens |-> list[j][2], names |-> j]]

Sample == <<<<"path", 2>>, <<"mod", 4>>, <<"dep", 4>>, <<"=>", 4>>>>

(* The version takes v bytes and the list len; inline, lengths from 128 on *)
(* take two bytes.                                                         *)
Taken(n) == IF n < 128 THEN 1 ELSE 2
Free(flags, v, len, list) ==
  LET version == <<32 + Taken(v), v>>
      at == version[1] + v
      mods == <<at + Taken(len), len>>
  IN  [flags |-> flags, ptrSize |-> 8, word |-> <<>>, readable |-> {},
       int |-> (32 :> <<v, Taken(v)>>) @@ (at :> <<len, Taken(len)>>) @@ (at - Taken(v) :> None),
       lines |-> mods :> Made(list), says |-> <<version, mods>>]

Pointing(flags, ptr, len, list) ==
  LET e == IF flags = 1 THEN "big" ELSE "little"
      other == IF flags = 1 THEN "little" ELSE "big"
  IN  [flags |-> flags, ptrSize |-> ptr,
       word |-> (<<e, 16>> :> 200) @@ (<<e, 16 + ptr>> :> 300) @@ (<<e, 200>> :> 500) @@ (<<e, 200 + ptr>> :> 6)
                  @@ (<<e, 300>> :> 600) @@ (<<e, 300 + ptr>> :> len)
                  @@ (<<other, 16>> :> 300) @@ (<<other, 16 + ptr>> :> 200),
       int |-> <<>>, readable |-> {<<500, 6>>, <<600, len>>},
       lines |-> <<600, len>> :> Made(list), says |-> <<<<500, 6>>, <<600, len>>>>]

Damaged ==
  {[Pointing(0, 8, 90, Sample) EXCEPT !.readable = {<<500, 6>>}, !.says = None],
   [Pointing(1, 4, 90, Sample) EXCEPT !.flags = 0, !.says = None],
   [Free(2, 6, 90, Sample) EXCEPT !.int = (32 :> None), !.says = None],
   [Free(2, 6, 90, Sample) EXCEPT !.int = (32 :> <<6, 1>>) @@ (38 :> None) @@ (39 :> None), !.says = None]}

mcSections ==
  {Free(2, 6, 90, list) : list \in Lists}
    \cup {Free(flags, v, len, Sample) : flags \in {2, 3}, v \in {6, 200}, len \in {0, 31, 90, 300}}
    \cup {Pointing(flags, ptr, len, Sample) : flags \in {0, 1}, ptr \in {4, 8}, len \in {0, 31, 90}}
    \cup Damaged
=============================================================================
