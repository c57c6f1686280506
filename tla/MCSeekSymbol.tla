---------------------------- MODULE MCSeekSymbol ----------------------------
(* SeekSymbol on tables of two functions in every layout of the records,   *)
(* with the file ending at once behind the last pc table, inside the       *)
(* window of one of them, or a window's length behind all.                 *)
EXTENDS SeekSymbol, TLC

mcPcs == 1..3
mcStackTop == {"goexit"}
mcGarbage == {0, 13}

(* The record of a function at position s whose words are given.           *)
Record(s, w, at, name, frame, index, line, unit) ==
  (s :> at) @@ (s + w :> name) @@ (s + w + 12 :> frame) @@ (s + w + 16 :> index)
    @@ (s + w + 20 :> line) @@ (s + w + 28 :> unit)

Says(a, b, c, last) == [says |-> <<a, b, c>>, last |-> 400 + last]
Str(x) == [says |-> x, bytes |-> 7]

(* Words and strings of the file names: in Go 1.2 each index has a word of *)
(* its own in the file table; later the unit's indices have.               *)
OldWords == (384 :> 321) @@ (388 :> 331)
NewWords == (358 :> 6) @@ (362 :> 0) @@ (366 :> 16)
Strings(old) ==
  (303 :> Str("main")) @@ (313 :> Str("goexit"))
    @@ (IF old THEN (321 :> Str("a.go")) @@ (331 :> Str("b.go"))
        ELSE (386 :> Str("a.go")) @@ (396 :> Str("b.go")))

MkFile(v, ptr, size) ==
  LET old == v = "VERSION12"
      w == IF v \in {"VERSION118", "VERSION120"} THEN 4 ELSE ptr
      e == (65500 + 50) % 65536
      g == (65500 + 60) % 65536
  IN  [version |-> v, ptrSize |-> ptr, size |-> size, base |-> 65500, fileNum |-> 2,
       funcs |-> {100, 200},
       funcNameTable |-> 300, cuTable |-> 350, fileTable |-> 380, pcTable |-> 400, funcData |-> 0,
       word |-> Record(100, w, 50, 3, 10, 20, 30, 2) @@ Record(200, w, 60, 13, 0, 40, 50, 2)
                  @@ (IF old THEN OldWords ELSE NewWords),
       text |-> Strings(old),
       value |-> (<<10, e>> :> Says(8, 6, -1, 14)) @@ (<<20, e>> :> Says(0, 1, 2, 26))
                   @@ (<<30, e>> :> Says(70, 71, -1, 34))
                   @@ (<<40, g>> :> Says(2, 3, -1, 42)) @@ (<<50, g>> :> Says(80, 80, 81, 52))]

Layouts == (({"VERSION12", "VERSION116"} \X {4, 8}) \cup ({"VERSION118", "VERSION120"} \X {8}))

mcFiles == {MkFile(l[1], l[2], size) : l \in Layouts, size \in {440, 455, 470, 500}}
=============================================================================
