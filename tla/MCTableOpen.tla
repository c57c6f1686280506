---------------------------- MODULE MCTableOpen ----------------------------
(* TableOpen on a file of every version, both pointer sizes, zero to two   *)
(* functions, and an end close behind the tables or far away.  The layout  *)
(* is the one the Go linker writes.                                        *)
EXTENDS TableOpen, Sequences, FiniteSetsExt

mcBases == {0, 65530}
Texts == {0, 700}

(* The words of the header behind its first eight bytes.                   *)
Words(v, n, text, t) ==
  CASE v = "VERSION12" -> <<n>>
    [] v = "VERSION116" ->
         <<n, t.fileNum, t.funcNameTable, t.cuTable, t.fileTable, t.pcTable, t.funcTable>>
    [] OTHER ->
         <<n, t.fileNum, text, t.funcNameTable, t.cuTable, t.fileTable, t.pcTable, t.funcTable>>

(* Where a table of n functions starts, and what the file says.            *)
MkFile(v, ptr, n, text, rest) ==
  LET old == v = "VERSION12"
      w == IF v \in {"VERSION118", "VERSION120"} THEN 4 ELSE ptr
      start == IF old THEN 8 + ptr ELSE 8 + 8 * ptr + 40
      end == start + n * 2 * w + w
      t == [fileNum |-> 3,
            funcNameTable |-> IF old THEN 0 ELSE start - 40,
            cuTable |-> IF old THEN 0 ELSE start - 32,
            fileTable |-> IF old THEN end + 8 ELSE start - 24,
            pcTable |-> IF old THEN 0 ELSE start - 16,
            funcData |-> IF old THEN 0 ELSE start,
            funcTable |-> start]
      header == Words(v, n, text, t)
      heads == {8 + (k - 1) * ptr : k \in DOMAIN header}
      rows == {start + i * 2 * w : i \in 0..n}
      tail == IF old THEN {end, end + 8} ELSE {}
  IN  [version |-> v, ptrSize |-> ptr, size |-> Max({end, end + (IF old THEN 12 ELSE 0)}) + rest,
       at |-> [p \in heads \cup rows \cup tail |->
                 IF p \in heads THEN header[(p - 8) \div ptr + 1]
                 ELSE IF p \in rows THEN 10 * ((p - start) \div (2 * w)) + 5
                 ELSE IF p = end THEN end + 8 ELSE 3],
       says |-> [funcNum |-> n, text |-> IF v \in {"VERSION118", "VERSION120"} THEN text ELSE 0,
                 entry |-> [i \in 0..n |-> 10 * i + 5], tables |-> t]]

mcFiles ==
  {MkFile(v, ptr, n, text, rest) :
     v \in Symbolic, ptr \in {4, 8}, n \in 0..2, text \in Texts, rest \in {0, 3, 8, 128}}
=============================================================================
