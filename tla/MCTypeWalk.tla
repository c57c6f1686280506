----------------------------- MODULE MCTypeWalk -----------------------------
(* TypeWalk on one small program's types: a struct of two fields behind a  *)
(* slice of pointers, a map and an array of channels, an empty struct, a   *)
(* function, types that are their own elements, and types cut short.       *)
EXTENDS TypeWalk, TLC, FiniteSets

T(kind, elem, fields, count) == [kind |-> kind, elem |-> elem, fields |-> fields, count |-> count]

(* Types 1000 and on; the kind's flag bits are set in some.                *)
Types ==
  (1000 :> T(25, 0, 5000, 2)) @@ (1100 :> T(32 + 22, 1000, 0, 0)) @@ (1200 :> T(23, 1100, 0, 0))
    @@ (1300 :> T(21, 1200, 0, 0)) @@ (1400 :> T(17, 1500, 0, 0)) @@ (1500 :> T(18, 1000, 0, 0))
    @@ (1600 :> T(25, 0, 0, 0)) @@ (1700 :> T(19, 0, 0, 0)) @@ (1800 :> T(22, 1700, 0, 0))
    @@ (2000 :> T(23, 2000, 0, 0)) @@ (2100 :> T(22, 2200, 0, 0)) @@ (2200 :> T(21, 2100, 0, 0))
    @@ (2300 :> T(22, 2100, 0, 0))
    @@ (3000 :> T(22, 0, 0, 0)) @@ (3100 :> T(22, 9999, 0, 0)) @@ (3200 :> T(25, 0, 5000, 2))
    @@ (3300 :> T(23, 1000, 0, 0)) @@ (3400 :> T(25, 0, 6000, 2)) @@ (3500 :> T(17, 3400, 0, 0))
    @@ (3600 :> T(32 + 18, 3000, 0, 0))

Endless == {2000, 2100, 2200, 2300}

(* 3200 is cut behind its kind, 3300 in front of its element; the fields   *)
(* of 3400 lie outside, and the last name is at the end of its segment.    *)
Cut(ptr, a) ==
  CASE a = 3200 -> 2 * ptr + 8
    [] a = 3300 -> IF ptr = 8 THEN 55 ELSE 35
    [] OTHER -> 100

OldNames(v) == v[1] = 1 /\ v[2] < 17

(* A name of len bytes at p; the bytes of its length, the first then the   *)
(* second, read in either way.                                             *)
NameBytes(v, len) ==
  IF OldNames(v) THEN <<len \div 256, len % 256>>
  ELSE IF len < 128 THEN <<len, 97>> ELSE <<128 + (len % 128), len \div 128>>
Read(b) ==
  [short |-> b[1] * 256 + b[2],
   long |-> IF b[1] < 128 THEN <<b[1], 1>>
            ELSE IF b[2] < 128 THEN <<b[1] - 128 + 128 * b[2], 2>> ELSE None]
Start(v, p, len) == IF OldNames(v) THEN p + 3 ELSE IF len < 128 THEN p + 2 ELSE p + 3

(* The elements from a on: the k-th of them, or the last.                  *)
Ended(b) == b \in {1700, 3000, 3300} \/ b \notin DOMAIN Types \/ Types[b].kind = 25
Chain(a) ==
  LET f[k \in 0..5] == IF k = 0 THEN a ELSE LET b == f[k - 1] IN IF Ended(b) THEN b ELSE Types[b].elem
  IN  f

MkImage(v, ptr, len, room) ==
  LET word(off, bit) == IF v[1] = 1 /\ v[2] <= 18 THEN 2 * off + bit ELSE off
      ends == DOMAIN Types \ Endless
  IN  [version |-> v, ptrSize |-> ptr, asked |-> DOMAIN Types \cup {0},
       type |-> Types, endless |-> Endless,
       nest |-> [a \in ends |-> Cardinality({Chain(a)[k] : k \in 0..5})],
       leaf |-> [a \in ends |-> Chain(a)[5]],
       room |-> [a \in DOMAIN Types |-> Cut(ptr, a)] @@ (5000 :> 3 * ptr) @@ (5000 + 3 * ptr :> 3 * ptr)
                  @@ (5000 + 6 * ptr :> 3 * ptr)
                  @@ (7000 :> 3 + len + 10) @@ (7500 :> room),
       field |-> (5000 :> [name |-> 7000, word |-> word(0, 1)])
                   @@ (5000 + 3 * ptr :> [name |-> 7500, word |-> word(24, 0)])
                   @@ (5000 + 6 * ptr :> [name |-> 7000, word |-> 40]),
       name |-> (7000 :> Read(NameBytes(v, len))) @@ (7500 :> Read(NameBytes(v, 1))),
       says |-> IF (room < 11 /\ ~OldNames(v)) \/ len > 4096 THEN (1600 :> <<>>)
                ELSE (1600 :> <<>>)
                       @@ (1000 :> [k \in 0..1 |-> IF k = 0 THEN <<<<Start(v, 7000, len), len>>, 0>>
                                                   ELSE <<<<Start(v, 7500, 1), 1>>, 24>>])]

mcImages ==
  {MkImage(v, ptr, len, 20) : v \in {<<1, 16>>, <<1, 17>>, <<1, 18>>, <<1, 19>>, <<2, 0>>}, ptr \in {4, 8}, len \in {3, 300}}
    \cup {MkImage(v, 8, 3, 4) : v \in {<<1, 16>>, <<1, 17>>}}
    \cup {MkImage(<<1, 16>>, 8, 5000, 20)}
mcIndices == 0..2
=============================================================================
