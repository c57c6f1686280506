---------------------------- MODULE MCTypeTables ----------------------------
(* TypeTables on tables of up to three rows of both kinds, made of a       *)
(* section or of an address, in three versions and both pointer sizes.     *)
EXTENDS TypeTables, TLC

Types == 10000
Versions == {<<1, 15>>, <<1, 16>>, <<1, 17>>, <<1, 20>>}

(* A name at address a of len bytes: the bytes of its length.              *)
NameBytes(v, len) ==
  IF v[2] < 17 THEN <<len \div 256, len % 256>>
  ELSE IF len < 128 THEN <<len, 97>> ELSE <<128 + (len % 128), len \div 128>>
Read(b) ==
  [short |-> b[1] * 256 + b[2],
   long |-> IF b[1] < 128 THEN <<b[1], 1>> ELSE IF b[2] < 128 THEN <<b[1] - 128 + 128 * b[2], 2>> ELSE None]
Named(v, a, len) == <<IF v[2] < 17 THEN a + 3 ELSE IF len < 128 THEN a + 2 ELSE a + 3, len>>

(* The type 11000 has a short name, the interface 12000 a long one and two *)
(* methods, the type 13000 none, and 14000 is not mapped.                  *)
Off(ptr) == IF ptr = 8 THEN 40 ELSE 24
Count(ptr) == IF ptr = 8 THEN 64 ELSE 40
Fun(ptr) == IF ptr = 8 THEN 24 ELSE 16
Words(ptr) ==
  (11000 + Off(ptr) :> 500) @@ (12000 + Off(ptr) :> 600) @@ (13000 + Off(ptr) :> 0)
    @@ (12000 + Count(ptr) :> 2)
    @@ (20000 :> 12000) @@ (20000 + ptr :> 11000) @@ (20000 + Fun(ptr) :> 777) @@ (20000 + Fun(ptr) + ptr :> 778)
    @@ (20100 :> 12000) @@ (20100 + ptr :> 13000) @@ (20100 + Fun(ptr) :> 779) @@ (20100 + Fun(ptr) + ptr :> 780)
    @@ (20200 :> 14000) @@ (20200 + ptr :> 14000)
Mapped(ptr) ==
  {Types, 11000, 12000, 13000, 10500, 10600} \cup UNION {{a, a + ptr} : a \in {20000, 20100, 20200}}

MkTable(kind, v, ptr, n, made, base) ==
  LET step == IF kind = "structs" THEN 4 ELSE ptr
      objects == IF kind = "structs" THEN <<11000, 12000, 13000>> ELSE <<20000, 20100, 20200>>
      short == Named(v, Types + 500, 5)
      long == Named(v, Types + 600, 300)
      itab(a, name, interface, methods) ==
        [name |-> name, interface |-> interface, methods |-> methods, loaded |-> a + base]
  IN  [kind |-> kind, version |-> v, ptrSize |-> ptr, types |-> Types, base |-> base,
       data |-> made # "none", count |-> IF made = "none" THEN 0 ELSE n,
       bytes |-> CASE made = "section" -> n * step
                   [] made = "ragged" -> n * step + 2
                   [] OTHER -> None,
       row |-> [b \in {step * (k - 1) : k \in 1..n} |->
                  objects[b \div step + 1] - (IF kind = "structs" THEN Types ELSE 0)],
       beyond |-> 20 * step, mapped |-> Mapped(ptr), word |-> Words(ptr),
       name |-> (Types :> Read(<<0, 1>>)) @@ (10500 :> Read(NameBytes(v, 5))) @@ (10600 :> Read(NameBytes(v, 300))),
       says |-> IF kind = "structs"
                THEN (11000 :> [name |-> short, loaded |-> 11000 + base])
                       @@ (12000 :> [name |-> long, loaded |-> 12000 + base])
                       @@ (13000 :> [name |-> None, loaded |-> 13000 + base])
                ELSE (20000 :> itab(20000, short, long, <<777, 778>>))
                       @@ (20100 :> itab(20100, None, long, <<779, 780>>))
                       @@ (20200 :> itab(20200, None, None, <<>>))]

mcTables ==
  {MkTable(kind, v, ptr, n, made, base) :
     kind \in {"structs", "interfaces"}, v \in Versions, ptr \in {4, 8}, n \in {0, 2, 3},
     made \in {"section", "ragged", "words"}, base \in {0, 4096}}
    \cup {MkTable(kind, <<1, 20>>, 8, 0, "none", 0) : kind \in {"structs", "interfaces"}}
=============================================================================
