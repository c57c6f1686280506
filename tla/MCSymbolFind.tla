--------------------------- MODULE MCSymbolFind ---------------------------
(* Every sorted table of at most three functions with entries up to three, *)
(* repeated entries and names included; callers also look up the empty     *)
(* name.                                                                   *)
EXTENDS SymbolFind

mcNames == {"", "a", "b"}
mcAddresses == 0..4
MkTable(n, e, m) == [funcNum |-> n, entry |-> e, name |-> m]
mcTables ==
  UNION {{MkTable(n, e, m) :
            e \in {f \in [0..n -> 1..3] : \A i \in 1..n : f[i - 1] <= f[i]},
            m \in [0..(n - 1) -> {"a", "b"}]} : n \in 0..3}
=============================================================================
