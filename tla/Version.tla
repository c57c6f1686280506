------------------------------ MODULE Version ------------------------------
(***************************************************************************)
(* go::Version (src/src/version.cpp): a pair of the major and the minor    *)
(* number.  A comparison looks at the minor number only if the major       *)
(* numbers agree.                                                          *)
(***************************************************************************)
EXTENDS Integers

CONSTANT None  \* an empty std::optional

Before(v, w) == v[1] < w[1] \/ (v[1] = w[1] /\ v[2] < w[2])
AtMost(v, w) == ~Before(w, v)
AtLeast(v, w) == ~Before(v, w)
=============================================================================
