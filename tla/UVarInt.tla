------------------------------ MODULE UVarInt ------------------------------
(***************************************************************************)
(* binary::uVarInt and varInt (src/src/binary.cpp): the integers of Go's   *)
(* variable-length encoding, low digits first, a digit of Radix per byte   *)
(* and the high bit set in all but the last.  An integer of the width of   *)
(* uint64_t takes at most MaxLen bytes, and of the last only one bit is    *)
(* left: Space = 2 * Radix^(MaxLen - 1), as 2^64 = 2 * 128^9.  What is     *)
(* shifted out at the top is lost.                                         *)
(*                                                                         *)
(* The names of the specification are VarIntInit and so on, so that a      *)
(* module can extend this one together with one that uses the integers.    *)
(***************************************************************************)
EXTENDS Integers

CONSTANTS
  Buffers,  \* the bytes a caller may point to
  Radix,    \* 0x80
  MaxLen,   \* MAX_VAR_INT_LENGTH
  Place,    \* Place[k] = Radix^k, what the digit of byte k counts
  None

Bytes == 0..(2 * Radix - 1)
Space == 2 * Place[MaxLen - 1]

ASSUME RadixAssumption == Radix \in Nat \ {0, 1} /\ MaxLen \in Nat \ {0}
ASSUME PlaceAssumption ==
  /\ Place \in [0..MaxLen -> Nat \ {0}] /\ Place[0] = 1
  /\ \A k \in 0..(MaxLen - 1) : Place[k + 1] = Radix * Place[k]
  /\ \A j, k \in 0..MaxLen : j <= k => Place[j] <= Place[k]

(* Of a buffer b, b.byte[k] are its bytes and b.sum[k] is the integer that *)
(* the digits of the first k are, without any limit.                       *)
IsBuffer(b) ==
  /\ b.byte \in [0..(MaxLen - 1) -> Bytes]
  /\ b.sum \in [0..MaxLen -> Nat] /\ b.sum[0] = 0
  /\ \A k \in 0..(MaxLen - 1) : b.sum[k + 1] = b.sum[k] + (b.byte[k] % Radix) * Place[k]

ASSUME BuffersAssumption == None \notin Nat \X Nat /\ None # <<>> /\ \A b \in Buffers : IsBuffer(b)

VARIABLES
  buffer,
  i, v,     \* the locals; shift is always i digits
  result    \* None, or the result: <<>> or the integer and its length

varIntVars == <<buffer, i, v, result>>

VarIntInit == buffer \in Buffers /\ i = 0 /\ v = 0 /\ result = None

Shifted(b) == (b * Place[i]) % Space

(* Mutant: the last byte's limit is not looked at.                         *)
TooLargeNever == FALSE

TooLarge == i = MaxLen - 1 /\ buffer.byte[i] > 1

(* A byte without the high bit is the last one.                            *)
Last ==
  /\ result = None /\ i < MaxLen /\ buffer.byte[i] < Radix
  /\ result' = IF TooLarge THEN <<>> ELSE <<(v + Shifted(buffer.byte[i])) % Space, i + 1>>
  /\ UNCHANGED <<buffer, i, v>>

More ==
  /\ result = None /\ i < MaxLen /\ buffer.byte[i] >= Radix
  /\ v' = (v + Shifted(buffer.byte[i] % Radix)) % Space
  /\ i' = i + 1
  /\ UNCHANGED <<buffer, result>>

TooLong ==
  /\ result = None /\ i = MaxLen
  /\ result' = <<>>
  /\ UNCHANGED <<buffer, i, v>>

VarIntNext == Last \/ More \/ TooLong

VarIntSpec == VarIntInit /\ [][VarIntNext]_varIntVars

(* Mutant: ~u instead of ~(u >> 1).                                        *)
SignedLate(u) ==
  LET complement == Space - 1 - u
  IN  IF u % 2 = 0 THEN u \div 2
      ELSE IF complement < Space \div 2 THEN complement ELSE complement - Space

(* varInt: the last bit is the sign, ~(u >> 1) as an int64_t.              *)
Signed(u) == IF u % 2 = 1 THEN -(u \div 2) - 1 ELSE u \div 2

-----------------------------------------------------------------------------
(* Where the buffer's integer ends.                                        *)
Ends == {k \in 0..(MaxLen - 1) : buffer.byte[k] < Radix /\ \A j \in 0..(k - 1) : buffer.byte[j] >= Radix}

(* An integer is returned exactly if the bytes end in time and it fits an  *)
(* uint64_t; it is the right one, with the right length, however it has    *)
(* been padded.                                                            *)
DecodesExactly ==
  result # None =>
    IF \E k \in Ends : buffer.sum[k + 1] < Space
    THEN \A k \in Ends : result = <<buffer.sum[k + 1], k + 1>>
    ELSE result = <<>>

(* Every int64_t comes back from its zigzag code.                          *)
ZigZagCode(n) == IF n < 0 THEN -2 * n - 1 ELSE 2 * n
SignedExactly ==
  result \notin {None, <<>>} =>
    /\ -(Space \div 2) <= Signed(result[1]) /\ Signed(result[1]) < Space \div 2
    /\ ZigZagCode(Signed(result[1])) = result[1]
=============================================================================
