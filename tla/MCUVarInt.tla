----------------------------- MODULE MCUVarInt -----------------------------
(* UVarInt on every buffer of three bytes with digits of two bits.         *)
EXTENDS UVarInt

mcPlace == [k \in 0..MaxLen |-> Radix^k]

(* The digits' sums of the bytes s.                                        *)
Sums(s) ==
  LET sum[k \in 0..MaxLen] == IF k = 0 THEN 0 ELSE sum[k - 1] + (s[k - 1] % Radix) * Radix^(k - 1)
  IN  sum

mcBuffers == {[byte |-> s, sum |-> Sums(s)] : s \in [0..(MaxLen - 1) -> Bytes]}
=============================================================================
