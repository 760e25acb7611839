------------------------------ MODULE BitVectors ------------------------------
(***************************************************************************)
(* The operations of BitVector (lib/bv/bitvector.cpp) that the propagator  *)
(* has rules for, as functions of numbers of w bits.                       *)
(***************************************************************************)
EXTENDS Integers

Modulus(w) == 2 ^ w
BitAt(v, i) == (v \div 2 ^ i) % 2

\* The number of w bits whose bit i is B(i).
Assemble(w, B(_)) ==
  LET sum[i \in 0 .. w] == IF i = 0 THEN 0 ELSE sum[i - 1] + B(i - 1) * 2 ^ (i - 1)
  IN sum[w]

Signed(v, w) == IF BitAt(v, w - 1) = 1 THEN v - Modulus(w) ELSE v
Truth(b) == IF b THEN 1 ELSE 0

BvNot(a, w) == Modulus(w) - 1 - a
BvAnd(a, b, w) == Assemble(w, LAMBDA i : BitAt(a, i) * BitAt(b, i))
BvXor(a, b, w) == Assemble(w, LAMBDA i : (BitAt(a, i) + BitAt(b, i)) % 2)

BvEq(a, b)     == Truth(a = b)
BvUlt(a, b)    == Truth(a < b)
BvSlt(a, b, w) == Truth(Signed(a, w) < Signed(b, w))

BvAdd(a, b, w) == (a + b) % Modulus(w)
BvMul(a, b, w) == (a * b) % Modulus(w)

\* By zero: all ones, and the dividend.
BvUdiv(a, b, w) == IF b = 0 THEN Modulus(w) - 1 ELSE a \div b
BvUrem(a, b)    == IF b = 0 THEN a ELSE a % b

\* By the width or more: zeroes, or the sign.
BvShl(a, b, w)  == IF b >= w THEN 0 ELSE (a * 2 ^ b) % Modulus(w)
BvShr(a, b, w)  == IF b >= w THEN 0 ELSE a \div 2 ^ b
BvAshr(a, b, w) ==
  IF BitAt(a, w - 1) = 0 THEN BvShr(a, b, w)
  ELSE BvNot(BvShr(BvNot(a, w), b, w), w)

BvConcat(a, b, low) == a * Modulus(low) + b
BvExtract(a, low, w) == (a \div 2 ^ low) % Modulus(w)
BvIte(c, a, b) == IF c = 1 THEN a ELSE b
=============================================================================
