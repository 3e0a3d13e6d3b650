---------------------------- MODULE Fingerprint ----------------------------
(***************************************************************************)
(* The fingerprint init stamps on a heap and verify compares: a hash of    *)
(* the constants that define the layout.  A u64 is the sequence of its     *)
(* eight bytes, the lowest first, so that the whole 64-bit computation     *)
(* runs on numbers TLC can hold.                                           *)
(***************************************************************************)
EXTENDS Integers, Sequences, FiniteSetsExt, Bitwise

\* The word with the given bytes.
Word(byte) ==
  <<byte[1], byte[2], byte[3], byte[4], byte[5], byte[6], byte[7], byte[8]>>

Byte(z, i) == IF i \in 1 .. 8 THEN z[i] ELSE 0

\* A number below 2^31 as a u64.
U64(x) == Word([i \in 1 .. 8 |-> IF i <= 4 THEN (x \div 256 ^ (i - 1)) % 256 ELSE 0])

Xored(x, y) == Word([i \in 1 .. 8 |-> x[i] ^^ y[i]])

\* x >> s
ShiftR(x, s) ==
  LET at(i) == i + s \div 8
  IN Word([i \in 1 .. 8 |-> ((Byte(x, at(i)) + 256 * Byte(x, at(i) + 1)) \div 2 ^ (s % 8)) % 256])

\* x.wrapping_mul(y): sum[k] is the k-th column of the long multiplication with
\* the carry of the column before it.
WrappingMul(x, y) ==
  LET sum[k \in 0 .. 8] ==
        IF k = 0 THEN 0
        ELSE sum[k - 1] \div 256 + MapThenSumSet(LAMBDA i : x[i] * y[k + 1 - i], 1 .. k)
  IN Word([k \in 1 .. 8 |-> sum[k] % 256])

\* The SplitMix64 finalizer.
Mix1 == << \hB9, \hE5, \hE4, \h1C, \h6D, \h47, \h58, \hBF >>
Mix2 == << \hEB, \h11, \h31, \h13, \hBB, \h49, \hD0, \h94 >>
splitmix64(z) ==
  LET a == WrappingMul(Xored(z, ShiftR(z, 30)), Mix1)
      b == WrappingMul(Xored(a, ShiftR(a, 27)), Mix2)
  IN Xored(b, ShiftR(b, 31))

Golden == << \h15, \h7C, \h4A, \h7F, \hB9, \h79, \h37, \h9E >>

\* Fault: CARVE_MAX is folded in as it is.
Folded_Plain(packed, carve_max) == Xored(U64(packed), carve_max)

\* CARVE_MAX, a u64, is folded into the packed exponents by an odd multiplier.
Folded(packed, carve_max) == Xored(U64(packed), WrappingMul(carve_max, Golden))

\* `logs` holds the binary logarithms of MIN_ALIGN, LNR_FLOOR, EXP_FLOOR,
\* EXP_CEIL and SPLIT_MIN, six bits each.
Packed(logs) == MapThenSumSet(LAMBDA i : logs[i] * 64 ^ (i - 1), 1 .. 5)

config_fingerprint(logs, carve_max) == splitmix64(Folded(Packed(logs), carve_max))
=============================================================================
