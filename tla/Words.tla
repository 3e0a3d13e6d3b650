------------------------------- MODULE Words -------------------------------
(***************************************************************************)
(* Machine words and the arithmetic on them that the size classes use.     *)
(*                                                                         *)
(* Addresses and sizes are u64 words.  A word is WORD_BITS wide so that    *)
(* the wrapping of a release build is visible on numbers TLC can hold.     *)
(***************************************************************************)
EXTENDS Integers

CONSTANT WORD_BITS   \* width of a machine word (64 in the code)

\* The second part is what exponentiation means.  It is true of every width;
\* the provers, for which ^ is an uninterpreted symbol, have to be told.
ASSUME WordsAssumption ==
  /\ WORD_BITS \in Nat
  /\ \A k \in 0 .. WORD_BITS : 2 ^ (k + 1) = 2 * 2 ^ k

WORD == 2 ^ WORD_BITS

IsPow2(n) == \E k \in 0 .. WORD_BITS - 1 : n = 2 ^ k

Wrap(x) == x % WORD

ilog2(n) == CHOOSE k \in 0 .. WORD_BITS - 1 : 2 ^ k <= n /\ n < 2 ^ (k + 1)

align_up(x, align) == LET s == Wrap(x + align - 1) IN s - (s % align)

\* 1 << n.trailing_zeros(): the largest power of two that divides n > 0.
LowBit(n) ==
  2 ^ (CHOOSE k \in 0 .. WORD_BITS - 1 : n % 2 ^ k = 0 /\ n % 2 ^ (k + 1) # 0)

Larger(a, b) == IF a >= b THEN a ELSE b
Smaller(a, b) == IF a <= b THEN a ELSE b
=============================================================================
