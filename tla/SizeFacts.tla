----------------------------- MODULE SizeFacts -----------------------------
(***************************************************************************)
(* Multiples, powers of two and the operators of Words; then what the      *)
(* operators of SizeClasses compute, for every valid Config c and every    *)
(* size that does not wrap a word.                                         *)
(***************************************************************************)
EXTENDS PerConfig, WellFoundedInduction, NaturalsInduction, TLAPS

(* Induction over the naturals, for a set in the place of a predicate: the  *)
(* library's induction theorem takes an operator as a parameter.            *)
LEMMA SetInduction ==
  ASSUME NEW S, 0 \in S, \A n \in Nat : n \in S => n + 1 \in S
  PROVE  Nat \subseteq S
<1> DEFINE T == Nat \ S
<1> SUFFICES ASSUME T # {} PROVE FALSE
  OBVIOUS
<1>1. IsWellFoundedOn(OpToRel(<, Nat), Nat)
  BY NatLessThanWellFounded
<1>2. \E x \in T : \A y \in T : ~ (<<y, x>> \in OpToRel(<, Nat))
  <2> HIDE DEF T
  <2>1. T \subseteq Nat
    BY DEF T
  <2> QED
    BY <1>1, <2>1, WFMin
<1>3. PICK x \in T : \A y \in T : ~ (y < x)
  BY <1>2 DEF OpToRel
<1>4. x - 1 \in Nat /\ x # 0
  OBVIOUS
<1> QED
  BY <1>3, <1>4

-----------------------------------------------------------------------------
(* Multiples.                                                              *)

(* Division with remainder.                                                 *)
LEMMA DivMod ==
  ASSUME NEW x \in Int, NEW m \in Nat \ {0}
  PROVE  /\ x \div m \in Int /\ x % m \in 0 .. m - 1
         /\ x = m * (x \div m) + (x % m)
         /\ x >= 0 => x \div m >= 0
OBVIOUS

(* The quotient and the remainder are unique.                               *)
LEMMA DivModUnique ==
  ASSUME NEW q \in Int, NEW m \in Nat \ {0}, NEW s \in 0 .. m - 1
  PROVE  (m * q + s) % m = s /\ (m * q + s) \div m = q
OBVIOUS

(* A number below the modulus is its own remainder.                         *)
LEMMA SmallMod ==
  ASSUME NEW m \in Nat \ {0}, NEW s \in 0 .. m - 1
  PROVE  s % m = s
OBVIOUS

(* A product is a multiple of its factor.                                   *)
LEMMA ModProduct ==
  ASSUME NEW q \in Int, NEW m \in Nat \ {0}
  PROVE  (m * q) % m = 0 /\ (m * q) \div m = q
OBVIOUS

(* How a product grows with a factor.                                       *)
LEMMA Products ==
  ASSUME NEW p \in Int, NEW q \in Nat
  PROVE  /\ p * q \in Int /\ p * q = q * p /\ (p + 1) * q = p * q + q
         /\ p >= 0 => p * q >= 0
         /\ \A r \in Int : p <= r => p * q <= r * q
OBVIOUS

(* A multiple is a product.                                                 *)
LEMMA ModQuotient ==
  ASSUME NEW x \in Int, NEW m \in Nat \ {0}, x % m = 0
  PROVE  /\ x \div m \in Int /\ x = m * (x \div m)
         /\ x > 0 => x \div m > 0
BY DivMod

(* Sums and differences of multiples are multiples.                         *)
LEMMA ModSum ==
  ASSUME NEW x \in Int, NEW y \in Int, NEW m \in Nat \ {0}, x % m = 0, y % m = 0
  PROVE  (x + y) % m = 0 /\ (x - y) % m = 0
<1>1. PICK p \in Int : x = m * p
  BY ModQuotient
<1>2. PICK q \in Int : y = m * q
  BY ModQuotient
<1>3. x + y = m * (p + q) /\ x - y = m * (p - q)
  BY <1>1, <1>2
<1>4. p + q \in Int /\ p - q \in Int
  OBVIOUS
<1> QED
  BY <1>3, <1>4, ModProduct

(* So are multiples of multiples.                                           *)
LEMMA ModTrans ==
  ASSUME NEW x \in Int, NEW m \in Nat \ {0}, NEW d \in Nat \ {0}, x % m = 0, m % d = 0
  PROVE  x % d = 0
<1>1. PICK p \in Int : x = m * p
  BY ModQuotient
<1>2. PICK q \in Int : m = d * q
  BY ModQuotient
<1>3. x = d * (q * p) /\ q * p \in Int
  BY <1>1, <1>2
<1> QED
  BY <1>3, ModProduct

(* The positive multiples up to a bound.                                    *)
LEMMA Multiples ==
  ASSUME NEW m \in Nat \ {0}, NEW x \in Nat, NEW i \in 1 .. x \div m
  PROVE  m * i \in Nat \ {0} /\ m * i <= x /\ (m * i) % m = 0
<1>1. PICK q \in Int : q = x \div m
  BY DivMod
<1>2. PICK r \in 0 .. m - 1 : r = x % m
  BY DivMod
<1>3. x = m * q + r
  BY <1>1, <1>2, DivMod
<1>4. i \in Int /\ 1 <= i /\ i <= q /\ m \in Nat
  BY <1>1
<1>5. m * 1 <= m * i /\ m * i <= m * q /\ m * i \in Int /\ m * q \in Int
  BY <1>4
<1>6. (m * i) % m = 0
  BY <1>4, ModProduct
<1> QED
  BY <1>2, <1>3, <1>5, <1>6

(* Two multiples are at least one step apart.                               *)
LEMMA ModGap ==
  ASSUME NEW x \in Int, NEW y \in Int, NEW m \in Nat \ {0}, x % m = 0, y % m = 0, x < y
  PROVE  x + m <= y
<1>1. PICK p \in Int : x = m * p
  BY ModQuotient
<1>2. PICK q \in Int : y = m * q
  BY ModQuotient
<1>3. p + 1 <= q
  BY <1>1, <1>2
<1>4. m * (p + 1) <= m * q
  BY <1>3
<1> QED
  BY <1>1, <1>2, <1>4

-----------------------------------------------------------------------------
(* Powers of two.                                                          *)

(* A power of two is positive, and the next is its double.                  *)
LEMMA Pow ==
  ASSUME NEW k \in 0 .. WORD_BITS
  PROVE  2 ^ k \in Nat \ {0} /\ 2 ^ (k + 1) = 2 * 2 ^ k
<1> DEFINE S == {i \in Nat : i <= WORD_BITS => 2 ^ i \in Nat \ {0}}
<1>1. 0 \in S
  OBVIOUS
<1>2. ASSUME NEW i \in Nat, i \in S PROVE i + 1 \in S
  <2>1. CASE i + 1 <= WORD_BITS
    <3>1. i \in 0 .. WORD_BITS /\ 2 ^ i \in Nat \ {0}
      BY <1>2, <2>1, WordsAssumption
    <3>2. 2 ^ (i + 1) = 2 * 2 ^ i
      BY <3>1, WordsAssumption
    <3> QED
      BY <3>1, <3>2
  <2>2. CASE ~ (i + 1 <= WORD_BITS)
    BY <2>2
  <2> QED
    BY <2>1, <2>2
<1>3. Nat \subseteq S
  <2> HIDE DEF S
  <2> QED
    BY <1>1, <1>2, SetInduction
<1> QED
  BY <1>3, WordsAssumption

(* Powers multiply by adding their exponents.                               *)
LEMMA PowSum ==
  ASSUME NEW i \in Nat, NEW d \in Nat, i + d <= WORD_BITS
  PROVE  2 ^ (i + d) = 2 ^ i * 2 ^ d
<1> DEFINE S == {x \in Nat : i + x <= WORD_BITS => 2 ^ (i + x) = 2 ^ i * 2 ^ x}
<1>1. 0 \in S
  BY Pow, WordsAssumption
<1>2. ASSUME NEW x \in Nat, x \in S PROVE x + 1 \in S
  <2>1. CASE i + (x + 1) <= WORD_BITS
    <3>1. i + x \in 0 .. WORD_BITS /\ x \in 0 .. WORD_BITS /\ i \in 0 .. WORD_BITS
      BY <2>1, WordsAssumption
    <3>2. 2 ^ (i + x) = 2 ^ i * 2 ^ x
      BY <1>2, <3>1
    <3>3. 2 ^ ((i + x) + 1) = 2 * 2 ^ (i + x) /\ 2 ^ (x + 1) = 2 * 2 ^ x
      BY <3>1, Pow
    <3>4. 2 ^ i \in Nat /\ 2 ^ x \in Nat
      BY <3>1, Pow
    <3>5. (i + x) + 1 = i + (x + 1)
      OBVIOUS
    <3>6. 2 ^ (i + (x + 1)) = 2 * (2 ^ i * 2 ^ x)
      BY <3>2, <3>3, <3>5
    <3>7. 2 ^ i * 2 ^ (x + 1) = 2 * (2 ^ i * 2 ^ x)
      BY <3>3, <3>4
    <3> QED
      BY <3>6, <3>7
  <2>2. CASE ~ (i + (x + 1) <= WORD_BITS)
    BY <2>2
  <2> QED
    BY <2>1, <2>2
<1>3. Nat \subseteq S
  <2> HIDE DEF S
  <2> QED
    BY <1>1, <1>2, SetInduction
<1> QED
  BY <1>3

(* A smaller power divides a larger one, and is at most half of it.         *)
LEMMA PowOrder ==
  ASSUME NEW i \in 0 .. WORD_BITS, NEW j \in 0 .. WORD_BITS
  PROVE  /\ i <= j => 2 ^ j % 2 ^ i = 0 /\ 2 ^ i <= 2 ^ j
         /\ i < j => 2 * 2 ^ i <= 2 ^ j
<1>1. 2 ^ i \in Nat \ {0} /\ 2 ^ j \in Nat \ {0}
  BY Pow
<1>2. ASSUME i <= j PROVE 2 ^ j % 2 ^ i = 0 /\ 2 ^ i <= 2 ^ j
  <2>1. j - i \in 0 .. WORD_BITS /\ i + (j - i) = j
    BY <1>2, WordsAssumption
  <2>2. 2 ^ (j - i) \in Nat \ {0}
    BY <2>1, Pow
  <2>3. 2 ^ j = 2 ^ i * 2 ^ (j - i)
    BY <2>1, PowSum, WordsAssumption
  <2>4. (2 ^ i * 2 ^ (j - i)) % 2 ^ i = 0
    BY <1>1, <2>2, ModProduct
  <2>5. 2 ^ i <= 2 ^ i * 2 ^ (j - i)
    BY <1>1, <2>2
  <2> QED
    BY <2>3, <2>4, <2>5
<1>3. ASSUME i < j PROVE 2 * 2 ^ i <= 2 ^ j
  <2>1. j - i \in 0 .. WORD_BITS /\ j - i - 1 \in 0 .. WORD_BITS /\ i + (j - i) = j
    BY <1>3, WordsAssumption
  <2>2. 2 ^ (j - i - 1) \in Nat \ {0}
    BY <2>1, Pow
  <2>3. 2 ^ (j - i) = 2 * 2 ^ (j - i - 1)
    <3>1. (j - i - 1) + 1 = j - i
      OBVIOUS
    <3> QED
      BY <2>1, <3>1, Pow
  <2>4. 2 ^ j = 2 ^ i * 2 ^ (j - i)
    BY <2>1, PowSum, WordsAssumption
  <2>5. 2 ^ i * (2 * 2 ^ (j - i - 1)) = 2 * (2 ^ i * 2 ^ (j - i - 1))
    BY <1>1, <2>2
  <2>6. 2 ^ i <= 2 ^ i * 2 ^ (j - i - 1)
    BY <1>1, <2>2
  <2> QED
    BY <1>1, <2>2, <2>3, <2>4, <2>5, <2>6
<1> QED
  BY <1>2, <1>3

(* The logarithm is monotone: a power at most a power has at most its       *)
(* exponent.                                                                *)
LEMMA PowLess ==
  ASSUME NEW i \in 0 .. WORD_BITS, NEW j \in 0 .. WORD_BITS, 2 ^ i < 2 * 2 ^ j
  PROVE  i <= j
BY PowOrder, Pow

-----------------------------------------------------------------------------
(* The operators of Words.                                                 *)

(* Every number a word holds lies between two neighbouring powers.          *)
LEMMA LogExists ==
  ASSUME NEW n \in 1 .. WORD - 1
  PROVE  \E k \in 0 .. WORD_BITS - 1 : 2 ^ k <= n /\ n < 2 ^ (k + 1)
<1> SUFFICES ASSUME \A k \in 0 .. WORD_BITS - 1 : ~ (2 ^ k <= n /\ n < 2 ^ (k + 1))
             PROVE  FALSE
  OBVIOUS
<1>0. WORD \in Nat /\ WORD_BITS \in Nat
  BY Pow, WordsAssumption DEF WORD
<1>1. n \in Nat /\ 1 <= n /\ n < 2 ^ WORD_BITS
  BY <1>0 DEF WORD
<1> DEFINE S == {i \in Nat : i <= WORD_BITS => 2 ^ i <= n}
<1>2. 0 \in S
  BY <1>1
<1>3. ASSUME NEW i \in Nat, i \in S PROVE i + 1 \in S
  <2>1. CASE i + 1 <= WORD_BITS
    <3>1. i \in 0 .. WORD_BITS - 1 /\ i \in 0 .. WORD_BITS /\ 2 ^ i <= n
      BY <1>3, <2>1, <1>0
    <3>2. 2 ^ (i + 1) \in Nat
      BY <3>1, Pow
    <3> QED
      BY <3>1, <3>2, <1>1
  <2>2. CASE ~ (i + 1 <= WORD_BITS)
    BY <2>2
  <2> QED
    BY <2>1, <2>2
<1>4. Nat \subseteq S
  <2> HIDE DEF S
  <2> QED
    BY <1>2, <1>3, SetInduction
<1>5. 2 ^ WORD_BITS <= n
  BY <1>4, <1>0
<1>6. 2 ^ WORD_BITS \in Nat
  BY <1>0 DEF WORD
<1> QED
  BY <1>1, <1>5, <1>6

(* ilog2 is the exponent of the power at or below.                          *)
LEMMA Log ==
  ASSUME NEW n \in 1 .. WORD - 1
  PROVE  /\ ilog2(n) \in 0 .. WORD_BITS - 1
         /\ 2 ^ ilog2(n) <= n /\ n < 2 * 2 ^ ilog2(n)
<1> DEFINE k == ilog2(n)
<1>1. k \in 0 .. WORD_BITS - 1 /\ 2 ^ k <= n /\ n < 2 ^ (k + 1)
  BY LogExists DEF ilog2
<1>2. 2 ^ (k + 1) = 2 * 2 ^ k
  BY <1>1, Pow, WordsAssumption
<1> QED
  BY <1>1, <1>2

(* That exponent is unique.                                                 *)
LEMMA LogUnique ==
  ASSUME NEW n \in Int, NEW k \in 0 .. WORD_BITS - 1, 2 ^ k <= n, n < 2 * 2 ^ k
  PROVE  ilog2(n) = k
<1>1. k \in 0 .. WORD_BITS /\ 2 ^ k \in Nat \ {0} /\ n < 2 ^ (k + 1)
  BY Pow, WordsAssumption
<1>2. ASSUME NEW i \in 0 .. WORD_BITS - 1, 2 ^ i <= n, n < 2 ^ (i + 1) PROVE i = k
  <2>1. i \in 0 .. WORD_BITS /\ 2 ^ i \in Nat \ {0} /\ n < 2 * 2 ^ i
    BY <1>2, Pow, WordsAssumption
  <2>2. 2 ^ i < 2 * 2 ^ k /\ 2 ^ k < 2 * 2 ^ i
    BY <1>1, <1>2, <2>1
  <2> QED
    BY <1>1, <2>1, <2>2, PowLess
<1> QED
  BY <1>1, <1>2 DEF ilog2

(* The logarithm of a power.                                                *)
LEMMA LogPow ==
  ASSUME NEW k \in 0 .. WORD_BITS - 1
  PROVE  ilog2(2 ^ k) = k
<1>1. 2 ^ k \in Nat \ {0}
  BY Pow, WordsAssumption
<1> QED
  BY <1>1, LogUnique

(* LowBit is the largest power of two that divides a number: the smaller    *)
(* powers divide it and the larger ones do not.                             *)
LEMMA LowBitDivides ==
  ASSUME NEW n \in 1 .. WORD - 1
  PROVE  \E k \in 0 .. WORD_BITS - 1 :
           /\ LowBit(n) = 2 ^ k /\ 2 ^ k <= n
           /\ \A j \in 0 .. WORD_BITS : n % 2 ^ j = 0 <=> j <= k
<1>0. WORD \in Nat /\ WORD_BITS \in Nat /\ n \in Nat \ {0} /\ n < 2 ^ WORD_BITS
  BY Pow, WordsAssumption DEF WORD
<1> DEFINE P(k) == n % 2 ^ k = 0 /\ n % 2 ^ (k + 1) # 0
<1>1. \E k \in 0 .. WORD_BITS - 1 : P(k)
  <2> SUFFICES ASSUME \A k \in 0 .. WORD_BITS - 1 : ~ P(k) PROVE FALSE
    OBVIOUS
  <2> DEFINE S == {i \in Nat : i <= WORD_BITS => n % 2 ^ i = 0}
  <2>1. 0 \in S
    <3>1. 2 ^ 0 = 1
      OBVIOUS
    <3> QED
      BY <3>1, <1>0
  <2>2. ASSUME NEW i \in Nat, i \in S PROVE i + 1 \in S
    BY <2>2, <1>0
  <2>3. Nat \subseteq S
    <3> HIDE DEF S
    <3> QED
      BY <2>1, <2>2, SetInduction
  <2>4. n % 2 ^ WORD_BITS = 0 /\ 2 ^ WORD_BITS \in Nat \ {0}
    BY <2>3, <1>0, Pow
  <2>5. 0 % 2 ^ WORD_BITS = 0
    BY <2>4
  <2> QED
    BY <2>4, <2>5, <1>0, ModGap
<1>2. PICK k \in 0 .. WORD_BITS - 1 : LowBit(n) = 2 ^ k /\ P(k)
  BY <1>1 DEF LowBit
<1>3. k \in 0 .. WORD_BITS /\ k + 1 \in 0 .. WORD_BITS /\ 2 ^ k \in Nat \ {0}
  BY <1>0, Pow
<1>4. 2 ^ k <= n
  <2>1. 0 % 2 ^ k = 0 /\ 0 < n
    BY <1>3, <1>0
  <2> QED
    BY <1>2, <1>3, <1>0, <2>1, ModGap
<1>5. ASSUME NEW j \in 0 .. WORD_BITS PROVE n % 2 ^ j = 0 <=> j <= k
  <2>1. 2 ^ j \in Nat \ {0} /\ 2 ^ (k + 1) \in Nat \ {0}
    BY <1>3, Pow
  <2>0. n \in Int /\ n % 2 ^ k = 0 /\ n % 2 ^ (k + 1) # 0
    BY <1>0, <1>2
  <2>2. CASE j <= k
    <3>1. 2 ^ k % 2 ^ j = 0
      BY <2>2, <1>3, PowOrder
    <3>2. n % 2 ^ j = 0
      BY <3>1, <2>0, <2>1, <1>3, ModTrans
    <3> QED
      BY <3>2, <2>2
  <2>3. CASE k + 1 <= j
    <3>1. 2 ^ j % 2 ^ (k + 1) = 0
      BY <2>3, <1>3, PowOrder
    <3>2. n % 2 ^ j # 0
      BY <3>1, <2>0, <2>1, ModTrans
    <3> QED
      BY <3>2, <2>3
  <2> QED
    BY <2>2, <2>3
<1> QED
  BY <1>2, <1>4, <1>5

(* align_up, where the sum does not wrap, is the next multiple.             *)
LEMMA AlignUp ==
  ASSUME NEW x \in Nat, NEW m \in Nat \ {0}, x + m <= WORD
  PROVE  /\ align_up(x, m) \in Nat /\ align_up(x, m) % m = 0
         /\ x <= align_up(x, m) /\ align_up(x, m) < x + m
         /\ x % m = 0 => align_up(x, m) = x
<1>0. WORD \in Nat
  BY Pow, WordsAssumption DEF WORD
<1> DEFINE s == x + m - 1
<1>1. s \in Nat /\ s < WORD
  BY <1>0
<1>2. align_up(x, m) = s - (s % m)
  BY <1>0, <1>1 DEF align_up, Wrap
<1>3. s % m \in 0 .. m - 1 /\ s \div m \in Int /\ s = m * (s \div m) + (s % m)
  BY <1>1, DivMod
<1>4. s - (s % m) = m * (s \div m)
  BY <1>1, <1>3
<1>5. (s - (s % m)) % m = 0
  BY <1>3, <1>4, ModProduct
<1>6. s \div m >= 0
  <2>1. s \in Int /\ s >= 0
    BY <1>1
  <2> HIDE DEF s
  <2> QED
    BY <2>1
<1>7. m * (s \div m) \in Nat
  BY <1>3, <1>6
<1>8. x <= s - (s % m) /\ s - (s % m) < x + m
  BY <1>3
<1>9. ASSUME x % m = 0 PROVE s - (s % m) = x
  <2> DEFINE y == s - (s % m)
  <2>1. y \in Int /\ y % m = 0 /\ x <= y /\ y < x + m
    BY <1>3, <1>4, <1>5, <1>7, <1>8
  <2> HIDE DEF y
  <2>2. ASSUME x < y PROVE x + m <= y
    <3>1. x \in Int
      OBVIOUS
    <3> QED
      BY <1>9, <2>1, <2>2, <3>1, ModGap
  <2> QED
    BY <2>1, <2>2 DEF y
<1> QED
  BY <1>2, <1>4, <1>5, <1>7, <1>8, <1>9
(* No smaller multiple lies at or above.                                    *)
LEMMA AlignUpLeast ==
  ASSUME NEW x \in Nat, NEW m \in Nat \ {0}, x + m <= WORD, NEW y \in Int, y % m = 0, x <= y
  PROVE  align_up(x, m) <= y
<1> DEFINE u == align_up(x, m)
<1>1. u \in Int /\ u % m = 0 /\ u < x + m
  BY AlignUp
<1> HIDE DEF u
<1>2. ASSUME y < u PROVE FALSE
  <2>1. y + m <= u
    BY <1>1, <1>2, ModGap
  <2> QED
    BY <1>1, <2>1
<1>3. u <= y
  BY <1>1, <1>2
<1> QED
  BY <1>3 DEF u

-----------------------------------------------------------------------------
\* The logarithms of the four constants that shape the classes.
Logs(c, a, l, f, e) ==
  /\ a \in 0 .. WORD_BITS - 1 /\ l \in 0 .. WORD_BITS - 1
  /\ f \in 0 .. WORD_BITS - 1 /\ e \in 0 .. WORD_BITS - 1
  /\ a < l /\ l <= f /\ f <= e
  /\ c.MIN_ALIGN = 2 ^ a /\ c.LNR_FLOOR = 2 ^ l /\ c.EXP_FLOOR = 2 ^ f /\ c.EXP_CEIL = 2 ^ e

(* A valid Config has them.                                                 *)
LEMMA ValidLogs ==
  ASSUME NEW c, SC(c)!ValidConfig
  PROVE  \E a, l, f, e \in 0 .. WORD_BITS - 1 : Logs(c, a, l, f, e)
<1>1. PICK a \in 0 .. WORD_BITS - 1 : c.MIN_ALIGN = 2 ^ a
  BY DEF SC!ValidConfig, SC!IsPow2
<1>2. PICK l \in 0 .. WORD_BITS - 1 : c.LNR_FLOOR = 2 ^ l /\ c.LNR_FLOOR >= 2 * c.MIN_ALIGN
  BY DEF SC!ValidConfig, SC!IsPow2
<1>3. PICK f \in 0 .. WORD_BITS - 1 : c.EXP_FLOOR = 2 ^ f /\ c.EXP_FLOOR >= c.LNR_FLOOR
  BY DEF SC!ValidConfig, SC!IsPow2
<1>4. PICK e \in 0 .. WORD_BITS - 1 : c.EXP_CEIL = 2 ^ e /\ c.EXP_CEIL >= c.EXP_FLOOR
  BY DEF SC!ValidConfig, SC!IsPow2
<1>5. /\ a \in 0 .. WORD_BITS /\ l \in 0 .. WORD_BITS /\ f \in 0 .. WORD_BITS /\ e \in 0 .. WORD_BITS
      /\ 2 ^ a \in Nat \ {0} /\ 2 ^ l \in Nat \ {0} /\ 2 ^ f \in Nat \ {0} /\ 2 ^ e \in Nat \ {0}
  BY Pow, WordsAssumption
<1>6. a < l
  <2>1. ~ (l <= a)
    BY <1>1, <1>2, <1>5, PowOrder
  <2> QED
    BY <2>1
<1>7. l <= f /\ f <= e
  BY <1>2, <1>3, <1>4, <1>5, PowLess
<1> QED
  BY <1>1, <1>2, <1>3, <1>4, <1>6, <1>7 DEF Logs

(* The order of the four constants, what divides what, and the room the     *)
(* word leaves above the largest class.                                     *)
LEMMA Constants ==
  ASSUME NEW c, SC(c)!ValidConfig
  PROVE  /\ WORD \in Nat
         /\ c.MIN_ALIGN \in Nat \ {0} /\ c.LNR_FLOOR \in Nat \ {0}
         /\ c.EXP_FLOOR \in Nat \ {0} /\ c.EXP_CEIL \in Nat \ {0}
         /\ 2 * c.MIN_ALIGN <= c.LNR_FLOOR /\ c.LNR_FLOOR <= c.EXP_FLOOR
         /\ c.EXP_FLOOR <= c.EXP_CEIL /\ 2 * c.EXP_CEIL <= WORD
         /\ c.LNR_FLOOR % c.MIN_ALIGN = 0 /\ c.EXP_FLOOR % c.MIN_ALIGN = 0
         /\ c.EXP_CEIL % c.MIN_ALIGN = 0
<1>1. PICK a, l, f, e \in 0 .. WORD_BITS - 1 : Logs(c, a, l, f, e)
  BY ValidLogs
<1>2. /\ a \in 0 .. WORD_BITS /\ l \in 0 .. WORD_BITS /\ f \in 0 .. WORD_BITS /\ e \in 0 .. WORD_BITS
      /\ WORD_BITS \in 0 .. WORD_BITS
      /\ 2 ^ a \in Nat \ {0} /\ 2 ^ l \in Nat \ {0} /\ 2 ^ f \in Nat \ {0} /\ 2 ^ e \in Nat \ {0}
      /\ WORD \in Nat
  BY Pow, WordsAssumption DEF WORD
<1>3. a < l /\ l <= f /\ f <= e /\ e < WORD_BITS
  BY <1>1, <1>2, WordsAssumption DEF Logs
<1>4. 2 * 2 ^ a <= 2 ^ l /\ 2 ^ l <= 2 ^ f /\ 2 ^ f <= 2 ^ e /\ 2 * 2 ^ e <= WORD
  BY <1>2, <1>3, PowOrder DEF WORD
<1>5. 2 ^ l % 2 ^ a = 0 /\ 2 ^ f % 2 ^ a = 0 /\ 2 ^ e % 2 ^ a = 0
  <2>1. a <= l /\ a <= f /\ a <= e
    BY <1>2, <1>3
  <2> QED
    BY <1>2, <2>1, PowOrder
<1> QED
  BY <1>1, <1>2, <1>4, <1>5 DEF Logs

(* The number of linear classes and of bins.                                *)
LEMMA BinCounts ==
  ASSUME NEW c, NEW a, NEW l, NEW f, NEW e, SC(c)!ValidConfig, Logs(c, a, l, f, e)
  PROVE  /\ SC(c)!ilog2(c.EXP_FLOOR) = f /\ SC(c)!ilog2(c.EXP_CEIL) = e
         /\ SC(c)!NUM_LINEAR \in Nat
         /\ c.MIN_ALIGN * SC(c)!NUM_LINEAR = c.EXP_FLOOR - c.LNR_FLOOR
         /\ SC(c)!oversize_bin = SC(c)!NUM_LINEAR + 2 * (e - f) + 1
         /\ SC(c)!oversize_bin \in Nat \ {0}
<1> DEFINE A == c.MIN_ALIGN
           L == c.LNR_FLOOR
           F == c.EXP_FLOOR
<1>1. /\ A \in Nat \ {0} /\ L \in Nat /\ F \in Nat /\ L <= F
      /\ L % A = 0 /\ F % A = 0
  BY Constants
<1>2. SC(c)!ilog2(F) = f /\ SC(c)!ilog2(c.EXP_CEIL) = e
  <2>1. \A n : SC(c)!ilog2(n) = ilog2(n)
    BY DEF SC!ilog2, ilog2
  <2> QED
    BY <2>1, LogPow DEF Logs
<1>3. SC(c)!NUM_LINEAR = (F - L) \div A
  BY DEF SC!NUM_LINEAR
<1>4. (F - L) % A = 0 /\ F - L \in Nat
  BY <1>1, ModSum
<1>5. SC(c)!NUM_LINEAR \in Nat /\ A * SC(c)!NUM_LINEAR = F - L
  <2> HIDE DEF A, F, L
  <2> DEFINE d == F - L
  <2>1. d \in Int /\ d >= 0 /\ d % A = 0 /\ SC(c)!NUM_LINEAR = d \div A
    BY <1>3, <1>4
  <2> HIDE DEF d
  <2>2. d \div A \in Int /\ d \div A >= 0 /\ d = A * (d \div A)
    BY <2>1, <1>1, DivMod, ModQuotient
  <2> QED
    BY <2>1, <2>2 DEF d
<1>6. SC(c)!oversize_bin = SC(c)!NUM_LINEAR + 2 * (e - f) + 1
  BY <1>2, <1>5 DEF SC!oversize_bin, SC!NUM_BINS, SC!NUM_EXP, Logs
<1> QED
  BY <1>2, <1>5, <1>6 DEF Logs
-----------------------------------------------------------------------------
(* The classes.  h stands for half an octave base: the two classes of the   *)
(* octave are 2h and 3h, both aligned to h.                                 *)

LinearBin(c, k) ==
  /\ k \in 0 .. SC(c)!NUM_LINEAR - 1
  /\ SC(c)!bin_class(k) = c.LNR_FLOOR + k * c.MIN_ALIGN
  /\ SC(c)!align_of_bin(k) = c.MIN_ALIGN

BaseBin(c, k, f, i) ==
  /\ k = SC(c)!NUM_LINEAR + 2 * (i + 1 - f)
  /\ SC(c)!bin_class(k) = 2 * 2 ^ i /\ SC(c)!align_of_bin(k) = 2 ^ i

MiddleBin(c, k, f, i) ==
  /\ k = SC(c)!NUM_LINEAR + 2 * (i + 1 - f) + 1
  /\ SC(c)!bin_class(k) = 3 * 2 ^ i /\ SC(c)!align_of_bin(k) = 2 ^ i

(* Every fixed bin is of one of the three kinds.                            *)
LEMMA ClassForms ==
  ASSUME NEW c, NEW a, NEW l, NEW f, NEW e, SC(c)!ValidConfig, Logs(c, a, l, f, e),
         NEW k \in SC(c)!FixedBins
  PROVE  \/ LinearBin(c, k)
         \/ \E i \in f - 1 .. e - 1 : BaseBin(c, k, f, i)
         \/ \E i \in f - 1 .. e - 2 : MiddleBin(c, k, f, i)
<1> DEFINE NL == SC(c)!NUM_LINEAR
           A == c.MIN_ALIGN
<1>1. /\ NL \in Nat /\ SC(c)!oversize_bin = NL + 2 * (e - f) + 1
      /\ SC(c)!ilog2(c.EXP_FLOOR) = f
  BY BinCounts
<1>2. k \in Nat /\ k < NL + 2 * (e - f) + 1
  BY <1>1 DEF SC!FixedBins, Logs
<1>3. a \in Nat /\ f \in Nat /\ e \in Nat /\ a < f /\ f <= e /\ e < WORD_BITS /\ WORD_BITS \in Nat
  BY WordsAssumption DEF Logs
<1>4. CASE k < NL
  BY <1>1, <1>2, <1>4 DEF LinearBin, SC!bin_class, SC!align_of_bin
<1>5. CASE ~ (k < NL)
  <2> DEFINE d == k - NL
             o == d \div 2
             i == f - 1 + o
  <2>1. d \in Nat /\ o \in Nat /\ ((d % 2 = 0 /\ d = 2 * o) \/ (d % 2 # 0 /\ d = 2 * o + 1))
    BY <1>1, <1>2, <1>5
  <2>2. i \in f - 1 .. e - 1 /\ (d % 2 # 0 => i \in f - 1 .. e - 2)
    BY <1>1, <1>2, <1>3, <2>1
  <2>3. i \in 0 .. WORD_BITS /\ i \in Nat /\ a <= i /\ i + 1 = f + o /\ i + 1 \in 0 .. WORD_BITS
        /\ a \in 0 .. WORD_BITS
    BY <1>3, <2>1, <2>2
  <2>4. /\ 2 ^ i \in Nat \ {0} /\ 2 ^ (f + o) = 2 * 2 ^ i
        /\ 2 ^ a \in Nat \ {0} /\ 2 ^ a <= 2 ^ i /\ 2 ^ i % 2 ^ a = 0
    BY <2>3, Pow, PowOrder
  <2>5. 4 * 2 ^ i <= WORD
    <3>1. i + 1 \in 0 .. WORD_BITS /\ WORD_BITS \in 0 .. WORD_BITS /\ i + 1 < WORD_BITS
      BY <1>3, <2>2, <2>3
    <3>2. 2 * 2 ^ (i + 1) <= WORD
      BY <3>1, PowOrder DEF WORD
    <3> QED
      BY <3>2, <2>3, <2>4
  <2>6. SC(c)!OctaveBase(k) = 2 * 2 ^ i
    BY <1>1, <2>4 DEF SC!OctaveBase
  <2>7. SC(c)!align_of_bin(k) = 2 ^ i
    <3>1. A = 2 ^ a
      BY DEF Logs
    <3> QED
      BY <1>1, <1>2, <1>5, <2>4, <2>6, <3>1 DEF SC!align_of_bin, SC!Larger
  <2>8. ASSUME NEW x \in Nat, x % 2 ^ a = 0, x <= 3 * 2 ^ i PROVE SC(c)!align_up(x, A) = x
    <3>1. A = 2 ^ a
      BY DEF Logs
    <3>2. x + 2 ^ a <= WORD
      BY <2>4, <2>5, <2>8, WordsAssumption, Pow DEF WORD
    <3>3. SC(c)!align_up(x, A) = align_up(x, A)
      BY DEF SC!align_up, align_up, SC!Wrap, Wrap, SC!WORD, WORD
    <3> QED
      BY <3>1, <3>2, <3>3, <2>4, <2>8, AlignUp
  <2>9. (2 * 2 ^ i) % 2 ^ a = 0 /\ (3 * 2 ^ i) % 2 ^ a = 0
    <3>1. (2 ^ i + 2 ^ i) % 2 ^ a = 0
      BY <2>4, ModSum
    <3>2. (2 ^ i + 2 ^ i) + 2 ^ i \in Int /\ ((2 ^ i + 2 ^ i) + 2 ^ i) % 2 ^ a = 0
      BY <3>1, <2>4, ModSum
    <3>3. 2 ^ i + 2 ^ i = 2 * 2 ^ i /\ (2 ^ i + 2 ^ i) + 2 ^ i = 3 * 2 ^ i
      BY <2>4
    <3> QED
      BY <3>1, <3>2, <3>3
  <2>10. CASE d % 2 = 0
    <3>1. SC(c)!bin_class(k) = SC(c)!align_up(2 * 2 ^ i, A)
      BY <1>1, <1>2, <1>5, <2>6, <2>10 DEF SC!bin_class
    <3>2. SC(c)!bin_class(k) = 2 * 2 ^ i
      BY <3>1, <2>8, <2>9, <2>4
    <3>3. k = NL + 2 * (i + 1 - f)
      BY <2>1, <2>10, <1>3, <1>1, <1>2
    <3>4. BaseBin(c, k, f, i)
      BY <3>2, <3>3, <2>7 DEF BaseBin
    <3> QED
      BY <3>4, <2>2
  <2>11. CASE d % 2 # 0
    <3>1. SC(c)!bin_class(k) = SC(c)!align_up(2 * 2 ^ i + (2 * 2 ^ i) \div 2, A)
      BY <1>1, <1>2, <1>5, <2>6, <2>11 DEF SC!bin_class
    <3>2. 2 * 2 ^ i + (2 * 2 ^ i) \div 2 = 3 * 2 ^ i
      BY <2>4
    <3>3. SC(c)!bin_class(k) = 3 * 2 ^ i
      BY <3>1, <3>2, <2>8, <2>9, <2>4
    <3>4. k = NL + 2 * (i + 1 - f) + 1
      BY <2>1, <2>11, <1>3, <1>1, <1>2
    <3>5. MiddleBin(c, k, f, i)
      BY <3>3, <3>4, <2>7 DEF MiddleBin
    <3> QED
      BY <3>5, <2>2, <2>11
  <2> QED
    BY <2>10, <2>11
<1> QED
  BY <1>4, <1>5
(* A class and its alignment.                                               *)
LEMMA ClassFacts ==
  ASSUME NEW c, SC(c)!ValidConfig, NEW k \in SC(c)!FixedBins
  PROVE  /\ SC(c)!bin_class(k) \in Nat \ {0} /\ SC(c)!align_of_bin(k) \in Nat \ {0}
         /\ c.LNR_FLOOR <= SC(c)!bin_class(k) /\ SC(c)!bin_class(k) <= c.EXP_CEIL
         /\ 2 * SC(c)!align_of_bin(k) <= SC(c)!bin_class(k)
         /\ SC(c)!bin_class(k) % SC(c)!align_of_bin(k) = 0
         /\ SC(c)!align_of_bin(k) % c.MIN_ALIGN = 0
         /\ c.EXP_CEIL % SC(c)!align_of_bin(k) = 0
         /\ SC(c)!bin_class(k) % c.MIN_ALIGN = 0
         /\ \E i \in 0 .. WORD_BITS - 1 : SC(c)!align_of_bin(k) = 2 ^ i
<1>1. PICK a, l, f, e \in 0 .. WORD_BITS - 1 : Logs(c, a, l, f, e)
  BY ValidLogs
<1> DEFINE NL == SC(c)!NUM_LINEAR
           A == c.MIN_ALIGN
           L == c.LNR_FLOOR
           F == c.EXP_FLOOR
           E == c.EXP_CEIL
           C == SC(c)!bin_class(k)
           G == SC(c)!align_of_bin(k)
<1>2. /\ NL \in Nat /\ A * NL = F - L
      /\ SC(c)!oversize_bin = NL + 2 * (e - f) + 1
  BY <1>1, BinCounts
<1>3. /\ A \in Nat \ {0} /\ L \in Nat \ {0} /\ F \in Nat \ {0} /\ E \in Nat \ {0}
      /\ 2 * A <= L /\ L <= F /\ F <= E
      /\ L % A = 0 /\ F % A = 0 /\ E % A = 0
  BY Constants
<1>4. /\ a \in Nat /\ f \in Nat /\ e \in Nat /\ a < f /\ f <= e /\ e < WORD_BITS /\ WORD_BITS \in Nat
      /\ A = 2 ^ a /\ F = 2 ^ f /\ E = 2 ^ e /\ a \in 0 .. WORD_BITS - 1
      /\ a \in 0 .. WORD_BITS /\ f \in 0 .. WORD_BITS /\ e \in 0 .. WORD_BITS
  BY <1>1, WordsAssumption DEF Logs
<1>5. CASE LinearBin(c, k)
  <2>1. k \in 0 .. NL - 1 /\ C = L + k * A /\ G = A
    BY <1>5 DEF LinearBin
  <2>2. k * A \in Nat /\ k * A + A <= F - L /\ k * A = A * k
    <3>1. k \in Int /\ k >= 0 /\ k + 1 \in Int /\ NL \in Int /\ k + 1 <= NL /\ A \in Nat
      BY <2>1, <1>2, <1>3
    <3>2. k * A \in Int /\ k * A >= 0 /\ k * A = A * k /\ (k + 1) * A = k * A + A /\ NL * A = A * NL
      BY <3>1, Products
    <3>3. (k + 1) * A <= NL * A
      BY <3>1, Products
    <3> QED
      BY <3>2, <3>3, <1>2
  <2>3. (k * A) % A = 0
    BY <2>1, <2>2, <1>3, ModProduct
  <2>4. (L + k * A) % A = 0
    BY <2>2, <2>3, <1>3, ModSum
  <2>5. C \in Nat \ {0} /\ C <= E /\ L <= C /\ 2 * G <= C
    BY <2>1, <2>2, <1>2, <1>3
  <2>6. A % A = 0
    BY <1>3
  <2> QED
    BY <2>1, <2>4, <2>5, <2>6, <1>3, <1>4
<1>6. ASSUME NEW i \in f - 1 .. e - 1, G = 2 ^ i,
             C = 2 * 2 ^ i \/ (C = 3 * 2 ^ i /\ i <= e - 2)
      PROVE  /\ C \in Nat \ {0} /\ G \in Nat \ {0} /\ L <= C /\ C <= E /\ 2 * G <= C
             /\ C % G = 0 /\ G % A = 0 /\ E % G = 0 /\ C % A = 0
             /\ i \in 0 .. WORD_BITS - 1
  <2>1. i \in Nat /\ i \in 0 .. WORD_BITS - 1 /\ i \in 0 .. WORD_BITS /\ i + 1 \in 0 .. WORD_BITS
        /\ a <= i /\ i <= e /\ f <= i + 1 /\ i + 1 <= e
    BY <1>4
  <2>2. 2 ^ i \in Nat \ {0} /\ 2 ^ (i + 1) = 2 * 2 ^ i
    BY <2>1, Pow
  <2>3. 2 ^ i % 2 ^ a = 0 /\ 2 ^ e % 2 ^ i = 0 /\ 2 ^ f <= 2 * 2 ^ i /\ 2 * 2 ^ i <= 2 ^ e
    BY <2>1, <2>2, <1>4, PowOrder
  <2>4. i <= e - 2 => 3 * 2 ^ i <= 2 ^ e
    <3>1. ASSUME i <= e - 2 PROVE 4 * 2 ^ i <= 2 ^ e
      <4>1. i + 1 < e
        BY <3>1, <1>4, <2>1
      <4>2. 2 * 2 ^ (i + 1) <= 2 ^ e
        BY <4>1, <2>1, <1>4, PowOrder
      <4> QED
        BY <4>2, <2>2
    <3> QED
      BY <3>1, <2>2, <1>4, <1>3
  <2>5. (2 ^ i * 2) % 2 ^ i = 0 /\ (2 ^ i * 3) % 2 ^ i = 0
    BY <2>2, ModProduct
  <2>6. C % G = 0
    <3>1. C = 2 ^ i * 2 \/ C = 2 ^ i * 3
      BY <1>6, <2>2
    <3> QED
      BY <3>1, <2>5, <1>6
  <2>7. C \in Nat \ {0} /\ G \in Nat \ {0} /\ L <= C /\ C <= E /\ 2 * G <= C
    BY <1>6, <2>2, <2>3, <2>4, <1>3, <1>4
  <2>8. G % A = 0 /\ E % G = 0
    BY <1>6, <1>4, <2>3
  <2>9. C % A = 0
    BY <2>6, <2>7, <2>8, <1>3, ModTrans
  <2> QED
    BY <2>1, <2>6, <2>7, <2>8, <2>9
<1>7. CASE \E i \in f - 1 .. e - 1 : BaseBin(c, k, f, i)
  BY <1>6, <1>7 DEF BaseBin
<1>8. CASE \E i \in f - 1 .. e - 2 : MiddleBin(c, k, f, i)
  <2>1. PICK i \in f - 1 .. e - 2 : MiddleBin(c, k, f, i)
    BY <1>8
  <2>2. i \in f - 1 .. e - 1 /\ i <= e - 2
    BY <1>4
  <2>3. G = 2 ^ i /\ C = 3 * 2 ^ i
    BY <2>1 DEF MiddleBin
  <2> QED
    BY <2>2, <2>3, <1>6
<1> QED
  BY <1>1, <1>5, <1>7, <1>8, ClassForms

(* Classes grow with their bins, by at most a half from one to the next,    *)
(* and the alignment of a class divides that of every larger one.           *)
LEMMA ClassOrder ==
  ASSUME NEW c, SC(c)!ValidConfig, NEW j \in SC(c)!FixedBins, NEW k \in SC(c)!FixedBins, j < k
  PROVE  /\ SC(c)!bin_class(j) < SC(c)!bin_class(k)
         /\ SC(c)!align_of_bin(k) % SC(c)!align_of_bin(j) = 0
         /\ k = j + 1 => 2 * SC(c)!bin_class(k) <= 3 * SC(c)!bin_class(j)
<1>1. PICK a, l, f, e \in 0 .. WORD_BITS - 1 : Logs(c, a, l, f, e)
  BY ValidLogs
<1> DEFINE NL == SC(c)!NUM_LINEAR
           A == c.MIN_ALIGN
           L == c.LNR_FLOOR
           F == c.EXP_FLOOR
<1>2. NL \in Nat /\ A * NL = F - L
  BY <1>1, BinCounts
<1>3. A \in Nat \ {0} /\ L \in Nat \ {0} /\ F \in Nat \ {0} /\ 2 * A <= L
  BY Constants
<1>4. /\ a \in Nat /\ f \in Nat /\ e \in Nat /\ a < f /\ f <= e /\ e < WORD_BITS /\ WORD_BITS \in Nat
      /\ A = 2 ^ a /\ F = 2 ^ f
      /\ a \in 0 .. WORD_BITS /\ f \in 0 .. WORD_BITS /\ e \in 0 .. WORD_BITS
  BY <1>1, WordsAssumption DEF Logs
<1>5. j \in Nat /\ k \in Nat
  BY <1>1, BinCounts DEF SC!FixedBins
<1>6. ASSUME NEW i \in f - 1 .. e - 1
      PROVE  /\ i \in Int /\ 2 ^ i \in Nat \ {0} /\ F <= 2 * 2 ^ i /\ 2 ^ i % A = 0
             /\ (i = f - 1 => F = 2 * 2 ^ i)
  <2>1. i \in 0 .. WORD_BITS /\ i + 1 \in 0 .. WORD_BITS /\ a <= i /\ f <= i + 1
    BY <1>4
  <2>2. 2 ^ i \in Nat \ {0} /\ 2 ^ (i + 1) = 2 * 2 ^ i /\ 2 ^ f <= 2 ^ (i + 1) /\ 2 ^ i % 2 ^ a = 0
    BY <2>1, <1>4, Pow, PowOrder
  <2>3. i = f - 1 => i + 1 = f
    BY <1>4
  <2> QED
    BY <2>2, <2>3, <1>4
<1>7. ASSUME NEW x \in f - 1 .. e - 1, NEW y \in f - 1 .. e - 1, x <= y
      PROVE  2 ^ x <= 2 ^ y /\ 2 ^ y % 2 ^ x = 0 /\ (x < y => 2 * 2 ^ x <= 2 ^ y)
             /\ (y = x + 1 => 2 ^ y = 2 * 2 ^ x)
  <2>1. x \in 0 .. WORD_BITS /\ y \in 0 .. WORD_BITS
    BY <1>4
  <2> QED
    BY <2>1, <1>7, Pow, PowOrder
<1>8. CASE LinearBin(c, j) /\ LinearBin(c, k)
  <2>1. /\ SC(c)!bin_class(j) = L + j * A /\ SC(c)!bin_class(k) = L + k * A
        /\ SC(c)!align_of_bin(j) = A /\ SC(c)!align_of_bin(k) = A
    BY <1>8 DEF LinearBin
  <2>0. A \in Nat /\ j \in Int /\ j >= 0 /\ k \in Int /\ j + 1 \in Int /\ j + 1 <= k
    BY <1>3, <1>5
  <2>2. j * A \in Nat /\ k * A \in Nat /\ (j + 1) * A = j * A + A /\ A % A = 0
    BY <2>0, <1>3, <1>5, Products
  <2>3. (j + 1) * A <= k * A
    BY <2>0, Products
  <2>4. k = j + 1 => k * A = (j + 1) * A
    OBVIOUS
  <2> QED
    BY <2>1, <2>2, <2>3, <2>4, <1>3
<1>9. ASSUME LinearBin(c, j), NEW i \in f - 1 .. e - 1, SC(c)!align_of_bin(k) = 2 ^ i,
             \/ SC(c)!bin_class(k) = 2 * 2 ^ i /\ k = NL + 2 * (i + 1 - f)
             \/ SC(c)!bin_class(k) = 3 * 2 ^ i /\ k = NL + 2 * (i + 1 - f) + 1
      PROVE  /\ SC(c)!bin_class(j) < SC(c)!bin_class(k)
             /\ SC(c)!align_of_bin(k) % SC(c)!align_of_bin(j) = 0
             /\ k = j + 1 => 2 * SC(c)!bin_class(k) <= 3 * SC(c)!bin_class(j)
  <2>1. SC(c)!bin_class(j) = L + j * A /\ SC(c)!align_of_bin(j) = A /\ j \in 0 .. NL - 1
    BY <1>9 DEF LinearBin
  <2>2. j * A \in Nat /\ (j + 1) * A <= NL * A /\ (j + 1) * A = j * A + A /\ NL * A = F - L
    <3>1. j \in Int /\ j >= 0 /\ j + 1 \in Int /\ NL \in Int /\ j + 1 <= NL /\ A \in Nat
      BY <2>1, <1>2, <1>3
    <3>2. j * A \in Int /\ j * A >= 0 /\ (j + 1) * A = j * A + A /\ NL * A = A * NL
      BY <3>1, Products
    <3>3. (j + 1) * A <= NL * A
      BY <3>1, Products
    <3> QED
      BY <3>2, <3>3, <1>2
  <2>3. j + 1 = NL => (j + 1) * A = NL * A
    OBVIOUS
  <2>4. /\ i \in Int /\ 2 ^ i \in Nat \ {0} /\ F <= 2 * 2 ^ i /\ 2 ^ i % A = 0
        /\ (i = f - 1 => F = 2 * 2 ^ i)
    BY <1>6
  <2>5. L + j * A + A <= F /\ (j + 1 = NL => L + j * A + A = F)
    BY <2>2, <2>3, <1>2, <1>3
  <2>6. k = j + 1 => j + 1 = NL /\ i = f - 1 /\ SC(c)!bin_class(k) = 2 * 2 ^ i
    BY <1>9, <2>1, <2>4, <1>2, <1>4
  <2> QED
    BY <1>9, <2>1, <2>2, <2>4, <2>5, <2>6, <1>3
<1>10. ASSUME NEW x \in f - 1 .. e - 1, SC(c)!align_of_bin(j) = 2 ^ x,
              \/ SC(c)!bin_class(j) = 2 * 2 ^ x /\ j = NL + 2 * (x + 1 - f)
              \/ SC(c)!bin_class(j) = 3 * 2 ^ x /\ j = NL + 2 * (x + 1 - f) + 1,
              NEW y \in f - 1 .. e - 1, SC(c)!align_of_bin(k) = 2 ^ y,
              \/ SC(c)!bin_class(k) = 2 * 2 ^ y /\ k = NL + 2 * (y + 1 - f)
              \/ SC(c)!bin_class(k) = 3 * 2 ^ y /\ k = NL + 2 * (y + 1 - f) + 1
      PROVE  /\ SC(c)!bin_class(j) < SC(c)!bin_class(k)
             /\ SC(c)!align_of_bin(k) % SC(c)!align_of_bin(j) = 0
             /\ k = j + 1 => 2 * SC(c)!bin_class(k) <= 3 * SC(c)!bin_class(j)
  <2>1. x <= y
    BY <1>10, <1>2, <1>4
  <2>2. /\ 2 ^ x \in Nat \ {0} /\ 2 ^ y \in Nat \ {0}
        /\ 2 ^ x <= 2 ^ y /\ 2 ^ y % 2 ^ x = 0 /\ (x < y => 2 * 2 ^ x <= 2 ^ y)
        /\ (y = x + 1 => 2 ^ y = 2 * 2 ^ x)
    BY <2>1, <1>6, <1>7
  <2>3. CASE x = y
    BY <2>2, <2>3, <1>10, <1>2, <1>4
  <2>4. CASE x < y
    BY <2>2, <2>4, <1>10, <1>2, <1>4
  <2> QED
    BY <2>1, <2>3, <2>4
<1>11. ASSUME NEW b \in SC(c)!FixedBins, ~ LinearBin(c, b)
       PROVE  \E i \in f - 1 .. e - 1 :
                /\ SC(c)!align_of_bin(b) = 2 ^ i
                /\ \/ SC(c)!bin_class(b) = 2 * 2 ^ i /\ b = NL + 2 * (i + 1 - f)
                   \/ SC(c)!bin_class(b) = 3 * 2 ^ i /\ b = NL + 2 * (i + 1 - f) + 1
  <2>1. \A i \in f - 1 .. e - 2 : i \in f - 1 .. e - 1
    BY <1>4
  <2> QED
    BY <1>1, <1>11, <2>1, ClassForms DEF BaseBin, MiddleBin
<1>12. LinearBin(c, k) => LinearBin(c, j)
  BY <1>1, <1>2, <1>4, <1>5, <1>11 DEF LinearBin
<1> QED
  BY <1>8, <1>9, <1>10, <1>11, <1>12
-----------------------------------------------------------------------------
(* The bin of a size.                                                      *)

(* The fixed bins are an interval that starts at 0; the smallest and the    *)
(* largest class.                                                           *)
LEMMA FixedBinsFacts ==
  ASSUME NEW c, SC(c)!ValidConfig
  PROVE  /\ SC(c)!oversize_bin \in Nat \ {0}
         /\ SC(c)!FixedBins = 0 .. SC(c)!oversize_bin - 1
         /\ SC(c)!bin_class(0) = c.LNR_FLOOR
         /\ \A k \in SC(c)!FixedBins : k \in Nat
<1>1. PICK a, l, f, e \in 0 .. WORD_BITS - 1 : Logs(c, a, l, f, e)
  BY ValidLogs
<1> DEFINE NL == SC(c)!NUM_LINEAR
<1>2. /\ NL \in Nat /\ c.MIN_ALIGN * NL = c.EXP_FLOOR - c.LNR_FLOOR
      /\ SC(c)!oversize_bin = NL + 2 * (e - f) + 1 /\ SC(c)!oversize_bin \in Nat \ {0}
  BY <1>1, BinCounts
<1>3. /\ c.MIN_ALIGN \in Nat \ {0} /\ c.LNR_FLOOR \in Nat /\ c.EXP_FLOOR \in Nat
  BY Constants
<1>4. /\ f \in Nat /\ e \in Nat /\ f > 0 /\ f <= e /\ WORD_BITS \in Nat
      /\ f \in 0 .. WORD_BITS /\ f - 1 \in 0 .. WORD_BITS /\ c.EXP_FLOOR = 2 ^ f
  BY <1>1, WordsAssumption DEF Logs
<1>5. SC(c)!FixedBins = 0 .. SC(c)!oversize_bin - 1 /\ 0 \in SC(c)!FixedBins
  BY <1>2 DEF SC!FixedBins
<1>6. CASE NL = 0
  <2>1. ~ LinearBin(c, 0)
    BY <1>6 DEF LinearBin
  <2>2. ASSUME NEW i \in f - 1 .. e - 1, BaseBin(c, 0, f, i) PROVE i = f - 1
    BY <2>2, <1>4, <1>6 DEF BaseBin
  <2>3. ASSUME NEW i \in f - 1 .. e - 2, MiddleBin(c, 0, f, i) PROVE FALSE
    BY <2>3, <1>4, <1>6 DEF MiddleBin
  <2>4. BaseBin(c, 0, f, f - 1)
    BY <2>1, <2>2, <2>3, <1>1, <1>5, ClassForms
  <2>5. 2 ^ ((f - 1) + 1) = 2 * 2 ^ (f - 1) /\ (f - 1) + 1 = f
    BY <1>4, Pow
  <2>6. c.EXP_FLOOR = c.LNR_FLOOR
    BY <1>2, <1>3, <1>6
  <2> QED
    BY <2>4, <2>5, <2>6, <1>2, <1>4, <1>5 DEF BaseBin
<1>7. CASE NL # 0
  <2>1. ASSUME NEW i \in f - 1 .. e - 1 PROVE ~ BaseBin(c, 0, f, i) /\ ~ MiddleBin(c, 0, f, i)
    BY <1>2, <1>4, <1>7 DEF BaseBin, MiddleBin
  <2>2. \A i \in f - 1 .. e - 2 : i \in f - 1 .. e - 1
    BY <1>4
  <2>3. LinearBin(c, 0)
    BY <2>1, <2>2, <1>1, <1>5, ClassForms
  <2>4. 0 * c.MIN_ALIGN = 0
    BY <1>3
  <2>5. SC(c)!bin_class(0) = c.LNR_FLOOR + 0 * c.MIN_ALIGN
    BY <2>3 DEF LinearBin
  <2>6. SC(c)!bin_class(0) = c.LNR_FLOOR
    BY <2>4, <2>5, <1>3
  <2> QED
    BY <2>6, <1>2, <1>5
<1> QED
  BY <1>2, <1>5, <1>6, <1>7

(* bin_index returns the first fixed bin whose class holds the size, and    *)
(* the oversized bin when there is none.                                    *)
LEMMA BinIndex ==
  ASSUME NEW c, SC(c)!ValidConfig, NEW x \in Nat
  PROVE  /\ x > c.EXP_CEIL => SC(c)!bin_index(x) = SC(c)!oversize_bin
         /\ x <= c.EXP_CEIL =>
              /\ SC(c)!bin_index(x) \in SC(c)!FixedBins
              /\ x <= SC(c)!bin_class(SC(c)!bin_index(x))
              /\ \A j \in SC(c)!FixedBins : j < SC(c)!bin_index(x) => SC(c)!bin_class(j) < x
<1>1. PICK a, l, f, e \in 0 .. WORD_BITS - 1 : Logs(c, a, l, f, e)
  BY ValidLogs
<1> DEFINE NL == SC(c)!NUM_LINEAR
           A == c.MIN_ALIGN
           L == c.LNR_FLOOR
           F == c.EXP_FLOOR
           E == c.EXP_CEIL
           Fixed == SC(c)!FixedBins
           k == SC(c)!bin_index(x)
<1>2. /\ NL \in Nat /\ A * NL = F - L
      /\ SC(c)!oversize_bin = NL + 2 * (e - f) + 1
      /\ SC(c)!ilog2(F) = f
  BY <1>1, BinCounts
<1>3. /\ A \in Nat \ {0} /\ L \in Nat \ {0} /\ F \in Nat \ {0} /\ E \in Nat \ {0}
      /\ 2 * A <= L /\ L <= F /\ F <= E /\ 2 * E <= WORD /\ WORD \in Nat
  BY Constants
<1>4. /\ f \in Nat /\ e \in Nat /\ f > 0 /\ f <= e /\ e < WORD_BITS /\ WORD_BITS \in Nat
      /\ F = 2 ^ f /\ E = 2 ^ e
      /\ f \in 0 .. WORD_BITS /\ e \in 0 .. WORD_BITS
  BY <1>1, WordsAssumption DEF Logs
<1>5. /\ Fixed = 0 .. NL + 2 * (e - f) /\ SC(c)!bin_class(0) = L
      /\ \A j \in Fixed : j \in Nat /\ SC(c)!bin_class(j) \in Nat
  <2>1. \A j \in Fixed : SC(c)!bin_class(j) \in Nat
    BY ClassFacts
  <2> QED
    BY <2>1, <1>2, <1>4, FixedBinsFacts
<1>6. CASE x > E
  BY <1>3, <1>6 DEF SC!bin_index
<1>7. CASE x <= L
  <2>1. k = 0
    BY <1>7 DEF SC!bin_index
  <2> QED
    BY <2>1, <1>3, <1>4, <1>5, <1>2, <1>7
(* It is enough that the class before the bin's is too small.               *)
<1>8. ASSUME k \in Fixed, k # 0, x <= SC(c)!bin_class(k), SC(c)!bin_class(k - 1) < x
      PROVE  \A j \in Fixed : j < k => SC(c)!bin_class(j) < x
  <2> SUFFICES ASSUME NEW j \in Fixed, j < k PROVE SC(c)!bin_class(j) < x
    OBVIOUS
  <2>1. k - 1 \in Fixed /\ j <= k - 1 /\ j \in Nat /\ k \in Nat
    BY <1>8, <1>5, <1>2, <1>4
  <2>2. j < k - 1 => SC(c)!bin_class(j) < SC(c)!bin_class(k - 1)
    BY <2>1, ClassOrder
  <2>3. SC(c)!bin_class(j) \in Nat /\ SC(c)!bin_class(k - 1) \in Nat
    BY <2>1, <1>5
  <2> QED
    BY <2>1, <2>2, <2>3, <1>8
<1>9. ASSUME NEW b \in Fixed, b < NL PROVE SC(c)!bin_class(b) = L + b * A
  <2>1. ASSUME NEW i \in f - 1 .. e - 1 PROVE ~ BaseBin(c, b, f, i) /\ ~ MiddleBin(c, b, f, i)
    BY <1>2, <1>4, <1>5, <1>9 DEF BaseBin, MiddleBin
  <2>2. \A i \in f - 1 .. e - 2 : i \in f - 1 .. e - 1
    BY <1>4
  <2> QED
    BY <2>1, <2>2, <1>1, ClassForms DEF LinearBin
<1>10. ASSUME NEW b \in Fixed, NEW i \in f - 1 .. e - 1, b = NL + 2 * (i + 1 - f)
       PROVE  SC(c)!bin_class(b) = 2 * 2 ^ i
  <2>1. ~ LinearBin(c, b)
    BY <1>2, <1>4, <1>10 DEF LinearBin
  <2>2. ASSUME NEW y \in f - 1 .. e - 1, BaseBin(c, b, f, y) PROVE y = i
    BY <2>2, <1>2, <1>4, <1>10 DEF BaseBin
  <2>3. ASSUME NEW y \in f - 1 .. e - 2, MiddleBin(c, b, f, y) PROVE FALSE
    BY <2>3, <1>2, <1>4, <1>10 DEF MiddleBin
  <2>4. BaseBin(c, b, f, i)
    BY <2>1, <2>2, <2>3, <1>1, ClassForms
  <2> QED
    BY <2>4 DEF BaseBin
<1>11. ASSUME NEW b \in Fixed, NEW i \in f - 1 .. e - 2, b = NL + 2 * (i + 1 - f) + 1
       PROVE  SC(c)!bin_class(b) = 3 * 2 ^ i
  <2>1. ~ LinearBin(c, b)
    BY <1>2, <1>4, <1>11 DEF LinearBin
  <2>2. ASSUME NEW y \in f - 1 .. e - 1, BaseBin(c, b, f, y) PROVE FALSE
    BY <2>2, <1>2, <1>4, <1>11 DEF BaseBin
  <2>3. ASSUME NEW y \in f - 1 .. e - 2, MiddleBin(c, b, f, y) PROVE y = i
    BY <2>3, <1>2, <1>4, <1>11 DEF MiddleBin
  <2>4. MiddleBin(c, b, f, i)
    BY <2>1, <2>2, <2>3, <1>1, ClassForms
  <2> QED
    BY <2>4 DEF MiddleBin
<1>12. f - 1 \in f - 1 .. e - 1 /\ 2 * 2 ^ (f - 1) = F
  <2>1. f - 1 \in 0 .. WORD_BITS /\ (f - 1) + 1 = f
    BY <1>4
  <2> QED
    BY <2>1, <1>4, Pow
<1>13. NL \in Fixed /\ SC(c)!bin_class(NL) = F
  <2>1. NL \in Fixed
    BY <1>2, <1>4, <1>5
  <2>2. NL = NL + 2 * ((f - 1) + 1 - f)
    BY <1>2, <1>4
  <2> QED
    BY <2>1, <2>2, <1>10, <1>12
<1>14. CASE L < x /\ x < F
  <2> DEFINE d == x - L + A - 1
             q == d \div A
  <2>1. k = q
    BY <1>14, <1>3 DEF SC!bin_index
  <2>2. d \in Nat /\ A <= d /\ d + 2 <= A * NL + A
    BY <1>14, <1>2, <1>3
  <2>3. /\ q \in Int /\ d % A \in 0 .. A - 1 /\ d = A * q + (d % A) /\ q >= 0
    <3>1. d \in Int /\ d >= 0 /\ A \in Nat \ {0}
      BY <2>2, <1>3
    <3> HIDE DEF d, A
    <3>2. d \div A >= 0
      BY <3>1
    <3> QED
      BY <3>1, <3>2, DivMod
  <2> HIDE DEF q
  <2>4. q # 0 /\ q <= NL
    <3>1. q # 0
      BY <2>2, <2>3, <1>3
    <3>2. ASSUME NL + 1 <= q PROVE FALSE
      <4>0. NL + 1 \in Int /\ q \in Int /\ NL \in Int /\ A \in Nat
        BY <2>3, <1>2, <1>3
      <4>1. (NL + 1) * A <= q * A /\ q * A = A * q /\ (NL + 1) * A = NL * A + A /\ NL * A = A * NL
        BY <3>2, <4>0, Products
      <4> QED
        BY <4>1, <2>2, <2>3, <1>2, <1>3
    <3> QED
      BY <3>1, <3>2, <2>3, <1>2
  <2>5. q * A \in Int /\ (q - 1) * A \in Int /\ q * A = A * q /\ q * A = (q - 1) * A + A
    <3>1. q - 1 \in Int /\ (q - 1) + 1 = q /\ A \in Nat
      BY <2>3, <1>3
    <3>2. ((q - 1) + 1) * A = (q - 1) * A + A
      BY <3>1, Products
    <3> QED
      BY <3>1, <3>2, <2>3, Products
  <2>6. x <= L + q * A /\ L + (q - 1) * A < x
    <3> HIDE DEF d
    <3>1. d = x - L + A - 1
      BY DEF d
    <3> QED
      BY <3>1, <2>2, <2>3, <2>5, <1>3
  <2>7. q \in Fixed /\ q - 1 \in Fixed
    BY <2>3, <2>4, <1>2, <1>4, <1>5
  <2>8. SC(c)!bin_class(q) = L + q * A
    <3>1. CASE q < NL
      BY <3>1, <2>7, <1>9
    <3>2. CASE q = NL
      <4>1. NL * A = A * NL
        BY <1>2, <1>3, Products
      <4> QED
        BY <4>1, <3>2, <1>2, <1>3, <1>13
    <3> QED
      BY <3>1, <3>2, <2>3, <2>4, <1>2
  <2>9. SC(c)!bin_class(q - 1) = L + (q - 1) * A
    BY <2>3, <2>4, <2>7, <1>2, <1>9
  <2>10. k \in Fixed /\ k # 0 /\ x <= SC(c)!bin_class(k) /\ SC(c)!bin_class(k - 1) < x
    BY <2>1, <2>4, <2>6, <2>7, <2>8, <2>9
  <2> QED
    BY <2>10, <1>8, <1>14, <1>3
<1>15. CASE F <= x /\ x <= E
  <2> DEFINE m == ilog2(x)
  <2>1. x \in 1 .. WORD - 1
    BY <1>15, <1>3
  <2>2. m \in 0 .. WORD_BITS - 1 /\ 2 ^ m <= x /\ x < 2 * 2 ^ m
    BY <2>1, Log
  <2>3. SC(c)!ilog2(x) = m
    BY DEF SC!ilog2, ilog2
  <2> HIDE DEF m
  <2>4. m \in 0 .. WORD_BITS /\ m \in Nat /\ 2 ^ m \in Nat \ {0}
    BY <2>2, <1>4, Pow
  <2>5. f <= m /\ m <= e
    <3>1. 2 ^ f < 2 * 2 ^ m /\ 2 ^ m < 2 * 2 ^ e
      BY <2>2, <2>4, <1>3, <1>4, <1>15
    <3> QED
      BY <3>1, <2>4, <1>4, PowLess
  <2>6. m = e => x = 2 ^ m
    BY <2>2, <2>4, <1>4, <1>15
  <2>7. k = NL + (IF x = 2 ^ m THEN 2 * (m - f)
                  ELSE IF x <= 2 ^ m + 2 ^ m \div 2 THEN 2 * (m - f) + 1
                  ELSE 2 * (m - f + 1))
    <3>1. k = IF x <= L THEN 0 ELSE SC(c)!ExpIndex(x)
      BY <1>15, <1>3 DEF SC!bin_index
    <3>2. SC(c)!ExpIndex(x) = NL + (IF x = 2 ^ m THEN 2 * (m - f)
                  ELSE IF x <= 2 ^ m + 2 ^ m \div 2 THEN 2 * (m - f) + 1
                  ELSE 2 * (m - f + 1))
      BY <2>3, <1>2 DEF SC!ExpIndex
    <3>3. ASSUME x <= L PROVE NL = 0 /\ x = 2 ^ m /\ m = f
      <4>1. x = F /\ F = L
        BY <3>3, <1>15, <1>3
      <4>2. m = f
        <5>1. ilog2(x) = f
          BY <4>1, <1>4, <1>1, LogPow
        <5> QED
          BY <5>1 DEF m
      <4>3. NL = 0
        BY <4>1, <1>2, <1>3
      <4> QED
        BY <4>1, <4>2, <4>3, <1>4
    <3> QED
      BY <3>1, <3>2, <3>3, <1>4
  <2> DEFINE h == 2 ^ (m - 1)
  <2>8. m - 1 \in f - 1 .. e - 1 /\ m - 1 \in 0 .. WORD_BITS /\ (m - 1) + 1 = m
    BY <2>4, <2>5, <1>4
  <2>9. h \in Nat \ {0} /\ 2 ^ m = 2 * h
    BY <2>8, Pow
  <2>10. k = 0 => x <= L
    <3>1. k = 0 => NL = 0 /\ m = f /\ x = 2 ^ m
      BY <2>4, <2>5, <2>7, <1>2, <1>4
    <3>2. NL = 0 => F = L
      BY <1>2, <1>3
    <3> QED
      BY <3>1, <3>2, <1>3, <1>4
  <2>11. CASE k # 0 /\ x = 2 ^ m
    <3>1. k \in Fixed /\ k = NL + 2 * ((m - 1) + 1 - f)
      BY <2>11, <2>4, <2>5, <2>7, <1>2, <1>4, <1>5
    <3>2. SC(c)!bin_class(k) = x
      BY <3>1, <2>8, <2>9, <2>11, <1>10
    <3>3. k - 1 \in Fixed /\ k - 1 < k
      BY <3>1, <2>11, <1>5, <1>2, <1>4
    <3>4. SC(c)!bin_class(k - 1) < x
      BY <3>1, <3>2, <3>3, ClassOrder
    <3>5. k \in Fixed /\ k # 0 /\ x <= SC(c)!bin_class(k) /\ SC(c)!bin_class(k - 1) < x
      BY <3>1, <3>2, <3>4, <2>11
    <3> QED
      BY <3>5, <1>8, <1>15, <1>3
  <2>12. CASE x # 2 ^ m /\ x <= 2 ^ m + 2 ^ m \div 2
    <3>1. m < e /\ 2 ^ m \div 2 = h
      BY <2>12, <2>4, <2>5, <2>6, <2>9, <1>4
    <3>2. m - 1 \in f - 1 .. e - 2
      BY <3>1, <2>4, <2>5, <1>4
    <3>3. /\ k \in Fixed /\ k = NL + 2 * ((m - 1) + 1 - f) + 1 /\ k # 0
          /\ k - 1 \in Fixed /\ k - 1 = NL + 2 * ((m - 1) + 1 - f)
      BY <3>1, <2>12, <2>4, <2>5, <2>7, <1>2, <1>4, <1>5
    <3>4. SC(c)!bin_class(k) = 3 * h
      BY <3>2, <3>3, <1>11
    <3>5. SC(c)!bin_class(k - 1) = 2 * h
      BY <3>3, <2>8, <1>10
    <3>6. k \in Fixed /\ k # 0 /\ x <= SC(c)!bin_class(k) /\ SC(c)!bin_class(k - 1) < x
      <4> HIDE DEF h, k
      <4> QED
        BY <3>1, <3>3, <3>4, <3>5, <2>2, <2>9, <2>12
    <3> QED
      BY <3>6, <1>8, <1>15, <1>3
  <2>13. CASE x # 2 ^ m /\ ~ (x <= 2 ^ m + 2 ^ m \div 2)
    <3>1. m < e /\ 2 ^ m \div 2 = h
      BY <2>13, <2>4, <2>5, <2>6, <2>9, <1>4
    <3>2. m - 1 \in f - 1 .. e - 2 /\ m \in f - 1 .. e - 1
      BY <3>1, <2>4, <2>5, <1>4
    <3>3. /\ k \in Fixed /\ k = NL + 2 * (m + 1 - f) /\ k # 0
          /\ k - 1 \in Fixed /\ k - 1 = NL + 2 * ((m - 1) + 1 - f) + 1
      BY <3>1, <2>13, <2>4, <2>5, <2>7, <1>2, <1>4, <1>5
    <3>4. SC(c)!bin_class(k) = 2 * 2 ^ m
      BY <3>2, <3>3, <1>10
    <3>5. SC(c)!bin_class(k - 1) = 3 * h
      BY <3>2, <3>3, <1>11
    <3>6. k \in Fixed /\ k # 0 /\ x <= SC(c)!bin_class(k) /\ SC(c)!bin_class(k - 1) < x
      <4> HIDE DEF h, k
      <4> QED
        BY <3>1, <3>3, <3>4, <3>5, <2>2, <2>9, <2>13
    <3> QED
      BY <3>6, <1>8, <1>15, <1>3
  <2> QED
    BY <2>10, <2>11, <2>12, <2>13, <1>7
<1> QED
  BY <1>3, <1>6, <1>7, <1>14, <1>15
(* The bin of a class is that class's own.                                  *)
LEMMA BinOfClass ==
  ASSUME NEW c, SC(c)!ValidConfig, NEW k \in SC(c)!FixedBins
  PROVE  SC(c)!bin_index(SC(c)!bin_class(k)) = k
<1> DEFINE x == SC(c)!bin_class(k)
           b == SC(c)!bin_index(x)
<1>1. x \in Nat /\ x <= c.EXP_CEIL
  BY ClassFacts
<1>2. /\ b \in SC(c)!FixedBins /\ x <= SC(c)!bin_class(b)
      /\ \A j \in SC(c)!FixedBins : j < b => SC(c)!bin_class(j) < x
  BY <1>1, BinIndex
<1>3. b \in Nat /\ k \in Nat
  BY <1>2, FixedBinsFacts
<1>4. ~ (k < b)
  BY <1>1, <1>2
<1>5. ~ (b < k)
  <2>1. b < k => SC(c)!bin_class(b) < x
    BY <1>2, ClassOrder
  <2>2. SC(c)!bin_class(b) \in Nat
    BY <1>2, ClassFacts
  <2> QED
    BY <2>1, <2>2, <1>1, <1>2
<1> QED
  BY <1>3, <1>4, <1>5

(* The valid block sizes are the classes and what lies above them.          *)
LEMMA BlockExact ==
  ASSUME NEW c, SC(c)!ValidConfig, NEW x \in Nat
  PROVE  SC(c)!is_block_exact(x) <=>
           x > c.EXP_CEIL \/ \E k \in SC(c)!FixedBins : x = SC(c)!bin_class(k)
<1>1. x <= c.EXP_CEIL => SC(c)!bin_index(x) \in SC(c)!FixedBins
  BY BinIndex
<1>2. ASSUME NEW k \in SC(c)!FixedBins, x = SC(c)!bin_class(k) PROVE SC(c)!bin_index(x) = k
  BY <1>2, BinOfClass
<1>3. c.EXP_CEIL \in Nat
  BY Constants
<1> QED
  BY <1>1, <1>2, <1>3 DEF SC!is_block_exact

(* floor_bin returns the last bin whose class is no larger than the size.   *)
LEMMA FloorBin ==
  ASSUME NEW c, SC(c)!ValidConfig, NEW x \in Nat, c.LNR_FLOOR <= x, x <= c.EXP_CEIL
  PROVE  /\ SC(c)!floor_bin(x) \in SC(c)!FixedBins
         /\ SC(c)!bin_class(SC(c)!floor_bin(x)) <= x
         /\ \A j \in SC(c)!FixedBins : SC(c)!bin_class(j) <= x => j <= SC(c)!floor_bin(x)
<1> DEFINE k == SC(c)!bin_index(x)
           C(j) == SC(c)!bin_class(j)
           Fixed == SC(c)!FixedBins
<1>1. k \in Fixed /\ x <= C(k) /\ \A j \in Fixed : j < k => C(j) < x
  BY BinIndex
<1>2. /\ Fixed = 0 .. SC(c)!oversize_bin - 1 /\ SC(c)!oversize_bin \in Nat
      /\ C(0) = c.LNR_FLOOR
  BY FixedBinsFacts
<1>3. \A j \in Fixed : C(j) \in Nat /\ j \in Nat
  BY ClassFacts, FixedBinsFacts
<1>4. \A i, j \in Fixed : i < j => C(i) < C(j)
  BY ClassOrder
<1>5. SC(c)!floor_bin(x) = IF C(k) <= x THEN k ELSE k - 1
  BY DEF SC!floor_bin
<1>6. CASE C(k) <= x
  <2>1. \A j \in Fixed : C(j) <= x => j <= k
    BY <1>1, <1>3, <1>4
  <2> QED
    BY <2>1, <1>1, <1>5, <1>6
<1>7. CASE ~ (C(k) <= x)
  <2>1. k # 0
    BY <1>2, <1>7
  <2>2. k - 1 \in Fixed /\ k - 1 < k
    BY <2>1, <1>1, <1>2
  <2>3. \A j \in Fixed : C(j) <= x => j <= k - 1
    <3> SUFFICES ASSUME NEW j \in Fixed, C(j) <= x PROVE j <= k - 1
      OBVIOUS
    <3>1. j # k /\ ~ (k < j)
      BY <1>1, <1>3, <1>4, <1>7
    <3> QED
      BY <3>1, <1>1, <1>3
  <2>4. C(k - 1) <= x
    BY <2>2, <1>1, <1>3
  <2> QED
    BY <2>2, <2>3, <2>4, <1>5, <1>7
<1> QED
  BY <1>6, <1>7

-----------------------------------------------------------------------------
(* Carving.                                                                *)

(* A class below EXP_FLOOR is aligned to a granule; any other is at most    *)
(* three times its alignment.                                               *)
LEMMA ClassKinds ==
  ASSUME NEW c, SC(c)!ValidConfig, NEW k \in SC(c)!FixedBins
  PROVE  \/ /\ SC(c)!bin_class(k) + c.MIN_ALIGN <= c.EXP_FLOOR
            /\ SC(c)!align_of_bin(k) = c.MIN_ALIGN
         \/ /\ c.EXP_FLOOR <= SC(c)!bin_class(k)
            /\ SC(c)!bin_class(k) <= 3 * SC(c)!align_of_bin(k)
<1>1. PICK a, l, f, e \in 0 .. WORD_BITS - 1 : Logs(c, a, l, f, e)
  BY ValidLogs
<1> DEFINE NL == SC(c)!NUM_LINEAR
           A == c.MIN_ALIGN
           L == c.LNR_FLOOR
           F == c.EXP_FLOOR
<1>2. NL \in Nat /\ A * NL = F - L
  BY <1>1, BinCounts
<1>3. A \in Nat \ {0} /\ L \in Nat \ {0} /\ F \in Nat \ {0}
  BY Constants
<1>4. CASE LinearBin(c, k)
  <2>1. k \in 0 .. NL - 1 /\ SC(c)!bin_class(k) = L + k * A /\ SC(c)!align_of_bin(k) = A
    BY <1>4 DEF LinearBin
  <2>2. k \in Int /\ k + 1 \in Int /\ NL \in Int /\ k + 1 <= NL /\ A \in Nat
    BY <2>1, <1>2, <1>3
  <2>3. (k + 1) * A <= NL * A /\ (k + 1) * A = k * A + A /\ NL * A = A * NL /\ k * A \in Int
    BY <2>2, Products
  <2> QED
    BY <2>1, <2>3, <1>2, <1>3
<1>5. ASSUME NEW i \in f - 1 .. e - 1 PROVE 2 ^ i \in Nat /\ F <= 2 * 2 ^ i
  <2>1. /\ i \in 0 .. WORD_BITS /\ i + 1 \in 0 .. WORD_BITS /\ f <= i + 1 /\ f \in 0 .. WORD_BITS
        /\ F = 2 ^ f
    BY <1>1, WordsAssumption DEF Logs
  <2> QED
    BY <2>1, Pow, PowOrder
<1>6. CASE \E i \in f - 1 .. e - 1 : BaseBin(c, k, f, i)
  BY <1>5, <1>6, <1>3 DEF BaseBin
<1>7. CASE \E i \in f - 1 .. e - 2 : MiddleBin(c, k, f, i)
  <2>1. \A i \in f - 1 .. e - 2 : i \in f - 1 .. e - 1
    BY <1>1 DEF Logs
  <2> QED
    BY <2>1, <1>5, <1>7, <1>3 DEF MiddleBin
<1> QED
  BY <1>1, <1>4, <1>6, <1>7, ClassForms

\* A block of bin k can end at `end`, within len bytes, its start aligned.
Fits(c, k, end, len) ==
  /\ SC(c)!bin_class(k) <= len
  /\ (end - SC(c)!bin_class(k)) % SC(c)!align_of_bin(k) = 0

(* Whether the start is aligned is a matter of the low bits of the end.     *)
LEMMA FitsByLowBit ==
  ASSUME NEW c, SC(c)!ValidConfig, NEW k \in SC(c)!FixedBins,
         NEW end \in 1 .. WORD - 1, end % c.MIN_ALIGN = 0, NEW len \in Int
  PROVE  Fits(c, k, end, len) <=>
           /\ SC(c)!bin_class(k) <= len
           /\ SC(c)!bin_class(k) < c.EXP_FLOOR \/ SC(c)!bin_class(k) <= 3 * LowBit(end)
<1> DEFINE C == SC(c)!bin_class(k)
           G == SC(c)!align_of_bin(k)
           F == c.EXP_FLOOR
<1>1. /\ C \in Nat \ {0} /\ G \in Nat \ {0} /\ C % G = 0 /\ 2 * G <= C
      /\ \E i \in 0 .. WORD_BITS - 1 : G = 2 ^ i
  BY ClassFacts
<1>2. PICK i \in 0 .. WORD_BITS - 1 : G = 2 ^ i
  BY <1>1
<1>3. PICK p \in 0 .. WORD_BITS - 1 :
        LowBit(end) = 2 ^ p /\ \A j \in 0 .. WORD_BITS : end % 2 ^ j = 0 <=> j <= p
  BY LowBitDivides
<1>4. i \in 0 .. WORD_BITS /\ p \in 0 .. WORD_BITS /\ 2 ^ p \in Nat \ {0} /\ end \in Int
  BY WordsAssumption, Pow, Constants
<1>5. F \in Nat /\ c.MIN_ALIGN \in Nat \ {0}
  BY Constants
<1>6. (end - C) % G = 0 <=> end % G = 0
  <2>1. (end - C) % G = 0 => end % G = 0
    <3>1. end - C \in Int /\ (end - C) + C = end
      BY <1>1, <1>4
    <3>2. (end - C) % G = 0 => ((end - C) + C) % G = 0
      BY <3>1, <1>1, ModSum
    <3> QED
      BY <3>1, <3>2
  <2>2. ASSUME end % G = 0 PROVE (end - C) % G = 0
    <3>1. C \in Int /\ G \in Nat \ {0} /\ C % G = 0
      BY <1>1
    <3> HIDE DEF C, G
    <3> QED
      BY <2>2, <3>1, <1>4, ModSum
  <2> QED
    BY <2>1, <2>2
<1>7. (end - C) % G = 0 <=> i <= p
  BY <1>2, <1>3, <1>4, <1>6
<1>8. i <= p => G <= 2 ^ p
  BY <1>2, <1>4, PowOrder
<1>9. 2 * G <= 3 * 2 ^ p => i <= p
  BY <1>1, <1>2, <1>4, PowLess
<1>10. CASE C + c.MIN_ALIGN <= F /\ G = c.MIN_ALIGN
  <2>1. C < F /\ (end - C) % G = 0
    BY <1>1, <1>5, <1>6, <1>10
  <2> QED
    BY <2>1 DEF Fits
<1>11. CASE F <= C /\ C <= 3 * G
  <2>1. i <= p => C <= 3 * 2 ^ p
    BY <1>1, <1>4, <1>8, <1>11
  <2>2. C <= 3 * 2 ^ p => i <= p
    BY <1>1, <1>4, <1>9
  <2> QED
    BY <2>1, <2>2, <1>1, <1>3, <1>5, <1>7, <1>11 DEF Fits
<1> QED
  BY <1>10, <1>11, ClassKinds
(* LargestFixed returns the largest class that fits, if any does.           *)
LEMMA LargestFixedFits ==
  ASSUME NEW c, SC(c)!ValidConfig, NEW end \in 1 .. WORD - 1, end % c.MIN_ALIGN = 0,
         NEW cap \in Nat, cap <= c.EXP_CEIL
  PROVE  \/ /\ SC(c)!LargestFixed(end, cap) = SC(c)!NothingFits
            /\ \A k \in SC(c)!FixedBins : ~ Fits(c, k, end, cap)
         \/ \E b \in SC(c)!FixedBins :
              /\ SC(c)!LargestFixed(end, cap) = [size |-> SC(c)!bin_class(b), bin |-> b]
              /\ Fits(c, b, end, cap)
              /\ \A k \in SC(c)!FixedBins : Fits(c, k, end, cap) => k <= b
<1> DEFINE A == c.MIN_ALIGN
           L == c.LNR_FLOOR
           F == c.EXP_FLOOR
           E == c.EXP_CEIL
           Fixed == SC(c)!FixedBins
           C(k) == SC(c)!bin_class(k)
           low == 3 * LowBit(end)
           limit == IF cap < F THEN cap
                    ELSE IF cap < low THEN cap
                    ELSE IF low >= F THEN low
                    ELSE F - A
           bin == SC(c)!floor_bin(limit)
<1>1. /\ A \in Nat \ {0} /\ L \in Nat \ {0} /\ F \in Nat \ {0} /\ E \in Nat \ {0}
      /\ 2 * A <= L /\ L <= F /\ F <= E
  BY Constants
<1>2. low \in Nat
  <2>1. PICK p \in 0 .. WORD_BITS - 1 : LowBit(end) = 2 ^ p
    BY LowBitDivides
  <2>2. LowBit(end) \in Nat
    BY <2>1, Pow, WordsAssumption
  <2> QED
    BY <2>2
<1>3. SC(c)!LargestFixed(end, cap) =
        IF limit < L THEN SC(c)!NothingFits ELSE [size |-> C(bin), bin |-> bin]
  <2>1. SC(c)!LowBit(end) = LowBit(end)
    BY DEF SC!LowBit, LowBit
  <2> QED
    BY <2>1 DEF SC!LargestFixed
<1>4. \A k \in Fixed : C(k) \in Nat /\ L <= C(k) /\ C(k) <= E
  BY ClassFacts
<1>5. \A k \in Fixed : Fits(c, k, end, cap) <=> C(k) <= cap /\ (C(k) < F \/ C(k) <= low)
  BY FitsByLowBit
<1>6. \A k \in Fixed : C(k) < F => C(k) <= F - A
  BY <1>1, <1>4, ClassKinds
<1>7. limit \in Nat /\ limit <= cap
  BY <1>1, <1>2
(* What fits is what the limit allows.                                      *)
<1>8. \A k \in Fixed : Fits(c, k, end, cap) <=> C(k) <= limit
  <2> SUFFICES ASSUME NEW k \in Fixed
               PROVE  (C(k) <= cap /\ (C(k) < F \/ C(k) <= low)) <=> C(k) <= limit
    BY <1>5
  <2>1. C(k) \in Nat /\ (C(k) < F => C(k) <= F - A)
    BY <1>4, <1>6
  <2> HIDE DEF low, C, F, A
  <2> QED
    BY <2>1, <1>1, <1>2
<1> HIDE DEF limit
<1>9. CASE limit < L
  <2>1. \A k \in Fixed : ~ (C(k) <= limit)
    BY <1>1, <1>4, <1>7, <1>9
  <2> QED
    BY <2>1, <1>3, <1>8, <1>9
<1>10. CASE ~ (limit < L)
  <2>1. limit \in Nat /\ L <= limit /\ limit <= E
    BY <1>1, <1>7, <1>10
  <2>2. bin \in Fixed /\ C(bin) <= limit /\ \A k \in Fixed : C(k) <= limit => k <= bin
    BY <2>1, FloorBin
  <2>3. SC(c)!LargestFixed(end, cap) = [size |-> C(bin), bin |-> bin]
    BY <1>3, <1>10
  <2> QED
    BY <2>2, <2>3, <1>8
<1> QED
  BY <1>9, <1>10

\* An oversized block of s bytes can end at `end`, within len bytes.
OverFits(c, s, end, len) == s > c.EXP_CEIL /\ s <= len /\ (end - s) % c.EXP_CEIL = 0

(* largest_carvable returns the largest oversized block that fits, or else  *)
(* the largest class that does.                                             *)
LEMMA LargestCarvable ==
  ASSUME NEW c, SC(c)!ValidConfig, NEW end \in 1 .. WORD - 1, end % c.MIN_ALIGN = 0,
         NEW len \in 0 .. end, (end - len) + c.EXP_CEIL <= WORD
  PROVE  \/ /\ SC(c)!largest_carvable(end, len) = SC(c)!NothingFits
            /\ \A k \in SC(c)!FixedBins : ~ Fits(c, k, end, len)
            /\ \A s \in Int : ~ OverFits(c, s, end, len)
         \/ \E b \in SC(c)!FixedBins :
              /\ SC(c)!largest_carvable(end, len) = [size |-> SC(c)!bin_class(b), bin |-> b]
              /\ Fits(c, b, end, len)
              /\ \A k \in SC(c)!FixedBins : Fits(c, k, end, len) => k <= b
              /\ \A s \in Int : ~ OverFits(c, s, end, len)
         \/ \E s \in Nat :
              /\ SC(c)!largest_carvable(end, len) = [size |-> s, bin |-> SC(c)!oversize_bin]
              /\ OverFits(c, s, end, len) /\ s % c.MIN_ALIGN = 0
              /\ \A r \in Int : OverFits(c, r, end, len) => r <= s
<1> DEFINE A == c.MIN_ALIGN
           L == c.LNR_FLOOR
           E == c.EXP_CEIL
           Fixed == SC(c)!FixedBins
           C(k) == SC(c)!bin_class(k)
           low == align_up(end - len, E)
           size == end - low
<1>1. /\ A \in Nat \ {0} /\ L \in Nat \ {0} /\ E \in Nat \ {0} /\ L <= E /\ E % A = 0
      /\ WORD \in Nat
  BY Constants
<1>2. end \in Nat /\ len \in Nat /\ len <= end /\ end - len \in Nat
  BY <1>1
<1>3. /\ low \in Nat /\ low % E = 0 /\ end - len <= low /\ low < (end - len) + E
      /\ \A y \in Int : y % E = 0 /\ end - len <= y => low <= y
  BY <1>1, <1>2, AlignUp, AlignUpLeast
<1>4. SC(c)!largest_carvable(end, len) =
        IF len < L THEN SC(c)!NothingFits
        ELSE IF len <= E THEN SC(c)!LargestFixed(end, len)
        ELSE IF size > E THEN [size |-> size, bin |-> SC(c)!oversize_bin]
        ELSE SC(c)!LargestFixed(end, E)
  <2>1. SC(c)!align_up(end - len, E) = low
    BY DEF SC!align_up, align_up, SC!Wrap, Wrap, SC!WORD, WORD
  <2> QED
    BY <2>1 DEF SC!largest_carvable
<1> HIDE DEF low
<1>5. size \in Int /\ size <= len /\ end - size = low
  BY <1>2, <1>3
<1>6. \A s \in Int : OverFits(c, s, end, len) => s <= size
  <2> SUFFICES ASSUME NEW s \in Int, OverFits(c, s, end, len) PROVE s <= size
    OBVIOUS
  <2>1. end - s \in Int /\ (end - s) % E = 0 /\ end - len <= end - s
    BY <1>2 DEF OverFits
  <2>2. low <= end - s
    BY <2>1, <1>3
  <2> QED
    BY <2>2, <1>2, <1>3
<1>7. \A k \in Fixed : C(k) \in Nat /\ L <= C(k) /\ C(k) <= E
  BY ClassFacts
<1>8. CASE len < L
  <2>1. \A k \in Fixed : ~ Fits(c, k, end, len)
    BY <1>1, <1>2, <1>7, <1>8 DEF Fits
  <2>2. \A s \in Int : ~ OverFits(c, s, end, len)
    BY <1>1, <1>2, <1>8 DEF OverFits
  <2> QED
    BY <2>1, <2>2, <1>4, <1>8
<1>9. CASE ~ (len < L) /\ len <= E
  <2>1. \A s \in Int : ~ OverFits(c, s, end, len)
    BY <1>1, <1>2, <1>9 DEF OverFits
  <2>2. SC(c)!largest_carvable(end, len) = SC(c)!LargestFixed(end, len)
    BY <1>4, <1>9
  <2> QED
    BY <2>1, <2>2, <1>2, <1>9, LargestFixedFits
<1>10. CASE ~ (len < L) /\ ~ (len <= E) /\ size > E
  <2>1. SC(c)!largest_carvable(end, len) = [size |-> size, bin |-> SC(c)!oversize_bin]
    BY <1>4, <1>10
  <2>2. size \in Nat /\ OverFits(c, size, end, len)
    BY <1>1, <1>2, <1>3, <1>5, <1>10 DEF OverFits
  <2>3. size % A = 0
    <3>1. low % A = 0
      <4>1. low \in Int /\ low % E = 0 /\ E \in Nat \ {0} /\ A \in Nat \ {0} /\ E % A = 0
        BY <1>1, <1>3
      <4> HIDE DEF A, E
      <4> QED
        BY <4>1, ModTrans
    <3> QED
      BY <3>1, <1>1, <1>2, <1>3, ModSum
  <2> QED
    BY <2>1, <2>2, <2>3, <1>6
<1>11. CASE ~ (len < L) /\ ~ (len <= E) /\ ~ (size > E)
  <2>1. \A s \in Int : ~ OverFits(c, s, end, len)
    BY <1>1, <1>5, <1>6, <1>11 DEF OverFits
  <2>2. SC(c)!largest_carvable(end, len) = SC(c)!LargestFixed(end, E)
    BY <1>4, <1>11
  <2>3. \A k \in Fixed : Fits(c, k, end, len) <=> Fits(c, k, end, E)
    BY <1>1, <1>2, <1>7, <1>11 DEF Fits
  <2>4. E \in Nat /\ E <= c.EXP_CEIL
    BY <1>1
  <2> QED
    BY <2>1, <2>2, <2>3, <2>4, LargestFixedFits
<1> QED
  BY <1>8, <1>9, <1>10, <1>11

-----------------------------------------------------------------------------
(* Requests.                                                               *)

(* The bytes a request needs: its payload, rounded to granules, and a       *)
(* granule for the header.                                                  *)
LEMMA Need ==
  ASSUME NEW c, SC(c)!ValidConfig, NEW x \in Nat, x + 2 * c.MIN_ALIGN <= WORD
  PROVE  /\ SC(c)!NeedOf(x) \in Nat /\ SC(c)!NeedOf(x) % c.MIN_ALIGN = 0
         /\ x + c.MIN_ALIGN <= SC(c)!NeedOf(x) /\ SC(c)!NeedOf(x) < x + 2 * c.MIN_ALIGN
<1> DEFINE A == c.MIN_ALIGN
           u == align_up(x, A)
<1>1. A \in Nat \ {0} /\ WORD \in Nat
  BY Constants
<1>2. u \in Nat /\ u % A = 0 /\ x <= u /\ u < x + A
  BY <1>1, AlignUp
<1>3. SC(c)!NeedOf(x) = u + A
  <2>1. SC(c)!align_up(x, A) = u
    BY DEF SC!align_up, align_up, SC!Wrap, Wrap, SC!WORD, WORD
  <2>2. SC(c)!Wrap(u + A) = u + A
    <3>1. SC(c)!Wrap(u + A) = (u + A) % WORD
      BY DEF SC!Wrap, SC!WORD, WORD
    <3> HIDE DEF u
    <3>2. WORD \in Nat \ {0} /\ u + A \in 0 .. WORD - 1
      BY <1>1, <1>2
    <3> QED
      BY <3>1, <3>2, SmallMod
  <2> QED
    BY <2>1, <2>2 DEF SC!NeedOf
<1> HIDE DEF u
<1>4. A % A = 0
  BY <1>1
<1>5. (u + A) % A = 0
  BY <1>1, <1>2, <1>4, ModSum
<1> QED
  BY <1>1, <1>2, <1>3, <1>5

(* The block of a request: a valid size that holds what is needed, at most  *)
(* half as much again unless it is the smallest class.                      *)
LEMMA RequestBlock ==
  ASSUME NEW c, SC(c)!ValidConfig, NEW x \in Nat, x + 2 * c.MIN_ALIGN <= WORD
  PROVE  LET size == SC(c)!request_block_size(x)
         IN /\ size \in Nat /\ SC(c)!NeedOf(x) <= size /\ size % c.MIN_ALIGN = 0
            /\ SC(c)!is_block_exact(size)
            /\ size > c.LNR_FLOOR => 2 * size <= 3 * SC(c)!NeedOf(x)
<1> DEFINE size == SC(c)!request_block_size(x)
           need == SC(c)!NeedOf(x)
           b == SC(c)!bin_index(need)
           C(k) == SC(c)!bin_class(k)
           Fixed == SC(c)!FixedBins
<1>1. need \in Nat /\ need % c.MIN_ALIGN = 0
  BY Need
<1>2. size = IF b = SC(c)!oversize_bin THEN need ELSE C(b)
  BY DEF SC!request_block_size
<1>3. /\ SC(c)!oversize_bin \in Nat /\ Fixed = 0 .. SC(c)!oversize_bin - 1
      /\ C(0) = c.LNR_FLOOR
  BY FixedBinsFacts
<1>4. c.EXP_CEIL \in Nat /\ c.LNR_FLOOR \in Nat
  BY Constants
<1> HIDE DEF need, size
<1>5. CASE need > c.EXP_CEIL
  <2>1. size = need
    BY <1>1, <1>2, <1>5, BinIndex
  <2> QED
    BY <2>1, <1>1, <1>5, BlockExact DEF need, size
<1>6. CASE ~ (need > c.EXP_CEIL)
  <2>1. b \in Fixed /\ need <= C(b) /\ \A j \in Fixed : j < b => C(j) < need
    BY <1>1, <1>4, <1>6, BinIndex
  <2>2. size = C(b)
    BY <2>1, <1>2, <1>3
  <2>3. C(b) \in Nat /\ C(b) % c.MIN_ALIGN = 0
    BY <2>1, ClassFacts
  <2>4. SC(c)!is_block_exact(size)
    BY <2>1, <2>2, <2>3, BlockExact
  <2>5. ASSUME size > c.LNR_FLOOR PROVE 2 * size <= 3 * need
    <3>1. b # 0
      BY <2>2, <2>5, <1>3, <1>4
    <3>2. b - 1 \in Fixed /\ b - 1 < b /\ b = (b - 1) + 1
      BY <3>1, <2>1, <1>3
    <3>3. C(b - 1) \in Nat /\ C(b - 1) < need
      BY <3>2, <2>1, ClassFacts
    <3>4. 2 * C(b) <= 3 * C(b - 1)
      BY <3>2, <2>1, ClassOrder
    <3> QED
      BY <3>3, <3>4, <2>2, <2>3, <1>1
  <2> QED
    BY <2>1, <2>2, <2>3, <2>4, <2>5 DEF need, size
<1> QED
  BY <1>5, <1>6
=============================================================================
