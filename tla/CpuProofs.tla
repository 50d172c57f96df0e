----------------------------- MODULE CpuProofs ------------------------------
(***************************************************************************)
(* Proofs about Cpu.                                                       *)
(***************************************************************************)
EXTENDS Cpu, WellFoundedInduction, FiniteSetTheorems, TLAPS

-----------------------------------------------------------------------------
(***************************************************************************)
(* Induction over a set of numbers, and powers of two                      *)
(***************************************************************************)
LEMMA LeastNumber ==
  ASSUME NEW T, T \subseteq Nat, T # {}
  PROVE  \E n \in T : \A m \in T : n <= m
<1>1. IsWellFoundedOn(OpToRel(<, Nat), Nat)
  BY NatLessThanWellFounded
<1>2. PICK n \in T : \A m \in T : ~(<<m, n>> \in OpToRel(<, Nat))
  BY <1>1, WFMin
<1>3. \A m \in T : ~(m < n)
  BY <1>2 DEF OpToRel
<1>. QED  BY <1>3

LEMMA Induction ==
  ASSUME NEW S, 0 \in S, \A n \in Nat : n \in S => n + 1 \in S
  PROVE  \A n \in Nat : n \in S
<1>. SUFFICES ASSUME Nat \ S # {} PROVE FALSE
  OBVIOUS
<1>1. PICK n \in Nat \ S : \A m \in Nat \ S : n <= m
  BY LeastNumber
<1>2. n # 0 /\ n - 1 \in Nat
  BY <1>1
<1>. QED  BY <1>1, <1>2

\* The provers know the powers of numerals only: elsewhere Power stays folded.
Power(n) == 2 ^ n

LEMMA PowersOfTwo ==
  /\ Power(0) = 1 /\ Power(1) = 2 /\ Power(2) = 4
  /\ Power(3) = 8 /\ Power(4) = 16 /\ Power(5) = 32
  /\ Power(6) = 64 /\ Power(7) = 128 /\ Power(8) = 256
  /\ Power(9) = 512 /\ Power(10) = 1024 /\ Power(11) = 2048
  /\ Power(12) = 4096 /\ Power(13) = 8192 /\ Power(14) = 16384
  /\ Power(15) = 32768 /\ Power(16) = 65536 /\ Power(17) = 131072
  /\ Power(18) = 262144 /\ Power(19) = 524288 /\ Power(20) = 1048576
  /\ Power(21) = 2097152 /\ Power(22) = 4194304 /\ Power(23) = 8388608
  /\ Power(24) = 16777216 /\ Power(25) = 33554432 /\ Power(26) = 67108864
  /\ Power(27) = 134217728 /\ Power(28) = 268435456 /\ Power(29) = 536870912
  /\ Power(30) = 1073741824 /\ Power(31) = 2147483648 /\ Power(32) = 4294967296
BY SMT DEF Power

LEMMA Doubling == \A n \in 0 .. 31 : Power(n + 1) = 2 * Power(n)
BY PowersOfTwo, SMTT(60)

LEMMA PowerIsPositive == \A n \in 0 .. 32 : Power(n) \in Nat /\ Power(n) > 0
<1> DEFINE S == {n \in Nat : n <= 32 => Power(n) \in Nat /\ Power(n) > 0}
<1>1. 0 \in S
  BY PowersOfTwo
<1>2. ASSUME NEW n \in Nat, n \in S PROVE n + 1 \in S
  BY <1>2, Doubling
<1>. HIDE DEF S
<1>3. \A n \in Nat : n \in S
  BY <1>1, <1>2, Induction
<1>. QED  BY <1>3 DEF S

LEMMA SumOfPowers == \A m, n \in Nat : m + n <= 32 => Power(m + n) = Power(m) * Power(n)
<1>. SUFFICES ASSUME NEW m \in Nat
              PROVE  \A n \in Nat : m + n <= 32 => Power(m + n) = Power(m) * Power(n)
  OBVIOUS
<1> DEFINE S == {n \in Nat : m + n <= 32 => Power(m + n) = Power(m) * Power(n)}
<1>1. 0 \in S
  BY PowersOfTwo, PowerIsPositive
<1>2. ASSUME NEW n \in Nat, n \in S PROVE n + 1 \in S
  <2>. SUFFICES ASSUME m + n + 1 <= 32 PROVE Power(m + (n + 1)) = Power(m) * Power(n + 1)
    OBVIOUS
  <2>1. Power((m + n) + 1) = 2 * Power(m + n) /\ Power(n + 1) = 2 * Power(n)
    BY Doubling
  <2>2. Power(m + n) = Power(m) * Power(n)
    BY <1>2
  <2>3. PICK x \in Nat : x = Power(m)
    BY PowerIsPositive
  <2>4. PICK y \in Nat : y = Power(n)
    BY PowerIsPositive
  <2>5. 2 * (x * y) = x * (2 * y)
    OBVIOUS
  <2>6. (m + n) + 1 = m + (n + 1)
    OBVIOUS
  <2>. QED  BY <2>1, <2>2, <2>3, <2>4, <2>5, <2>6
<1>. HIDE DEF S
<1>3. \A n \in Nat : n \in S
  BY <1>1, <1>2, Induction
<1>. QED  BY <1>3 DEF S

-----------------------------------------------------------------------------
(***************************************************************************)
(* Words                                                                   *)
(***************************************************************************)
LEMMA Sizes ==
  /\ ByteSize \in 1 .. 8 /\ WordSize = 4 * ByteSize /\ HalfSize = 2 * ByteSize
  /\ WordSize \in 4 .. 32 /\ HalfSize \in 2 .. 16
<1>1. PICK k \in 1 .. 8 : WordSize = 4 * k
  BY MipsAssumption
<1>2. WordSize \div 4 = k /\ WordSize \div 2 = 2 * k
  BY <1>1
<1>. QED  BY <1>1, <1>2 DEF ByteSize, HalfSize

\* The numbers of words, of half-words and of bytes.
LEMMA Moduli ==
  /\ Power(WordSize - 1) \in Nat /\ Power(WordSize - 1) >= 8
  /\ Power(WordSize) = 2 * Power(WordSize - 1)
  /\ Power(ByteSize) \in Nat /\ Power(ByteSize) >= 2
  /\ Power(HalfSize) = Power(ByteSize) * Power(ByteSize)
  /\ Power(WordSize) = Power(HalfSize) * Power(HalfSize)
  /\ \A n \in 1 .. HalfSize : Power(n) <= Power(WordSize - 1)
<1>1. Power(WordSize - 1) = Power(3) * Power(WordSize - 4)
  BY SumOfPowers, Sizes, (WordSize - 4) + 3 = WordSize - 1
<1>2. Power(3) = 8 /\ Power(1) = 2
  BY PowersOfTwo
<1>3. Power(WordSize - 4) \in Nat /\ Power(WordSize - 4) >= 1
  BY PowerIsPositive, Sizes
<1>4. Power((WordSize - 1) + 1) = 2 * Power(WordSize - 1)
  BY Doubling, Sizes
<1>5. Power(ByteSize) = Power(1) * Power(ByteSize - 1)
  BY SumOfPowers, Sizes, 1 + (ByteSize - 1) = ByteSize
<1>6. Power(ByteSize - 1) \in Nat /\ Power(ByteSize - 1) >= 1
  BY PowerIsPositive, Sizes
<1>7. HalfSize = ByteSize + ByteSize /\ WordSize = HalfSize + HalfSize
  BY Sizes
<1>8. Power(HalfSize) = Power(ByteSize) * Power(ByteSize)
  BY <1>7, SumOfPowers, Sizes
<1>9. Power(WordSize) = Power(HalfSize) * Power(HalfSize)
  BY <1>7, SumOfPowers, Sizes
<1>10. ASSUME NEW n \in 1 .. HalfSize PROVE Power(n) <= Power(WordSize - 1)
  <2>1. Power(WordSize - 1) = Power(n) * Power(WordSize - 1 - n)
    BY SumOfPowers, Sizes, n + (WordSize - 1 - n) = WordSize - 1
  <2>2. PICK x \in Nat : x = Power(n)
    BY PowerIsPositive, Sizes
  <2>3. PICK y \in Nat : y = Power(WordSize - 1 - n) /\ y > 0
    BY PowerIsPositive, Sizes
  <2>4. x <= x * y
    BY <2>3
  <2>. QED  BY <2>1, <2>2, <2>3, <2>4
<1>11. (WordSize - 1) + 1 = WordSize
  BY Sizes
<1>. QED  BY <1>1, <1>2, <1>3, <1>4, <1>5, <1>6, <1>8, <1>9, <1>10, <1>11

LEMMA WordIs == Word = -Power(WordSize - 1) .. Power(WordSize - 1) - 1
BY DEF Word, Power

LEMMA BitsAre ==
  ASSUME NEW n \in 1 .. 32, NEW x \in Int
  PROVE  /\ Bits(x, n) = x % Power(n)
         /\ Bits(x, n) \in 0 .. Power(n) - 1
<1>1. Bits(x, n) = x % Power(n)
  BY DEF Bits, Power
<1>2. Power(n) \in Nat /\ Power(n) > 0
  BY PowerIsPositive
<1>. QED  BY <1>1, <1>2

LEMMA SignedIs ==
  ASSUME NEW n \in 1 .. 32, NEW x \in Int
  PROVE  /\ Signed(x, n) = IF Bits(x, n) < Power(n - 1) THEN Bits(x, n) ELSE Bits(x, n) - Power(n)
         /\ Signed(x, n) \in -Power(n - 1) .. Power(n - 1) - 1
<1>1. Signed(x, n) = IF Bits(x, n) < Power(n - 1) THEN Bits(x, n) ELSE Bits(x, n) - Power(n)
  BY DEF Signed, Power
<1>2. Power((n - 1) + 1) = 2 * Power(n - 1) /\ (n - 1) + 1 = n
  BY Doubling
<1>3. PICK h \in Nat : h = Power(n - 1)
  BY PowerIsPositive
<1>4. PICK b \in 0 .. 2 * h - 1 : b = Bits(x, n)
  BY <1>2, <1>3, BitsAre
<1>5. Signed(x, n) = IF b < h THEN b ELSE b - 2 * h
  BY <1>1, <1>2, <1>3, <1>4
<1>6. Signed(x, n) \in -h .. h - 1
  BY <1>5
<1>. QED  BY <1>1, <1>3, <1>6

\* An int made from any number.
LEMMA Int32IsWord ==
  ASSUME NEW x \in Int
  PROVE  Int32(x) \in Word /\ Unsigned(x) \in 0 .. Power(WordSize) - 1
<1>1. WordSize \in 1 .. 32
  BY Sizes
<1>2. Signed(x, WordSize) \in -Power(WordSize - 1) .. Power(WordSize - 1) - 1
  BY <1>1, SignedIs
<1>3. Bits(x, WordSize) \in 0 .. Power(WordSize) - 1
  BY <1>1, BitsAre
<1>. QED  BY <1>2, <1>3, WordIs DEF Int32, Unsigned

LEMMA WordsAreInts == Word \subseteq Int /\ 0 \in Word /\ 1 \in Word /\ -1 \in Word /\ 4 \in Word
BY WordIs, Moduli

LEMMA Divides ==
  ASSUME NEW a \in Int, NEW n \in Nat \ {0}
  PROVE  /\ a \div n \in Int /\ a % n \in 0 .. (n - 1)
         /\ a = n * (a \div n) + (a % n)
OBVIOUS

LEMMA QuotientIs ==
  ASSUME NEW n \in Nat \ {0}, NEW q \in Int, NEW r \in 0 .. (n - 1)
  PROVE  (n * q + r) \div n = q /\ (n * q + r) % n = r
OBVIOUS

LEMMA OnceMore ==
  ASSUME NEW n \in Nat \ {0}, NEW r \in 0 .. (n - 1)
  PROVE  (n + r) \div n = 1 /\ (n + r) % n = r
OBVIOUS

LEMMA DividesTwice ==
  ASSUME NEW a \in Int, NEW m \in Nat \ {0}, NEW n \in Nat \ {0}
  PROVE  a \div (m * n) = (a \div m) \div n
<1>1. PICK q \in Int, r \in 0 .. m - 1 : a = m * q + r /\ a \div m = q
  BY Divides
<1>2. PICK p \in Int, s \in 0 .. n - 1 : q = n * p + s /\ q \div n = p
  BY Divides
<1>3. a = (m * n) * p + (m * s + r)
  BY <1>1, <1>2
<1>4. m * s + r \in 0 .. m * n - 1
  <2>1. m * s <= m * (n - 1) /\ m * s >= 0
    OBVIOUS
  <2>2. m * (n - 1) = m * n - m
    OBVIOUS
  <2>. QED  BY <2>1, <2>2
<1>5. PICK k \in Nat \ {0} : k = m * n
  <2>1. m * n \in Nat \ {0}
    OBVIOUS
  <2>. QED  BY <2>1
<1>6. PICK t \in 0 .. k - 1 : t = m * s + r
  BY <1>4, <1>5
<1>7. a \div k = p
  BY <1>3, <1>5, <1>6, QuotientIs
<1>. QED  BY <1>1, <1>2, <1>5, <1>7

-----------------------------------------------------------------------------
(***************************************************************************)
(* Every choice of bits is the bits of a number, so that &, | and ^ have   *)
(* results.                                                                *)
(***************************************************************************)
LEMMA BitIs ==
  ASSUME NEW x \in Int, NEW n \in 0 .. 31
  PROVE  /\ Bit(x, n) = (x \div Power(n)) % 2
         /\ Bit(x, n) \in {0, 1}
<1>1. Bit(x, n) = (x \div Power(n)) % 2
  BY DEF Bit, Power
<1>2. Power(n) \in Nat \ {0}
  BY PowerIsPositive
<1>3. x \div Power(n) \in Int
  BY <1>2, Divides
<1>4. PICK q \in Int : q = x \div Power(n)
  BY <1>3
<1>5. q % 2 \in {0, 1}
  OBVIOUS
<1>. QED  BY <1>1, <1>4, <1>5

LEMMA AnyBits ==
  \A n \in Nat : n <= 32 =>
    \A bit \in [Nat -> {0, 1}] :
      \E x \in 0 .. Power(n) - 1 : \A i \in 0 .. n - 1 : Bit(x, i) = bit[i]
<1> DEFINE S == {n \in Nat : n <= 32 =>
                  \A bit \in [Nat -> {0, 1}] :
                    \E x \in 0 .. Power(n) - 1 : \A i \in 0 .. n - 1 : Bit(x, i) = bit[i]}
<1>1. 0 \in S
  BY PowersOfTwo
<1>2. ASSUME NEW n \in Nat, n \in S, n + 1 <= 32, NEW bit \in [Nat -> {0, 1}]
      PROVE  \E x \in 0 .. Power(n + 1) - 1 : \A i \in 0 .. (n + 1) - 1 : Bit(x, i) = bit[i]
  <2>. n \in 0 .. 31
    BY <1>2
  <2>1. PICK rest \in [Nat -> {0, 1}] : \A i \in Nat : rest[i] = bit[i + 1]
    <3>1. [i \in Nat |-> bit[i + 1]] \in [Nat -> {0, 1}]
      OBVIOUS
    <3>. QED  BY <3>1
  <2>2. PICK y \in 0 .. Power(n) - 1 : \A i \in 0 .. n - 1 : Bit(y, i) = rest[i]
    BY <1>2
  <2>3. PICK b \in {0, 1} : b = bit[0]
    OBVIOUS
  <2>4. PICK x \in Nat : x = 2 * y + b
    BY PowerIsPositive
  <2>5. x \in 0 .. Power(n + 1) - 1
    <3>1. Power(n + 1) = 2 * Power(n) /\ Power(n) \in Nat
      BY Doubling, PowerIsPositive
    <3>. QED  BY <3>1, <2>4
  <2>6. x \div 2 = y /\ x % 2 = b
    BY <2>4
  <2>7. Bit(x, 0) = bit[0]
    <3>1. x \div 1 = x
      OBVIOUS
    <3>. QED  BY <2>3, <2>6, <3>1, PowersOfTwo, BitIs
  <2>8. ASSUME NEW i \in 1 .. n PROVE Bit(x, i) = bit[i]
    <3>. i - 1 \in 0 .. 31 /\ i \in 0 .. 31
      OBVIOUS
    <3>1. Power((i - 1) + 1) = 2 * Power(i - 1) /\ Power(i - 1) \in Nat \ {0} /\ (i - 1) + 1 = i
      BY Doubling, PowerIsPositive
    <3>2. x \div Power(i) = y \div Power(i - 1)
      BY <3>1, <2>6, DividesTwice
    <3>. x \in Int /\ y \in Int
      BY PowerIsPositive
    <3>3. Bit(x, i) = Bit(y, i - 1)
      <4>1. Bit(x, i) = (x \div Power(i)) % 2
        BY BitIs
      <4>2. Bit(y, i - 1) = (y \div Power(i - 1)) % 2
        BY BitIs
      <4>. QED  BY <4>1, <4>2, <3>2
    <3>4. Bit(y, i - 1) = rest[i - 1]
      BY <2>2
    <3>5. rest[i - 1] = bit[(i - 1) + 1]
      BY <2>1
    <3>. QED  BY <3>1, <3>3, <3>4, <3>5
  <2>9. ASSUME NEW i \in 0 .. (n + 1) - 1 PROVE Bit(x, i) = bit[i]
    <3>1. i = 0 \/ i \in 1 .. n
      OBVIOUS
    <3>. QED  BY <3>1, <2>7, <2>8
  <2>. QED  BY <2>5, <2>9
<1>3. ASSUME NEW n \in Nat, n \in S PROVE n + 1 \in S
  BY <1>2, <1>3
<1>. HIDE DEF S
<1>4. \A n \in Nat : n \in S
  BY <1>1, <1>3, Induction
<1>. QED  BY <1>4 DEF S

LEMMA WithBitsIs ==
  ASSUME NEW bit \in [0 .. WordSize - 1 -> {0, 1}]
  PROVE  /\ WithBits(bit) \in 0 .. Power(WordSize) - 1
         /\ \A n \in 0 .. WordSize - 1 : Bit(WithBits(bit), n) = bit[n]
<1> DEFINE all == [i \in Nat |-> IF i < WordSize THEN bit[i] ELSE 0]
<1>1. all \in [Nat -> {0, 1}]
  BY Sizes
<1>2. \E x \in 0 .. Power(WordSize) - 1 : \A n \in 0 .. WordSize - 1 : Bit(x, n) = all[n]
  <2>1. WordSize \in Nat /\ WordSize <= 32
    BY Sizes
  <2>. HIDE DEF all
  <2>. QED  BY <1>1, <2>1, AnyBits
<1>3. \A n \in 0 .. WordSize - 1 : all[n] = bit[n]
  BY Sizes
<1>4. \E x \in 0 .. 2 ^ WordSize - 1 : \A n \in 0 .. WordSize - 1 : Bit(x, n) = bit[n]
  BY <1>2, <1>3 DEF Power
<1>5. /\ WithBits(bit) \in 0 .. 2 ^ WordSize - 1
      /\ \A n \in 0 .. WordSize - 1 : Bit(WithBits(bit), n) = bit[n]
  BY <1>4 DEF WithBits
<1>. QED  BY <1>5 DEF Power

LEMMA BitwiseResults ==
  ASSUME NEW a \in Int, NEW b \in Int
  PROVE  /\ And(a, b) \in 0 .. Power(WordSize) - 1
         /\ Or(a, b) \in 0 .. Power(WordSize) - 1
         /\ Xor(a, b) \in 0 .. Power(WordSize) - 1
<1>1. \A n \in 0 .. WordSize - 1 : Bit(a, n) \in {0, 1} /\ Bit(b, n) \in {0, 1}
  BY BitIs, Sizes
<1>2. [n \in 0 .. WordSize - 1 |-> Bit(a, n) * Bit(b, n)] \in [0 .. WordSize - 1 -> {0, 1}]
  BY <1>1
<1>3. [n \in 0 .. WordSize - 1 |-> IF Bit(a, n) + Bit(b, n) = 0 THEN 0 ELSE 1]
        \in [0 .. WordSize - 1 -> {0, 1}]
  OBVIOUS
<1>4. [n \in 0 .. WordSize - 1 |-> (Bit(a, n) + Bit(b, n)) % 2] \in [0 .. WordSize - 1 -> {0, 1}]
  BY <1>1
<1>. QED  BY <1>2, <1>3, <1>4, WithBitsIs DEF And, Or, Xor

-----------------------------------------------------------------------------
(***************************************************************************)
(* Mult.  The state of its loop is s; uA and uB are the operands without   *)
(* their signs.  After i rounds the low i bits of uA have been multiplied. *)
(***************************************************************************)
Below == 0 .. Power(WordSize) - 1

MultStates ==
  [a : Word, bLo : Below, bHi : Below, lo : Below, hi : Below, done : BOOLEAN]

LEMMA UnsignedIs == \A x \in Int : Unsigned(x) = x % Power(WordSize) /\ Unsigned(x) \in Below
<1>. SUFFICES ASSUME NEW x \in Int PROVE Unsigned(x) = x % Power(WordSize) /\ Unsigned(x) \in Below
  OBVIOUS
<1>1. WordSize \in 1 .. 32
  BY Sizes
<1>. QED  BY <1>1, BitsAre DEF Unsigned, Below

LEMMA HalveWord == \A x \in Word : x \div 2 \in Word
<1>1. PICK h \in Nat : h = Power(WordSize - 1) /\ h >= 8
  BY Moduli
<1>2. \A x \in -h .. h - 1 : x \div 2 \in -h .. h - 1
  BY <1>1
<1>. QED  BY <1>1, <1>2, WordIs

\* The double-length numbers of a state.
Sum(s)  == s.hi * Power(WordSize) + s.lo
Addend(s) == s.bHi * Power(WordSize) + s.bLo

LEMMA AddBitAdds ==
  ASSUME NEW s \in MultStates, Sum(s) + Addend(s) < Power(WordSize) * Power(WordSize)
  PROVE  /\ AddBit(s) \in MultStates
         /\ Sum(AddBit(s)) = Sum(s) + Addend(s)
         /\ AddBit(s).a = s.a /\ AddBit(s).done = s.done
         /\ Addend(AddBit(s)) = Addend(s)
<1>1. PICK m \in Nat : m = Power(WordSize) /\ m > 1
  BY Moduli
<1>2. PICK lo \in 0 .. m - 1, hi \in 0 .. m - 1, bLo \in 0 .. m - 1, bHi \in 0 .. m - 1 :
        lo = s.lo /\ hi = s.hi /\ bLo = s.bLo /\ bHi = s.bHi
  BY <1>1 DEF MultStates, Below
<1>3. PICK low \in 0 .. m - 1 : low = Unsigned(lo + bLo)
  BY <1>1, UnsignedIs DEF Below
<1>4. PICK c \in {0, 1} : c = IF low < bLo THEN 1 ELSE 0
  OBVIOUS
<1>5. lo + bLo = m * c + low
  <2>1. low = (lo + bLo) % m
    BY <1>1, <1>3, UnsignedIs
  <2>2. CASE lo + bLo < m
    BY <2>1, <2>2, <1>4
  <2>3. CASE lo + bLo >= m
    <3>0. PICK r \in 0 .. m - 1 : r = lo + bLo - m
      BY <2>3, <1>1
    <3>1. (m + r) % m = r
      BY <1>1, OnceMore
    <3>2. m + r = lo + bLo
      BY <3>0, <1>1
    <3>. QED  BY <2>1, <2>3, <3>0, <3>1, <3>2, <1>4
  <2>. QED  BY <2>2, <2>3
<1>6. PICK h \in Nat : h = hi + c + bHi
  OBVIOUS
<1>7. Sum(s) + Addend(s) = m * h + low
  <2>1. Sum(s) + Addend(s) = m * (hi + bHi) + (lo + bLo)
    BY <1>1, <1>2 DEF Sum, Addend
  <2>. QED  BY <2>1, <1>5, <1>6
<1>8. h < m
  <2>1. m * h < m * m
    BY <1>1, <1>7
  <2>. QED  BY <2>1, <1>1
<1>9. Unsigned(hi + c + bHi) = h
  <2>1. h % m = h
    BY <1>8
  <2>. QED  BY <2>1, <1>1, <1>6, UnsignedIs
<1>10. AddBit(s) = [s EXCEPT !.lo = low, !.hi = h]
  BY <1>2, <1>3, <1>4, <1>9 DEF AddBit
<1>11. AddBit(s) \in MultStates
  <2>1. h \in Below /\ low \in Below
    BY <1>8, <1>1 DEF Below
  <2>. QED  BY <1>10, <2>1 DEF MultStates
<1>12. AddBit(s).lo = low /\ AddBit(s).hi = h /\ AddBit(s).a = s.a /\ AddBit(s).done = s.done
       /\ AddBit(s).bLo = s.bLo /\ AddBit(s).bHi = s.bHi
  BY <1>10 DEF MultStates
<1>. QED  BY <1>1, <1>7, <1>11, <1>12 DEF Sum, Addend

LEMMA ShiftBitDoubles ==
  ASSUME NEW s \in MultStates, 2 * Addend(s) < Power(WordSize) * Power(WordSize)
  PROVE  /\ ShiftBit(s) \in MultStates
         /\ Addend(ShiftBit(s)) = 2 * Addend(s)
         /\ ShiftBit(s).a = s.a \div 2 /\ ShiftBit(s).done = s.done
         /\ Sum(ShiftBit(s)) = Sum(s)
<1>1. PICK half \in Nat : half = Power(WordSize - 1) /\ half >= 8
  BY Moduli
<1>2. PICK m \in Nat : m = Power(WordSize) /\ m = 2 * half
  BY Moduli, <1>1
<1>3. PICK bLo \in 0 .. m - 1, bHi \in 0 .. m - 1 : bLo = s.bLo /\ bHi = s.bHi
  BY <1>2 DEF MultStates, Below
<1>4. 2 * bHi < m
  <2>1. 2 * Addend(s) = m * (2 * bHi) + 2 * bLo
    BY <1>2, <1>3 DEF Addend
  <2>2. m * (2 * bHi) < m * m
    BY <2>1, <1>2
  <2>. QED  BY <2>2, <1>1, <1>2
<1>5. Unsigned(2 * bHi) = 2 * bHi
  BY <1>2, <1>4, UnsignedIs
<1>6. PICK c \in {0, 1}, low \in 0 .. m - 1 : c = bLo \div half /\ low = Unsigned(2 * bLo) /\ 2 * bLo = m * c + low
  <2>1. CASE bLo < half
    <3>1. bLo \div half = 0 /\ (2 * bLo) % m = 2 * bLo
      BY <2>1, <1>1, <1>2
    <3>. QED  BY <3>1, <2>1, <1>2, UnsignedIs
  <2>2. CASE bLo >= half
    <3>1. PICK q \in 0 .. half - 1 : q = bLo - half
      BY <2>2, <1>1, <1>2
    <3>2. PICK r \in 0 .. m - 1 : r = 2 * bLo - m
      BY <2>2, <1>1, <1>2
    <3>3. half + q = bLo /\ m + r = 2 * bLo
      BY <1>1, <1>2, <3>1, <3>2
    <3>4. (half + q) \div half = 1
      BY <1>1, OnceMore
    <3>5. (m + r) % m = r
      BY <1>1, <1>2, OnceMore
    <3>6. bLo \div half = 1
      BY <3>3, <3>4
    <3>7. (2 * bLo) % m = r
      BY <3>3, <3>5
    <3>8. Unsigned(2 * bLo) = r
      BY <3>7, <1>2, UnsignedIs
    <3>. QED  BY <3>3, <3>6, <3>8
  <2>. QED  BY <2>1, <2>2
<1>7. PICK h \in 0 .. m - 1 : h = 2 * bHi + c
  BY <1>4, <1>2
<1>8. ShiftBit(s) = [s EXCEPT !.bHi = h, !.bLo = low, !.a = s.a \div 2]
  BY <1>1, <1>3, <1>5, <1>6, <1>7 DEF ShiftBit, Power
<1>9. s.a \div 2 \in Word
  BY HalveWord DEF MultStates
<1>10. ShiftBit(s) \in MultStates
  BY <1>8, <1>9, <1>2 DEF MultStates, Below
<1>11. ShiftBit(s).bLo = low /\ ShiftBit(s).bHi = h /\ ShiftBit(s).a = s.a \div 2 /\ ShiftBit(s).done = s.done
       /\ ShiftBit(s).lo = s.lo /\ ShiftBit(s).hi = s.hi
  BY <1>8 DEF MultStates
<1>12. h * m + low = 2 * (bHi * m + bLo)
  BY <1>6, <1>7
<1>. QED  BY <1>2, <1>3, <1>10, <1>11, <1>12 DEF Sum, Addend

\* After i rounds of a * b: r is what has been multiplied, q what is left.
MultInv(i, s, a, b) ==
  /\ s \in MultStates
  /\ s.done => Sum(s) = Unsigned(b) * Unsigned(a)
  /\ ~s.done =>
       \E r, q \in Nat :
         /\ q < Power(WordSize - i)
         /\ Unsigned(a) = r + Power(i) * q
         /\ s.a = IF a < 0 THEN q - Power(WordSize - i) ELSE q
         /\ Sum(s) = Unsigned(b) * r
         /\ Addend(s) = Unsigned(b) * Power(i)

LEMMA MultStarts ==
  ASSUME NEW a \in Word, NEW b \in Word
  PROVE  MultInv(0, MultStart(a, b), a, b)
<1>1. PICK half \in Nat : half = Power(WordSize - 1) /\ half >= 8 /\ Power(WordSize) = 2 * half
  BY Moduli
<1>2. a \in -half .. half - 1 /\ b \in Int
  BY <1>1, WordIs, WordsAreInts
<1>3. PICK q \in 0 .. 2 * half - 1 : q = Unsigned(a)
  BY <1>1, <1>2, UnsignedIs DEF Below
<1>4. a = IF a < 0 THEN q - 2 * half ELSE q
  <2>1. q = a % (2 * half)
    BY <1>1, <1>2, <1>3, UnsignedIs
  <2>. QED  BY <2>1, <1>1, <1>2
<1>5. PICK u \in Below : u = Unsigned(b)
  BY <1>2, UnsignedIs
<1>6. u \in Nat /\ u * 0 = 0 /\ u * 1 = u /\ 0 \in Below
  BY <1>1, <1>5 DEF Below
<1>7. MultStart(a, b) = [a |-> a, bLo |-> u, bHi |-> 0, lo |-> 0, hi |-> 0, done |-> FALSE]
  BY <1>5 DEF MultStart
<1>8. MultStart(a, b) \in MultStates
  BY <1>5, <1>6, <1>7 DEF MultStates
<1>9. Sum(MultStart(a, b)) = u * 0 /\ Addend(MultStart(a, b)) = u * 1
  BY <1>1, <1>6, <1>7 DEF Sum, Addend
<1>10. Power(0) = 1 /\ Power(WordSize - 0) = 2 * half
  BY <1>1, PowersOfTwo, Sizes, WordSize - 0 = WordSize
<1>11. /\ q < Power(WordSize - 0)
       /\ Unsigned(a) = 0 + Power(0) * q
       /\ MultStart(a, b).a = IF a < 0 THEN q - Power(WordSize - 0) ELSE q
       /\ Sum(MultStart(a, b)) = Unsigned(b) * 0
       /\ Addend(MultStart(a, b)) = Unsigned(b) * Power(0)
  BY <1>3, <1>4, <1>5, <1>7, <1>9, <1>10
<1>12. ~MultStart(a, b).done
  BY <1>7
<1>13. q \in Nat
  BY <1>3
<1>. QED  BY <1>8, <1>11, <1>12, <1>13 DEF MultInv

LEMMA MultSteps ==
  ASSUME NEW a \in Word, NEW b \in Word, NEW i \in 0 .. WordSize - 1, NEW s,
         MultInv(i, s, a, b)
  PROVE  MultInv(i + 1, MultRound(s), a, b)
<1>1. CASE s.done
  <2>1. MultRound(s) = s
    BY <1>1 DEF MultRound
  <2>. QED  BY <1>1, <2>1 DEF MultInv
<1>2. CASE ~s.done
  <2>1. PICK m \in Nat, half \in Nat :
          m = Power(WordSize) /\ half = Power(WordSize - 1) /\ half >= 8 /\ m = 2 * half
    BY Moduli
  <2>2. PICK p \in Nat, n \in Nat :
          p = Power(i) /\ n = Power(WordSize - (i + 1)) /\ n > 0 /\ p > 0
          /\ Power(i + 1) = 2 * p /\ Power(WordSize - i) = 2 * n /\ m = (2 * p) * n
    <3>1. i \in 0 .. 31 /\ WordSize - (i + 1) \in 0 .. 31 /\ (WordSize - (i + 1)) + 1 = WordSize - i
          /\ (i + 1) + (WordSize - (i + 1)) = WordSize /\ i + 1 \in Nat
      BY Sizes
    <3>2. Power(i) \in Nat /\ Power(i) > 0 /\ Power(WordSize - (i + 1)) \in Nat
          /\ Power(WordSize - (i + 1)) > 0
      BY <3>1, PowerIsPositive
    <3>3. Power(i + 1) = 2 * Power(i) /\ Power(WordSize - i) = 2 * Power(WordSize - (i + 1))
      BY <3>1, Doubling
    <3>4. Power(WordSize) = Power(i + 1) * Power(WordSize - (i + 1))
      BY <3>1, SumOfPowers, Sizes
    <3>. QED  BY <3>2, <3>3, <3>4, <2>1
  <2>3. PICK r \in Nat, q \in Nat :
          /\ q < 2 * n
          /\ Unsigned(a) = r + p * q
          /\ s.a = IF a < 0 THEN q - 2 * n ELSE q
          /\ Sum(s) = Unsigned(b) * r
          /\ Addend(s) = Unsigned(b) * p
    BY <1>2, <2>2 DEF MultInv
  <2>4. PICK u \in 0 .. m - 1 : u = Unsigned(b)
    BY <2>1, UnsignedIs, WordsAreInts DEF Below
  <2>5. s \in MultStates
    BY DEF MultInv
  <2>6. PICK c \in {0, 1}, k \in Nat : q = 2 * k + c /\ q % 2 = c /\ k < n
    <3>1. q \div 2 \in Nat /\ q % 2 \in {0, 1} /\ q = 2 * (q \div 2) + (q % 2)
      OBVIOUS
    <3>. QED  BY <3>1, <2>3
  <2>7. s.a % 2 = c /\ s.a \div 2 = IF a < 0 THEN k - n ELSE k
    BY <2>3, <2>6
  <2>8. PICK x \in Nat : x = r + p * c
    BY <2>2
  <2>9. Unsigned(a) = x + (2 * p) * k
    <3>1. p * (2 * k + c) = (2 * p) * k + p * c
      OBVIOUS
    <3>. QED  BY <2>3, <2>6, <2>8, <3>1
  <2>10. x < m
    <3>1. (2 * p) * k \in Nat
      OBVIOUS
    <3>2. Unsigned(a) < m
      BY <2>1, UnsignedIs, WordsAreInts DEF Below
    <3>. QED  BY <2>9, <3>1, <3>2, <2>1
  <2>11. u * x = u * r + (u * p) * c
    BY <2>2, <2>8
  <2>12. 2 * (u * p) < m * m /\ u * (2 * p) = 2 * (u * p)
    <3>1. PICK w \in Nat : w = 2 * p
      OBVIOUS
    <3>2. w <= m
      <4>1. w <= w * n
        BY <2>2
      <4>. QED  BY <4>1, <3>1, <2>2
    <3>3. u * w <= u * m
      BY <3>2
    <3>4. u * m < m * m
      BY <2>1
    <3>5. u * (2 * p) = 2 * (u * p)
      OBVIOUS
    <3>. QED  BY <3>1, <3>3, <3>4, <3>5
  <2> DEFINE t == IF s.a % 2 = 1 THEN AddBit(s) ELSE s
  <2>13. t \in MultStates /\ Sum(t) = u * x /\ Addend(t) = u * p /\ t.a = s.a /\ ~t.done
    <3>1. CASE c = 1
      <4>1. Sum(s) + Addend(s) = u * x
        BY <2>3, <2>4, <2>11, <3>1
      <4>2. u * x < m * m
        <5>1. u * x <= m * x
          BY <2>4
        <5>2. m * x < m * m
          BY <2>10, <2>1
        <5>. QED  BY <5>1, <5>2
      <4>3. /\ AddBit(s) \in MultStates /\ Sum(AddBit(s)) = Sum(s) + Addend(s)
            /\ AddBit(s).a = s.a /\ AddBit(s).done = s.done /\ Addend(AddBit(s)) = Addend(s)
        BY <4>1, <4>2, <2>1, <2>5, AddBitAdds
      <4>. QED  BY <4>1, <4>3, <2>3, <2>4, <2>7, <3>1, <1>2
    <3>2. CASE c = 0
      <4>1. u * x = u * r
        BY <2>11, <3>2
      <4>. QED  BY <4>1, <2>3, <2>4, <2>5, <2>7, <3>2, <1>2
    <3>. QED  BY <3>1, <3>2
  <2>. HIDE DEF t
  <2>14. CASE s.a % 2 = 1 /\ Unsigned(s.a) \div 2 = 0
    <3>1. MultRound(s) = [t EXCEPT !.done = TRUE]
      BY <1>2, <2>14 DEF MultRound, t
    <3>2. [t EXCEPT !.done = TRUE] \in MultStates /\ Sum([t EXCEPT !.done = TRUE]) = u * x
          /\ [t EXCEPT !.done = TRUE].done
      BY <2>13 DEF MultStates, Sum
    <3>3. s.a = 1
      <4>1. PICK y \in -half .. half - 1 : y = s.a
        BY <2>5, <2>1, WordIs DEF MultStates
      <4>0. Unsigned(y) = y % m /\ Unsigned(y) \in 0 .. m - 1
        BY <2>1, UnsignedIs DEF Below
      <4>2. PICK v \in 0 .. m - 1 : v = Unsigned(y) /\ v = y % m
        BY <4>0
      <4>3. v \in {0, 1}
        BY <4>1, <4>2, <2>14
      <4>4. IF y < 0 THEN v = y + m ELSE v = y
        BY <4>1, <4>2, <2>1
      <4>. QED  BY <4>1, <4>3, <4>4, <2>1, <2>14
    <3>4. ~(a < 0) /\ k = 0 /\ c = 1
      BY <3>3, <2>3, <2>6, <2>7, WordsAreInts
    <3>5. Unsigned(a) = x
      BY <2>9, <3>4
    <3>. QED  BY <3>1, <3>2, <3>5, <2>4 DEF MultInv
  <2>15. CASE ~(s.a % 2 = 1 /\ Unsigned(s.a) \div 2 = 0)
    <3>1. MultRound(s) = ShiftBit(t)
      BY <1>2, <2>15 DEF MultRound, t
    <3>2. /\ ShiftBit(t) \in MultStates /\ Addend(ShiftBit(t)) = 2 * Addend(t)
          /\ ShiftBit(t).a = t.a \div 2 /\ ShiftBit(t).done = t.done /\ Sum(ShiftBit(t)) = Sum(t)
      BY <2>1, <2>12, <2>13, ShiftBitDoubles
    <3>3. /\ ~ShiftBit(t).done /\ k < Power(WordSize - (i + 1))
          /\ Unsigned(a) = x + Power(i + 1) * k
          /\ ShiftBit(t).a = IF a < 0 THEN k - Power(WordSize - (i + 1)) ELSE k
          /\ Sum(ShiftBit(t)) = Unsigned(b) * x
          /\ Addend(ShiftBit(t)) = Unsigned(b) * Power(i + 1)
      BY <3>2, <2>2, <2>4, <2>6, <2>7, <2>9, <2>12, <2>13
    <3>. QED  BY <3>1, <3>2, <3>3 DEF MultInv
  <2>. QED  BY <2>14, <2>15
<1>. QED  BY <1>1, <1>2

LEMMA MultRounds ==
  ASSUME NEW a \in Word, NEW b \in Word
  PROVE  \A n \in Nat : n <= WordSize =>
           \E f \in [0 .. n -> MultStates] :
             /\ f[0] = MultStart(a, b)
             /\ \A i \in 1 .. n : f[i] = MultRound(f[i - 1])
             /\ MultInv(n, f[n], a, b)
<1> DEFINE Rounds(n) ==
      \E f \in [0 .. n -> MultStates] :
        /\ f[0] = MultStart(a, b)
        /\ \A i \in 1 .. n : f[i] = MultRound(f[i - 1])
        /\ MultInv(n, f[n], a, b)
<1> DEFINE S == {n \in Nat : n <= WordSize => Rounds(n)}
<1>1. 0 \in S
  <2>1. MultInv(0, MultStart(a, b), a, b) /\ MultStart(a, b) \in MultStates
    BY MultStarts DEF MultInv
  <2> DEFINE f == [i \in 0 .. 0 |-> MultStart(a, b)]
  <2>2. f \in [0 .. 0 -> MultStates] /\ f[0] = MultStart(a, b)
    BY <2>1
  <2>3. \A i \in 1 .. 0 : f[i] = MultRound(f[i - 1])
    OBVIOUS
  <2>. HIDE DEF f
  <2>4. MultInv(0, f[0], a, b)
    BY <2>1, <2>2
  <2>. QED  BY <2>2, <2>3, <2>4
<1>2. ASSUME NEW n \in Nat, n \in S, n + 1 <= WordSize PROVE Rounds(n + 1)
  <2>1. n <= WordSize /\ n \in 0 .. WordSize - 1
    BY <1>2, Sizes
  <2>2. PICK f \in [0 .. n -> MultStates] :
          /\ f[0] = MultStart(a, b)
          /\ \A i \in 1 .. n : f[i] = MultRound(f[i - 1])
          /\ MultInv(n, f[n], a, b)
    BY <1>2, <2>1
  <2>3. PICK s : s = MultRound(f[n])
    OBVIOUS
  <2>4. MultInv(n + 1, s, a, b)
    BY <2>1, <2>2, <2>3, MultSteps
  <2>5. s \in MultStates
    BY <2>4 DEF MultInv
  <2> DEFINE g == [i \in 0 .. n + 1 |-> IF i = n + 1 THEN s ELSE f[i]]
  <2>6. g \in [0 .. n + 1 -> MultStates] /\ g[0] = MultStart(a, b) /\ g[n + 1] = s
    BY <2>2, <2>5
  <2>7. ASSUME NEW i \in 1 .. n + 1 PROVE g[i] = MultRound(g[i - 1])
    <3>1. i - 1 \in 0 .. n + 1 /\ i - 1 # n + 1
      OBVIOUS
    <3>2. CASE i = n + 1
      <4>1. i - 1 = n
        BY <3>2
      <4>. QED  BY <3>1, <3>2, <4>1, <2>3
    <3>3. CASE i # n + 1
      <4>1. i \in 1 .. n /\ g[i] = f[i] /\ g[i - 1] = f[i - 1]
        BY <3>1, <3>3
      <4>. QED  BY <4>1, <2>2
    <3>. QED  BY <3>2, <3>3
  <2>. HIDE DEF g
  <2>8. MultInv(n + 1, g[n + 1], a, b)
    BY <2>4, <2>6
  <2>. QED  BY <2>6, <2>7, <2>8
<1>. HIDE DEF Rounds
<1>3. ASSUME NEW n \in Nat, n \in S PROVE n + 1 \in S
  BY <1>2, <1>3
<1>. HIDE DEF S
<1>4. \A n \in Nat : n \in S
  BY <1>1, <1>3, Induction
<1>. QED  BY <1>4 DEF S, Rounds

\* The loop of Mult on two operands without signs.
LEMMA MultLoop ==
  ASSUME NEW a \in Word, NEW b \in Word, NEW round,
         round = CHOOSE f : f = [i \in 0 .. WordSize |-> IF i = 0 THEN MultStart(a, b)
                                                         ELSE MultRound(f[i - 1])]
  PROVE  /\ round[WordSize] \in MultStates
         /\ Sum(round[WordSize]) = Unsigned(b) * Unsigned(a)
<1>1. WordSize \in Nat /\ WordSize <= WordSize
  BY Sizes
<1>2. PICK f \in [0 .. WordSize -> MultStates] :
        /\ f[0] = MultStart(a, b)
        /\ \A i \in 1 .. WordSize : f[i] = MultRound(f[i - 1])
        /\ MultInv(WordSize, f[WordSize], a, b)
  BY <1>1, MultRounds
<1>3. f = [i \in 0 .. WordSize |-> IF i = 0 THEN MultStart(a, b) ELSE MultRound(f[i - 1])]
  BY <1>1, <1>2
<1>4. round = [i \in 0 .. WordSize |-> IF i = 0 THEN MultStart(a, b) ELSE MultRound(round[i - 1])]
  BY <1>3
<1>5. round[0] = MultStart(a, b) /\ \A i \in 1 .. WordSize : round[i] = MultRound(round[i - 1])
  <2>1. \A i \in 0 .. WordSize :
          round[i] = IF i = 0 THEN MultStart(a, b) ELSE MultRound(round[i - 1])
    BY <1>4
  <2>2. round[0] = MultStart(a, b)
    <3>1. 0 \in 0 .. WordSize
      BY <1>1
    <3>2. round[0] = IF 0 = 0 THEN MultStart(a, b) ELSE MultRound(round[0 - 1])
      BY <2>1, <3>1, Zenon
    <3>. QED  BY <3>2
  <2>3. ASSUME NEW i \in 1 .. WordSize PROVE round[i] = MultRound(round[i - 1])
    <3>1. i \in 0 .. WordSize /\ i # 0
      BY <1>1
    <3>. QED  BY <2>1, <3>1
  <2>. QED  BY <2>2, <2>3
<1>6. \A n \in Nat : n \in {i \in Nat : i <= WordSize => round[i] = f[i]}
  <2> DEFINE S == {i \in Nat : i <= WordSize => round[i] = f[i]}
  <2>1. 0 \in S
    BY <1>2, <1>5
  <2>2. ASSUME NEW n \in Nat, n \in S PROVE n + 1 \in S
    <3>. SUFFICES ASSUME n + 1 <= WordSize PROVE round[n + 1] = f[n + 1]
      OBVIOUS
    <3>1. n + 1 \in 1 .. WordSize /\ (n + 1) - 1 = n /\ n <= WordSize
      BY <1>1
    <3>2. round[n] = f[n]
      BY <2>2, <3>1
    <3>3. round[n + 1] = MultRound(round[n]) /\ f[n + 1] = MultRound(f[n])
      BY <1>2, <1>5, <3>1
    <3>. QED  BY <3>2, <3>3
  <2>. HIDE DEF S
  <2>3. \A n \in Nat : n \in S
    BY <2>1, <2>2, Induction
  <2>. QED  BY <2>3 DEF S
<1>7. round[WordSize] = f[WordSize]
  BY <1>1, <1>6
<1>8. PICK s \in MultStates : s = f[WordSize] /\ MultInv(WordSize, s, a, b)
  BY <1>1, <1>2 DEF MultInv
<1>9. Sum(s) = Unsigned(b) * Unsigned(a)
  <2>1. CASE s.done
    BY <1>8, <2>1 DEF MultInv
  <2>2. CASE ~s.done
    <3>1. PICK r \in Nat, q \in Nat :
            /\ q < Power(WordSize - WordSize)
            /\ Unsigned(a) = r + Power(WordSize) * q
            /\ Sum(s) = Unsigned(b) * r
      BY <1>8, <2>2 DEF MultInv
    <3>2. q = 0
      BY <3>1, PowersOfTwo, <1>1, WordSize - WordSize = 0
    <3>3. Unsigned(a) = r
      <4>1. Power(WordSize) \in Nat
        BY Moduli
      <4>. QED  BY <3>1, <3>2, <4>1
    <3>. QED  BY <3>1, <3>3
  <2>. QED  BY <2>1, <2>2
<1>. QED  BY <1>7, <1>8, <1>9

\* The operand that Mult's loop works on when it minds the signs.
Positive(x) == IF x < 0 THEN Int32(-x) ELSE x

LEMMA PositiveIs ==
  ASSUME NEW x \in Word
  PROVE  Positive(x) \in Word /\ Unsigned(Positive(x)) = Magnitude(x)
<1>1. PICK half \in Nat : half = Power(WordSize - 1) /\ half >= 8 /\ Power(WordSize) = 2 * half
  BY Moduli
<1>2. x \in -half .. half - 1
  BY <1>1, WordIs
<1>3. \A y \in 0 .. half : y % (2 * half) = y
  BY <1>1
<1>4. CASE x >= 0
  BY <1>1, <1>2, <1>3, <1>4, UnsignedIs DEF Positive, Magnitude
<1>5. CASE x < 0
  <2>1. PICK y \in 1 .. half : y = -x
    BY <1>2, <1>5
  <2>2. Bits(y, WordSize) = y
    <3>0. WordSize \in 1 .. 32 /\ y \in Int
      BY Sizes
    <3>1. Bits(y, WordSize) = y % Power(WordSize) /\ Bits(y, WordSize) \in 0 .. Power(WordSize) - 1
      BY BitsAre, <3>0
    <3>. QED  BY <3>1, <1>1, <1>3
  <2>3. Int32(y) = IF y < half THEN y ELSE y - 2 * half
    <3>0. WordSize \in 1 .. 32 /\ y \in Int
      BY Sizes
    <3>1. /\ Signed(y, WordSize) = IF Bits(y, WordSize) < Power(WordSize - 1) THEN Bits(y, WordSize)
                                    ELSE Bits(y, WordSize) - Power(WordSize)
          /\ Signed(y, WordSize) \in -Power(WordSize - 1) .. Power(WordSize - 1) - 1
      BY SignedIs, <3>0
    <3>. QED  BY <3>1, <1>1, <2>2 DEF Int32
  <2>4. CASE y < half
    <3>1. Int32(y) = y
      BY <2>3, <2>4
    <3>2. Unsigned(y) = y
      BY <1>1, <1>3, UnsignedIs
    <3>. QED  BY <1>1, <1>5, <2>1, <3>1, <3>2, <2>4, WordIs DEF Positive, Magnitude
  <2>5. CASE y = half
    <3>1. Int32(y) = -half
      BY <2>3, <2>5, <1>1
    <3>2. (-half) % (2 * half) = half
      BY <1>1
    <3>3. Unsigned(-half) = half
      BY <1>1, <3>2, UnsignedIs
    <3>. QED  BY <1>1, <1>5, <2>1, <2>5, <3>1, <3>3, WordIs DEF Positive, Magnitude
  <2>. QED  BY <2>1, <2>4, <2>5
<1>. QED  BY <1>2, <1>4, <1>5

LEMMA MultExpands ==
  ASSUME NEW a, NEW b, NEW signedArith
  PROVE  \E f :
    /\ f = CHOOSE g : g = [i \in 0 .. WordSize |->
               IF i = 0 THEN MultStart(IF signedArith /\ a < 0 THEN Int32(-a) ELSE a,
                                       IF signedArith /\ b < 0 THEN Int32(-b) ELSE b)
                        ELSE MultRound(g[i - 1])]
    /\ LET s == f[WordSize]
           negative == signedArith /\ (a < 0) # (b < 0)
           lo == IF negative THEN Unsigned(-s.lo) ELSE s.lo
           hi == IF ~negative THEN s.hi
                 ELSE Unsigned(-s.hi - 1 + (IF lo = 0 THEN 1 ELSE 0)) IN
       Mult(a, b, signedArith) =
         IF a = 0 \/ b = 0 THEN [hi |-> 0, lo |-> 0] ELSE [hi |-> Int32(hi), lo |-> Int32(lo)]
BY Zenon DEF Mult

\* What the loop leaves, with and without the minding of signs.
LEMMA MultResult ==
  ASSUME NEW a \in Word, NEW b \in Word, NEW signedArith \in BOOLEAN
  PROVE  \E hi, lo \in Below :
    LET x == IF signedArith THEN Magnitude(a) ELSE Unsigned(a)
        y == IF signedArith THEN Magnitude(b) ELSE Unsigned(b)
        negative == signedArith /\ (a < 0) # (b < 0)
        low  == IF negative THEN Unsigned(-lo) ELSE lo
        high == IF ~negative THEN hi ELSE Unsigned(-hi - 1 + (IF low = 0 THEN 1 ELSE 0)) IN
    /\ hi * Power(WordSize) + lo = y * x
    /\ Mult(a, b, signedArith) =
         IF a = 0 \/ b = 0 THEN [hi |-> 0, lo |-> 0] ELSE [hi |-> Int32(high), lo |-> Int32(low)]
<1> DEFINE x == IF signedArith /\ a < 0 THEN Int32(-a) ELSE a
           y == IF signedArith /\ b < 0 THEN Int32(-b) ELSE b
<1>1. /\ x \in Word /\ Unsigned(x) = IF signedArith THEN Magnitude(a) ELSE Unsigned(a)
      /\ y \in Word /\ Unsigned(y) = IF signedArith THEN Magnitude(b) ELSE Unsigned(b)
  BY PositiveIs DEF Positive
<1>. HIDE DEF x, y
<1>2. PICK f :
    /\ f = CHOOSE g : g = [i \in 0 .. WordSize |->
               IF i = 0 THEN MultStart(x, y) ELSE MultRound(g[i - 1])]
    /\ LET s == f[WordSize]
           negative == signedArith /\ (a < 0) # (b < 0)
           lo == IF negative THEN Unsigned(-s.lo) ELSE s.lo
           hi == IF ~negative THEN s.hi
                 ELSE Unsigned(-s.hi - 1 + (IF lo = 0 THEN 1 ELSE 0)) IN
       Mult(a, b, signedArith) =
         IF a = 0 \/ b = 0 THEN [hi |-> 0, lo |-> 0] ELSE [hi |-> Int32(hi), lo |-> Int32(lo)]
  BY MultExpands DEF x, y
<1>3. f[WordSize] \in MultStates /\ Sum(f[WordSize]) = Unsigned(y) * Unsigned(x)
  BY <1>1, <1>2, MultLoop
<1>4. f[WordSize].hi \in Below /\ f[WordSize].lo \in Below
  BY <1>3 DEF MultStates
<1>5. f[WordSize].hi * Power(WordSize) + f[WordSize].lo
        = (IF signedArith THEN Magnitude(b) ELSE Unsigned(b))
            * (IF signedArith THEN Magnitude(a) ELSE Unsigned(a))
  BY <1>1, <1>3 DEF Sum
<1>. QED  BY <1>2, <1>4, <1>5

LEMMA Conversions ==
  ASSUME NEW n \in Nat, n = Power(WordSize - 1)
  PROVE  /\ \A x \in -n .. n - 1 : Int32(x) = x
         /\ \A x \in 0 .. 2 * n - 1 : Unsigned(x) = x /\ Unsigned(Int32(x)) = x
         /\ \A x \in -(2 * n) .. -1 : Unsigned(x) = x + 2 * n
<1>1. n >= 8 /\ Power(WordSize) = 2 * n
  BY Moduli
<1>2. \A x \in 0 .. 2 * n - 1 : x % (2 * n) = x
  BY <1>1
<1>3. \A x \in -(2 * n) .. -1 : x % (2 * n) = x + 2 * n
  <2>. SUFFICES ASSUME NEW x \in -(2 * n) .. -1 PROVE x % (2 * n) = x + 2 * n
    OBVIOUS
  <2>1. PICK m \in Nat \ {0} : m = 2 * n
    BY <1>1
  <2>2. PICK r \in 0 .. m - 1 : r = x + m
    BY <2>1
  <2>3. (m * (-1) + r) % m = r
    BY QuotientIs
  <2>4. m * (-1) + r = x
    BY <2>2
  <2>. QED  BY <2>1, <2>2, <2>3, <2>4
<1>4. \A x \in Int : Unsigned(x) = x % (2 * n)
  BY <1>1, UnsignedIs
<1>5. \A x \in Int : Int32(x) = IF Unsigned(x) < n THEN Unsigned(x) ELSE Unsigned(x) - 2 * n
  <2>. SUFFICES ASSUME NEW x \in Int
                PROVE  Int32(x) = IF Unsigned(x) < n THEN Unsigned(x) ELSE Unsigned(x) - 2 * n
    OBVIOUS
  <2>0. WordSize \in 1 .. 32
    BY Sizes
  <2>1. /\ Signed(x, WordSize) = IF Bits(x, WordSize) < Power(WordSize - 1) THEN Bits(x, WordSize)
                                    ELSE Bits(x, WordSize) - Power(WordSize)
        /\ Signed(x, WordSize) \in -Power(WordSize - 1) .. Power(WordSize - 1) - 1
    BY SignedIs, <2>0
  <2>. QED  BY <2>1, <1>1 DEF Int32, Unsigned
<1>6. \A x \in 0 .. 2 * n - 1 : Unsigned(x) = x
  BY <1>2, <1>4
<1>7. \A x \in -(2 * n) .. -1 : Unsigned(x) = x + 2 * n
  BY <1>3, <1>4
<1>8. \A x \in -n .. n - 1 : Int32(x) = x
  <2>. SUFFICES ASSUME NEW x \in -n .. n - 1 PROVE Int32(x) = x
    OBVIOUS
  <2>1. CASE x >= 0
    BY <2>1, <1>5, <1>6
  <2>2. CASE x < 0
    BY <2>2, <1>5, <1>7
  <2>. QED  BY <2>1, <2>2
<1>9. \A x \in 0 .. 2 * n - 1 : Unsigned(Int32(x)) = x
  <2>. SUFFICES ASSUME NEW x \in 0 .. 2 * n - 1 PROVE Unsigned(Int32(x)) = x
    OBVIOUS
  <2>1. Int32(x) = IF x < n THEN x ELSE x - 2 * n
    BY <1>5, <1>6
  <2>2. CASE x < n
    BY <2>1, <2>2, <1>6
  <2>3. CASE x >= n
    BY <2>1, <2>3, <1>7
  <2>. QED  BY <2>2, <2>3
<1>. QED  BY <1>6, <1>7, <1>8, <1>9

LEMMA UnsignedOfBelow == \A x \in Below : Unsigned(x) = x /\ Unsigned(Int32(x)) = x
<1>1. PICK n \in Nat : n = Power(WordSize - 1) /\ Power(WordSize) = 2 * n
  BY Moduli
<1>2. /\ \A x \in -n .. n - 1 : Int32(x) = x
      /\ \A x \in 0 .. 2 * n - 1 : Unsigned(x) = x /\ Unsigned(Int32(x)) = x
      /\ \A x \in -(2 * n) .. -1 : Unsigned(x) = x + 2 * n
  BY <1>1, Conversions
<1>. QED  BY <1>1, <1>2 DEF Below

LEMMA UnsignedOfNegative == \A x \in Below : x > 0 => Unsigned(-x) = Power(WordSize) - x
<1>1. PICK n \in Nat : n = Power(WordSize - 1) /\ Power(WordSize) = 2 * n
  BY Moduli
<1>2. /\ \A x \in -n .. n - 1 : Int32(x) = x
      /\ \A x \in 0 .. 2 * n - 1 : Unsigned(x) = x /\ Unsigned(Int32(x)) = x
      /\ \A x \in -(2 * n) .. -1 : Unsigned(x) = x + 2 * n
  BY <1>1, Conversions
<1>3. ASSUME NEW x \in Below, x > 0 PROVE Unsigned(-x) = 2 * n - x
  <2>1. PICK y \in -(2 * n) .. -1 : y = -x
    BY <1>1, <1>3 DEF Below
  <2>2. Unsigned(y) = y + 2 * n
    BY <1>2
  <2>. QED  BY <1>1, <2>1, <2>2 DEF Below
<1>. QED  BY <1>1, <1>3

LEMMA Int32OfWord == \A x \in Word : Int32(x) = x /\ Int32(Unsigned(x)) = x
<1>1. PICK n \in Nat : n = Power(WordSize - 1) /\ Power(WordSize) = 2 * n /\ n >= 8
  BY Moduli
<1>2. /\ \A x \in -n .. n - 1 : Int32(x) = x
      /\ \A x \in 0 .. 2 * n - 1 : Unsigned(x) = x /\ Unsigned(Int32(x)) = x
      /\ \A x \in -(2 * n) .. -1 : Unsigned(x) = x + 2 * n
  BY <1>1, Conversions
<1>3. \A x \in Word : Int32(x) = x
  BY <1>1, <1>2, WordIs
<1>4. ASSUME NEW x \in Word PROVE Int32(Unsigned(x)) = x
  <2>1. x \in -n .. n - 1
    BY <1>1, WordIs
  <2>2. CASE x >= 0
    BY <2>1, <2>2, <1>2
  <2>3. CASE x < 0
    <3>1. PICK y \in Int : y = Unsigned(x) /\ y = x + 2 * n
      BY <2>1, <2>3, <1>2
    <3>2. Unsigned(y) = y
      BY <3>1, <2>1, <2>3, <1>2
    <3>3. WordSize \in 1 .. 32
      BY Sizes
    <3>4. /\ Signed(y, WordSize) = IF Bits(y, WordSize) < Power(WordSize - 1) THEN Bits(y, WordSize)
                                   ELSE Bits(y, WordSize) - Power(WordSize)
          /\ Signed(y, WordSize) \in -Power(WordSize - 1) .. Power(WordSize - 1) - 1
      BY SignedIs, <3>3
    <3>5. Int32(y) = IF y < n THEN y ELSE y - 2 * n
      BY <1>1, <3>2, <3>4 DEF Int32, Unsigned
    <3>. QED  BY <3>1, <3>5, <2>1, <2>3
  <2>. QED  BY <2>1, <2>2, <2>3
<1>. QED  BY <1>3, <1>4

LEMMA FieldsOfPair ==
  \A s, hi, lo : s = [hi |-> hi, lo |-> lo] => s.hi = hi /\ s.lo = lo
OBVIOUS

LEMMA SignedProduct ==
  ASSUME NEW a \in Word, NEW b \in Word
  PROVE  LET s == Mult(a, b, TRUE) IN s.hi * Power(WordSize) + Unsigned(s.lo) = a * b
<1>1. PICK n \in Nat : n = Power(WordSize - 1) /\ n >= 8 /\ Power(WordSize) = 2 * n
  BY Moduli
<1>2. a \in -n .. n - 1 /\ b \in -n .. n - 1
  BY <1>1, WordIs
<1>0. Unsigned(0) = 0 /\ Int32(0) = 0
  BY <1>1, UnsignedOfBelow, Int32OfWord, WordsAreInts DEF Below
<1>10. PICK hi \in Below, lo \in Below :
    LET x == IF TRUE THEN Magnitude(a) ELSE Unsigned(a)
        y == IF TRUE THEN Magnitude(b) ELSE Unsigned(b)
        negative == TRUE /\ (a < 0) # (b < 0)
        low  == IF negative THEN Unsigned(-lo) ELSE lo
        high == IF ~negative THEN hi ELSE Unsigned(-hi - 1 + (IF low = 0 THEN 1 ELSE 0)) IN
    /\ hi * Power(WordSize) + lo = y * x
    /\ Mult(a, b, TRUE) =
         IF a = 0 \/ b = 0 THEN [hi |-> 0, lo |-> 0] ELSE [hi |-> Int32(high), lo |-> Int32(low)]
  BY MultResult
<1>3. CASE a = 0 \/ b = 0
  <2>1. Mult(a, b, TRUE) = [hi |-> 0, lo |-> 0]
    BY <1>3 DEF Mult
  <2>2. Unsigned(0) = 0
    BY <1>0
  <2>3. a * b = 0
    BY <1>2, <1>3
  <2>4. Mult(a, b, TRUE).hi = 0 /\ Mult(a, b, TRUE).lo = 0
    BY <2>1, FieldsOfPair
  <2>5. 0 * (2 * n) + 0 = 0
    BY <1>1
  <2>. QED  BY <1>1, <2>2, <2>3, <2>4, <2>5
<1>4. CASE ~(a = 0 \/ b = 0)
  <2>0. PICK negative \in BOOLEAN : negative = ((a < 0) # (b < 0))
    OBVIOUS
  <2>1. LET low  == IF negative THEN Unsigned(-lo) ELSE lo
            high == IF ~negative THEN hi ELSE Unsigned(-hi - 1 + (IF low = 0 THEN 1 ELSE 0)) IN
        /\ hi * Power(WordSize) + lo = Magnitude(b) * Magnitude(a)
        /\ Mult(a, b, TRUE) = [hi |-> Int32(high), lo |-> Int32(low)]
    BY <1>4, <1>10, <2>0
  <2>2. PICK x \in 1 .. n, y \in 1 .. n : x = Magnitude(a) /\ y = Magnitude(b)
    BY <1>2, <1>4 DEF Magnitude
  <2>3. y * x = IF negative THEN -(a * b) ELSE a * b
    <3>1. /\ x = IF a < 0 THEN -a ELSE a
          /\ y = IF b < 0 THEN -b ELSE b
      BY <2>2 DEF Magnitude
    <3>2. CASE a < 0 /\ b < 0
      <4>1. x = -a /\ y = -b /\ ~negative
        BY <3>1, <3>2, <2>0, <1>2
      <4>2. (-b) * (-a) = a * b
        BY <1>2
      <4>. QED  BY <4>1, <4>2
    <3>3. CASE a < 0 /\ ~(b < 0)
      <4>1. x = -a /\ y = b /\ negative
        BY <3>1, <3>3, <2>0, <1>2
      <4>2. b * (-a) = -(a * b)
        BY <1>2
      <4>. QED  BY <4>1, <4>2
    <3>4. CASE ~(a < 0) /\ b < 0
      <4>1. x = a /\ y = -b /\ negative
        BY <3>1, <3>4, <2>0, <1>2
      <4>2. (-b) * a = -(a * b)
        BY <1>2
      <4>. QED  BY <4>1, <4>2
    <3>5. CASE ~(a < 0) /\ ~(b < 0)
      <4>1. x = a /\ y = b
        BY <3>1, <3>5
      <4>3. ~negative
        <5>1. (a < 0) = (b < 0)
          BY <1>2, <3>5
        <5>. QED  BY <5>1, <2>0, Zenon
      <4>2. b * a = a * b
        BY <1>2
      <4>. QED  BY <4>1, <4>2, <4>3
    <3>. QED  BY <3>2, <3>3, <3>4, <3>5
  <2>4. hi \in 0 .. 2 * n - 1 /\ lo \in 0 .. 2 * n - 1
    BY <1>1 DEF Below
  <2>5. hi < n
    <3>1. y * x <= n * n
      <4>1. y * x <= n * x
        BY <2>2
      <4>2. n * x <= n * n
        BY <2>2
      <4>. QED  BY <4>1, <4>2
    <3>2. hi * (2 * n) <= n * n
      BY <3>1, <2>1, <2>2, <2>4, <1>1
    <3>3. PICK k \in Nat : k = 2 * hi
      BY <2>4
    <3>4. k * n <= n * n
      BY <3>2, <3>3, <2>4
    <3>5. k <= n
      BY <3>4, <1>1
    <3>. QED  BY <3>5, <3>3, <2>4
  <2>6. CASE ~negative
    <3>1. Mult(a, b, TRUE) = [hi |-> Int32(hi), lo |-> Int32(lo)]
      BY <2>1, <2>6
    <3>2. Int32(hi) = hi /\ Unsigned(Int32(lo)) = lo
      BY <1>1, <2>4, <2>5, Int32OfWord, UnsignedOfBelow, WordIs
    <3>3. Mult(a, b, TRUE).hi = hi /\ Unsigned(Mult(a, b, TRUE).lo) = lo
      BY <3>1, <3>2, FieldsOfPair
    <3>. QED  BY <3>3, <2>1, <2>2, <2>3, <2>6
  <2>7. CASE negative /\ lo <= 0
    <3>0. -lo = 0
      BY <2>4, <2>7
    <3>1. Unsigned(-lo) = 0
      BY <3>0, <1>0
    <3>2. Mult(a, b, TRUE) = [hi |-> Int32(Unsigned(-hi)), lo |-> Int32(0)]
      <4>1. -hi - 1 + 1 = -hi
        BY <2>4
      <4>2. Mult(a, b, TRUE) = [hi |-> Int32(Unsigned(-hi - 1 + 1)), lo |-> Int32(0)]
        BY <2>1, <2>7, <3>1, Zenon
      <4>. QED  BY <4>1, <4>2
    <3>3. Int32(Unsigned(-hi)) = -hi
      <4>1. CASE hi <= 0
        <5>1. -hi = 0
          BY <2>4, <4>1
        <5>. QED  BY <5>1, <1>0
      <4>2. CASE hi > 0
        <5>1. PICK z \in -n .. n - 1 : z = -hi
          BY <4>2, <2>4, <2>5
        <5>2. z \in Word
          BY <1>1, WordIs
        <5>. QED  BY <5>1, <5>2, Int32OfWord
      <4>. QED  BY <4>1, <4>2, <2>4
    <3>4. Unsigned(Int32(0)) = 0
      BY <1>0
    <3>5. (-hi) * (2 * n) + 0 = -(hi * (2 * n) + lo)
      BY <2>4, <2>7
    <3>6. Mult(a, b, TRUE).hi = -hi /\ Unsigned(Mult(a, b, TRUE).lo) = 0
      BY <3>2, <3>3, <3>4, FieldsOfPair
    <3>7. hi * (2 * n) + lo = -(a * b)
      BY <1>1, <2>1, <2>2, <2>3, <2>7
    <3>8. -(-(a * b)) = a * b
      BY <1>2
    <3>. QED  BY <1>1, <3>5, <3>6, <3>7, <3>8
  <2>8. CASE negative /\ lo > 0
    <3>1. Unsigned(-lo) = 2 * n - lo
      BY <1>1, <2>8, UnsignedOfNegative
    <3>2. Mult(a, b, TRUE) = [hi |-> Int32(Unsigned(-hi - 1)), lo |-> Int32(2 * n - lo)]
      <4>1. -hi - 1 + 0 = -hi - 1 /\ 2 * n - lo # 0
        BY <1>1, <2>4
      <4>2. Mult(a, b, TRUE) = [hi |-> Int32(Unsigned(-hi - 1 + 0)), lo |-> Int32(2 * n - lo)]
        BY <2>1, <2>8, <3>1, <4>1, Zenon
      <4>. QED  BY <4>1, <4>2
    <3>3. Int32(Unsigned(-hi - 1)) = -hi - 1
      <4>1. PICK z \in -n .. n - 1 : z = -hi - 1
        BY <2>4, <2>5
      <4>2. z \in Word
        BY <1>1, WordIs
      <4>. QED  BY <4>1, <4>2, Int32OfWord
    <3>4. Unsigned(Int32(2 * n - lo)) = 2 * n - lo
      <4>1. PICK z \in 0 .. 2 * n - 1 : z = 2 * n - lo
        BY <2>4, <2>8
      <4>2. z \in Below
        BY <1>1 DEF Below
      <4>. QED  BY <4>1, <4>2, UnsignedOfBelow
    <3>5. (-hi - 1) * (2 * n) + (2 * n - lo) = -(hi * (2 * n) + lo)
      BY <2>4
    <3>6. /\ Mult(a, b, TRUE).hi = -hi - 1
          /\ Unsigned(Mult(a, b, TRUE).lo) = 2 * n - lo
      <4>1. PICK p, q : p = Int32(Unsigned(-hi - 1)) /\ q = Int32(2 * n - lo)
        OBVIOUS
      <4>2. Mult(a, b, TRUE).hi = p /\ Mult(a, b, TRUE).lo = q
        <5>1. Mult(a, b, TRUE) = [hi |-> p, lo |-> q]
          BY <3>2, <4>1, Zenon
        <5>. QED  BY <5>1, FieldsOfPair, Zenon
      <4>. QED  BY <3>3, <3>4, <4>1, <4>2
    <3>7. hi * (2 * n) + lo = -(a * b)
      BY <1>1, <2>1, <2>2, <2>3, <2>8
    <3>8. -(-(a * b)) = a * b
      BY <1>2
    <3>. QED  BY <1>1, <3>5, <3>6, <3>7, <3>8
  <2>9. lo <= 0 \/ lo > 0
    BY <2>4
  <2>. QED  BY <2>6, <2>7, <2>8, <2>9, Zenon
<1>. QED  BY <1>3, <1>4

LEMMA UnsignedProduct ==
  ASSUME NEW a \in Word, NEW b \in Word
  PROVE  LET u == Mult(a, b, FALSE) IN
         Unsigned(u.hi) * Power(WordSize) + Unsigned(u.lo) = Unsigned(a) * Unsigned(b)
<1>1. PICK n \in Nat : n = Power(WordSize - 1) /\ n >= 8 /\ Power(WordSize) = 2 * n
  BY Moduli
<1>2. PICK x \in Nat, y \in Nat : x = Unsigned(a) /\ y = Unsigned(b)
  BY WordsAreInts, UnsignedIs DEF Below
<1>3. CASE a = 0 \/ b = 0
  <2>1. Mult(a, b, FALSE) = [hi |-> 0, lo |-> 0]
    BY <1>3 DEF Mult
  <2>2. Unsigned(0) = 0
    BY <1>1, UnsignedOfBelow DEF Below
  <2>3. x = 0 \/ y = 0
    BY <1>2, <1>3, <2>2
  <2>4. x * y = 0
    BY <2>3
  <2>5. Mult(a, b, FALSE).hi = 0 /\ Mult(a, b, FALSE).lo = 0
    BY <2>1, FieldsOfPair
  <2>6. 0 * (2 * n) + 0 = 0
    BY <1>1
  <2>. QED  BY <1>1, <1>2, <2>2, <2>4, <2>5, <2>6
<1>4. CASE ~(a = 0 \/ b = 0)
  <2>0. PICK hi \in Below, lo \in Below :
    LET p == IF FALSE THEN Magnitude(a) ELSE Unsigned(a)
        q == IF FALSE THEN Magnitude(b) ELSE Unsigned(b)
        negative == FALSE /\ (a < 0) # (b < 0)
        low  == IF negative THEN Unsigned(-lo) ELSE lo
        high == IF ~negative THEN hi ELSE Unsigned(-hi - 1 + (IF low = 0 THEN 1 ELSE 0)) IN
    /\ hi * Power(WordSize) + lo = q * p
    /\ Mult(a, b, FALSE) =
         IF a = 0 \/ b = 0 THEN [hi |-> 0, lo |-> 0] ELSE [hi |-> Int32(high), lo |-> Int32(low)]
    BY MultResult
  <2>1. /\ hi * Power(WordSize) + lo = Unsigned(b) * Unsigned(a)
        /\ Mult(a, b, FALSE) = [hi |-> Int32(hi), lo |-> Int32(lo)]
    BY <1>4, <2>0
  <2>2. Unsigned(Int32(hi)) = hi /\ Unsigned(Int32(lo)) = lo
    BY UnsignedOfBelow
  <2>3. y * x = x * y
    OBVIOUS
  <2>4. /\ Unsigned(Mult(a, b, FALSE).hi) = hi
        /\ Unsigned(Mult(a, b, FALSE).lo) = lo
    BY <2>1, <2>2, FieldsOfPair
  <2>. QED  BY <1>2, <2>1, <2>3, <2>4
<1>. QED  BY <1>3, <1>4

LEMMA Multiplies == MultIsExact
BY SignedProduct, UnsignedProduct DEF MultIsExact, Power


\* Sums and differences of words, back in a word.
LEMMA Int32Wraps ==
  ASSUME NEW n \in Nat, n = Power(WordSize - 1)
  PROVE  /\ \A x \in -(2 * n) .. -n - 1 : Int32(x) = x + 2 * n
         /\ \A x \in n .. 2 * n - 1 : Int32(x) = x - 2 * n
<1>1. WordSize \in 1 .. 32 /\ Power(WordSize) = 2 * n
  BY Sizes, Moduli
<1>2. /\ \A x \in 0 .. 2 * n - 1 : Unsigned(x) = x
      /\ \A x \in -(2 * n) .. -1 : Unsigned(x) = x + 2 * n
  BY Conversions
<1>3. ASSUME NEW x \in Int
      PROVE  Int32(x) = IF Unsigned(x) < n THEN Unsigned(x) ELSE Unsigned(x) - 2 * n
  <2>1. /\ Signed(x, WordSize) = IF Bits(x, WordSize) < Power(WordSize - 1) THEN Bits(x, WordSize)
                                 ELSE Bits(x, WordSize) - Power(WordSize)
        /\ Signed(x, WordSize) \in -Power(WordSize - 1) .. Power(WordSize - 1) - 1
    BY <1>1, SignedIs
  <2>. QED  BY <2>1, <1>1 DEF Int32, Unsigned
<1>4. ASSUME NEW x \in -(2 * n) .. -n - 1 PROVE Int32(x) = x + 2 * n
  <2>1. Unsigned(x) = x + 2 * n
    BY <1>2
  <2>. QED  BY <1>3, <2>1
<1>5. ASSUME NEW x \in n .. 2 * n - 1 PROVE Int32(x) = x - 2 * n
  <2>1. Unsigned(x) = x
    BY <1>2
  <2>. QED  BY <1>3, <2>1
<1>. QED  BY <1>4, <1>5

LEMMA OverflowsAreSeen == OverflowIsExact
<1>1. SUFFICES ASSUME NEW a \in Word, NEW b \in Word
               PROVE  /\ OverflowsBySign("ADD", a, b) <=> a + b \notin Word
                      /\ OverflowsBySign("SUB", a, b) <=> a - b \notin Word
                      /\ OverflowsBySign("ADDI", a, b) <=> a + b \notin Word
  BY DEF OverflowIsExact
<1>2. PICK n \in Nat : n = Power(WordSize - 1) /\ n >= 8
  BY Moduli
<1>3. Word = -n .. n - 1
  BY <1>2, WordIs
<1>4. /\ \A x \in -n .. n - 1 : Int32(x) = x
      /\ \A x \in -(2 * n) .. -n - 1 : Int32(x) = x + 2 * n
      /\ \A x \in n .. 2 * n - 1 : Int32(x) = x - 2 * n
  BY <1>2, Conversions, Int32Wraps
<1>5. ASSUME NEW x \in -(2 * n) .. 2 * n - 1
      PROVE  x \notin Word <=> (x < 0) # (Int32(x) < 0)
  <2>1. CASE x \in -n .. n - 1
    BY <2>1, <1>3, <1>4
  <2>2. CASE x \in -(2 * n) .. -n - 1
    BY <2>2, <1>3, <1>4
  <2>3. CASE x \in n .. 2 * n - 1
    BY <2>3, <1>3, <1>4
  <2>. QED  BY <2>1, <2>2, <2>3
<1>6. a \in -n .. n - 1 /\ b \in -n .. n - 1
  BY <1>3
<1>7. a + b \notin Word <=> (a < 0) = (b < 0) /\ (a < 0) # (Int32(a + b) < 0)
  <2>0. PICK x \in -(2 * n) .. 2 * n - 1 : x = a + b
    BY <1>6
  <2>1. x \notin Word <=> (x < 0) # (Int32(x) < 0)
    BY <1>5
  <2>2. x \notin Word => (a < 0) = (b < 0) /\ (a < 0) = (x < 0)
    BY <1>3, <1>6, <2>0
  <2>3. (a < 0) = (b < 0) => (a < 0) = (x < 0)
    BY <1>6, <2>0
  <2>4. x \notin Word <=> (a < 0) = (b < 0) /\ (a < 0) # (Int32(x) < 0)
    BY <2>1, <2>2, <2>3
  <2>. QED  BY <2>0, <2>4
<1>8. a - b \notin Word <=> (a < 0) # (b < 0) /\ (a < 0) # (Int32(a - b) < 0)
  <2>0. PICK x \in -(2 * n) .. 2 * n - 1 : x = a - b
    BY <1>6
  <2>1. x \notin Word <=> (x < 0) # (Int32(x) < 0)
    BY <1>5
  <2>2. x \notin Word => (a < 0) # (b < 0) /\ (a < 0) = (x < 0)
    BY <1>3, <1>6, <2>0
  <2>3. (a < 0) # (b < 0) => (a < 0) = (x < 0)
    BY <1>6, <2>0
  <2>4. x \notin Word <=> (a < 0) # (b < 0) /\ (a < 0) # (Int32(x) < 0)
    BY <2>1, <2>2, <2>3
  <2>. QED  BY <2>0, <2>4
<1>9. /\ OverflowsBySign("ADD", a, b)
           <=> (a < 0) = (b < 0) /\ (a < 0) # (Int32(a + b) < 0)
      /\ OverflowsBySign("SUB", a, b)
           <=> (a < 0) # (b < 0) /\ (a < 0) # (Int32(a - b) < 0)
      /\ OverflowsBySign("ADDI", a, b)
           <=> (a < 0) = (b < 0) /\ (b < 0) # (Int32(a + b) < 0)
  BY DEF OverflowsBySign
<1>. QED  BY <1>7, <1>8, <1>9

-----------------------------------------------------------------------------
(***************************************************************************)
(* Parts of words                                                          *)
(***************************************************************************)

\* The weight of the k-th byte.
Weight(k) == Power(ByteSize * k)

LEMMA WeightIs == \A k \in 0 .. 4 : Weight(k) \in Nat \ {0} /\ ByteSize * k \in 0 .. 32
<1>1. PICK b \in 1 .. 8 : b = ByteSize
  BY Sizes
<1>2. SUFFICES ASSUME NEW k \in 0 .. 4 PROVE Weight(k) \in Nat \ {0} /\ b * k \in 0 .. 32
  BY <1>1
<1>3. b * k \in 0 .. 32
  <2>1. k = 0 \/ k = 1 \/ k = 2 \/ k = 3 \/ k = 4
    OBVIOUS
  <2>. QED  BY <2>1
<1>4. Weight(k) \in Nat /\ Weight(k) > 0
  BY <1>1, <1>3, PowerIsPositive DEF Weight
<1>. QED  BY <1>3, <1>4

LEMMA WeightOfSum ==
  \A k, m, j \in 0 .. 4 : j = k + m => Weight(j) = Weight(k) * Weight(m)
<1>1. PICK b \in 1 .. 8 : b = ByteSize
  BY Sizes
<1>2. SUFFICES ASSUME NEW k \in 0 .. 4, NEW m \in 0 .. 4, NEW j \in 0 .. 4, j = k + m
               PROVE  Weight(j) = Weight(k) * Weight(m)
  OBVIOUS
<1>3. PICK x \in 0 .. 32, y \in 0 .. 32, z \in 0 .. 32 : x = b * k /\ y = b * m /\ z = b * j
  BY <1>1, WeightIs
<1>4. z = x + y
  <2>1. b * (k + m) = b * k + b * m
    OBVIOUS
  <2>. QED  BY <1>2, <1>3, <2>1
<1>5. Power(x + y) = Power(x) * Power(y)
  BY <1>4, SumOfPowers
<1>. QED  BY <1>1, <1>3, <1>4, <1>5 DEF Weight

LEMMA WeightNames ==
  Weight(1) = Power(ByteSize) /\ Weight(2) = Power(HalfSize) /\ Weight(4) = Power(WordSize)
<1>1. PICK b \in 1 .. 8 : b = ByteSize /\ WordSize = 4 * b /\ HalfSize = 2 * b
  BY Sizes
<1>2. b * 1 = b /\ b * 2 = 2 * b /\ b * 4 = 4 * b
  OBVIOUS
<1>. QED  BY <1>1, <1>2 DEF Weight

\* The middle of a number, written as low + L * (middle + M * high), is replaced.
Replaced(L, M, u, v) == u + (v - ((u \div L) % M)) * L

OnlyTheMiddleChanges(L, M, N, u, v) ==
  LET w == Replaced(L, M, u, v) IN
  /\ w \in 0 .. (L * M) * N - 1
  /\ (w \div L) % M = v
  /\ w \div (L * M) = u \div (L * M)
  /\ w % L = u % L

LEMMA Replacing ==
  ASSUME NEW L \in Nat \ {0}, NEW M \in Nat \ {0}, NEW N \in Nat \ {0}, NEW u, NEW v,
         u \in 0 .. (L * M) * N - 1, v \in 0 .. M - 1
  PROVE  OnlyTheMiddleChanges(L, M, N, u, v)
<1>0. PICK w : w = u + (v - ((u \div L) % M)) * L
  OBVIOUS
<1>1. PICK x \in Int, low \in 0 .. L - 1 : u = L * x + low /\ u \div L = x /\ u % L = low
  BY Divides
<1>2. PICK h \in Int, middle \in 0 .. M - 1 :
        x = M * h + middle /\ x \div M = h /\ x % M = middle
  BY Divides
<1>3. u \div (L * M) = h
  <2>1. PICK z \in Int : z = u
    OBVIOUS
  <2>2. z \div (L * M) = (z \div L) \div M
    BY DividesTwice
  <2>. QED  BY <1>1, <1>2, <2>1, <2>2
<1>4. PICK y \in Int : y = M * h + v
  OBVIOUS
<1>5. w = L * y + low
  <2>1. w = u + (v - middle) * L
    BY <1>0, <1>1, <1>2
  <2>2. (v - middle) * L = L * v - L * middle
    OBVIOUS
  <2>3. L * y = L * (M * h) + L * v /\ L * x = L * (M * h) + L * middle
    BY <1>2, <1>4
  <2>4. PICK p \in Int, q \in Int, t \in Int : p = L * (M * h) /\ q = L * v /\ t = L * middle
    OBVIOUS
  <2>5. w = u + (q - t)
    BY <2>1, <2>2, <2>4
  <2>6. PICK e \in Int, f \in Int : e = L * x /\ f = L * y
    OBVIOUS
  <2>7. u = e + low /\ e = p + t /\ f = p + q
    BY <1>1, <2>3, <2>4, <2>6
  <2>8. w = f + low
    BY <2>5, <2>7
  <2>. QED  BY <2>6, <2>8
<1>6. w \in Int /\ w \div L = y /\ w % L = low
  <2>1. (L * y + low) \div L = y /\ (L * y + low) % L = low
    BY QuotientIs
  <2>. QED  BY <1>5, <2>1
<1>7. y \div M = h /\ y % M = v
  <2>1. (M * h + v) \div M = h /\ (M * h + v) % M = v
    BY QuotientIs
  <2>. QED  BY <1>4, <2>1
<1>8. w \div (L * M) = h
  <2>1. w \div (L * M) = (w \div L) \div M
    BY <1>6, DividesTwice
  <2>. QED  BY <1>6, <1>7, <2>1
<1>9. h >= 0 /\ h <= N - 1
  <2>1. PICK K \in Nat \ {0} : K = L * M
    <3>1. L * M \in Nat \ {0}
      OBVIOUS
    <3>. QED  BY <3>1
  <2>2. h = u \div K /\ u = K * h + (u % K) /\ u % K \in 0 .. K - 1
    <3>1. u \div K \in Int /\ u % K \in 0 .. (K - 1) /\ u = K * (u \div K) + (u % K)
      BY Divides
    <3>. QED  BY <1>3, <2>1, <3>1
  <2>3. h >= 0
    <3>1. CASE h <= -1
      <4>1. K * h <= -K
        BY <3>1, <2>1
      <4>. QED  BY <4>1, <2>2, <2>1
    <3>. QED  BY <3>1
  <2>4. h <= N - 1
    <3>1. CASE h >= N
      <4>1. K * h >= K * N
        BY <3>1, <2>1
      <4>. QED  BY <4>1, <2>2, <2>1
    <3>. QED  BY <3>1
  <2>. QED  BY <2>3, <2>4
<1>10. y >= 0 /\ y <= M * N - 1
  <2>1. M * h >= 0 /\ M * h <= M * (N - 1)
    BY <1>9
  <2>2. M * (N - 1) = M * N - M
    OBVIOUS
  <2>. QED  BY <1>4, <2>1, <2>2
<1>11. w >= 0 /\ w < (L * M) * N
  <2>1. L * y >= 0 /\ L * y <= L * (M * N - 1)
    BY <1>10
  <2>2. L * (M * N - 1) = (L * M) * N - L
    OBVIOUS
  <2>. QED  BY <1>5, <2>1, <2>2
<1>12. /\ w \in 0 .. (L * M) * N - 1
       /\ (w \div L) % M = v
       /\ w \div (L * M) = u \div (L * M)
       /\ w % L = u % L
  <2>1. PICK Z \in Int : Z = (L * M) * N
    OBVIOUS
  <2>2. w \in 0 .. Z - 1
    BY <1>6, <1>11, <2>1
  <2>3. w \in 0 .. (L * M) * N - 1
    BY <2>1, <2>2
  <2>4. (w \div L) % M = v /\ w \div (L * M) = u \div (L * M) /\ w % L = u % L
    BY <1>1, <1>3, <1>6, <1>7, <1>8, Zenon
  <2>. QED  BY <2>3, <2>4, Zenon
<1>. QED  BY <1>0, <1>12, Zenon DEF OnlyTheMiddleChanges, Replaced

\* A digit below the middle, and the number above it, only see their own part.
LEMMA LowerDigit ==
  ASSUME NEW P \in Nat \ {0}, NEW B \in Nat \ {0}, NEW K \in Nat \ {0}, NEW z \in Int
  PROVE  (z \div P) % B = ((z % (P * (B * K))) \div P) % B
<1>1. PICK L \in Nat \ {0} : L = P * (B * K)
  <2>1. P * (B * K) \in Nat \ {0}
    OBVIOUS
  <2>. QED  BY <2>1
<1>2. (z \div P) % B = ((z % L) \div P) % B
  <2>1. PICK q \in Int, r \in 0 .. L - 1 : z = L * q + r /\ z % L = r
    BY Divides
  <2>2. PICK d \in Int, s \in 0 .. P - 1 : r = P * d + s /\ r \div P = d
    <3>1. r \div P \in Int /\ r % P \in 0 .. (P - 1) /\ r = P * (r \div P) + (r % P)
      BY Divides
    <3>. QED  BY <3>1
  <2>3. PICK t \in Int : t = (B * K) * q + d
    OBVIOUS
  <2>4. z = P * t + s
    <3>1. P * t = P * ((B * K) * q) + P * d
      BY <2>3
    <3>2. L * q = P * ((B * K) * q)
      BY <1>1
    <3>. QED  BY <2>1, <2>2, <3>1, <3>2
  <2>5. z \div P = t
    BY <2>4, QuotientIs
  <2>6. PICK e \in Int, f \in 0 .. B - 1 : d = B * e + f /\ d % B = f
    BY Divides
  <2>7. PICK g \in Int : g = K * q + e
    OBVIOUS
  <2>8. t = B * g + f
    BY <2>3, <2>6, <2>7
  <2>9. t % B = f
    BY <2>8, QuotientIs
  <2>. QED  BY <2>1, <2>2, <2>5, <2>6, <2>9
<1>. QED  BY <1>1, <1>2

LEMMA LowerDigits ==
  \A P, B, K \in Nat \ {0} : \A z \in Int :
    (z \div P) % B = ((z % (P * (B * K))) \div P) % B
BY LowerDigit

LEMMA PartIs ==
  ASSUME NEW word, NEW u \in Nat, Unsigned(word) = u,
         NEW at \in 0 .. 3, NEW size \in {1, 2}
  PROVE  Part(word, at, size) = (u \div Weight(at)) % Weight(size)
<1>1. PICK L \in Nat \ {0} : L = Weight(at)
  BY WeightIs
<1>2. u \div L \in Int
  BY Divides
<1>3. ByteSize * size \in 1 .. 32
  BY Sizes
<1>4. PICK x \in Int : x = u \div L
  BY <1>2
<1>5. Bits(x, ByteSize * size) = x % Power(ByteSize * size)
  BY <1>3, BitsAre
<1>. QED  BY <1>1, <1>4, <1>5 DEF Part, Weight, Power

LEMMA PartStaysSeparate ==
  ASSUME NEW word \in Word, NEW value \in Word, NEW size \in {1, 2}, NEW at \in 0 .. 3,
         at + size \in 1 .. 4
  PROVE  LET after == WithPart(word, at, size, value) IN
         /\ after \in Word
         /\ Part(after, at, size) = Bits(value, ByteSize * size)
         /\ \A other \in 0 .. 3 : other \notin at .. (at + size - 1) =>
              Part(after, other, 1) = Part(word, other, 1)
<1>1. at \in 0 .. 3 /\ at + size \in 1 .. 4
  OBVIOUS
<1>2. PICK L \in Nat \ {0}, M \in Nat \ {0}, N \in Nat \ {0} :
        L = Weight(at) /\ M = Weight(size) /\ N = Weight(4 - (at + size))
  <2>1. size \in 0 .. 4 /\ 4 - (at + size) \in 0 .. 4
    BY <1>1
  <2>. QED  BY <1>1, <2>1, WeightIs
<1>3. L * M = Weight(at + size) /\ (L * M) * N = Power(WordSize)
  <2>1. PICK j \in 0 .. 4, k \in 0 .. 4 : j = at + size /\ k = 4 - (at + size)
    BY <1>1
  <2>2. Weight(j) = Weight(at) * Weight(size)
    BY <1>1, <2>1, WeightOfSum
  <2>3. Weight(4) = Weight(j) * Weight(k)
    BY <2>1, WeightOfSum
  <2>. QED  BY <1>2, <2>1, <2>2, <2>3, WeightNames
<1>4. PICK u \in 0 .. (L * M) * N - 1 : u = Unsigned(word)
  BY <1>3, WordsAreInts, UnsignedIs DEF Below
<1>5. PICK v \in 0 .. M - 1 : v = Bits(value, ByteSize * size)
  <2>1. ByteSize * size \in 1 .. 32 /\ value \in Int
    BY Sizes, WordsAreInts
  <2>2. Bits(value, ByteSize * size) \in 0 .. Power(ByteSize * size) - 1
    BY <2>1, BitsAre
  <2>. QED  BY <1>2, <2>2 DEF Weight
<1>6. PICK w : w = u + (v - ((u \div L) % M)) * L
  OBVIOUS
<1>7. /\ w \in 0 .. (L * M) * N - 1
      /\ (w \div L) % M = v
      /\ w \div (L * M) = u \div (L * M)
      /\ w % L = u % L
  <2>1. OnlyTheMiddleChanges(L, M, N, u, v)
    BY Replacing
  <2>. QED  BY <1>6, <2>1 DEF OnlyTheMiddleChanges, Replaced
<1>8. PICK after : after = WithPart(word, at, size, value)
  OBVIOUS
<1>9. after = Int32(w)
  <2>1. Part(word, at, size) = (u \div L) % M
    BY <1>1, <1>2, <1>4, PartIs
  <2>. QED  BY <1>2, <1>4, <1>5, <1>6, <1>8, <2>1 DEF WithPart, Weight, Power
<1>10. after \in Word
  BY <1>7, <1>9, Int32IsWord
<1>11. Unsigned(after) = w
  <2>1. w \in Below
    BY <1>3, <1>7 DEF Below
  <2>. QED  BY <1>9, <2>1, UnsignedOfBelow
<1>12. Part(after, at, size) = v
  BY <1>1, <1>2, <1>7, <1>11, PartIs
<1>13. ASSUME NEW other \in 0 .. 3, other \notin at .. (at + size - 1)
       PROVE  Part(after, other, 1) = Part(word, other, 1)
  <2>1. /\ Part(after, other, 1) = (w \div Weight(other)) % Weight(1)
        /\ Part(word, other, 1) = (u \div Weight(other)) % Weight(1)
    BY <1>4, <1>7, <1>11, PartIs
  <2>2. PICK P \in Nat \ {0}, B \in Nat \ {0} : P = Weight(other) /\ B = Weight(1)
    BY WeightIs
  <2>3. CASE other < at
    <3>1. PICK j \in 0 .. 4, k \in 0 .. 4 : j = at - other /\ k = at - other - 1
      BY <1>1, <2>3
    <3>2. PICK K \in Nat \ {0} : K = Weight(k)
      BY WeightIs
    <3>3. Weight(j) = Weight(1) * Weight(k)
      BY <1>1, <3>1, WeightOfSum
    <3>4. Weight(at) = Weight(other) * Weight(j)
      BY <1>1, <3>1, WeightOfSum
    <3>5. L = P * (B * K)
      BY <1>2, <2>2, <3>2, <3>3, <3>4
    <3>6. w % (P * (B * K)) = u % (P * (B * K))
      BY <1>7, <3>5
    <3>7. PICK x \in Int, y \in Int : x = w /\ y = u
      BY <1>7
    <3>8. (x \div P) % B = (y \div P) % B
      <4>1. (x \div P) % B = ((x % (P * (B * K))) \div P) % B
        BY LowerDigits, Zenon
      <4>2. (y \div P) % B = ((y % (P * (B * K))) \div P) % B
        BY LowerDigits, Zenon
      <4>. QED  BY <3>6, <3>7, <4>1, <4>2, Zenon
    <3>. QED  BY <2>1, <2>2, <3>7, <3>8
  <2>4. CASE other >= at + size
    <3>1. PICK j \in 0 .. 4, k \in 0 .. 4 : j = at + size /\ k = other - (at + size)
      BY <1>1, <2>4
    <3>2. PICK K \in Nat \ {0} : K = Weight(k)
      BY WeightIs
    <3>3. Weight(other) = Weight(j) * Weight(k)
      BY <1>1, <3>1, WeightOfSum
    <3>4. P = (L * M) * K
      BY <1>3, <2>2, <3>1, <3>2, <3>3
    <3>5. PICK Q \in Nat \ {0} : Q = L * M
      <4>1. L * M \in Nat \ {0}
        OBVIOUS
      <4>. QED  BY <4>1
    <3>6. PICK x \in Int, y \in Int : x = w /\ y = u
      BY <1>7
    <3>7. x \div (Q * K) = (x \div Q) \div K /\ y \div (Q * K) = (y \div Q) \div K
      BY DividesTwice
    <3>8. w \div P = u \div P
      BY <1>7, <3>4, <3>5, <3>6, <3>7
    <3>. QED  BY <2>1, <2>2, <3>8
  <2>. QED  BY <1>1, <1>13, <2>3, <2>4
<1>. QED  BY <1>5, <1>8, <1>10, <1>12, <1>13

LEMMA PartsStaySeparate == PartsAreSeparate
<1>1. ASSUME NEW size \in {1, 2}, NEW at \in {k \in 0 .. 3 : k % size = 0}
      PROVE  at \in 0 .. 3 /\ at + size \in 1 .. 4
  OBVIOUS
<1>2. ASSUME NEW word \in Word, NEW value \in Word, NEW size \in {1, 2}, NEW at \in 0 .. 3,
             at + size \in 1 .. 4
      PROVE  LET after == WithPart(word, at, size, value) IN
             /\ after \in Word
             /\ Part(after, at, size) = Bits(value, ByteSize * size)
             /\ \A other \in 0 .. 3 : other \notin at .. (at + size - 1) =>
                  Part(after, other, 1) = Part(word, other, 1)
  BY <1>2, PartStaysSeparate
<1>. USE DEF PartsAreSeparate
<1>. TAKE word, value \in Word
<1>. TAKE size \in {1, 2}
<1>. TAKE at \in {k \in 0 .. 3 : k % size = 0}
<1>3. at \in 0 .. 3 /\ at + size \in 1 .. 4
  BY <1>1
<1>. QED  BY <1>2, <1>3


-----------------------------------------------------------------------------
(***************************************************************************)
(* What instructions leave in the registers and in memory                  *)
(***************************************************************************)

\* What Decode promises of an instruction.
Fields(i) ==
  /\ i.rs \in GprNames /\ i.rt \in GprNames /\ i.rd \in GprNames
  /\ i.extra \in Word
  /\ i.op \in {"SLL", "SRA", "SRL"} => i.extra \in 0 .. WordSize - 1

LEMMA FieldsAreGood == \A word \in Word : Fields(Decode[word])
BY DecodeAssumption DEF Fields

LEMMA Int32Is == \A x \in Int : Int32(x) \in Word
BY Int32IsWord

LEMMA ShiftsToTheRight ==
  ASSUME NEW b \in Word, NEW d \in Nat \ {0}
  PROVE  b \div d \in Word
<1>1. PICK n \in Nat : n = Power(WordSize - 1) /\ Word = -n .. n - 1 /\ n >= 8
  BY Moduli, WordIs
<1>2. PICK q \in Int, r \in 0 .. d - 1 : b = d * q + r /\ b \div d = q
  BY Divides, WordsAreInts
<1>3. b >= -n /\ b <= n - 1
  BY <1>1
<1>4. q <= n - 1
  <2>1. CASE q >= n
    <3>1. d * q >= d * n /\ d * n >= n
      BY <2>1, <1>1
    <3>. QED  BY <3>1, <1>2, <1>3
  <2>. QED  BY <2>1, <1>1
<1>5. q >= -n
  <2>1. CASE q <= -n - 1
    <3>1. d * q <= d * (-n - 1)
      BY <2>1, <1>1
    <3>2. d * (-n - 1) = -(d * n) - d /\ d * n >= n
      BY <1>1
    <3>3. PICK e \in Int, m \in Int : e = d * q /\ m = d * n
      BY <1>1
    <3>4. e <= -m - d /\ m >= n /\ b = e + r
      BY <1>2, <3>1, <3>2, <3>3
    <3>. QED  BY <3>4, <1>1, <1>3
  <2>. QED  BY <2>1, <1>1
<1>. QED  BY <1>1, <1>2, <1>4, <1>5

LEMMA DivResults ==
  ASSUME NEW a \in Word, NEW b \in Word
  PROVE  /\ Div(a, b).hi \in Word /\ Div(a, b).lo \in Word
         /\ DivU(a, b).hi \in Word /\ DivU(a, b).lo \in Word
<1>1. PICK n \in Nat : n = Power(WordSize - 1) /\ Word = -n .. n - 1 /\ n >= 8
                         /\ Power(WordSize) = 2 * n
  BY Moduli, WordIs
<1>2. CASE b = 0
  BY <1>2, <1>1 DEF Div, DivU
<1>3. CASE b # 0
  <2>1. PICK x \in Nat, y \in Nat \ {0} : x = Magnitude(a) /\ y = Magnitude(b)
    BY <1>1, <1>3 DEF Magnitude
  <2>2. x \div y \in Int
    BY Divides
  <2>3. PICK q \in Int : q = Quotient(a, b)
    BY <2>1, <2>2 DEF Quotient
  <2>4. a - b * q \in Int
    BY <1>1
  <2>5. Div(a, b) = [hi |-> Int32(a - b * q), lo |-> Int32(q)]
    BY <1>3, <2>3 DEF Div
  <2>6. Div(a, b).hi \in Word /\ Div(a, b).lo \in Word
    BY <2>4, <2>5, Int32Is
  <2>7. PICK u \in Nat : u = Unsigned(a)
    BY <1>1, UnsignedIs DEF Below
  <2>8. PICK v \in Nat \ {0} : v = Unsigned(b)
    <3>1. CASE b > 0
      BY <3>1, <1>1, UnsignedOfBelow DEF Below
    <3>2. CASE b < 0
      <4>1. -b \in Below /\ -b > 0 /\ -(-b) = b
        BY <3>2, <1>1 DEF Below
      <4>2. Unsigned(-(-b)) = Power(WordSize) - (-b)
        BY <4>1, UnsignedOfNegative
      <4>. QED  BY <4>1, <4>2, <1>1
    <3>. QED  BY <3>1, <3>2, <1>1, <1>3
  <2>9. u \div v \in Int /\ u % v \in Int
    <3>1. u \div v \in Int /\ u % v \in 0 .. (v - 1) /\ u = v * (u \div v) + (u % v)
      BY Divides
    <3>. QED  BY <3>1
  <2>10. DivU(a, b) = [hi |-> Int32(u % v), lo |-> Int32(u \div v)]
    BY <1>3, <2>7, <2>8 DEF DivU
  <2>11. DivU(a, b).hi \in Word /\ DivU(a, b).lo \in Word
    BY <2>9, <2>10, Int32Is
  <2>. QED  BY <2>6, <2>11
<1>. QED  BY <1>2, <1>3

LEMMA MultResults ==
  ASSUME NEW a \in Word, NEW b \in Word, NEW signedArith \in BOOLEAN
  PROVE  Mult(a, b, signedArith).hi \in Word /\ Mult(a, b, signedArith).lo \in Word
<1>1. PICK hi \in Below, lo \in Below :
    LET x == IF signedArith THEN Magnitude(a) ELSE Unsigned(a)
        y == IF signedArith THEN Magnitude(b) ELSE Unsigned(b)
        negative == signedArith /\ (a < 0) # (b < 0)
        low  == IF negative THEN Unsigned(-lo) ELSE lo
        high == IF ~negative THEN hi ELSE Unsigned(-hi - 1 + (IF low = 0 THEN 1 ELSE 0)) IN
    /\ hi * Power(WordSize) + lo = y * x
    /\ Mult(a, b, signedArith) =
         IF a = 0 \/ b = 0 THEN [hi |-> 0, lo |-> 0] ELSE [hi |-> Int32(high), lo |-> Int32(low)]
  BY MultResult
<1>2. hi \in Int /\ lo \in Int /\ \A x \in Int : Unsigned(x) \in Int
  BY Moduli, UnsignedIs DEF Below
<1>3. PICK negative \in BOOLEAN : negative = (signedArith /\ (a < 0) # (b < 0))
  OBVIOUS
<1>4. PICK low \in Int : low = IF negative THEN Unsigned(-lo) ELSE lo
  BY <1>2
<1>5. PICK high \in Int :
        high = IF ~negative THEN hi ELSE Unsigned(-hi - 1 + (IF low = 0 THEN 1 ELSE 0))
  BY <1>2
<1>6. Mult(a, b, signedArith) =
         IF a = 0 \/ b = 0 THEN [hi |-> 0, lo |-> 0] ELSE [hi |-> Int32(high), lo |-> Int32(low)]
  BY <1>1, <1>3, <1>4, <1>5
<1>7. 0 \in Word /\ Int32(high) \in Word /\ Int32(low) \in Word
  BY Int32Is, WordsAreInts
<1>. QED  BY <1>6, <1>7

LEMMA HiLoIsGood ==
  ASSUME NEW i, NEW a \in Word, NEW b \in Word, NEW r \in Registers
  PROVE  HiLo(i, a, b, r).hi \in Word /\ HiLo(i, a, b, r).lo \in Word
<1>1. r.hi \in Word /\ r.lo \in Word
  BY DEF Registers
<1>2. /\ Mult(a, b, TRUE).hi \in Word /\ Mult(a, b, TRUE).lo \in Word
      /\ Mult(a, b, FALSE).hi \in Word /\ Mult(a, b, FALSE).lo \in Word
  BY MultResults
<1>3. /\ Div(a, b).hi \in Word /\ Div(a, b).lo \in Word
      /\ DivU(a, b).hi \in Word /\ DivU(a, b).lo \in Word
  BY DivResults
<1>. QED  BY <1>1, <1>2, <1>3 DEF HiLo

LEMMA PowersAreNumbers == \A n \in 0 .. 32 : 2 ^ n \in Nat \ {0}
<1>1. \A n \in 0 .. 32 : Power(n) \in Nat \ {0}
  BY PowerIsPositive
<1>. QED  BY <1>1, Zenon DEF Power

LEMMA ResultIsWord ==
  ASSUME NEW i, Fields(i), i.op \in IntoRd \cup IntoRt,
         NEW a \in Word, NEW b \in Word, NEW r \in Registers
  PROVE  Result(i, a, b, r) \in Word
<1>1. /\ i.extra \in Word /\ r.hi \in Word /\ r.lo \in Word
      /\ Word \subseteq Int /\ 0 \in Word /\ 1 \in Word
  BY WordsAreInts DEF Fields, Registers
<1>2. PICK imm \in Word : imm = i.extra
  BY <1>1
<1>3. PICK low \in Int : low = Bits(i.extra, HalfSize)
  <2>1. HalfSize \in 1 .. 32 /\ imm \in Int
    BY Sizes, <1>1
  <2>2. Bits(imm, HalfSize) = imm % Power(HalfSize) /\ Bits(imm, HalfSize) \in 0 .. Power(HalfSize) - 1
    BY <2>1, BitsAre
  <2>. QED  BY <1>2, <2>2
<1>4. PICK shift \in 0 .. WordSize - 1 : shift = Unsigned(a) % WordSize
  <2>1. Unsigned(a) \in Int /\ WordSize \in Nat \ {0}
    BY <1>1, Sizes, UnsignedIs, Moduli DEF Below
  <2>2. Unsigned(a) % WordSize \in 0 .. (WordSize - 1)
    BY <2>1, Divides
  <2>. QED  BY <2>2
<1>5. /\ And(a, b) \in Int /\ And(a, low) \in Int /\ Or(a, a) \in Int /\ Or(a, low) \in Int
      /\ Or(a, b) \in Int /\ Xor(a, b) \in Int /\ Xor(a, low) \in Int
  <2>1. a \in Int /\ b \in Int
    BY <1>1
  <2>2. \A x, y \in Int : And(x, y) \in Int /\ Or(x, y) \in Int /\ Xor(x, y) \in Int
    <3>1. ASSUME NEW x \in Int, NEW y \in Int
          PROVE  And(x, y) \in Int /\ Or(x, y) \in Int /\ Xor(x, y) \in Int
      <4>1. /\ And(x, y) \in 0 .. Power(WordSize) - 1
            /\ Or(x, y) \in 0 .. Power(WordSize) - 1
            /\ Xor(x, y) \in 0 .. Power(WordSize) - 1
        BY BitwiseResults
      <4>. QED  BY <4>1
    <3>. QED  BY <3>1
  <2>. QED  BY <2>1, <2>2
<1>6. PICK half \in Nat, shifted \in Nat \ {0} : half = 2 ^ HalfSize /\ shifted = 2 ^ shift
  <2>1. PICK h \in 0 .. 32, k \in 0 .. 32 : h = HalfSize /\ k = shift
    BY Sizes
  <2>2. 2 ^ h \in Nat \ {0} /\ 2 ^ k \in Nat \ {0}
    BY PowersAreNumbers
  <2>. QED  BY <2>1, <2>2
<1>7. /\ a + b \in Int /\ a - b \in Int /\ a + imm \in Int /\ imm * half \in Int
      /\ b * shifted \in Int /\ -1 - Or(a, b) \in Int
  BY <1>1, <1>5
<1>8. b \div shifted \in Word
  BY ShiftsToTheRight
<1>9. i.op \in {"SLL", "SRA", "SRL"} => b * 2 ^ imm \in Int /\ b \div 2 ^ imm \in Word
  <2>1. SUFFICES ASSUME i.op \in {"SLL", "SRA", "SRL"}
                 PROVE  b * 2 ^ imm \in Int /\ b \div 2 ^ imm \in Word
    OBVIOUS
  <2>2. imm \in 0 .. 32
    BY <2>1, <1>2, Sizes DEF Fields
  <2>3. PICK d \in Nat \ {0} : d = 2 ^ imm
    BY <2>2, PowersAreNumbers
  <2>4. b * d \in Int
    BY <1>1
  <2>5. b \div d \in Word
    BY ShiftsToTheRight
  <2>. QED  BY <2>3, <2>4, <2>5
<1>10. \A c : Flag(c) \in Word
  BY <1>1 DEF Flag
<1>11. CASE i.op \in {"ADD", "ADDU", "ADDI", "ADDIU", "SUB", "SUBU"}
  BY <1>11, <1>2, <1>7, Int32Is DEF Result
<1>12. CASE i.op \in {"AND", "ANDI", "OR", "ORI", "XOR", "XORI", "NOR"}
  BY <1>12, <1>3, <1>5, <1>7, Int32Is DEF Result
<1>13. CASE i.op \in {"LUI", "SLL", "SLLV", "SRA", "SRL", "SRAV", "SRLV"}
  BY <1>13, <1>2, <1>4, <1>6, <1>7, <1>8, <1>9, Int32Is DEF Result
<1>14. CASE i.op \in {"SLT", "SLTI", "SLTU", "SLTIU"}
  BY <1>14, <1>10 DEF Result
<1>15. CASE i.op \in {"MFHI", "MFLO"}
  BY <1>15, <1>1 DEF Result
<1>. QED  BY <1>11, <1>12, <1>13, <1>14, <1>15 DEF IntoRd, IntoRt


LEMMA PartIsSmall ==
  ASSUME NEW word \in Word, NEW at \in 0 .. 3, NEW size \in {1, 2}
  PROVE  Part(word, at, size) \in 0 .. Power(ByteSize * size) - 1 /\ Part(word, at, size) \in Word
<1>1. PICK u \in Nat : u = Unsigned(word)
  BY WordsAreInts, UnsignedIs DEF Below
<1>2. Part(word, at, size) = (u \div Weight(at)) % Weight(size)
  BY <1>1, PartIs
<1>3. PICK L \in Nat \ {0}, M \in Nat \ {0} : L = Weight(at) /\ M = Weight(size)
  BY WeightIs
<1>4. PICK x \in Int : x = u \div L
  BY <1>3, Divides
<1>5. x % M \in 0 .. (M - 1)
  BY Divides
<1>6. M = Power(ByteSize * size)
  BY <1>3 DEF Weight
<1>7. M <= Power(WordSize - 1)
  <2>1. ByteSize * size \in 1 .. HalfSize
    BY Sizes
  <2>. QED  BY <1>6, <2>1, Moduli
<1>8. PICK n \in Nat : n = Power(WordSize - 1) /\ Word = -n .. n - 1
  BY Moduli, WordIs
<1>. QED  BY <1>2, <1>3, <1>4, <1>5, <1>6, <1>7, <1>8

LEMMA SignedPartIsWord ==
  ASSUME NEW x \in Int, NEW n \in 1 .. HalfSize
  PROVE  Signed(x, n) \in Word
<1>1. n \in 1 .. 32
  BY Sizes
<1>2. Signed(x, n) \in -Power(n - 1) .. Power(n - 1) - 1
  BY <1>1, SignedIs
<1>3. PICK p \in Nat : p = Power(n - 1) /\ Power(n) = 2 * p
  <2>1. n - 1 \in 0 .. 31 /\ (n - 1) + 1 = n
    BY <1>1
  <2>2. Power((n - 1) + 1) = 2 * Power(n - 1)
    BY <2>1, Doubling
  <2>. QED  BY <2>1, <2>2, PowerIsPositive
<1>4. PICK m \in Nat : m = Power(WordSize - 1) /\ Word = -m .. m - 1
  BY Moduli, WordIs
<1>5. 2 * p <= m
  BY <1>3, <1>4, Moduli
<1>. QED  BY <1>2, <1>3, <1>4, <1>5

LEMMA WithPartIsWord ==
  ASSUME NEW word \in Word, NEW value \in Word,
         NEW size \in {1, 2}, NEW at \in 0 .. 3
  PROVE  WithPart(word, at, size, value) \in Word
<1>1. PICK u \in Int : u = Unsigned(word)
  BY WordsAreInts, UnsignedIs, Moduli DEF Below
<1>2. PICK L \in Nat : L = 2 ^ (ByteSize * at)
  <2>1. PICK k \in 0 .. 32 : k = ByteSize * at
    BY WeightIs
  <2>2. 2 ^ k \in Nat
    BY PowersAreNumbers
  <2>. QED  BY <2>1, <2>2
<1>3. PICK part \in Int : part = Part(word, at, size)
  BY PartIsSmall, WordsAreInts
<1>4. PICK bits \in Int : bits = Bits(value, ByteSize * size)
  <2>1. ByteSize * size \in 1 .. 32 /\ value \in Int
    BY Sizes, WordsAreInts
  <2>2. /\ Bits(value, ByteSize * size) = value % Power(ByteSize * size)
        /\ Bits(value, ByteSize * size) \in 0 .. Power(ByteSize * size) - 1
    BY <2>1, BitsAre
  <2>. QED  BY <2>2
<1>5. u + (bits - part) * L \in Int
  OBVIOUS
<1>6. Int32(u + (bits - part) * L) \in Word
  BY <1>5, Int32Is
<1>. QED  BY <1>1, <1>2, <1>3, <1>4, <1>6 DEF WithPart

\* Where in its word an address is.
LEMMA PlaceInWord ==
  ASSUME NEW i, Fields(i), NEW r \in Registers
  PROVE  Address(i, r) \in Word /\ Address(i, r) % 4 \in 0 .. 3
<1>1. r.gpr[i.rs] \in Int /\ i.extra \in Int
  BY WordsAreInts DEF Fields, Registers
<1>2. PICK x \in Int : x = r.gpr[i.rs] + i.extra
  BY <1>1
<1>3. Int32(x) \in Word
  BY Int32Is
<1>4. PICK y \in Int : y = Int32(x)
  BY <1>3, WordsAreInts
<1>5. y % 4 \in 0 .. 3
  OBVIOUS
<1>. QED  BY <1>2, <1>3, <1>4, <1>5 DEF Address

LEMMA LoadedIsWord ==
  ASSUME NEW i, Fields(i), i.op \in Loads, NEW r \in Registers, NEW word \in Word
  PROVE  Loaded(i, r, word) \in Word
<1>1. PICK at \in 0 .. 3 : at = Address(i, r) % 4
  BY PlaceInWord
<1>2. PICK old \in Word : old = IF r.loadReg = i.rt THEN r.loadValue ELSE r.gpr[i.rt]
  BY DEF Fields, Registers
<1>3. /\ Part(word, at, 1) \in Word /\ Part(word, at, 2) \in Word /\ Part(word, 3, 1) \in Word
  BY PartIsSmall
<1>4. PICK part \in Word : part = Part(word, 3, 1)
  BY <1>3
<1>5. WithPart(old, 0, 1, part) \in Word
  BY WithPartIsWord
<1>6. /\ Signed(Part(word, at, 1), ByteSize) \in Word
      /\ Signed(Part(word, at, 2), HalfSize) \in Word
  <2>1. PICK x \in Int, y \in Int : x = Part(word, at, 1) /\ y = Part(word, at, 2)
    BY <1>3, WordsAreInts
  <2>2. ByteSize \in 1 .. HalfSize /\ HalfSize \in 1 .. HalfSize
    BY Sizes
  <2>3. Signed(x, ByteSize) \in Word /\ Signed(y, HalfSize) \in Word
    BY <2>2, SignedPartIsWord
  <2>. QED  BY <2>1, <2>3
<1>. QED  BY <1>1, <1>2, <1>3, <1>4, <1>5, <1>6 DEF Loaded, Loads

LEMMA StoredIsWord ==
  ASSUME NEW i, Fields(i), i.op \in Stores, NEW r \in Registers, NEW word \in Word
  PROVE  Stored(i, r, word) \in Word
<1>1. PICK at \in 0 .. 3 : at = Address(i, r) % 4
  BY PlaceInWord
<1>2. PICK value \in Word : value = r.gpr[i.rt]
  BY DEF Fields, Registers
<1>3. /\ WithPart(word, at, 1, value) \in Word /\ WithPart(word, at, 2, value) \in Word
      /\ WithPart(word, 3, 1, value) \in Word
  BY WithPartIsWord
<1>. QED  BY <1>1, <1>2, <1>3 DEF Stored, Stores, Size

LEMMA InitRegistersAreGood == InitRegisters \in Registers /\ InitRegisters.gpr[0] = 0
<1>1. 0 \in Word /\ 4 \in Word /\ 0 \in GprNames
  BY WordsAreInts, MipsAssumption DEF GprNames
<1>. QED  BY <1>1 DEF InitRegisters, Registers

LEMMA DelayedLoadIsGood ==
  ASSUME NEW r \in Registers, NEW reg \in GprNames, NEW value \in Word
  PROVE  /\ DelayedLoad(r, reg, value) \in Registers
         /\ DelayedLoad(r, reg, value).gpr[0] = 0
         /\ DelayedLoad(r, reg, value).loadReg = reg
         /\ DelayedLoad(r, reg, value).pc = r.pc
<1>1. 0 \in Word /\ 0 \in GprNames
  BY WordsAreInts, MipsAssumption DEF GprNames
<1>. QED  BY <1>1 DEF DelayedLoad, Registers

LEMMA SettledIsGood ==
  ASSUME NEW r \in Registers
  PROVE  /\ Settled(r) \in Registers /\ Settled(r).gpr[0] = 0
         /\ Settled(r).loadReg = 0 /\ Settled(r).pc = r.pc
<1>1. 0 \in Word /\ 0 \in GprNames
  BY WordsAreInts, MipsAssumption DEF GprNames
<1>2. /\ DelayedLoad(r, 0, 0) \in Registers
      /\ DelayedLoad(r, 0, 0).gpr[0] = 0
      /\ DelayedLoad(r, 0, 0).loadReg = 0
      /\ DelayedLoad(r, 0, 0).pc = r.pc
  BY <1>1, DelayedLoadIsGood
<1>. QED  BY <1>2 DEF Settled

LEMMA ForwardPCIsGood ==
  ASSUME NEW r \in Registers
  PROVE  /\ ForwardPC(r) \in Registers /\ ForwardPC(r).gpr = r.gpr
         /\ ForwardPC(r).loadReg = r.loadReg
<1>1. r.nextPC \in Int
  BY WordsAreInts DEF Registers
<1>2. PICK x \in Int : x = r.nextPC + 4
  BY <1>1
<1>3. Int32(x) \in Word
  BY Int32Is
<1>. QED  BY <1>2, <1>3 DEF ForwardPC, Registers

LEMMA LinkedIsGood ==
  ASSUME NEW i, Fields(i), NEW r \in Registers
  PROVE  Linked(i, r) \in [GprNames -> Word]
<1>0. r.nextPC \in Int
  BY WordsAreInts DEF Registers
<1>1. PICK x \in Int : x = r.nextPC + 4
  BY <1>0
<1>2. Int32(x) \in Word /\ R31 \in GprNames
  BY Int32Is, MipsAssumption DEF GprNames
<1>. QED  BY <1>1, <1>2 DEF Linked, Registers, Fields

LEMMA PcAfterIsGood ==
  ASSUME NEW i, Fields(i), NEW r \in Registers, NEW gpr \in [GprNames -> Word]
  PROVE  PcAfter(i, r, gpr) \in Word
<1>1. r.nextPC \in Int /\ i.extra \in Int
  BY WordsAreInts DEF Registers, Fields
<1>2. r.nextPC + 4 \in Int /\ 4 * i.extra \in Int /\ r.nextPC + 4 * i.extra \in Int
  BY <1>1
<1>3. Int32(r.nextPC + 4) \in Word /\ Int32(r.nextPC + 4 * i.extra) \in Word
  BY <1>2, Int32Is
<1>4. PICK after \in Int, extra \in Int : after = Int32(r.nextPC + 4) /\ extra = 4 * i.extra
  BY <1>2, <1>3, WordsAreInts
<1>5. PICK region \in Nat \ {0} : region = 2 ^ (WordSize - WordSize \div 8)
  <2>1. WordSize - WordSize \div 8 \in 0 .. 32
    BY Sizes
  <2>. QED  BY <2>1, PowersAreNumbers
<1>6. PICK x \in Int : x = after - (after % region) + (extra % region)
  <2>1. after % region \in Int /\ extra % region \in Int
    BY Divides
  <2>2. after - (after % region) + (extra % region) \in Int
    BY <2>1
  <2>. QED  BY <2>2
<1>7. Int32(x) \in Word
  BY Int32Is
<1>. QED  BY <1>3, <1>4, <1>5, <1>6, <1>7 DEF PcAfter, Fields

LEMMA CompletedIsGood ==
  ASSUME NEW i, Fields(i), NEW r \in Registers, NEW word \in Word
  PROVE  Completed(i, r, word) \in Registers /\ Completed(i, r, word).gpr[0] = 0
<1>1. PICK gpr \in [GprNames -> Word] : gpr = Linked(i, r)
  BY LinkedIsGood
<1>2. PICK a \in Word, b \in Word : a = gpr[i.rs] /\ b = gpr[i.rt]
  BY DEF Fields
<1>3. PICK hi \in Word, lo \in Word : hi = HiLo(i, a, b, r).hi /\ lo = HiLo(i, a, b, r).lo
  BY HiLoIsGood
<1>4. PICK written \in [GprNames -> Word] :
        written = CASE i.op \in IntoRd -> [gpr EXCEPT ![i.rd] = Result(i, a, b, r)]
                    [] i.op \in IntoRt -> [gpr EXCEPT ![i.rt] = Result(i, a, b, r)]
                    [] OTHER -> gpr
  <2>1. i.op \in IntoRd \cup IntoRt => Result(i, a, b, r) \in Word
    BY ResultIsWord
  <2>. QED  BY <2>1 DEF Fields
<1>5. PICK reg \in GprNames, value \in Word :
        /\ reg = IF i.op \in Loads THEN i.rt ELSE 0
        /\ value = IF i.op \in Loads THEN Loaded(i, r, word) ELSE 0
  <2>1. i.op \in Loads => Loaded(i, r, word) \in Word
    BY LoadedIsWord
  <2>2. 0 \in Word /\ 0 \in GprNames
    BY WordsAreInts, MipsAssumption DEF GprNames
  <2>. QED  BY <2>1, <2>2 DEF Fields
<1>6. PICK s \in Registers : s = [r EXCEPT !.gpr = written, !.hi = hi, !.lo = lo]
  <2>1. [r EXCEPT !.gpr = written, !.hi = hi, !.lo = lo] \in Registers
    BY DEF Registers
  <2>. QED  BY <2>1
<1>7. PICK loaded \in Registers : loaded = DelayedLoad(s, reg, value) /\ loaded.gpr[0] = 0
  BY DelayedLoadIsGood
<1>8. PICK after \in Word : after = PcAfter(i, r, gpr)
  BY PcAfterIsGood
<1>9. Completed(i, r, word) = [loaded EXCEPT !.pc = r.nextPC, !.nextPC = after]
  BY <1>1, <1>2, <1>3, <1>4, <1>5, <1>6, <1>7, <1>8 DEF Completed
<1>. QED  BY <1>7, <1>9 DEF Registers


-----------------------------------------------------------------------------
(***************************************************************************)
(* The arithmetic of every instruction that is about to run                *)
(***************************************************************************)

\* For every size of words, a multiplication, an addition or subtraction that may
\* overflow, a load or a store that a program is about to do does on bit patterns
\* what is meant on integers: Mult gives the whole product, the signs tell every
\* overflow, parts of words stay apart.
THEOREM ArithmeticIsAlwaysExact == CpuSpec => []ArithmeticIsExact
<1>1. ArithmeticIsExact
  BY Multiplies, OverflowsAreSeen, PartsStaySeparate DEF ArithmeticIsExact
<1>. QED  BY <1>1, PTL

-----------------------------------------------------------------------------
(***************************************************************************)
(* Addresses                                                               *)
(***************************************************************************)

\* An address inside the address space is not negative, and is that of a word.
LEMMA Inside ==
  ASSUME NEW address \in Word, Unsigned(address) < AddressSpace
  PROVE  /\ address >= 0 /\ Unsigned(address) = address
         /\ address \div 4 \in 0 .. AddressSpace \div 4 - 1
<1>1. PICK n \in Nat : n = Power(WordSize - 1) /\ Word = -n .. n - 1 /\ n >= 8
                         /\ Power(WordSize) = 2 * n
  BY Moduli, WordIs
<1>2. PICK k \in 1 .. 32 : PageSize = 4 * k
  BY CpuAssumption
<1>3. PICK m \in Nat : m = k * NumPages /\ AddressSpace = 4 * m
  <2>1. NumPages \in Nat
    BY CpuAssumption
  <2>2. k * NumPages \in Nat /\ (4 * k) * NumPages = 4 * (k * NumPages)
    BY <2>1
  <2>. QED  BY <1>2, <2>2 DEF AddressSpace
<1>4. 4 * m < n
  BY <1>1, <1>3, CpuAssumption DEF AddressSpace, Power
<1>5. address >= 0
  <2>1. CASE address < 0
    <3>1. -address \in Below /\ -address > 0 /\ -(-address) = address
      BY <2>1, <1>1 DEF Below
    <3>2. Unsigned(-(-address)) = Power(WordSize) - (-address)
      BY <3>1, UnsignedOfNegative
    <3>3. Unsigned(address) = 2 * n + address
      BY <1>1, <3>1, <3>2
    <3>. QED  BY <1>1, <1>3, <1>4, <3>3
  <2>. QED  BY <2>1, <1>1
<1>6. Unsigned(address) = address
  BY <1>1, <1>5, UnsignedOfBelow DEF Below
<1>7. address < 4 * m
  BY <1>3, <1>6
<1>8. address \div 4 \in 0 .. m - 1
  BY <1>1, <1>5, <1>7
<1>9. (4 * m) \div 4 = m
  OBVIOUS
<1>. QED  BY <1>3, <1>5, <1>6, <1>8, <1>9

\* Translate on an address.
LEMMA Translated ==
  ASSUME NEW address \in Word, NEW size \in {1, 2, 4}
  PROVE  /\ Translate(address, size) \in {"AddressError", "PageFault", "None"}
         /\ Translate(address, size) = "AddressError"
              <=> ~(address % size = 0 /\ Unsigned(address) < AddressSpace)
         /\ Translate(address, size) = "PageFault"
              => Unsigned(address) \div PageSize \in 0 .. NumPages - 1
<1>1. PICK u \in Nat : u = Unsigned(address)
  BY WordsAreInts, UnsignedIs DEF Below
<1>2. PICK p \in Nat \ {0}, n \in Nat \ {0} : p = PageSize /\ n = NumPages
  <2>1. PICK k \in 1 .. 32 : PageSize = 4 * k
    BY CpuAssumption
  <2>2. PageSize \in Nat \ {0}
    BY <2>1
  <2>. QED  BY <2>2, CpuAssumption
<1>3. PICK page \in Int, rest \in 0 .. p - 1 : u = p * page + rest /\ u \div p = page
  <2>1. u \div p \in Int /\ u % p \in 0 .. (p - 1) /\ u = p * (u \div p) + (u % p)
    BY Divides
  <2>. QED  BY <2>1
<1>4. page >= 0
  <2>1. CASE page <= -1
    <3>1. p * page <= -p
      BY <2>1
    <3>. QED  BY <3>1, <1>3
  <2>. QED  BY <2>1
<1>5. page >= n <=> u >= p * n
  <2>1. CASE page >= n
    <3>1. p * page >= p * n
      BY <2>1
    <3>. QED  BY <2>1, <3>1, <1>3
  <2>2. CASE page <= n - 1
    <3>1. p * page <= p * (n - 1) /\ p * (n - 1) = p * n - p
      BY <2>2
    <3>2. PICK x \in Int, y \in Int : x = p * page /\ y = p * n
      OBVIOUS
    <3>3. x <= y - p /\ u = x + rest
      BY <3>1, <3>2, <1>3
    <3>4. u < y
      BY <3>3
    <3>. QED  BY <2>2, <3>2, <3>4
  <2>. QED  BY <2>1, <2>2
<1>6. PICK space \in Int : space = p * n /\ AddressSpace = space
  BY <1>2 DEF AddressSpace
<1>7. page >= n <=> ~(u < space)
  BY <1>5, <1>6
<1>8. Translate(address, size) =
        IF address % size # 0 \/ page >= n THEN "AddressError"
        ELSE IF page \notin valid[pageTable] THEN "PageFault"
        ELSE "None"
  BY <1>1, <1>2, <1>3 DEF Translate
<1>9. Translate(address, size) \in {"AddressError", "PageFault", "None"}
  BY <1>8
<1>10. Translate(address, size) = "AddressError" <=> ~(address % size = 0 /\ u < space)
  BY <1>7, <1>8
<1>11. Translate(address, size) = "PageFault" => page \in 0 .. n - 1
  BY <1>4, <1>8
<1>. QED  BY <1>1, <1>2, <1>3, <1>6, <1>9, <1>10, <1>11

-----------------------------------------------------------------------------
(***************************************************************************)
(* Pages in main memory                                                    *)
(***************************************************************************)
PairsOf(v) == {pair \in Procs \X (0 .. NumPages - 1) : pair[2] \in v[pair[1]]}

LEMMA FewerPages ==
  ASSUME NEW S, NEW T, IsFiniteSet(S), Cardinality(S) <= NumPhysPages, T \subseteq S
  PROVE  IsFiniteSet(T) /\ Cardinality(T) <= NumPhysPages
<1>1. T \in SUBSET S
  OBVIOUS
<1>2. IsFiniteSet(T) /\ Cardinality(T) <= Cardinality(S)
  BY <1>1, FS_Subset
<1>3. Cardinality(T) \in Nat /\ Cardinality(S) \in Nat /\ NumPhysPages \in Nat
  BY <1>2, FS_CardinalityType, CpuAssumption
<1>. QED  BY <1>2, <1>3

\* A page leaves its frame for one that is to come ...
LEMMA PageGoesOut ==
  ASSUME NEW v \in [Procs -> SUBSET (0 .. NumPages - 1)], NEW out,
         IsFiniteSet(PairsOf(v)), Cardinality(PairsOf(v)) <= NumPhysPages,
         out \in IF Cardinality(PairsOf(v)) < NumPhysPages THEN {{}}
                ELSE {{pair} : pair \in PairsOf(v)},
         NEW w, w = [p \in Procs |-> {page \in v[p] : <<p, page>> \notin out}]
  PROVE  /\ w \in [Procs -> SUBSET (0 .. NumPages - 1)]
         /\ IsFiniteSet(PairsOf(w)) /\ Cardinality(PairsOf(w)) < NumPhysPages
<1>1. w \in [Procs -> SUBSET (0 .. NumPages - 1)]
  OBVIOUS
<1>2. PairsOf(w) = PairsOf(v) \ out
  <2>1. \A p \in Procs : \A page \in 0 .. NumPages - 1 :
          <<p, page>> \in PairsOf(w) <=> <<p, page>> \in PairsOf(v) \ out
    BY DEF PairsOf
  <2>2. PairsOf(w) \subseteq Procs \X (0 .. NumPages - 1)
    BY DEF PairsOf
  <2>3. PairsOf(v) \subseteq Procs \X (0 .. NumPages - 1)
    BY DEF PairsOf
  <2>. QED  BY <2>1, <2>2, <2>3
<1>3. PICK c \in Nat, n \in Nat \ {0} : c = Cardinality(PairsOf(v)) /\ n = NumPhysPages
  BY FS_CardinalityType, CpuAssumption
<1>4. CASE c < n
  <2>1. PairsOf(w) = PairsOf(v)
    BY <1>2, <1>3, <1>4
  <2>. QED  BY <1>1, <1>3, <1>4, <2>1
<1>5. CASE ~(c < n)
  <2>1. PICK pair \in PairsOf(v) : out = {pair}
    BY <1>3, <1>5
  <2>2. IsFiniteSet(PairsOf(v) \ {pair}) /\ Cardinality(PairsOf(v) \ {pair}) = c - 1
    BY <1>3, <2>1, FS_RemoveElement
  <2>3. c <= n /\ c - 1 < n
    BY <1>3
  <2>. QED  BY <1>1, <1>2, <1>3, <2>1, <2>2, <2>3
<1>. QED  BY <1>4, <1>5

\* ... and that one comes in.
LEMMA PageComesIn ==
  ASSUME NEW v \in [Procs -> SUBSET (0 .. NumPages - 1)],
         NEW c \in Procs, NEW page \in 0 .. NumPages - 1,
         IsFiniteSet(PairsOf(v)), Cardinality(PairsOf(v)) < NumPhysPages,
         NEW w, w = [v EXCEPT ![c] = @ \cup {page}]
  PROVE  IsFiniteSet(PairsOf(w)) /\ Cardinality(PairsOf(w)) <= NumPhysPages
<1>1. PairsOf(w) \subseteq PairsOf(v) \cup {<<c, page>>}
  <2>1. SUFFICES ASSUME NEW p \in Procs, NEW q \in 0 .. NumPages - 1, q \in w[p]
                 PROVE  <<p, q>> \in PairsOf(v) \cup {<<c, page>>}
    BY DEF PairsOf
  <2>2. CASE p = c /\ q = page
    BY <2>2
  <2>3. CASE ~(p = c /\ q = page)
    <3>1. q \in v[p]
      BY <2>1, <2>3
    <3>. QED  BY <3>1 DEF PairsOf
  <2>. QED  BY <2>2, <2>3
<1>2. /\ IsFiniteSet(PairsOf(v) \cup {<<c, page>>})
      /\ \/ Cardinality(PairsOf(v) \cup {<<c, page>>}) = Cardinality(PairsOf(v))
         \/ Cardinality(PairsOf(v) \cup {<<c, page>>}) = Cardinality(PairsOf(v)) + 1
  BY FS_AddElement
<1>3. PICK k \in Nat, n \in Nat : k = Cardinality(PairsOf(v)) /\ n = NumPhysPages
  BY FS_CardinalityType, CpuAssumption
<1>4. k <= n /\ k + 1 <= n
  BY <1>3
<1>5. Cardinality(PairsOf(v) \cup {<<c, page>>}) <= NumPhysPages
  BY <1>2, <1>3, <1>4
<1>. QED  BY <1>1, <1>2, <1>5, FewerPages

-----------------------------------------------------------------------------
(***************************************************************************)
(* The inductive invariant                                                 *)
(***************************************************************************)
Modes ==
  {New, Forked, User, Ended}
    \cup {Mode(kind, 0) : kind \in {"AddressError", "Overflow", "IllegalInstr", "Syscall"}}
    \cup {Mode(kind, page) : kind \in {"PageFault", "LoadPage"}, page \in 0 .. NumPages - 1}

Pages == [Procs -> SUBSET (0 .. NumPages - 1)]
Words == [Procs -> [0 .. AddressSpace \div 4 - 1 -> Word]]
Good  == {r \in Registers : r.gpr[0] = 0}

RegistersInv ==
  /\ registers \in Good /\ userRegisters \in [Procs -> Good]
  /\ NoLoadIsOnItsWay

\* The current process has started, and it is its page table that the CPU uses.
ControlInv ==
  /\ timer \in BOOLEAN
  /\ currentThread \in Procs /\ pageTable = currentThread
  /\ mode \in [Procs -> Modes] /\ mode[currentThread] \notin {New, Forked}
  /\ halted \in BOOLEAN

MemoryInv == valid \in Pages /\ memory \in Words

\* Without the timer no page is in the memory that has no frame, and the process
\* that is having a page loaded has the CPU, and a frame for it.
FramesInv ==
  ~timer =>
    /\ IsFiniteSet(PairsOf(valid)) /\ Cardinality(PairsOf(valid)) <= NumPhysPages
    /\ \A p \in Procs : mode[p].at = "LoadPage" =>
         p = currentThread /\ Cardinality(PairsOf(valid)) < NumPhysPages

\* Without the timer, a process that waits in a system call is still at its SYSCALL.
RegistersOf(p) == IF p = currentThread THEN registers ELSE userRegisters[p]

AtSyscall(p) ==
  /\ RegistersOf(p).pc % 4 = 0 /\ Unsigned(RegistersOf(p).pc) < AddressSpace
  /\ Decode[memory[p][RegistersOf(p).pc \div 4]].op = "SYSCALL"

CallsInv == ~timer => \A p \in Procs : mode[p].at = "Syscall" => AtSyscall(p)

CpuInv == RegistersInv /\ ControlInv /\ MemoryInv /\ FramesInv /\ CallsInv

LEMMA ModeIs == \A kind, page : Mode(kind, page).at = kind /\ Mode(kind, page).page = page
BY DEF Mode

LEMMA NamedModes ==
  /\ New \in Modes /\ Forked \in Modes /\ User \in Modes /\ Ended \in Modes
  /\ New.at = "New" /\ Forked.at = "Forked" /\ User.at = "User" /\ Ended.at = "Ended"
BY ModeIs DEF Modes, New, Forked, User, Ended

LEMMA ModesAre ==
  \A m \in Modes :
    /\ m.at \in {"New", "Forked", "User", "Ended", "AddressError", "Overflow", "IllegalInstr",
                 "Syscall", "PageFault", "LoadPage"}
    /\ m.at = "New" => m = New
    /\ m.at = "Forked" => m = Forked
    /\ m.at = "User" => m = User
    /\ m.at = "Ended" => m = Ended
    /\ m.at \in {"PageFault", "LoadPage"} => m.page \in 0 .. NumPages - 1
<1>1. SUFFICES ASSUME NEW m \in Modes
      PROVE /\ m.at \in {"New", "Forked", "User", "Ended", "AddressError", "Overflow",
                         "IllegalInstr", "Syscall", "PageFault", "LoadPage"}
            /\ m.at = "New" => m = New
            /\ m.at = "Forked" => m = Forked
            /\ m.at = "User" => m = User
            /\ m.at = "Ended" => m = Ended
            /\ m.at \in {"PageFault", "LoadPage"} => m.page \in 0 .. NumPages - 1
  OBVIOUS
<1>2. CASE m \in {New, Forked, User, Ended}
  BY <1>2, NamedModes
<1>3. CASE \E kind \in {"AddressError", "Overflow", "IllegalInstr", "Syscall"} : m = Mode(kind, 0)
  <2>1. PICK kind \in {"AddressError", "Overflow", "IllegalInstr", "Syscall"} : m = Mode(kind, 0)
    BY <1>3
  <2>2. m.at = kind
    BY <2>1, ModeIs
  <2>. QED  BY <2>2
<1>4. CASE \E kind \in {"PageFault", "LoadPage"}, page \in 0 .. NumPages - 1 : m = Mode(kind, page)
  <2>1. PICK kind \in {"PageFault", "LoadPage"}, page \in 0 .. NumPages - 1 : m = Mode(kind, page)
    BY <1>4
  <2>2. m.at = kind /\ m.page = page
    BY <2>1, ModeIs
  <2>. QED  BY <2>2
<1>. QED  BY <1>2, <1>3, <1>4 DEF Modes

LEMMA UserIsAMode == \A p \in Procs : ControlInv => (mode[p] = User <=> mode[p].at = "User")
BY NamedModes, ModesAre DEF ControlInv

\* What the CPU finds in memory are words; without the timer, the program's own.
LEMMA FoundAre ==
  ASSUME CpuInv, NEW at \in 0 .. AddressSpace \div 4 - 1
  PROVE  /\ Found(at) \subseteq Word
         /\ ~timer => Found(at) = {memory[currentThread][at]}
<1>1. memory[pageTable][at] \in Word /\ pageTable = currentThread
  BY DEF CpuInv, ControlInv, MemoryInv, Words
<1>2. Strays \subseteq Word
  BY CpuAssumption
<1>3. CASE timer
  BY <1>1, <1>2, <1>3 DEF Found
<1>4. CASE ~timer
  <2>1. Found(at) = {memory[pageTable][at]}
    BY <1>4 DEF Found
  <2>. QED  BY <1>1, <2>1
<1>. QED  BY <1>3, <1>4

LEMMA Fetched ==
  ASSUME CpuInv, Fetch = "None"
  PROVE  /\ registers.pc % 4 = 0 /\ Unsigned(registers.pc) < AddressSpace
         /\ \A i \in Instructions : Fields(i)
         /\ ~timer => Instructions = {Decode[memory[currentThread][registers.pc \div 4]]}
<1>1. registers.pc \in Word /\ 4 \in {1, 2, 4}
  BY DEF CpuInv, RegistersInv, Good, Registers
<1>2. Translate(registers.pc, 4) = "AddressError"
        <=> ~(registers.pc % 4 = 0 /\ Unsigned(registers.pc) < AddressSpace)
  BY <1>1, Translated
<1>3. registers.pc % 4 = 0 /\ Unsigned(registers.pc) < AddressSpace
  BY <1>2 DEF Fetch
<1>4. registers.pc \div 4 \in 0 .. AddressSpace \div 4 - 1
  BY <1>1, <1>3, Inside
<1>5. /\ Found(registers.pc \div 4) \subseteq Word
      /\ ~timer => Found(registers.pc \div 4) = {memory[currentThread][registers.pc \div 4]}
  BY <1>4, FoundAre
<1>6. \A i \in Instructions : Fields(i)
  BY <1>5, FieldsAreGood DEF Instructions
<1>7. ~timer => Instructions = {Decode[memory[currentThread][registers.pc \div 4]]}
  BY <1>5 DEF Instructions
<1>. QED  BY <1>3, <1>6, <1>7

LEMMA SizeIs == \A op : Size(op) \in {1, 2, 4}
BY DEF Size

LEMMA Used ==
  ASSUME CpuInv, NEW i, Fields(i)
  PROVE  /\ Operand(i) \in Word
         /\ Translate(Operand(i), Size(i.op)) \in {"AddressError", "PageFault", "None"}
         /\ Translate(Operand(i), Size(i.op)) = "AddressError"
              <=> ~(Operand(i) % Size(i.op) = 0 /\ Unsigned(Operand(i)) < AddressSpace)
         /\ Translate(Operand(i), Size(i.op)) = "PageFault"
              => Unsigned(Operand(i)) \div PageSize \in 0 .. NumPages - 1
         /\ Unsigned(Operand(i)) < AddressSpace
              => Unsigned(Operand(i)) \div 4 \in 0 .. AddressSpace \div 4 - 1
<1>1. registers \in Registers
  BY DEF CpuInv, RegistersInv, Good
<1>2. Operand(i) \in Word
  BY <1>1, PlaceInWord DEF Operand
<1>3. PICK address \in Word, size \in {1, 2, 4} :
        address = Operand(i) /\ size = Size(i.op)
  BY <1>2, SizeIs
<1>4. /\ Translate(address, size) \in {"AddressError", "PageFault", "None"}
      /\ Translate(address, size) = "AddressError"
           <=> ~(address % size = 0 /\ Unsigned(address) < AddressSpace)
      /\ Translate(address, size) = "PageFault"
           => Unsigned(address) \div PageSize \in 0 .. NumPages - 1
  BY Translated
<1>5. Unsigned(address) < AddressSpace =>
        Unsigned(address) \div 4 \in 0 .. AddressSpace \div 4 - 1
  <2>1. SUFFICES ASSUME Unsigned(address) < AddressSpace
                 PROVE  Unsigned(address) \div 4 \in 0 .. AddressSpace \div 4 - 1
    OBVIOUS
  <2>2. Unsigned(address) = address /\ address \div 4 \in 0 .. AddressSpace \div 4 - 1
    BY <2>1, Inside
  <2>. QED  BY <2>2
<1>. QED  BY <1>2, <1>3, <1>4, <1>5

\* How an instruction may end.
LEMMA OutcomesAre ==
  ASSUME CpuInv, NEW i, Fields(i), NEW kind, kind = Outcome(i).kind
  PROVE  /\ kind \in {"None", "Abort", "AddressError", "PageFault", "Overflow", "IllegalInstr",
                      "Syscall"}
         /\ kind = "Abort" => Outcome(i) = [kind |-> "Abort", address |-> 0]
         /\ kind # "Abort" => ~StopsNachos(i, registers)
         /\ kind = "PageFault" => Unsigned(Outcome(i).address) \div PageSize \in 0 .. NumPages - 1
         /\ kind = "Syscall" => i.op = "SYSCALL"
         /\ kind = "None" =>
              /\ Raises(i, registers) = "None"
              /\ UsesMemory(i) => Operand(i) % Size(i.op) = 0 /\ Unsigned(Operand(i)) < AddressSpace
         /\ kind \in {"AddressError", "Overflow", "IllegalInstr"} =>
              \/ Raises(i, registers) \in {"Overflow", "IllegalInstr"}
              \/ UsesMemory(i) /\ ~(Operand(i) % Size(i.op) = 0 /\ Unsigned(Operand(i)) < AddressSpace)
<1>1. Raises(i, registers) \in {"None", "Syscall", "IllegalInstr", "Overflow"}
  BY DEF Raises
<1>2. Raises(i, registers) = "Syscall" => i.op = "SYSCALL"
  BY DEF Raises
<1>3. CASE StopsNachos(i, registers)
  <2>1. Outcome(i) = [kind |-> "Abort", address |-> 0]
    BY <1>3 DEF Outcome
  <2>. QED  BY <2>1
<1>4. CASE ~StopsNachos(i, registers) /\ Raises(i, registers) # "None"
  <2>1. Outcome(i) = [kind |-> Raises(i, registers), address |-> 0]
    BY <1>4 DEF Outcome
  <2>2. kind = Raises(i, registers)
    BY <2>1
  <2>. QED  BY <1>1, <1>2, <1>4, <2>2
<1>5. CASE ~StopsNachos(i, registers) /\ Raises(i, registers) = "None" /\ UsesMemory(i)
  <2>1. Outcome(i) = [kind |-> Translate(Operand(i), Size(i.op)), address |-> Operand(i)]
    BY <1>5 DEF Outcome
  <2>2. kind = Translate(Operand(i), Size(i.op)) /\ Outcome(i).address = Operand(i)
    BY <2>1
  <2>3. /\ Translate(Operand(i), Size(i.op)) \in {"AddressError", "PageFault", "None"}
        /\ Translate(Operand(i), Size(i.op)) = "AddressError"
             <=> ~(Operand(i) % Size(i.op) = 0 /\ Unsigned(Operand(i)) < AddressSpace)
        /\ Translate(Operand(i), Size(i.op)) = "PageFault"
             => Unsigned(Operand(i)) \div PageSize \in 0 .. NumPages - 1
    BY Used
  <2>. QED  BY <1>5, <2>2, <2>3
<1>6. CASE ~StopsNachos(i, registers) /\ Raises(i, registers) = "None" /\ ~UsesMemory(i)
  <2>1. Outcome(i) = [kind |-> "None", address |-> 0]
    BY <1>6 DEF Outcome
  <2>. QED  BY <1>6, <2>1
<1>. QED  BY <1>3, <1>4, <1>5, <1>6

LEMMA ExceptionModes ==
  \A kind \in {"AddressError", "PageFault", "Overflow", "IllegalInstr", "Syscall"} :
    \A page \in 0 .. NumPages - 1 :
      Mode(kind, IF kind = "PageFault" THEN page ELSE 0) \in Modes
BY DEF Modes

\* Which exceptions may be raised, and when.
LEMMA RaisedAre ==
  ASSUME CpuInv, NEW exception \in Exceptions, exception.kind # "None",
         NEW kind, kind = exception.kind
  PROVE  /\ kind \in {"AddressError", "PageFault", "Overflow", "IllegalInstr", "Syscall"}
         /\ ModeFor(exception) \in Modes /\ ModeFor(exception).at = kind
         /\ kind = "Syscall" => Fetch = "None" /\ \E i \in Instructions : i.op = "SYSCALL"
         /\ kind \in {"AddressError", "Overflow", "IllegalInstr"} =>
              \/ ~(registers.pc % 4 = 0 /\ Unsigned(registers.pc) < AddressSpace)
              \/ /\ Fetch = "None"
                 /\ \E i \in Instructions :
                      /\ ~StopsNachos(i, registers)
                      /\ \/ Raises(i, registers) \in {"Overflow", "IllegalInstr"}
                         \/ /\ UsesMemory(i)
                            /\ ~(/\ Operand(i) % Size(i.op) = 0
                                 /\ Unsigned(Operand(i)) < AddressSpace)
<1>1. SUFFICES
        /\ kind \in {"AddressError", "PageFault", "Overflow", "IllegalInstr", "Syscall"}
        /\ kind = "PageFault" => Unsigned(exception.address) \div PageSize \in 0 .. NumPages - 1
        /\ kind = "Syscall" => Fetch = "None" /\ \E i \in Instructions : i.op = "SYSCALL"
        /\ kind \in {"AddressError", "Overflow", "IllegalInstr"} =>
             \/ ~(registers.pc % 4 = 0 /\ Unsigned(registers.pc) < AddressSpace)
             \/ /\ Fetch = "None"
                /\ \E i \in Instructions :
                     /\ ~StopsNachos(i, registers)
                     /\ \/ Raises(i, registers) \in {"Overflow", "IllegalInstr"}
                        \/ /\ UsesMemory(i)
                           /\ ~(/\ Operand(i) % Size(i.op) = 0
                                /\ Unsigned(Operand(i)) < AddressSpace)
  <2>1. 0 \in 0 .. NumPages - 1
    BY CpuAssumption
  <2>2. PICK page \in 0 .. NumPages - 1 :
          ModeFor(exception) = Mode(kind, IF kind = "PageFault" THEN page ELSE 0)
    BY <1>1, <2>1 DEF ModeFor
  <2>3. ModeFor(exception) \in Modes
    BY <1>1, <2>2, ExceptionModes
  <2>4. ModeFor(exception).at = kind
    BY <2>2, ModeIs
  <2>. QED  BY <1>1, <2>3, <2>4
<1>2. CASE Fetch # "None"
  <2>1. exception = [kind |-> Fetch, address |-> registers.pc]
    BY <1>2 DEF Exceptions
  <2>2. kind = Fetch /\ exception.address = registers.pc
    BY <2>1
  <2>3. registers.pc \in Word /\ 4 \in {1, 2, 4}
    BY DEF CpuInv, RegistersInv, Good, Registers
  <2>4. /\ Translate(registers.pc, 4) \in {"AddressError", "PageFault", "None"}
        /\ Translate(registers.pc, 4) = "AddressError"
             <=> ~(registers.pc % 4 = 0 /\ Unsigned(registers.pc) < AddressSpace)
        /\ Translate(registers.pc, 4) = "PageFault"
             => Unsigned(registers.pc) \div PageSize \in 0 .. NumPages - 1
    BY <2>3, Translated
  <2>. QED  BY <1>2, <2>2, <2>4 DEF Fetch
<1>3. CASE Fetch = "None"
  <2>1. PICK i \in Instructions : exception = Outcome(i) /\ exception # [kind |-> "Abort", address |-> 0]
    BY <1>3 DEF Exceptions
  <2>2. Fields(i)
    BY <1>3, Fetched
  <2>3. /\ kind \in {"None", "Abort", "AddressError", "PageFault", "Overflow", "IllegalInstr",
                     "Syscall"}
        /\ kind = "Abort" => Outcome(i) = [kind |-> "Abort", address |-> 0]
        /\ kind # "Abort" => ~StopsNachos(i, registers)
        /\ kind = "PageFault" => Unsigned(Outcome(i).address) \div PageSize \in 0 .. NumPages - 1
        /\ kind = "Syscall" => i.op = "SYSCALL"
        /\ kind \in {"AddressError", "Overflow", "IllegalInstr"} =>
             \/ Raises(i, registers) \in {"Overflow", "IllegalInstr"}
             \/ UsesMemory(i) /\ ~(Operand(i) % Size(i.op) = 0 /\ Unsigned(Operand(i)) < AddressSpace)
    BY <2>1, <2>2, OutcomesAre
  <2>4. kind # "Abort" /\ kind # "None"
    BY <2>1, <2>3
  <2>. QED  BY <1>3, <2>1, <2>3, <2>4
<1>. QED  BY <1>2, <1>3


LEMMA InitInv == CpuInit => CpuInv
<1>1. SUFFICES ASSUME CpuInit PROVE CpuInv
  OBVIOUS
<1>2. InitRegisters \in Good /\ InitRegisters.loadReg = 0
  BY InitRegistersAreGood DEF Good, InitRegisters
<1>3. RegistersInv
  BY <1>1, <1>2 DEF CpuInit, RegistersInv, NoLoadIsOnItsWay
<1>4. ControlInv
  <2>1. User # New /\ User # Forked /\ New \in Modes /\ User \in Modes
    BY NamedModes
  <2>2. First \in Procs
    BY CpuAssumption
  <2>. QED  BY <1>1, <2>1, <2>2 DEF CpuInit, ControlInv
<1>5. MemoryInv
  BY <1>1, CpuAssumption DEF CpuInit, MemoryInv, Pages, Words, AddressSpace
<1>6. \A p \in Procs : mode[p].at # "Syscall" /\ mode[p].at # "LoadPage"
  BY <1>1, NamedModes DEF CpuInit
<1>7. FramesInv
  <2>1. PairsOf(valid) = {}
    BY <1>1 DEF CpuInit, PairsOf
  <2>2. IsFiniteSet({}) /\ Cardinality({}) = 0 /\ 0 <= NumPhysPages
    BY FS_EmptySet, CpuAssumption
  <2>. QED  BY <1>6, <2>1, <2>2 DEF FramesInv
<1>8. CallsInv
  BY <1>6 DEF CallsInv
<1>. QED  BY <1>3, <1>4, <1>5, <1>7, <1>8 DEF CpuInv

\* Frames, when no page comes in and nobody begins to have one loaded.
LEMMA FramesKept ==
  ASSUME CpuInv, timer' = timer, PairsOf(valid') \subseteq PairsOf(valid),
         ~timer => \A p \in Procs : mode'[p].at = "LoadPage" =>
                     mode[p].at = "LoadPage" /\ currentThread' = currentThread
  PROVE  FramesInv'
<1>. SUFFICES ASSUME ~timer PROVE FramesInv'
  BY DEF FramesInv
<1>1. /\ IsFiniteSet(PairsOf(valid)) /\ Cardinality(PairsOf(valid)) <= NumPhysPages
      /\ \A p \in Procs : mode[p].at = "LoadPage" =>
           p = currentThread /\ Cardinality(PairsOf(valid)) < NumPhysPages
  BY DEF CpuInv, FramesInv
<1>2. IsFiniteSet(PairsOf(valid')) /\ Cardinality(PairsOf(valid')) <= Cardinality(PairsOf(valid))
  BY <1>1, FS_Subset
<1>3. /\ Cardinality(PairsOf(valid')) \in Nat /\ Cardinality(PairsOf(valid)) \in Nat
      /\ NumPhysPages \in Nat
  BY <1>1, <1>2, FS_CardinalityType, CpuAssumption
<1>4. Cardinality(PairsOf(valid)) < NumPhysPages => Cardinality(PairsOf(valid')) < NumPhysPages
  BY <1>2, <1>3
<1>5. Cardinality(PairsOf(valid')) <= NumPhysPages
  BY <1>1, <1>2, <1>3
<1>. QED  BY <1>1, <1>2, <1>4, <1>5 DEF FramesInv

\* What each action does to the invariant.
LEMMA OneInstructionInv == CpuInv /\ OneInstruction => CpuInv'
<1>1. SUFFICES ASSUME CpuInv, OneInstruction PROVE CpuInv'
  OBVIOUS
<1>2. Fetch = "None"
  BY <1>1 DEF OneInstruction
<1>3a. PICK i \in Instructions : \E at :
        /\ at = Unsigned(Operand(i)) \div 4
        /\ Outcome(i).kind = "None"
        /\ \E found \in IF UsesMemory(i) THEN Found(at) ELSE {0} :
             /\ registers' = Completed(i, registers, found)
             /\ memory' = IF i.op \in Stores
                            THEN [memory EXCEPT ![pageTable][at] = Stored(i, registers, found)]
                            ELSE memory
  BY <1>1 DEF OneInstruction
<1>3. PICK at :
        /\ at = Unsigned(Operand(i)) \div 4
        /\ Outcome(i).kind = "None"
        /\ \E found \in IF UsesMemory(i) THEN Found(at) ELSE {0} :
             /\ registers' = Completed(i, registers, found)
             /\ memory' = IF i.op \in Stores
                            THEN [memory EXCEPT ![pageTable][at] = Stored(i, registers, found)]
                            ELSE memory
  BY <1>3a
<1>4. registers \in Registers /\ Fields(i)
  BY <1>1, <1>2, <1>3, Fetched DEF CpuInv, RegistersInv, Good
<1>5. UsesMemory(i) => Unsigned(Operand(i)) < AddressSpace
  BY <1>1, <1>3, <1>4, OutcomesAre
<1>6. UsesMemory(i) => at \in 0 .. AddressSpace \div 4 - 1
  BY <1>1, <1>3, <1>4, <1>5, Used
<1>7. UsesMemory(i) => Found(at) \subseteq Word
  BY <1>1, <1>6, FoundAre
<1>8. PICK word \in Word :
        /\ registers' = Completed(i, registers, word)
        /\ memory' = IF i.op \in Stores
                       THEN [memory EXCEPT ![pageTable][at] = Stored(i, registers, word)]
                       ELSE memory
  BY <1>3, <1>7, WordsAreInts
<1>9. registers' \in Good
  BY <1>4, <1>8, CompletedIsGood DEF Good
<1>10. /\ UNCHANGED <<timer, userRegisters, currentThread, pageTable, valid, mode, halted>>
       /\ InUserMode
  BY <1>1 DEF OneInstruction
<1>11. RegistersInv'
  BY <1>1, <1>9, <1>10 DEF CpuInv, RegistersInv, InUserMode, NoLoadIsOnItsWay
<1>12. ControlInv'
  BY <1>1, <1>10 DEF CpuInv, ControlInv
<1>13. memory' \in Words
  <2>1. CASE i.op \in Stores
    <3>1. PICK stored \in Word : stored = Stored(i, registers, word)
      BY <1>4, <2>1, StoredIsWord
    <3>2. memory' = [memory EXCEPT ![pageTable][at] = stored]
      BY <1>8, <2>1, <3>1
    <3>3. memory \in Words
      BY <1>1 DEF CpuInv, MemoryInv
    <3>. QED  BY <3>2, <3>3 DEF Words
  <2>2. CASE i.op \notin Stores
    BY <1>1, <1>8, <2>2 DEF CpuInv, MemoryInv
  <2>. QED  BY <2>1, <2>2
<1>14. MemoryInv'
  BY <1>1, <1>10, <1>13 DEF CpuInv, MemoryInv
<1>15. FramesInv'
  BY <1>1, <1>10, FramesKept
<1>16. CallsInv'
  <2>1. SUFFICES ASSUME ~timer, NEW p \in Procs, mode[p].at = "Syscall"
                 PROVE  AtSyscall(p)'
    BY <1>10 DEF CallsInv
  <2>2. p # currentThread
    BY <1>10, <2>1, NamedModes DEF InUserMode
  <2>3. memory'[p] = memory[p]
    BY <1>1, <1>8, <2>2 DEF CpuInv, ControlInv, MemoryInv, Words
  <2>4. RegistersOf(p)' = RegistersOf(p)
    BY <1>10, <2>2 DEF RegistersOf
  <2>5. AtSyscall(p)
    BY <1>1, <2>1 DEF CpuInv, CallsInv
  <2>. QED  BY <2>3, <2>4, <2>5 DEF AtSyscall
<1>. QED  BY <1>11, <1>12, <1>14, <1>15, <1>16 DEF CpuInv

\* Only whether Nachos goes on may have changed.
LEMMA HaltedInv ==
  ASSUME CpuInv, halted' \in BOOLEAN,
         UNCHANGED <<timer, registers, userRegisters, currentThread, pageTable, valid, memory, mode>>
  PROVE  CpuInv'
<1>1. RegistersInv'
  BY DEF CpuInv, RegistersInv, NoLoadIsOnItsWay
<1>2. ControlInv'
  BY DEF CpuInv, ControlInv
<1>3. MemoryInv'
  BY DEF CpuInv, MemoryInv
<1>4. FramesInv'
  BY FramesKept
<1>5. CallsInv'
  BY DEF CpuInv, CallsInv, AtSyscall, RegistersOf
<1>. QED  BY <1>1, <1>2, <1>3, <1>4, <1>5 DEF CpuInv

LEMMA NachosAbortsInv == CpuInv /\ NachosAborts => CpuInv'
BY HaltedInv DEF NachosAborts

LEMMA RaiseExceptionInv == CpuInv /\ RaiseException => CpuInv'
<1>1. SUFFICES ASSUME CpuInv, RaiseException PROVE CpuInv'
  OBVIOUS
<1>2. PICK exception \in Exceptions :
        /\ exception.kind # "None"
        /\ mode' = [mode EXCEPT ![currentThread] = ModeFor(exception)]
  BY <1>1 DEF RaiseException
<1>3. PICK kind, m : kind = exception.kind /\ m = ModeFor(exception)
  OBVIOUS
<1>4. /\ kind \in {"AddressError", "PageFault", "Overflow", "IllegalInstr", "Syscall"}
      /\ m \in Modes /\ m.at = kind
      /\ kind = "Syscall" => Fetch = "None" /\ \E i \in Instructions : i.op = "SYSCALL"
  BY <1>1, <1>2, <1>3, RaisedAre
<1>5. mode' = [mode EXCEPT ![currentThread] = m]
  BY <1>2, <1>3
<1>6. registers \in Registers
  BY <1>1 DEF CpuInv, RegistersInv, Good
<1>7. /\ Settled(registers) \in Registers /\ Settled(registers).gpr[0] = 0
      /\ Settled(registers).loadReg = 0 /\ Settled(registers).pc = registers.pc
  BY <1>6, SettledIsGood
<1>8. registers' \in Good /\ registers'.loadReg = 0 /\ registers'.pc = registers.pc
  BY <1>1, <1>7 DEF RaiseException, Good
<1>9. UNCHANGED <<timer, userRegisters, currentThread, pageTable, valid, memory, halted>>
  BY <1>1 DEF RaiseException
<1>10. RegistersInv'
  BY <1>1, <1>8, <1>9 DEF CpuInv, RegistersInv, NoLoadIsOnItsWay
<1>11. ControlInv'
  <2>1. m # New /\ m # Forked
    BY <1>4, NamedModes
  <2>2. mode' \in [Procs -> Modes] /\ mode'[currentThread] = m
    BY <1>1, <1>4, <1>5 DEF CpuInv, ControlInv
  <2>. QED  BY <1>1, <1>9, <2>1, <2>2 DEF CpuInv, ControlInv
<1>12. MemoryInv'
  BY <1>1, <1>9 DEF CpuInv, MemoryInv
<1>13. FramesInv'
  <2>1. \A p \in Procs : mode'[p].at = "LoadPage" => mode[p].at = "LoadPage"
    BY <1>1, <1>4, <1>5 DEF CpuInv, ControlInv
  <2>. QED  BY <1>1, <1>9, <2>1, FramesKept
<1>14. CallsInv'
  <2>1. SUFFICES ASSUME ~timer, NEW p \in Procs, mode'[p].at = "Syscall"
                 PROVE  AtSyscall(p)'
    BY <1>9 DEF CallsInv
  <2>2. CASE p = currentThread
    <3>1. kind = "Syscall"
      BY <1>1, <1>4, <1>5, <2>1, <2>2 DEF CpuInv, ControlInv
    <3>2. Fetch = "None" /\ \E i \in Instructions : i.op = "SYSCALL"
      BY <1>4, <3>1
    <3>3. /\ registers.pc % 4 = 0 /\ Unsigned(registers.pc) < AddressSpace
          /\ Instructions = {Decode[memory[currentThread][registers.pc \div 4]]}
      BY <1>1, <2>1, <3>2, Fetched
    <3>4. Decode[memory[p][registers.pc \div 4]].op = "SYSCALL"
      BY <2>2, <3>2, <3>3
    <3>5. RegistersOf(p)' = registers' /\ memory' = memory
      BY <1>9, <2>2 DEF RegistersOf
    <3>. QED  BY <1>8, <3>3, <3>4, <3>5 DEF AtSyscall
  <2>3. CASE p # currentThread
    <3>1. RegistersOf(p)' = RegistersOf(p) /\ memory' = memory /\ mode'[p] = mode[p]
      BY <1>1, <1>5, <1>9, <2>3 DEF RegistersOf, CpuInv, ControlInv
    <3>2. AtSyscall(p)
      BY <1>1, <2>1, <3>1 DEF CpuInv, CallsInv
    <3>. QED  BY <3>1, <3>2 DEF AtSyscall
  <2>. QED  BY <2>2, <2>3
<1>. QED  BY <1>10, <1>11, <1>12, <1>13, <1>14 DEF CpuInv

\* Actions of the kernel for the current process, after which it is not at a
\* system call: they change its registers, and start other processes at most.
LEMMA KernelInv ==
  ASSUME CpuInv, registers' \in Good, registers'.loadReg = 0,
         UNCHANGED <<timer, userRegisters, currentThread, pageTable, memory>>,
         mode' \in [Procs -> Modes], mode'[currentThread] \notin {New, Forked},
         mode'[currentThread].at # "Syscall",
         \A p \in Procs \ {currentThread} : mode'[p] = mode[p] \/ mode'[p] = Forked,
         halted' \in BOOLEAN, valid' \in Pages, FramesInv'
  PROVE  CpuInv'
<1>1. RegistersInv'
  BY DEF CpuInv, RegistersInv, NoLoadIsOnItsWay
<1>2. ControlInv'
  BY DEF CpuInv, ControlInv
<1>3. MemoryInv'
  BY DEF CpuInv, MemoryInv
<1>4. CallsInv'
  <2>1. SUFFICES ASSUME ~timer, NEW p \in Procs, mode'[p].at = "Syscall"
                 PROVE  AtSyscall(p)'
    BY DEF CallsInv
  <2>2. p # currentThread /\ mode'[p] = mode[p]
    BY <2>1, NamedModes
  <2>3. RegistersOf(p)' = RegistersOf(p)
    BY <2>2 DEF RegistersOf
  <2>4. AtSyscall(p)
    BY <2>1, <2>2 DEF CpuInv, CallsInv
  <2>. QED  BY <2>3, <2>4 DEF AtSyscall
<1>. QED  BY <1>1, <1>2, <1>3, <1>4 DEF CpuInv

\* In the kernel nothing is on its way into the registers.
LEMMA InTheKernel ==
  ASSUME CpuInv, NEW kinds, InKernel(kinds), "User" \notin kinds
  PROVE  /\ mode[currentThread] # User /\ registers.loadReg = 0
         /\ registers \in Good /\ mode[currentThread].at \in kinds
<1>1. mode[currentThread].at \in kinds /\ mode[currentThread] # User
  BY NamedModes DEF InKernel
<1>. QED  BY <1>1 DEF CpuInv, RegistersInv, NoLoadIsOnItsWay


\* Pages and frames, when an action leaves the pages alone or gives back those of
\* a process.
LEMMA SamePages ==
  ASSUME CpuInv, UNCHANGED <<timer, currentThread, valid>>,
         mode'[currentThread].at # "LoadPage",
         \A p \in Procs \ {currentThread} : mode'[p] = mode[p] \/ mode'[p] = Forked
  PROVE  valid' \in Pages /\ FramesInv'
<1>1. \A p \in Procs : mode'[p].at = "LoadPage" => mode[p].at = "LoadPage"
  BY NamedModes
<1>2. FramesInv'
  BY <1>1, FramesKept
<1>. QED  BY <1>2 DEF CpuInv, MemoryInv

LEMMA PagesGivenBack ==
  ASSUME CpuInv, UNCHANGED <<timer, currentThread>>, mode'[currentThread].at # "LoadPage",
         \A p \in Procs \ {currentThread} : mode'[p] = mode[p],
         valid' = [valid EXCEPT ![currentThread] = {}]
  PROVE  valid' \in Pages /\ FramesInv'
<1>1. valid' \in Pages
  BY DEF CpuInv, MemoryInv, Pages
<1>2. PairsOf(valid') \subseteq PairsOf(valid)
  BY DEF CpuInv, MemoryInv, Pages, PairsOf
<1>3. \A p \in Procs : mode'[p].at = "LoadPage" => mode[p].at = "LoadPage"
  OBVIOUS
<1>4. FramesInv'
  BY <1>2, <1>3, FramesKept
<1>. QED  BY <1>1, <1>4

LEMMA PageFaultInv == CpuInv /\ PageFault => CpuInv'
<1>1. SUFFICES ASSUME CpuInv, PageFault PROVE CpuInv'
  OBVIOUS
<1>2. PICK kinds : kinds = {"PageFault"}
  OBVIOUS
<1>3. InKernel(kinds) /\ "User" \notin kinds
  BY <1>1, <1>2 DEF PageFault
<1>4. registers.loadReg = 0 /\ registers \in Good /\ mode[currentThread].at = "PageFault"
  BY <1>1, <1>2, <1>3, InTheKernel
<1>5. currentThread \in Procs /\ mode \in [Procs -> Modes] /\ halted \in BOOLEAN
  BY <1>1 DEF CpuInv, ControlInv
<1>6. PICK page \in 0 .. NumPages - 1 : page = mode[currentThread].page
  BY <1>4, <1>5, ModesAre
<1>7. PICK m \in Modes : m = Mode("LoadPage", page) /\ m.at = "LoadPage"
  BY ModeIs DEF Modes
<1>8. /\ mode' = [mode EXCEPT ![currentThread] = m]
      /\ UNCHANGED <<timer, registers, userRegisters, currentThread, pageTable, memory, halted>>
  BY <1>1, <1>6, <1>7 DEF PageFault
<1>9. /\ mode' \in [Procs -> Modes] /\ mode'[currentThread] \notin {New, Forked}
      /\ mode'[currentThread].at # "Syscall"
      /\ \A p \in Procs \ {currentThread} : mode'[p] = mode[p] \/ mode'[p] = Forked
  BY <1>5, <1>7, <1>8, NamedModes
<1>10. valid \in [Procs -> SUBSET (0 .. NumPages - 1)]
  BY <1>1 DEF CpuInv, MemoryInv, Pages
<1>11. PICK out :
         /\ ~timer => out \in IF Cardinality(PairsOf(valid)) < NumPhysPages THEN {{}}
                              ELSE {{pair} : pair \in PairsOf(valid)}
         /\ valid' = [p \in Procs |-> {q \in valid[p] : <<p, q>> \notin out}]
  BY <1>1 DEF PageFault, Resident, PairsOf
<1>12. valid' \in Pages
  BY <1>10, <1>11 DEF Pages
<1>13. FramesInv'
  <2>. SUFFICES ASSUME ~timer PROVE FramesInv'
    BY <1>8 DEF FramesInv
  <2>1. /\ IsFiniteSet(PairsOf(valid)) /\ Cardinality(PairsOf(valid)) <= NumPhysPages
        /\ \A p \in Procs : mode[p].at = "LoadPage" => p = currentThread
    BY <1>1 DEF CpuInv, FramesInv
  <2>2. PICK w : w = valid'
    OBVIOUS
  <2>3. IsFiniteSet(PairsOf(w)) /\ Cardinality(PairsOf(w)) < NumPhysPages
    BY <1>10, <1>11, <2>1, <2>2, PageGoesOut
  <2>4. \A p \in Procs : mode'[p].at = "LoadPage" => p = currentThread
    BY <1>5, <1>8, <2>1
  <2>5. Cardinality(PairsOf(w)) \in Nat /\ NumPhysPages \in Nat
    BY <2>3, FS_CardinalityType, CpuAssumption
  <2>6. Cardinality(PairsOf(w)) <= NumPhysPages
    BY <2>3, <2>5
  <2>. QED  BY <1>8, <2>2, <2>3, <2>4, <2>6 DEF FramesInv
<1>. QED  BY <1>1, <1>4, <1>5, <1>8, <1>9, <1>12, <1>13, KernelInv

LEMMA LoadPageInv == CpuInv /\ LoadPage => CpuInv'
<1>1. SUFFICES ASSUME CpuInv, LoadPage PROVE CpuInv'
  OBVIOUS
<1>2. PICK kinds : kinds = {"LoadPage"}
  OBVIOUS
<1>3. InKernel(kinds) /\ "User" \notin kinds
  BY <1>1, <1>2 DEF LoadPage
<1>4. registers.loadReg = 0 /\ registers \in Good /\ mode[currentThread].at = "LoadPage"
  BY <1>1, <1>2, <1>3, InTheKernel
<1>5. currentThread \in Procs /\ mode \in [Procs -> Modes] /\ halted \in BOOLEAN
  BY <1>1 DEF CpuInv, ControlInv
<1>6. PICK page \in 0 .. NumPages - 1 : page = mode[currentThread].page
  BY <1>4, <1>5, ModesAre
<1>7. /\ mode' = [mode EXCEPT ![currentThread] = User]
      /\ valid' = [valid EXCEPT ![currentThread] = @ \cup {page}]
      /\ UNCHANGED <<timer, registers, userRegisters, currentThread, pageTable, memory, halted>>
  BY <1>1, <1>6 DEF LoadPage
<1>8. /\ mode' \in [Procs -> Modes] /\ mode'[currentThread] \notin {New, Forked}
      /\ mode'[currentThread].at # "Syscall" /\ mode'[currentThread].at # "LoadPage"
      /\ \A p \in Procs \ {currentThread} : mode'[p] = mode[p] \/ mode'[p] = Forked
  BY <1>5, <1>7, NamedModes
<1>9. valid \in [Procs -> SUBSET (0 .. NumPages - 1)]
  BY <1>1 DEF CpuInv, MemoryInv, Pages
<1>10. valid' \in Pages
  BY <1>5, <1>7, <1>9 DEF Pages
<1>11. FramesInv'
  <2>. SUFFICES ASSUME ~timer PROVE FramesInv'
    BY <1>7 DEF FramesInv
  <2>1. /\ IsFiniteSet(PairsOf(valid)) /\ Cardinality(PairsOf(valid)) < NumPhysPages
        /\ \A p \in Procs : mode[p].at = "LoadPage" => p = currentThread
    BY <1>1, <1>4, <1>5 DEF CpuInv, FramesInv
  <2>2. PICK w : w = valid'
    OBVIOUS
  <2>3. IsFiniteSet(PairsOf(w)) /\ Cardinality(PairsOf(w)) <= NumPhysPages
    BY <1>5, <1>7, <1>9, <2>1, <2>2, PageComesIn
  <2>4. \A p \in Procs : mode'[p].at # "LoadPage"
    BY <1>5, <1>7, <1>8, <2>1
  <2>. QED  BY <2>2, <2>3, <2>4 DEF FramesInv
<1>. QED  BY <1>1, <1>4, <1>5, <1>7, <1>8, <1>10, <1>11, KernelInv

LEMMA ExitInv ==
  ASSUME CpuInv, NEW kinds, InKernel(kinds), "User" \notin kinds, ExitProcess,
         UNCHANGED <<timer, registers, userRegisters, currentThread, pageTable, memory>>
  PROVE  CpuInv'
<1>1. registers.loadReg = 0 /\ registers \in Good
  BY InTheKernel
<1>2. currentThread \in Procs /\ mode \in [Procs -> Modes]
  BY DEF CpuInv, ControlInv
<1>3. halted' \in BOOLEAN
  BY DEF ExitProcess
<1>4. /\ mode' \in [Procs -> Modes] /\ mode'[currentThread] \notin {New, Forked}
      /\ mode'[currentThread].at # "Syscall" /\ mode'[currentThread].at # "LoadPage"
      /\ \A p \in Procs \ {currentThread} : mode'[p] = mode[p]
  BY <1>2, NamedModes DEF ExitProcess
<1>5. valid' \in Pages /\ FramesInv'
  BY <1>4, PagesGivenBack DEF ExitProcess
<1>. QED  BY <1>1, <1>3, <1>4, <1>5, KernelInv

LEMMA KilledInv == CpuInv /\ Killed => CpuInv'
<1>1. SUFFICES ASSUME CpuInv, Killed PROVE CpuInv'
  OBVIOUS
<1>2. PICK kinds : kinds = {"AddressError", "Overflow", "IllegalInstr"}
  OBVIOUS
<1>3. /\ InKernel(kinds) /\ "User" \notin kinds /\ ExitProcess
      /\ UNCHANGED <<timer, registers, userRegisters, currentThread, pageTable, memory>>
  BY <1>1, <1>2 DEF Killed
<1>. QED  BY <1>1, <1>3, ExitInv

LEMMA SysCallExitInv == CpuInv /\ SysCallExit => CpuInv'
<1>1. SUFFICES ASSUME CpuInv, SysCallExit PROVE CpuInv'
  OBVIOUS
<1>2. PICK kinds : kinds = {"Syscall"}
  OBVIOUS
<1>3. /\ InKernel(kinds) /\ "User" \notin kinds /\ ExitProcess
      /\ UNCHANGED <<timer, registers, userRegisters, currentThread, pageTable, memory>>
  BY <1>1, <1>2 DEF SysCallExit, Called
<1>. QED  BY <1>1, <1>3, ExitInv

LEMMA SysCallHaltInv == CpuInv /\ SysCallHalt => CpuInv'
BY HaltedInv DEF SysCallHalt

\* The registers after a system call.
LEMMA Answered ==
  ASSUME NEW r \in Good, r.loadReg = 0, NEW answer \in Word
  PROVE  /\ ForwardPC(r) \in Good /\ ForwardPC(r).loadReg = 0
         /\ ForwardPC([r EXCEPT !.gpr[2] = answer]) \in Good
         /\ ForwardPC([r EXCEPT !.gpr[2] = answer]).loadReg = 0
<1>1. r \in Registers /\ r.gpr[0] = 0
  BY DEF Good
<1>2. PICK s : s = [r EXCEPT !.gpr[2] = answer]
  OBVIOUS
<1>3. 2 \in GprNames
  BY CpuAssumption, MipsAssumption DEF GprNames
<1>4. s \in Registers /\ s.gpr[0] = 0 /\ s.loadReg = 0
  BY <1>1, <1>2, <1>3 DEF Registers
<1>5. /\ ForwardPC(r) \in Registers /\ ForwardPC(r).gpr = r.gpr
      /\ ForwardPC(r).loadReg = r.loadReg
  BY <1>1, ForwardPCIsGood
<1>6. /\ ForwardPC(s) \in Registers /\ ForwardPC(s).gpr = s.gpr
      /\ ForwardPC(s).loadReg = s.loadReg
  BY <1>4, ForwardPCIsGood
<1>. QED  BY <1>1, <1>2, <1>4, <1>5, <1>6 DEF Good

LEMMA SysCallExecInv == CpuInv /\ SysCallExec => CpuInv'
<1>1. SUFFICES ASSUME CpuInv, SysCallExec PROVE CpuInv'
  OBVIOUS
<1>2. PICK kinds : kinds = {"Syscall"}
  OBVIOUS
<1>3. InKernel(kinds) /\ "User" \notin kinds
  BY <1>1, <1>2 DEF SysCallExec, Called
<1>4. registers.loadReg = 0 /\ registers \in Good
  BY <1>1, <1>3, InTheKernel
<1>5. /\ currentThread \in Procs /\ mode \in [Procs -> Modes] /\ halted \in BOOLEAN
      /\ mode[currentThread] # New
  BY <1>1 DEF CpuInv, ControlInv
<1>7. UNCHANGED <<timer, userRegisters, currentThread, pageTable, valid, memory, halted>>
  BY <1>1 DEF SysCallExec
<1>8. registers' \in Good /\ registers'.loadReg = 0
  <2>1. -1 \in Word /\ Answers \subseteq Word
    BY WordsAreInts, CpuAssumption
  <2>2. \A answer \in Word :
          /\ ForwardPC(registers) \in Good /\ ForwardPC(registers).loadReg = 0
          /\ ForwardPC([registers EXCEPT !.gpr[2] = answer]) \in Good
          /\ ForwardPC([registers EXCEPT !.gpr[2] = answer]).loadReg = 0
    BY <1>4, Answered
  <2>3. CASE registers' \in {ForwardPC(registers), ForwardPC([registers EXCEPT !.gpr[2] = -1])}
    BY <2>1, <2>2, <2>3
  <2>4. CASE \E answer \in Answers : registers' = ForwardPC([registers EXCEPT !.gpr[2] = answer])
    BY <2>1, <2>2, <2>4
  <2>. QED  BY <1>1, <2>3, <2>4 DEF SysCallExec
<1>9. \/ mode' = [mode EXCEPT ![currentThread] = User]
      \/ \E p \in Procs : mode[p] = New /\ mode' = [mode EXCEPT ![currentThread] = User, ![p] = Forked]
  BY <1>1 DEF SysCallExec
<1>10. /\ mode' \in [Procs -> Modes] /\ mode'[currentThread] = User
       /\ \A p \in Procs \ {currentThread} : mode'[p] = mode[p] \/ mode'[p] = Forked
  BY <1>5, <1>9, NamedModes
<1>11. User \notin {New, Forked} /\ User.at # "Syscall" /\ User.at # "LoadPage"
  BY NamedModes
<1>12. valid' \in Pages /\ FramesInv'
  BY <1>1, <1>7, <1>10, <1>11, SamePages
<1>. QED  BY <1>1, <1>5, <1>7, <1>8, <1>10, <1>11, <1>12, KernelInv

LEMMA SysCallOtherInv == CpuInv /\ SysCallOther => CpuInv'
<1>1. SUFFICES ASSUME CpuInv, SysCallOther PROVE CpuInv'
  OBVIOUS
<1>2. PICK kinds : kinds = {"Syscall"}
  OBVIOUS
<1>3. InKernel(kinds) /\ "User" \notin kinds
  BY <1>1, <1>2 DEF SysCallOther
<1>4. registers.loadReg = 0 /\ registers \in Good
  BY <1>1, <1>3, InTheKernel
<1>5. currentThread \in Procs /\ mode \in [Procs -> Modes] /\ halted \in BOOLEAN
  BY <1>1 DEF CpuInv, ControlInv
<1>7. /\ UNCHANGED <<timer, userRegisters, currentThread, pageTable, valid, memory, halted>>
      /\ mode' = [mode EXCEPT ![currentThread] = User]
  BY <1>1 DEF SysCallOther
<1>8. registers' \in Good /\ registers'.loadReg = 0
  <2>1. 0 \in Word /\ Answers \subseteq Word
    BY WordsAreInts, CpuAssumption
  <2>2. \A answer \in Word :
          /\ ForwardPC(registers) \in Good /\ ForwardPC(registers).loadReg = 0
          /\ ForwardPC([registers EXCEPT !.gpr[2] = answer]) \in Good
          /\ ForwardPC([registers EXCEPT !.gpr[2] = answer]).loadReg = 0
    BY <1>4, Answered
  <2>3. \/ registers' = ForwardPC(registers)
        \/ \E answer \in Answers : registers' = ForwardPC([registers EXCEPT !.gpr[2] = answer])
    BY <1>1 DEF SysCallOther
  <2>. QED  BY <2>1, <2>2, <2>3
<1>9. /\ mode' \in [Procs -> Modes] /\ mode'[currentThread] = User
      /\ \A p \in Procs \ {currentThread} : mode'[p] = mode[p] \/ mode'[p] = Forked
  BY <1>5, <1>7, NamedModes
<1>10. User \notin {New, Forked} /\ User.at # "Syscall" /\ User.at # "LoadPage"
  BY NamedModes
<1>11. valid' \in Pages /\ FramesInv'
  BY <1>1, <1>7, <1>9, <1>10, SamePages
<1>. QED  BY <1>1, <1>5, <1>7, <1>8, <1>9, <1>10, <1>11, KernelInv


\* A switch, with what is saved of the registers having no load on its way.
LEMMA SwitchInv ==
  ASSUME CpuInv, NEW p \in Procs, p # currentThread,
         NEW saved \in Good, saved.loadReg = 0, saved.pc = registers.pc,
         SwitchTo(p, saved), UNCHANGED <<timer, valid, memory, halted>>,
         timer \/ mode[currentThread].at # "LoadPage"
  PROVE  CpuInv'
<1>1. /\ currentThread \in Procs /\ mode \in [Procs -> Modes]
      /\ userRegisters \in [Procs -> Good]
      /\ \A q \in Procs \ {currentThread} : userRegisters[q].loadReg = 0
  BY DEF CpuInv, ControlInv, RegistersInv, NoLoadIsOnItsWay
<1>2. /\ mode[p] \notin {New, Ended}
      /\ userRegisters' = [userRegisters EXCEPT ![currentThread] = saved]
      /\ currentThread' = p /\ pageTable' = p
      /\ registers' = IF mode[p] = Forked THEN InitRegisters ELSE userRegisters[p]
      /\ mode' = IF mode[p] = Forked THEN [mode EXCEPT ![p] = User] ELSE mode
  BY DEF SwitchTo
<1>3. InitRegisters \in Good /\ InitRegisters.loadReg = 0
  BY InitRegistersAreGood DEF Good, InitRegisters
<1>4. registers' \in Good /\ registers'.loadReg = 0
  BY <1>1, <1>2, <1>3
<1>5. RegistersInv'
  BY <1>1, <1>2, <1>4 DEF RegistersInv, NoLoadIsOnItsWay
<1>6. User \notin {New, Forked} /\ User \in Modes /\ User.at = "User"
  BY NamedModes
<1>7. ControlInv'
  <2>1. mode' \in [Procs -> Modes] /\ mode'[p] \notin {New, Forked}
    BY <1>1, <1>2, <1>6
  <2>. QED  BY <1>2, <2>1 DEF CpuInv, ControlInv
<1>8. MemoryInv'
  BY DEF CpuInv, MemoryInv
<1>9. FramesInv'
  <2>1. ASSUME ~timer, NEW q \in Procs, mode'[q].at = "LoadPage" PROVE FALSE
    <3>1. mode[q].at = "LoadPage"
      BY <1>1, <1>2, <1>6, <2>1
    <3>2. q = currentThread
      BY <2>1, <3>1 DEF CpuInv, FramesInv
    <3>. QED  BY <2>1, <3>1, <3>2
  <2>. QED  BY <2>1, FramesKept
<1>10. CallsInv'
  <2>1. SUFFICES ASSUME ~timer, NEW q \in Procs, mode'[q].at = "Syscall"
                 PROVE  AtSyscall(q)'
    BY DEF CallsInv
  <2>2. mode'[q] = mode[q] /\ (q = p => mode[p] # Forked)
    BY <1>1, <1>2, <1>6, <2>1
  <2>3. AtSyscall(q)
    BY <2>1, <2>2 DEF CpuInv, CallsInv
  <2>4. RegistersOf(q)'.pc = RegistersOf(q).pc
    BY <1>1, <1>2, <2>2 DEF RegistersOf
  <2>. QED  BY <2>3, <2>4 DEF AtSyscall
<1>. QED  BY <1>5, <1>7, <1>8, <1>9, <1>10 DEF CpuInv

LEMMA OneTickInv == CpuInv /\ OneTick => CpuInv'
<1>1. SUFFICES ASSUME CpuInv, OneTick PROVE CpuInv'
  OBVIOUS
<1>2. registers \in Registers
  BY <1>1 DEF CpuInv, RegistersInv, Good
<1>3. PICK saved \in Good : /\ saved = Settled(registers)
                            /\ saved.loadReg = 0 /\ saved.pc = registers.pc
  BY <1>2, SettledIsGood DEF Good
<1>4. CASE /\ registers' = Settled(registers)
           /\ UNCHANGED <<userRegisters, currentThread, pageTable, mode>>
  <2>1. registers' \in Good /\ registers'.loadReg = 0 /\ registers'.pc = registers.pc
    BY <1>3, <1>4
  <2>2. UNCHANGED <<timer, userRegisters, currentThread, pageTable, mode, valid, memory, halted>>
    BY <1>1, <1>4 DEF OneTick
  <2>3. RegistersInv'
    BY <1>1, <2>1, <2>2 DEF CpuInv, RegistersInv, NoLoadIsOnItsWay
  <2>4. ControlInv'
    BY <1>1, <2>2 DEF CpuInv, ControlInv
  <2>5. MemoryInv'
    BY <1>1, <2>2 DEF CpuInv, MemoryInv
  <2>6. FramesInv'
    BY <1>1, <2>2, FramesKept
  <2>7. CallsInv'
    <3>1. SUFFICES ASSUME ~timer, NEW q \in Procs, mode[q].at = "Syscall"
                   PROVE  AtSyscall(q)'
      BY <2>2 DEF CallsInv
    <3>2. AtSyscall(q)
      BY <1>1, <3>1 DEF CpuInv, CallsInv
    <3>3. RegistersOf(q)'.pc = RegistersOf(q).pc
      BY <2>1, <2>2 DEF RegistersOf
    <3>. QED  BY <2>2, <3>2, <3>3 DEF AtSyscall
  <2>. QED  BY <2>3, <2>4, <2>5, <2>6, <2>7 DEF CpuInv
<1>5. CASE timer /\ \E p \in Procs \ {currentThread} : SwitchTo(p, Settled(registers))
  <2>1. PICK p \in Procs : p # currentThread /\ SwitchTo(p, saved)
    BY <1>3, <1>5
  <2>2. UNCHANGED <<timer, valid, memory, halted>>
    BY <1>1 DEF OneTick
  <2>. QED  BY <1>1, <1>3, <1>5, <2>1, <2>2, SwitchInv
<1>. QED  BY <1>1, <1>4, <1>5 DEF OneTick

LEMMA SleepInv == CpuInv /\ Sleep => CpuInv'
<1>1. SUFFICES ASSUME CpuInv, Sleep PROVE CpuInv'
  OBVIOUS
<1>2. registers \in Good /\ registers.loadReg = 0
  <2>1. mode[currentThread] # User
    BY <1>1, NamedModes DEF Sleep
  <2>. QED  BY <1>1, <2>1 DEF CpuInv, RegistersInv, NoLoadIsOnItsWay
<1>3. PICK p \in Procs : p # currentThread /\ SwitchTo(p, registers)
  BY <1>1 DEF Sleep
<1>4. UNCHANGED <<timer, valid, memory, halted>>
  BY <1>1 DEF Sleep
<1>5. timer \/ mode[currentThread].at # "LoadPage"
  BY <1>1, NamedModes DEF Sleep
<1>. QED  BY <1>1, <1>2, <1>3, <1>4, <1>5, SwitchInv

LEMMA NextInv == CpuInv /\ [CpuNext]_cpuVars => CpuInv'
<1>1. SUFFICES ASSUME CpuInv, [CpuNext]_cpuVars PROVE CpuInv'
  OBVIOUS
<1>2. CASE UNCHANGED cpuVars
  <2>1. RegistersInv'
    BY <1>1, <1>2 DEF cpuVars, CpuInv, RegistersInv, NoLoadIsOnItsWay
  <2>2. ControlInv'
    BY <1>1, <1>2 DEF cpuVars, CpuInv, ControlInv
  <2>3. MemoryInv'
    BY <1>1, <1>2 DEF cpuVars, CpuInv, MemoryInv
  <2>4. FramesInv'
    BY <1>1, <1>2 DEF cpuVars, CpuInv, FramesInv
  <2>5. CallsInv'
    BY <1>1, <1>2 DEF cpuVars, CpuInv, CallsInv, AtSyscall, RegistersOf
  <2>. QED  BY <2>1, <2>2, <2>3, <2>4, <2>5 DEF CpuInv
<1>3. CASE OneInstruction
  BY <1>1, <1>3, OneInstructionInv
<1>4. CASE RaiseException
  BY <1>1, <1>4, RaiseExceptionInv
<1>5. CASE ExceptionHandler
  BY <1>1, <1>5, PageFaultInv, LoadPageInv, KilledInv, SysCallExitInv, SysCallHaltInv, SysCallExecInv,
     SysCallOtherInv DEF ExceptionHandler
<1>6. CASE OneTick
  BY <1>1, <1>6, OneTickInv
<1>7. CASE Sleep
  BY <1>1, <1>7, SleepInv
<1>8. CASE NachosAborts
  BY <1>1, <1>8, NachosAbortsInv
<1>. QED  BY <1>1, <1>2, <1>3, <1>4, <1>5, <1>6, <1>7, <1>8 DEF CpuNext

LEMMA SettledFromInv == CpuInv => RegistersAreSettled
<1>1. SUFFICES ASSUME CpuInv PROVE RegistersAreSettled
  OBVIOUS
<1>2. \A r \in {registers} \cup {userRegisters[p] : p \in Procs} :
        r \in Registers /\ r.gpr[0] = 0
  BY <1>1 DEF CpuInv, RegistersInv, Good
<1>3. ~timer => Cardinality(Resident) <= NumPhysPages
  BY <1>1 DEF CpuInv, FramesInv, Resident, PairsOf
<1>4. /\ timer \in BOOLEAN /\ currentThread \in Procs /\ pageTable \in Procs
      /\ valid \in [Procs -> SUBSET (0 .. NumPages - 1)]
      /\ mode \in [Procs -> Modes]
      /\ memory \in [Procs -> [0 .. AddressSpace \div 4 - 1 -> Word]]
      /\ halted \in BOOLEAN
  BY <1>1 DEF CpuInv, ControlInv, MemoryInv, Pages, Words
<1>5. CpuTypeOK
  BY <1>2, <1>3, <1>4 DEF CpuTypeOK, Modes
<1>. QED  BY <1>1, <1>5 DEF RegistersAreSettled, CpuInv, RegistersInv

\* Whatever the programs and the size of memory, wherever registers are kept they
\* are complete, register 0 is zero, and neither the kernel nor another process
\* ever has them with a load on its way.
THEOREM RegistersStaySettled == CpuSpec => []RegistersAreSettled
<1>1. CpuInit => CpuInv
  BY InitInv
<1>2. CpuInv /\ [CpuNext]_cpuVars => CpuInv'
  BY NextInv
<1>3. CpuInv => RegistersAreSettled
  BY SettledFromInv
<1>. QED  BY <1>1, <1>2, <1>3, PTL DEF CpuSpec

-----------------------------------------------------------------------------
(***************************************************************************)
(* The refinement of Isolated, without the timer                           *)
(***************************************************************************)
LEMMA LifeIs ==
  \A m \in Modes :
    /\ LifeIn(m) = "new" <=> m.at = "New"
    /\ LifeIn(m) = "ended"
         <=> m.at \in {"Ended", "AddressError", "Overflow", "IllegalInstr"}
    /\ LifeIn(m) = "live" <=> m.at \in {"Forked", "User", "Syscall", "PageFault", "LoadPage"}
    /\ LifeIn(m) \in {"new", "ended", "live"}
<1>1. SUFFICES ASSUME NEW m \in Modes
      PROVE /\ LifeIn(m) = "new" <=> m.at = "New"
            /\ LifeIn(m) = "ended"
                 <=> m.at \in {"Ended", "AddressError", "Overflow", "IllegalInstr"}
            /\ LifeIn(m) = "live" <=> m.at \in {"Forked", "User", "Syscall", "PageFault", "LoadPage"}
            /\ LifeIn(m) \in {"new", "ended", "live"}
  OBVIOUS
<1>2. m.at \in {"New", "Forked", "User", "Ended", "AddressError", "Overflow", "IllegalInstr",
                "Syscall", "PageFault", "LoadPage"}
  BY ModesAre
<1>3. m = New <=> m.at = "New"
  BY ModesAre, NamedModes
<1>4. CASE m.at = "New"
  <2>1. LifeIn(m) = "new"
    BY <1>3, <1>4 DEF LifeIn
  <2>. QED  BY <2>1, <1>4
<1>5. CASE m.at \in {"Ended", "AddressError", "Overflow", "IllegalInstr"}
  <2>1. LifeIn(m) = "ended"
    BY <1>3, <1>5 DEF LifeIn
  <2>. QED  BY <2>1, <1>5
<1>6. CASE m.at \in {"Forked", "User", "Syscall", "PageFault", "LoadPage"}
  <2>1. LifeIn(m) = "live"
    BY <1>3, <1>6 DEF LifeIn
  <2>. QED  BY <2>1, <1>6
<1>. QED  BY <1>2, <1>4, <1>5, <1>6

\* The process that has the CPU has the registers.
LEMMA CurrentView ==
  ASSUME CpuInv
  PROVE  View[currentThread] = registers
BY DEF View, CpuInv, ControlInv

\* What it is about to do is what it would do by itself.
LEMMA CurrentInstruction ==
  ASSUME CpuInv
  PROVE  /\ Alone!InstructionOf(currentThread)
              = Decode[memory[currentThread][registers.pc \div 4]]
         /\ Alone!CanFetch(currentThread)
              <=> registers.pc % 4 = 0 /\ Unsigned(registers.pc) < AddressSpace
BY CurrentView DEF Alone!InstructionOf, Alone!CanFetch, CpuInv, ControlInv

LEMMA OwnInstruction ==
  ASSUME CpuInv, ~timer, Fetch = "None", NEW i \in Instructions
  PROVE  /\ Alone!InstructionOf(currentThread) = i /\ Alone!CanFetch(currentThread)
         /\ Fields(i)
BY Fetched, CurrentInstruction

LEMMA UserRuns ==
  ASSUME CpuInv, ~halted, mode[currentThread].at \in {"User", "Syscall", "PageFault", "LoadPage"}
  PROVE  Alone!Runs(currentThread)
<1>1. currentThread \in Procs /\ mode[currentThread] \in Modes
  BY DEF CpuInv, ControlInv
<1>2. LifeIn(mode[currentThread]) = "live"
  BY <1>1, LifeIs
<1>. QED  BY <1>1, <1>2 DEF Alone!Runs, Life

\* A step of the current process changes no other's registers.
Started(m) == m \notin {New, Forked}

LEMMA ViewChanges ==
  ASSUME CpuInv, UNCHANGED <<userRegisters, currentThread>>,
         \A q \in Procs : Started(mode'[q]) = Started(mode[q])
  PROVE  View' = [View EXCEPT ![currentThread] = registers']
<1>1. currentThread \in Procs /\ Started(mode[currentThread])
  BY DEF CpuInv, ControlInv, Started
<1>2. /\ View \in [Procs -> {View[q] : q \in Procs}]
      /\ View' \in [Procs -> {View'[q] : q \in Procs}]
  BY DEF View
<1>3. View'[currentThread] = registers'
  BY <1>1 DEF View, Started
<1>4. ASSUME NEW q \in Procs, q # currentThread
      PROVE  View'[q] = View[q]
  BY <1>1, <1>4 DEF View, Started
<1>. QED  BY <1>1, <1>2, <1>3, <1>4

LEMMA SameModes ==
  ASSUME CpuInv, UNCHANGED mode
  PROVE  Life' = Life /\ \A q \in Procs : Started(mode'[q]) = Started(mode[q])
BY DEF Life

\* The current process goes from one of its modes to another.
LEMMA OneMode ==
  ASSUME CpuInv, NEW m \in Modes, m.at \notin {"New", "Forked"},
         mode' = [mode EXCEPT ![currentThread] = m]
  PROVE  /\ \A q \in Procs : Started(mode'[q]) = Started(mode[q])
         /\ Life' = [Life EXCEPT ![currentThread] = LifeIn(m)]
<1>1. /\ currentThread \in Procs /\ mode \in [Procs -> Modes]
      /\ Started(mode[currentThread])
  BY DEF CpuInv, ControlInv, Started
<1>2. Started(m)
  BY NamedModes DEF Started
<1>3. \A q \in Procs : Started(mode'[q]) = Started(mode[q])
  BY <1>1, <1>2
<1>4. Life' = [Life EXCEPT ![currentThread] = LifeIn(m)]
  BY <1>1 DEF Life
<1>. QED  BY <1>3, <1>4

LEMMA NoChangeOfLife ==
  ASSUME CpuInv, NEW m \in Modes, LifeIn(m) = LifeIn(mode[currentThread])
  PROVE  [Life EXCEPT ![currentThread] = LifeIn(m)] = Life
BY DEF Life, CpuInv, ControlInv

\* OneInstruction is a step of the program.
LEMMA OneInstructionSteps == CpuInv /\ ~timer /\ OneInstruction => Alone!Next
<1>. SUFFICES ASSUME CpuInv, ~timer, OneInstruction
     PROVE  Alone!Step(currentThread)
  BY DEF Alone!Next, CpuInv, ControlInv
<1>1. ~halted /\ mode[currentThread].at = "User"
  BY NamedModes DEF OneInstruction, InUserMode
<1>2. Alone!Runs(currentThread)
  BY <1>1, UserRuns
<1>3a. PICK i \in Instructions : \E at :
        /\ at = Unsigned(Operand(i)) \div 4
        /\ Outcome(i).kind = "None"
        /\ \E found \in IF UsesMemory(i) THEN Found(at) ELSE {0} :
             /\ registers' = Completed(i, registers, found)
             /\ memory' = IF i.op \in Stores
                            THEN [memory EXCEPT ![pageTable][at] = Stored(i, registers, found)]
                            ELSE memory
  BY DEF OneInstruction
<1>3. PICK at :
        /\ at = Unsigned(Operand(i)) \div 4
        /\ Outcome(i).kind = "None"
        /\ \E found \in IF UsesMemory(i) THEN Found(at) ELSE {0} :
             /\ registers' = Completed(i, registers, found)
             /\ memory' = IF i.op \in Stores
                            THEN [memory EXCEPT ![pageTable][at] = Stored(i, registers, found)]
                            ELSE memory
  BY <1>3a
<1>4. Fields(i) /\ Alone!CanFetch(currentThread) /\ Alone!InstructionOf(currentThread) = i
  BY OwnInstruction DEF OneInstruction
<1>5. /\ ~StopsNachos(i, registers) /\ Raises(i, registers) = "None"
      /\ UsesMemory(i) => Operand(i) % Size(i.op) = 0 /\ Unsigned(Operand(i)) < AddressSpace
  BY <1>3, <1>4, OutcomesAre
<1>6. Alone!TouchesMemory(i) <=> UsesMemory(i)
  BY DEF Alone!TouchesMemory, UsesMemory
<1>7. Alone!TouchesMemory(i) => Alone!GoodAddress(i, registers)
  BY <1>5, <1>6 DEF Alone!GoodAddress, Operand
<1>8. View[currentThread] = registers /\ pageTable = currentThread
  BY CurrentView DEF CpuInv, ControlInv
<1>9. View' = [View EXCEPT ![currentThread] = registers']
  BY SameModes, ViewChanges DEF OneInstruction
<1>10. Life' = Life /\ halted' = halted
  BY SameModes DEF OneInstruction
<1>11. UsesMemory(i) => Found(at) = {memory[currentThread][at]}
  <2>1. UsesMemory(i) => at \in 0 .. AddressSpace \div 4 - 1
    BY <1>3, <1>4, <1>5, Used
  <2>. QED  BY <2>1, FoundAre
<1>12. PICK found : /\ found = IF UsesMemory(i) THEN memory[currentThread][at] ELSE 0
                    /\ registers' = Completed(i, registers, found)
                    /\ memory' = IF i.op \in Stores
                         THEN [memory EXCEPT ![pageTable][at] = Stored(i, registers, found)]
                         ELSE memory
  BY <1>3, <1>11
<1>13. i.op \in Stores => found = memory[currentThread][at]
  BY <1>12 DEF UsesMemory
<1>14. memory' = IF i.op \in Stores
                   THEN [memory EXCEPT ![currentThread][at] = Stored(i, registers, @)]
                   ELSE memory
  BY <1>8, <1>12, <1>13
<1>15. registers' = Completed(i, registers,
                      IF Alone!TouchesMemory(i) THEN memory[currentThread][at] ELSE 0)
  BY <1>6, <1>12
<1>. QED  BY <1>2, <1>3, <1>4, <1>5, <1>7, <1>8, <1>9, <1>10, <1>14, <1>15
          DEF Alone!Step, Operand

\* What stops Nachos does so for the program alone, too.
LEMMA NachosAbortsSteps == CpuInv /\ ~timer /\ NachosAborts => Alone!Next
<1>. SUFFICES ASSUME CpuInv, ~timer, NachosAborts
     PROVE  Alone!Abort(currentThread)
  BY DEF Alone!Next, CpuInv, ControlInv
<1>1. ~halted /\ mode[currentThread].at = "User"
  BY NamedModes DEF NachosAborts, InUserMode
<1>2. Alone!Runs(currentThread)
  BY <1>1, UserRuns
<1>3. PICK i \in Instructions : StopsNachos(i, registers)
  BY DEF NachosAborts
<1>4. Alone!CanFetch(currentThread) /\ Alone!InstructionOf(currentThread) = i
  BY OwnInstruction DEF NachosAborts
<1>5. View[currentThread] = registers
  BY CurrentView
<1>6. halted' = TRUE /\ UNCHANGED <<registers, userRegisters, currentThread, memory, mode>>
  BY DEF NachosAborts
<1>7. View' = View /\ Life' = Life
  BY <1>6 DEF View, Life
<1>. QED  BY <1>2, <1>3, <1>4, <1>5, <1>6, <1>7 DEF Alone!Abort

\* RaiseException finishes the load on its way, and ends the program if nothing
\* can be done about the exception.
LEMMA RaiseExceptionSteps == CpuInv /\ ~timer /\ RaiseException => Alone!Next
<1>. SUFFICES ASSUME CpuInv, ~timer, RaiseException
     PROVE  Alone!Settle(currentThread) \/ Alone!Die(currentThread)
  BY DEF Alone!Next, CpuInv, ControlInv
<1>1. PICK exception \in Exceptions :
        /\ exception.kind # "None"
        /\ mode' = [mode EXCEPT ![currentThread] = ModeFor(exception)]
  BY DEF RaiseException
<1>2. PICK kind, m : kind = exception.kind /\ m = ModeFor(exception)
  OBVIOUS
<1>3. /\ kind \in {"AddressError", "PageFault", "Overflow", "IllegalInstr", "Syscall"}
      /\ m \in Modes /\ m.at = kind
      /\ kind \in {"AddressError", "Overflow", "IllegalInstr"} =>
           \/ ~(registers.pc % 4 = 0 /\ Unsigned(registers.pc) < AddressSpace)
           \/ /\ Fetch = "None"
              /\ \E i \in Instructions :
                   /\ ~StopsNachos(i, registers)
                   /\ \/ Raises(i, registers) \in {"Overflow", "IllegalInstr"}
                      \/ /\ UsesMemory(i)
                         /\ ~(/\ Operand(i) % Size(i.op) = 0
                              /\ Unsigned(Operand(i)) < AddressSpace)
  BY <1>1, <1>2, RaisedAre
<1>4. mode' = [mode EXCEPT ![currentThread] = m]
  BY <1>1, <1>2
<1>5. /\ \A q \in Procs : Started(mode'[q]) = Started(mode[q])
      /\ Life' = [Life EXCEPT ![currentThread] = LifeIn(m)]
  BY <1>3, <1>4, OneMode
<1>6. UNCHANGED <<userRegisters, currentThread, memory, halted>>
  BY DEF RaiseException
<1>7. View' = [View EXCEPT ![currentThread] = Settled(registers)]
  BY <1>5, <1>6, ViewChanges DEF RaiseException
<1>8. View[currentThread] = registers
  BY CurrentView
<1>9. mode[currentThread] = User /\ User \in Modes /\ User.at = "User" /\ ~halted
  BY NamedModes DEF RaiseException, InUserMode
<1>10. Alone!Runs(currentThread)
  BY <1>9, UserRuns
<1>11. CASE kind \in {"PageFault", "Syscall"}
  <2>1. LifeIn(m) = "live" /\ LifeIn(mode[currentThread]) = "live"
    BY <1>3, <1>9, <1>11, LifeIs
  <2>2. Life' = Life
    BY <1>3, <1>5, <2>1, NoChangeOfLife
  <2>. QED  BY <1>6, <1>7, <1>8, <1>10, <2>2 DEF Alone!Settle
<1>12. CASE kind \in {"AddressError", "Overflow", "IllegalInstr"}
  <2>1. LifeIn(m) = "ended"
    BY <1>3, <1>12, LifeIs
  <2>2. CASE ~(registers.pc % 4 = 0 /\ Unsigned(registers.pc) < AddressSpace)
    <3>1. ~Alone!CanFetch(currentThread)
      BY <2>2, CurrentInstruction
    <3>. QED  BY <1>5, <1>6, <1>7, <1>8, <1>10, <2>1, <3>1 DEF Alone!Die
  <2>3. CASE registers.pc % 4 = 0 /\ Unsigned(registers.pc) < AddressSpace
    <3>1. PICK i \in Instructions :
            /\ Fetch = "None" /\ ~StopsNachos(i, registers)
            /\ \/ Raises(i, registers) \in {"Overflow", "IllegalInstr"}
               \/ UsesMemory(i) /\ ~(/\ Operand(i) % Size(i.op) = 0
                                     /\ Unsigned(Operand(i)) < AddressSpace)
      BY <1>3, <1>12, <2>3
    <3>2. Alone!InstructionOf(currentThread) = i
      BY <3>1, OwnInstruction
    <3>3. Alone!TouchesMemory(i) <=> UsesMemory(i)
      BY DEF Alone!TouchesMemory, UsesMemory
    <3>4. Alone!GoodAddress(i, registers)
            <=> Operand(i) % Size(i.op) = 0 /\ Unsigned(Operand(i)) < AddressSpace
      BY DEF Alone!GoodAddress, Operand
    <3>. QED  BY <1>5, <1>6, <1>7, <1>8, <1>10, <2>1, <3>1, <3>2, <3>3, <3>4 DEF Alone!Die
  <2>. QED  BY <2>2, <2>3
<1>. QED  BY <1>3, <1>11, <1>12

\* The pages come and go unseen.
LEMMA Unseen ==
  ASSUME CpuInv, NEW m \in Modes, m.at \in {"User", "LoadPage"},
         mode[currentThread].at \in {"PageFault", "LoadPage"},
         mode' = [mode EXCEPT ![currentThread] = m],
         UNCHANGED <<registers, userRegisters, currentThread, memory, halted>>
  PROVE  UNCHANGED Alone!isolatedVars
<1>1. currentThread \in Procs /\ mode[currentThread] \in Modes
  BY DEF CpuInv, ControlInv
<1>2. /\ \A q \in Procs : Started(mode'[q]) = Started(mode[q])
      /\ Life' = [Life EXCEPT ![currentThread] = LifeIn(m)]
  BY OneMode
<1>3. LifeIn(m) = "live" /\ LifeIn(mode[currentThread]) = "live"
  BY <1>1, LifeIs
<1>4. Life' = Life
  BY <1>2, <1>3, NoChangeOfLife
<1>5. View' = [View EXCEPT ![currentThread] = registers]
  BY <1>2, ViewChanges
<1>6. View' = View
  BY <1>5, CurrentView DEF View
<1>. QED  BY <1>4, <1>6 DEF Alone!isolatedVars

LEMMA PageFaultSteps == CpuInv /\ PageFault => UNCHANGED Alone!isolatedVars
<1>. SUFFICES ASSUME CpuInv, PageFault
     PROVE  UNCHANGED Alone!isolatedVars
  OBVIOUS
<1>1. mode[currentThread].at = "PageFault" /\ mode[currentThread] \in Modes
  BY DEF PageFault, InKernel, CpuInv, ControlInv
<1>2. PICK page \in 0 .. NumPages - 1 : page = mode[currentThread].page
  BY <1>1, ModesAre
<1>3. PICK m \in Modes : m = Mode("LoadPage", page) /\ m.at = "LoadPage"
  BY ModeIs DEF Modes
<1>4. /\ mode' = [mode EXCEPT ![currentThread] = m]
      /\ UNCHANGED <<registers, userRegisters, currentThread, memory, halted>>
  BY <1>2, <1>3 DEF PageFault
<1>. QED  BY <1>1, <1>3, <1>4, Unseen

LEMMA LoadPageSteps == CpuInv /\ LoadPage => UNCHANGED Alone!isolatedVars
<1>. SUFFICES ASSUME CpuInv, LoadPage
     PROVE  UNCHANGED Alone!isolatedVars
  OBVIOUS
<1>1. mode[currentThread].at = "LoadPage"
  BY DEF LoadPage, InKernel
<1>2. PICK m \in Modes : m = User /\ m.at = "User"
  BY NamedModes
<1>3. /\ mode' = [mode EXCEPT ![currentThread] = m]
      /\ UNCHANGED <<registers, userRegisters, currentThread, memory, halted>>
  BY <1>2 DEF LoadPage
<1>. QED  BY <1>1, <1>2, <1>3, Unseen

\* What an exit of the current process looks like from outside.
LEMMA ExitSteps ==
  ASSUME CpuInv, ExitProcess, UNCHANGED <<registers, userRegisters, currentThread>>
  PROVE  /\ View' = View
         /\ Life' = [Life EXCEPT ![currentThread] = "ended"]
         /\ halted' \in BOOLEAN
         /\ halted' => \A p \in Procs \ {currentThread} : Life[p] # "live"
<1>1. mode' = [mode EXCEPT ![currentThread] = Ended]
  BY DEF ExitProcess
<1>2. Ended \in Modes /\ Ended.at = "Ended"
  BY NamedModes
<1>3. /\ \A q \in Procs : Started(mode'[q]) = Started(mode[q])
      /\ Life' = [Life EXCEPT ![currentThread] = LifeIn(Ended)]
  BY <1>1, <1>2, OneMode
<1>4. LifeIn(Ended) = "ended"
  BY <1>2, LifeIs
<1>5. View' = [View EXCEPT ![currentThread] = registers]
  BY <1>3, ViewChanges
<1>6. View' = View
  BY <1>5, CurrentView DEF View
<1>7. halted' = \A p \in Procs \ {currentThread} : mode[p] \in {New, Ended}
  BY DEF ExitProcess
<1>8. halted' \in BOOLEAN
  BY <1>7
<1>9. \A p \in Procs : mode[p] \in {New, Ended} => Life[p] # "live"
  <2>1. LifeIn(New) # "live" /\ LifeIn(Ended) # "live"
    BY NamedModes, LifeIs
  <2>. QED  BY <2>1 DEF Life
<1>. QED  BY <1>3, <1>4, <1>6, <1>7, <1>8, <1>9

\* A program that an exception has ended stays so; the last one turns the
\* machine off.
LEMMA KilledSteps == CpuInv /\ Killed => [Alone!Next]_Alone!isolatedVars
<1>. SUFFICES ASSUME CpuInv, Killed
     PROVE  Alone!TurnOff \/ UNCHANGED <<View, memory, Life, halted>>
  BY DEF Alone!Next, Alone!isolatedVars
<1>1. /\ mode[currentThread].at \in {"AddressError", "Overflow", "IllegalInstr"} /\ ~halted
      /\ currentThread \in Procs /\ mode[currentThread] \in Modes /\ halted \in BOOLEAN
  BY DEF Killed, InKernel, CpuInv, ControlInv
<1>2. LifeIn(mode[currentThread]) = "ended"
  BY <1>1, LifeIs
<1>3. /\ View' = View
      /\ Life' = [Life EXCEPT ![currentThread] = "ended"]
      /\ halted' \in BOOLEAN
      /\ halted' => \A p \in Procs \ {currentThread} : Life[p] # "live"
  BY ExitSteps DEF Killed
<1>4. Life[currentThread] = "ended" /\ Life' = Life
  BY <1>1, <1>2, <1>3 DEF Life
<1>5. memory' = memory
  BY DEF Killed
<1>6. CASE halted'
  BY <1>3, <1>4, <1>5, <1>6 DEF Alone!TurnOff
<1>7. CASE ~halted'
  BY <1>1, <1>3, <1>4, <1>5, <1>7
<1>. QED  BY <1>6, <1>7

\* A process that the kernel serves is at its SYSCALL, all loads done.
LEMMA AtTheCall ==
  ASSUME CpuInv, ~timer, InKernel({"Syscall"})
  PROVE  /\ Alone!Runs(currentThread) /\ Alone!CanFetch(currentThread)
         /\ Alone!InstructionOf(currentThread).op = "SYSCALL"
         /\ View[currentThread] = registers /\ registers.loadReg = 0
         /\ currentThread \in Procs /\ LifeIn(mode[currentThread]) = "live"
<1>1. /\ mode[currentThread].at = "Syscall" /\ ~halted
      /\ currentThread \in Procs /\ mode[currentThread] \in Modes
      /\ pageTable = currentThread
  BY DEF InKernel, CpuInv, ControlInv
<1>2. mode[currentThread] # User
  BY <1>1, NamedModes
<1>3. registers.loadReg = 0
  BY <1>2 DEF CpuInv, RegistersInv, NoLoadIsOnItsWay
<1>4. AtSyscall(currentThread)
  BY <1>1 DEF CpuInv, CallsInv
<1>5. /\ registers.pc % 4 = 0 /\ Unsigned(registers.pc) < AddressSpace
      /\ Decode[memory[currentThread][registers.pc \div 4]].op = "SYSCALL"
  BY <1>1, <1>4 DEF AtSyscall, RegistersOf
<1>6. /\ Alone!InstructionOf(currentThread).op = "SYSCALL"
      /\ Alone!CanFetch(currentThread)
  BY <1>5, CurrentInstruction
<1>7. Alone!Runs(currentThread)
  BY <1>1, UserRuns
<1>8. LifeIn(mode[currentThread]) = "live"
  BY <1>1, LifeIs
<1>. QED  BY <1>1, <1>3, <1>5, <1>6, <1>7, <1>8, CurrentView

LEMMA SysCallExitSteps == CpuInv /\ ~timer /\ SysCallExit => Alone!Next
<1>. SUFFICES ASSUME CpuInv, ~timer, SysCallExit
     PROVE  Alone!Syscall(currentThread)
  BY DEF Alone!Next, CpuInv, ControlInv
<1>1. InKernel({"Syscall"})
  BY DEF SysCallExit, Called
<1>2. /\ View' = View
      /\ Life' = [Life EXCEPT ![currentThread] = "ended"]
      /\ halted' \in BOOLEAN
  BY ExitSteps DEF SysCallExit
<1>3. memory' = memory
  BY DEF SysCallExit
<1>. QED  BY <1>1, <1>2, <1>3, AtTheCall DEF Alone!Syscall

LEMMA SysCallHaltSteps == CpuInv /\ ~timer /\ SysCallHalt => Alone!Next
<1>. SUFFICES ASSUME CpuInv, ~timer, SysCallHalt
     PROVE  Alone!Syscall(currentThread)
  BY DEF Alone!Next, CpuInv, ControlInv
<1>1. InKernel({"Syscall"})
  BY DEF SysCallHalt, Called
<1>2. halted' = TRUE /\ UNCHANGED <<registers, userRegisters, currentThread, memory, mode>>
  BY DEF SysCallHalt
<1>3. View' = View /\ Life' = Life
  BY <1>2 DEF View, Life
<1>. QED  BY <1>1, <1>2, <1>3, AtTheCall DEF Alone!Syscall

\* What the return from a system call looks like from outside.
LEMMA ReturnSteps ==
  ASSUME CpuInv, ~timer, InKernel({"Syscall"}),
         UNCHANGED <<userRegisters, currentThread, memory, halted>>,
         \/ registers' = ForwardPC(registers)
         \/ \E answer \in Answers \cup {-1} :
              registers' = ForwardPC([registers EXCEPT !.gpr[2] = answer]),
         \A q \in Procs : Started(mode'[q]) = Started(mode[q]),
         \/ Life' = Life
         \/ \E q \in Procs : Life[q] = "new" /\ Life' = [Life EXCEPT ![q] = "live"]
  PROVE  Alone!Next
<1>. SUFFICES Alone!Syscall(currentThread)
  BY DEF Alone!Next, CpuInv, ControlInv
<1>1. View' = [View EXCEPT ![currentThread] = registers']
  BY ViewChanges
<1>2. View[currentThread] = registers
  BY CurrentView
<1>3. \/ View' = [View EXCEPT ![currentThread] = ForwardPC(View[currentThread])]
      \/ \E answer \in Answers \cup {-1} :
           View' = [View EXCEPT ![currentThread] =
                      ForwardPC([View[currentThread] EXCEPT !.gpr[2] = answer])]
  BY <1>1, <1>2
<1>. QED  BY <1>3, AtTheCall DEF Alone!Syscall

LEMMA SysCallExecSteps == CpuInv /\ ~timer /\ SysCallExec => Alone!Next
<1>. SUFFICES ASSUME CpuInv, ~timer, SysCallExec
     PROVE  Alone!Next
  OBVIOUS
<1>1. InKernel({"Syscall"}) /\ UNCHANGED <<userRegisters, currentThread, memory, halted>>
  BY DEF SysCallExec, Called
<1>2. /\ currentThread \in Procs /\ LifeIn(mode[currentThread]) = "live"
      /\ mode \in [Procs -> Modes]
  BY <1>1, AtTheCall DEF CpuInv, ControlInv
<1>3. /\ User \in Modes /\ User.at = "User" /\ LifeIn(User) = "live"
      /\ LifeIn(New) = "new" /\ LifeIn(Forked) = "live"
  BY NamedModes, LifeIs
<1>4. CASE /\ mode' = [mode EXCEPT ![currentThread] = User]
           /\ registers' \in {ForwardPC(registers), ForwardPC([registers EXCEPT !.gpr[2] = -1])}
  <2>1. /\ \A q \in Procs : Started(mode'[q]) = Started(mode[q])
        /\ Life' = [Life EXCEPT ![currentThread] = LifeIn(User)]
    BY <1>3, <1>4, OneMode
  <2>2. Life' = Life
    BY <1>2, <1>3, <2>1, NoChangeOfLife
  <2>. QED  BY <1>1, <1>4, <2>1, <2>2, ReturnSteps
<1>5. CASE \E p \in Procs, answer \in Answers :
             /\ mode[p] = New
             /\ mode' = [mode EXCEPT ![currentThread] = User, ![p] = Forked]
             /\ registers' = ForwardPC([registers EXCEPT !.gpr[2] = answer])
  <2>1. PICK p \in Procs, answer \in Answers :
             /\ mode[p] = New
             /\ mode' = [mode EXCEPT ![currentThread] = User, ![p] = Forked]
             /\ registers' = ForwardPC([registers EXCEPT !.gpr[2] = answer])
    BY <1>5
  <2>2. Started(mode[currentThread]) /\ Started(User) /\ p # currentThread
    BY <1>3, <2>1, NamedModes DEF CpuInv, ControlInv, Started
  <2>3. \A q \in Procs : Started(mode'[q]) = Started(mode[q])
    BY <1>2, <2>1, <2>2 DEF Started
  <2>4. Life[p] = "new" /\ Life' = [Life EXCEPT ![p] = "live"]
    <3>1. Life[p] = "new" /\ Life'[p] = "live"
      BY <1>2, <1>3, <2>1, <2>2 DEF Life
    <3>2. \A q \in Procs \ {p} : Life'[q] = Life[q]
      BY <1>2, <1>3, <2>1, <2>2 DEF Life
    <3>3. /\ Life \in [Procs -> {Life[q] : q \in Procs}]
          /\ Life' \in [Procs -> {Life'[q] : q \in Procs}]
      BY DEF Life
    <3>. QED  BY <3>1, <3>2, <3>3
  <2>. QED  BY <1>1, <2>1, <2>3, <2>4, ReturnSteps
<1>. QED  BY <1>4, <1>5 DEF SysCallExec

LEMMA SysCallOtherSteps == CpuInv /\ ~timer /\ SysCallOther => Alone!Next
<1>. SUFFICES ASSUME CpuInv, ~timer, SysCallOther
     PROVE  Alone!Next
  OBVIOUS
<1>1. InKernel({"Syscall"}) /\ UNCHANGED <<userRegisters, currentThread, memory, halted>>
  BY DEF SysCallOther
<1>2. LifeIn(mode[currentThread]) = "live"
  BY <1>1, AtTheCall
<1>3. User \in Modes /\ User.at = "User" /\ LifeIn(User) = "live"
  BY NamedModes, LifeIs
<1>4. mode' = [mode EXCEPT ![currentThread] = User]
  BY DEF SysCallOther
<1>5. /\ \A q \in Procs : Started(mode'[q]) = Started(mode[q])
      /\ Life' = [Life EXCEPT ![currentThread] = LifeIn(User)]
  BY <1>3, <1>4, OneMode
<1>6. Life' = Life
  BY <1>2, <1>3, <1>5, NoChangeOfLife
<1>7. \/ registers' = ForwardPC(registers)
      \/ \E answer \in Answers : registers' = ForwardPC([registers EXCEPT !.gpr[2] = answer])
  BY DEF SysCallOther
<1>. QED  BY <1>1, <1>5, <1>6, <1>7, ReturnSteps

\* A switch leaves no trace but in the registers that are saved.
LEMMA SwitchSteps ==
  ASSUME CpuInv, NEW p \in Procs, p # currentThread, NEW saved, SwitchTo(p, saved)
  PROVE  View' = [View EXCEPT ![currentThread] = saved] /\ Life' = Life
<1>1. /\ currentThread \in Procs /\ mode \in [Procs -> Modes] /\ Started(mode[currentThread])
      /\ userRegisters \in [Procs -> Good]
  BY DEF CpuInv, ControlInv, RegistersInv, Started
<1>2. /\ mode[p] \notin {New, Ended}
      /\ userRegisters' = [userRegisters EXCEPT ![currentThread] = saved]
      /\ currentThread' = p
      /\ registers' = IF mode[p] = Forked THEN InitRegisters ELSE userRegisters[p]
      /\ mode' = IF mode[p] = Forked THEN [mode EXCEPT ![p] = User] ELSE mode
  BY DEF SwitchTo
<1>3. User \notin {New, Forked} /\ LifeIn(User) = "live" /\ LifeIn(Forked) = "live"
  BY NamedModes, LifeIs
<1>4. /\ View \in [Procs -> {View[q] : q \in Procs}]
      /\ View' \in [Procs -> {View'[q] : q \in Procs}]
      /\ Life \in [Procs -> {Life[q] : q \in Procs}]
      /\ Life' \in [Procs -> {Life'[q] : q \in Procs}]
  BY DEF View, Life
<1>5. View'[currentThread] = saved
  BY <1>1, <1>2 DEF View, Started
<1>6. View'[p] = View[p]
  <2>1. CASE mode[p] = Forked
    <3>1. mode'[p] = User /\ registers' = InitRegisters /\ View[p] = InitRegisters
      BY <1>1, <1>2, <2>1 DEF View
    <3>. QED  BY <1>2, <1>3, <3>1 DEF View
  <2>2. CASE mode[p] # Forked
    BY <1>1, <1>2, <2>2 DEF View
  <2>. QED  BY <2>1, <2>2
<1>7. \A q \in Procs \ {p, currentThread} : View'[q] = View[q]
  BY <1>1, <1>2 DEF View
<1>8. \A q \in Procs : Life'[q] = Life[q]
  <2>1. \A q \in Procs : Life[q] = LifeIn(mode[q]) /\ Life'[q] = LifeIn(mode'[q])
    BY DEF Life
  <2>2. CASE mode[p] = Forked
    <3>1. mode' = [mode EXCEPT ![p] = User]
      BY <1>2, <2>2
    <3>2. \A q \in Procs : mode'[q] = IF q = p THEN User ELSE mode[q]
      BY <1>1, <3>1
    <3>. QED  BY <1>3, <2>1, <2>2, <3>2
  <2>3. CASE mode[p] # Forked
    <3>1. mode' = mode
      BY <1>2, <2>3
    <3>. QED  BY <2>1, <3>1
  <2>. QED  BY <2>2, <2>3
<1>9. Life' = Life
  BY <1>4, <1>8
<1>10. View' = [View EXCEPT ![currentThread] = saved]
  <2>1. \A q \in Procs : View'[q] = [View EXCEPT ![currentThread] = saved][q]
    BY <1>1, <1>4, <1>5, <1>6, <1>7
  <2>. QED  BY <1>4, <2>1
<1>. QED  BY <1>9, <1>10

LEMMA OneTickSteps == CpuInv /\ OneTick => Alone!Next
<1>. SUFFICES ASSUME CpuInv, OneTick
     PROVE  Alone!Settle(currentThread)
  BY DEF Alone!Next, CpuInv, ControlInv
<1>1. ~halted /\ mode[currentThread].at = "User"
  BY NamedModes DEF OneTick, InUserMode
<1>2. Alone!Runs(currentThread)
  BY <1>1, UserRuns
<1>3. View[currentThread] = registers /\ UNCHANGED <<memory, halted>>
  BY CurrentView DEF OneTick
<1>4. View' = [View EXCEPT ![currentThread] = Settled(registers)] /\ Life' = Life
  <2>1. CASE /\ registers' = Settled(registers)
             /\ UNCHANGED <<userRegisters, currentThread, pageTable, mode>>
    BY <2>1, SameModes, ViewChanges
  <2>2. CASE \E p \in Procs \ {currentThread} : SwitchTo(p, Settled(registers))
    BY <2>2, SwitchSteps
  <2>. QED  BY <2>1, <2>2 DEF OneTick
<1>. QED  BY <1>2, <1>3, <1>4 DEF Alone!Settle

LEMMA SleepSteps == CpuInv /\ Sleep => UNCHANGED Alone!isolatedVars
<1>. SUFFICES ASSUME CpuInv, Sleep
     PROVE  UNCHANGED <<View, memory, Life, halted>>
  BY DEF Alone!isolatedVars
<1>1. PICK p \in Procs : p # currentThread /\ SwitchTo(p, registers)
  BY DEF Sleep
<1>2. View' = [View EXCEPT ![currentThread] = registers] /\ Life' = Life
  BY <1>1, SwitchSteps
<1>3. View' = View
  BY <1>2, CurrentView DEF View
<1>. QED  BY <1>2, <1>3 DEF Sleep

LEMMA InitSteps == CpuInit => Alone!Init
<1>. SUFFICES ASSUME CpuInit PROVE Alone!Init
  OBVIOUS
<1>1. First \in Procs
  BY CpuAssumption
<1>2. LifeIn(User) = "live" /\ LifeIn(New) = "new" /\ User \notin {New, Forked}
  BY NamedModes, LifeIs
<1>3. View = [p \in Procs |-> InitRegisters]
  BY <1>1 DEF CpuInit, View
<1>4. Life = [q \in Procs |-> IF q = First THEN "live" ELSE "new"]
  BY <1>1, <1>2 DEF CpuInit, Life
<1>. QED  BY <1>1, <1>3, <1>4 DEF CpuInit, Alone!Init

LEMMA NextSteps ==
  CpuInv /\ [CpuNext]_cpuVars => [~timer => Alone!Next]_<<View, memory, Life, halted>>
<1>. SUFFICES ASSUME CpuInv, [CpuNext]_cpuVars, ~timer
     PROVE  Alone!Next \/ UNCHANGED Alone!isolatedVars
  BY DEF Alone!isolatedVars
<1>1. UNCHANGED cpuVars => UNCHANGED Alone!isolatedVars
  BY DEF cpuVars, Alone!isolatedVars, View, Life
<1>2. Killed => Alone!Next \/ UNCHANGED Alone!isolatedVars
  BY KilledSteps
<1>. QED  BY <1>1, <1>2, OneInstructionSteps, NachosAbortsSteps, RaiseExceptionSteps,
             PageFaultSteps, LoadPageSteps, SysCallExitSteps, SysCallHaltSteps, SysCallExecSteps,
             SysCallOtherSteps, OneTickSteps, SleepSteps DEF CpuNext, ExceptionHandler

\* Without the timer each program runs as if the CPU and its address space were its
\* own: whatever the word size, the pages and frames, the programs and the
\* instructions they are made of, page faults (those in delay slots included),
\* interrupts and the switches in system calls change nothing that a program can
\* see, until an instruction stops Nachos.
THEOREM CpuImplementsIsolated == CpuSpec => ImplementsIsolated
<1>1. CpuInit => (~timer => Alone!Init)
  BY InitSteps
<1>2. CpuInv /\ [CpuNext]_cpuVars => [~timer => Alone!Next]_<<View, memory, Life, halted>>
  BY NextSteps
<1>. QED  BY <1>1, <1>2, InitInv, NextInv, PTL DEF CpuSpec, ImplementsIsolated
=============================================================================
