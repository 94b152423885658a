---------------------------- MODULE Lcg64_proofs ----------------------------
(***************************************************************************)
(* The lanes and the leaves with the constants of init_state.h, for every  *)
(* 64-bit state.  A word is eight digits; Value is the number it stands    *)
(* for.  The sum and the product of words are those of their values modulo *)
(* 2^64 (AddFacts, MulFacts), two words with the same value modulo 2^64    *)
(* are the same (SameWord), and what remains is linear arithmetic with the *)
(* constants as numbers.                                                   *)
(*                                                                         *)
(* The jump and the period are about the map of k steps, a pair of         *)
(* integers for every k (StepMaps): squaring doubles k (SquaredFacts), the *)
(* bits of delta add up to its value (BitsValue), so the loop ends with    *)
(* the map of delta steps (AccIsSteps); and the map of 2^b steps leaves    *)
(* the b lowest bits alone (FullCycle), but no more of them (OddMultiples, *)
(* NoShortCycle).                                                          *)
(*                                                                         *)
(* A constant is put together from halves that are variables (ValueOf),    *)
(* and factors that are not below 2^62 are multiplied with variables only: *)
(* the front end of the prover computes sums and products of two literals  *)
(* below 2^62 by itself, in machine integers that wrap around.             *)
(***************************************************************************)
EXTENDS JumpAhead, StreamFacts

-----------------------------------------------------------------------------
(* Words as numbers: what the digits of a word stand for, and carries.     *)

(* The number that eight digits, the most significant first, stand for;    *)
(* also of columns that have not been carried yet.                         *)
Value(w) == w[8] + 256 * w[7] + 65536 * w[6] + 16777216 * w[5] + 4294967296 * w[4]
            + 1099511627776 * w[3] + 281474976710656 * w[2] + 72057594037927936 * w[1]

(* 2^64.                                                                   *)
Modulus == 18446744073709551616

(* x and y are the same modulo 2^64.                                       *)
Congruent(x, y) == \E k \in Int : x = y + Modulus * k

(* Eight columns of natural numbers.                                       *)
NatColumns(c) ==
    /\ c[1] \in Nat /\ c[2] \in Nat /\ c[3] \in Nat /\ c[4] \in Nat
    /\ c[5] \in Nat /\ c[6] \in Nat /\ c[7] \in Nat /\ c[8] \in Nat

(* A column is a digit and a carry.                                        *)
LEMMA ByteCarry ==
    ASSUME NEW a \in Nat
    PROVE  /\ a \div 256 \in Nat /\ a % 256 \in Byte
           /\ a = 256 * (a \div 256) + (a % 256)
<1>1. 256 \in Nat \ {0} /\ a \in Int
  OBVIOUS
<1> QED
  BY <1>1, ModFacts, QuotientFacts DEF Byte

(* The carry into a column, the digit that stays and the carry out of it.  *)
LEMMA ColumnFacts ==
    ASSUME NEW x \in Nat, NEW b \in Nat, NEW s, s = x + b
    PROVE  /\ s \in Nat /\ s \div 256 \in Nat /\ s % 256 \in Byte
           /\ x + b = 256 * (s \div 256) + (s % 256)
<1>1. s \in Nat
  OBVIOUS
<1> QED
  BY <1>1, ByteCarry

(* Carrying makes a word of columns and keeps their value modulo 2^64:     *)
(* what leaves the most significant column is a multiple of 2^64.          *)
LEMMA CarriedFacts ==
    ASSUME NEW c, NatColumns(c)
    PROVE  /\ Carried(c) \in Word
           /\ Congruent(Value(Carried(c)), Value(c))
<1> DEFINE Carry(f) == [i \in 0 .. 7 |-> Digit(c, i) + IF i = 0 THEN 0 ELSE f[i - 1] \div 256]
           s0 == c[8] + 0
           s1 == c[7] + (s0 \div 256)
           s2 == c[6] + (s1 \div 256)
           s3 == c[5] + (s2 \div 256)
           s4 == c[4] + (s3 \div 256)
           s5 == c[3] + (s4 \div 256)
           s6 == c[2] + (s5 \div 256)
           s7 == c[1] + (s6 \div 256)
           g == [i \in 0 .. 7 |-> IF i = 0 THEN s0 ELSE IF i = 1 THEN s1 ELSE IF i = 2 THEN s2
                                  ELSE IF i = 3 THEN s3 ELSE IF i = 4 THEN s4
                                  ELSE IF i = 5 THEN s5 ELSE IF i = 6 THEN s6 ELSE s7]
           sum == CHOOSE f : f = Carry(f)
           e(i) == sum[i] \div 256
           d(i) == sum[i] % 256
           t == <<d(7), d(6), d(5), d(4), d(3), d(2), d(1), d(0)>>
<1>1. g = Carry(g)
  <2> HIDE DEF s0, s1, s2, s3, s4, s5, s6, s7
  <2>1. /\ g[0] = s0 /\ g[1] = s1 /\ g[2] = s2 /\ g[3] = s3
        /\ g[4] = s4 /\ g[5] = s5 /\ g[6] = s6 /\ g[7] = s7
    OBVIOUS
  <2> HIDE DEF g
  <2>10. g[0] = Digit(c, 0) + 0
    BY <2>1 DEF s0, Digit
  <2>11. g[1] = Digit(c, 1) + (g[0] \div 256)
    BY <2>1 DEF s1, Digit
  <2>12. g[2] = Digit(c, 2) + (g[1] \div 256)
    BY <2>1 DEF s2, Digit
  <2>13. g[3] = Digit(c, 3) + (g[2] \div 256)
    BY <2>1 DEF s3, Digit
  <2>14. g[4] = Digit(c, 4) + (g[3] \div 256)
    BY <2>1 DEF s4, Digit
  <2>15. g[5] = Digit(c, 5) + (g[4] \div 256)
    BY <2>1 DEF s5, Digit
  <2>16. g[6] = Digit(c, 6) + (g[5] \div 256)
    BY <2>1 DEF s6, Digit
  <2>17. g[7] = Digit(c, 7) + (g[6] \div 256)
    BY <2>1 DEF s7, Digit
  <2>2. \A i \in 0 .. 7 : g[i] = Digit(c, i) + IF i = 0 THEN 0 ELSE g[i - 1] \div 256
    <3> TAKE i \in 0 .. 7
    <3>1. i = 0 \/ i = 1 \/ i = 2 \/ i = 3 \/ i = 4 \/ i = 5 \/ i = 6 \/ i = 7
      OBVIOUS
    <3>10. CASE i = 0
      BY <2>10, <3>10
    <3>11. CASE i = 1
      BY <2>11, <3>11
    <3>12. CASE i = 2
      BY <2>12, <3>12
    <3>13. CASE i = 3
      BY <2>13, <3>13
    <3>14. CASE i = 4
      BY <2>14, <3>14
    <3>15. CASE i = 5
      BY <2>15, <3>15
    <3>16. CASE i = 6
      BY <2>16, <3>16
    <3>17. CASE i = 7
      BY <2>17, <3>17
    <3> QED
      BY <3>1, <3>10, <3>11, <3>12, <3>13, <3>14, <3>15, <3>16, <3>17
  <2>3. g = [i \in 0 .. 7 |-> g[i]]
    BY DEF g
  <2> QED
    BY <2>2, <2>3
<1>2. sum = Carry(sum)
  <2> HIDE DEF g, Carry
  <2> QED
    BY <1>1
<1>3. Carried(c) = t
  BY DEF Carried, BigEndian
<1> HIDE DEF sum
<1>4. \A i \in 0 .. 7 : sum[i] = Digit(c, i) + IF i = 0 THEN 0 ELSE sum[i - 1] \div 256
  <2>1. sum = [i \in 0 .. 7 |-> Digit(c, i) + IF i = 0 THEN 0 ELSE sum[i - 1] \div 256]
    BY <1>2
  <2> HIDE DEF Carry
  <2> QED
    BY <2>1
<1> HIDE DEF Carry, g
<1>5. \A i \in 1 .. 8 : c[i] \in Nat
  BY DEF NatColumns
<1>10. /\ sum[0] \in Nat /\ e(0) \in Nat /\ d(0) \in Byte /\ c[8] + 0 = 256 * e(0) + d(0)
  <2>1. sum[0] = c[8] + 0 /\ c[8] \in Nat /\ 0 \in Nat
    BY <1>4, <1>5 DEF Digit
  <2> QED
    BY <2>1, ColumnFacts
<1>11. /\ sum[1] \in Nat /\ e(1) \in Nat /\ d(1) \in Byte /\ c[7] + e(0) = 256 * e(1) + d(1)
  <2>1. sum[1] = c[7] + e(0) /\ c[7] \in Nat /\ e(0) \in Nat
    BY <1>4, <1>5, <1>10 DEF Digit
  <2> HIDE DEF e
  <2>2. /\ sum[1] \in Nat /\ sum[1] \div 256 \in Nat /\ d(1) \in Byte
        /\ c[7] + e(0) = 256 * (sum[1] \div 256) + d(1)
    BY <2>1, ColumnFacts
  <2> QED
    BY <2>2 DEF e
<1>12. /\ sum[2] \in Nat /\ e(2) \in Nat /\ d(2) \in Byte /\ c[6] + e(1) = 256 * e(2) + d(2)
  <2>1. sum[2] = c[6] + e(1) /\ c[6] \in Nat /\ e(1) \in Nat
    BY <1>4, <1>5, <1>11 DEF Digit
  <2> HIDE DEF e
  <2>2. /\ sum[2] \in Nat /\ sum[2] \div 256 \in Nat /\ d(2) \in Byte
        /\ c[6] + e(1) = 256 * (sum[2] \div 256) + d(2)
    BY <2>1, ColumnFacts
  <2> QED
    BY <2>2 DEF e
<1>13. /\ sum[3] \in Nat /\ e(3) \in Nat /\ d(3) \in Byte /\ c[5] + e(2) = 256 * e(3) + d(3)
  <2>1. sum[3] = c[5] + e(2) /\ c[5] \in Nat /\ e(2) \in Nat
    BY <1>4, <1>5, <1>12 DEF Digit
  <2> HIDE DEF e
  <2>2. /\ sum[3] \in Nat /\ sum[3] \div 256 \in Nat /\ d(3) \in Byte
        /\ c[5] + e(2) = 256 * (sum[3] \div 256) + d(3)
    BY <2>1, ColumnFacts
  <2> QED
    BY <2>2 DEF e
<1>14. /\ sum[4] \in Nat /\ e(4) \in Nat /\ d(4) \in Byte /\ c[4] + e(3) = 256 * e(4) + d(4)
  <2>1. sum[4] = c[4] + e(3) /\ c[4] \in Nat /\ e(3) \in Nat
    BY <1>4, <1>5, <1>13 DEF Digit
  <2> HIDE DEF e
  <2>2. /\ sum[4] \in Nat /\ sum[4] \div 256 \in Nat /\ d(4) \in Byte
        /\ c[4] + e(3) = 256 * (sum[4] \div 256) + d(4)
    BY <2>1, ColumnFacts
  <2> QED
    BY <2>2 DEF e
<1>15. /\ sum[5] \in Nat /\ e(5) \in Nat /\ d(5) \in Byte /\ c[3] + e(4) = 256 * e(5) + d(5)
  <2>1. sum[5] = c[3] + e(4) /\ c[3] \in Nat /\ e(4) \in Nat
    BY <1>4, <1>5, <1>14 DEF Digit
  <2> HIDE DEF e
  <2>2. /\ sum[5] \in Nat /\ sum[5] \div 256 \in Nat /\ d(5) \in Byte
        /\ c[3] + e(4) = 256 * (sum[5] \div 256) + d(5)
    BY <2>1, ColumnFacts
  <2> QED
    BY <2>2 DEF e
<1>16. /\ sum[6] \in Nat /\ e(6) \in Nat /\ d(6) \in Byte /\ c[2] + e(5) = 256 * e(6) + d(6)
  <2>1. sum[6] = c[2] + e(5) /\ c[2] \in Nat /\ e(5) \in Nat
    BY <1>4, <1>5, <1>15 DEF Digit
  <2> HIDE DEF e
  <2>2. /\ sum[6] \in Nat /\ sum[6] \div 256 \in Nat /\ d(6) \in Byte
        /\ c[2] + e(5) = 256 * (sum[6] \div 256) + d(6)
    BY <2>1, ColumnFacts
  <2> QED
    BY <2>2 DEF e
<1>17. /\ sum[7] \in Nat /\ e(7) \in Nat /\ d(7) \in Byte /\ c[1] + e(6) = 256 * e(7) + d(7)
  <2>1. sum[7] = c[1] + e(6) /\ c[1] \in Nat /\ e(6) \in Nat
    BY <1>4, <1>5, <1>16 DEF Digit
  <2> HIDE DEF e
  <2>2. /\ sum[7] \in Nat /\ sum[7] \div 256 \in Nat /\ d(7) \in Byte
        /\ c[1] + e(6) = 256 * (sum[7] \div 256) + d(7)
    BY <2>1, ColumnFacts
  <2> QED
    BY <2>2 DEF e
<1>20. t \in Word
  <2> HIDE DEF d
  <2> QED
    BY <1>10, <1>11, <1>12, <1>13, <1>14, <1>15, <1>16, <1>17 DEF Word
<1>21. /\ t[8] = d(0) /\ t[7] = d(1) /\ t[6] = d(2) /\ t[5] = d(3)
       /\ t[4] = d(4) /\ t[3] = d(5) /\ t[2] = d(6) /\ t[1] = d(7)
  <2> HIDE DEF d
  <2> QED
    OBVIOUS
<1> DEFINE c0 == c[8]
           d0 == d(0)
           e0 == e(0)
           c1 == c[7]
           d1 == d(1)
           e1 == e(1)
           c2 == c[6]
           d2 == d(2)
           e2 == e(2)
           c3 == c[5]
           d3 == d(3)
           e3 == e(3)
           c4 == c[4]
           d4 == d(4)
           e4 == e(4)
           c5 == c[3]
           d5 == d(5)
           e5 == e(5)
           c6 == c[2]
           d6 == d(6)
           e6 == e(6)
           c7 == c[1]
           d7 == d(7)
           e7 == e(7)
<1>22. /\ c0 \in Nat /\ d0 \in Nat /\ e0 \in Nat
       /\ c1 \in Nat /\ d1 \in Nat /\ e1 \in Nat
       /\ c2 \in Nat /\ d2 \in Nat /\ e2 \in Nat
       /\ c3 \in Nat /\ d3 \in Nat /\ e3 \in Nat
       /\ c4 \in Nat /\ d4 \in Nat /\ e4 \in Nat
       /\ c5 \in Nat /\ d5 \in Nat /\ e5 \in Nat
       /\ c6 \in Nat /\ d6 \in Nat /\ e6 \in Nat
       /\ c7 \in Nat /\ d7 \in Nat /\ e7 \in Nat
  <2>1. Byte \subseteq Nat
    BY DEF Byte
  <2>20. c0 \in Nat /\ d0 \in Nat /\ e0 \in Nat
    <3>1. c[8] \in Nat
      BY <1>5
    <3> HIDE DEF d, e
    <3>2. d(0) \in Nat /\ e(0) \in Nat
      BY <1>10, <2>1
    <3> QED
      BY <3>1, <3>2
  <2>21. c1 \in Nat /\ d1 \in Nat /\ e1 \in Nat
    <3>1. c[7] \in Nat
      BY <1>5
    <3> HIDE DEF d, e
    <3>2. d(1) \in Nat /\ e(1) \in Nat
      BY <1>11, <2>1
    <3> QED
      BY <3>1, <3>2
  <2>22. c2 \in Nat /\ d2 \in Nat /\ e2 \in Nat
    <3>1. c[6] \in Nat
      BY <1>5
    <3> HIDE DEF d, e
    <3>2. d(2) \in Nat /\ e(2) \in Nat
      BY <1>12, <2>1
    <3> QED
      BY <3>1, <3>2
  <2>23. c3 \in Nat /\ d3 \in Nat /\ e3 \in Nat
    <3>1. c[5] \in Nat
      BY <1>5
    <3> HIDE DEF d, e
    <3>2. d(3) \in Nat /\ e(3) \in Nat
      BY <1>13, <2>1
    <3> QED
      BY <3>1, <3>2
  <2>24. c4 \in Nat /\ d4 \in Nat /\ e4 \in Nat
    <3>1. c[4] \in Nat
      BY <1>5
    <3> HIDE DEF d, e
    <3>2. d(4) \in Nat /\ e(4) \in Nat
      BY <1>14, <2>1
    <3> QED
      BY <3>1, <3>2
  <2>25. c5 \in Nat /\ d5 \in Nat /\ e5 \in Nat
    <3>1. c[3] \in Nat
      BY <1>5
    <3> HIDE DEF d, e
    <3>2. d(5) \in Nat /\ e(5) \in Nat
      BY <1>15, <2>1
    <3> QED
      BY <3>1, <3>2
  <2>26. c6 \in Nat /\ d6 \in Nat /\ e6 \in Nat
    <3>1. c[2] \in Nat
      BY <1>5
    <3> HIDE DEF d, e
    <3>2. d(6) \in Nat /\ e(6) \in Nat
      BY <1>16, <2>1
    <3> QED
      BY <3>1, <3>2
  <2>27. c7 \in Nat /\ d7 \in Nat /\ e7 \in Nat
    <3>1. c[1] \in Nat
      BY <1>5
    <3> HIDE DEF d, e
    <3>2. d(7) \in Nat /\ e(7) \in Nat
      BY <1>17, <2>1
    <3> QED
      BY <3>1, <3>2
  <2> QED
    BY <2>20, <2>21, <2>22, <2>23, <2>24, <2>25, <2>26, <2>27
<1>23. /\ c0 + 0 = 256 * e0 + d0 
       /\ c1 + e0 = 256 * e1 + d1
       /\ c2 + e1 = 256 * e2 + d2
       /\ c3 + e2 = 256 * e3 + d3
       /\ c4 + e3 = 256 * e4 + d4
       /\ c5 + e4 = 256 * e5 + d5
       /\ c6 + e5 = 256 * e6 + d6
       /\ c7 + e6 = 256 * e7 + d7
  BY <1>10, <1>11, <1>12, <1>13, <1>14, <1>15, <1>16, <1>17
<1>24. Value(t) = d0 + 256 * d1 + 65536 * d2 + 16777216 * d3 + 4294967296 * d4
             + 1099511627776 * d5 + 281474976710656 * d6 + 72057594037927936 * d7
  <2> HIDE DEF t, d0, d1, d2, d3, d4, d5, d6, d7
  <2> USE DEF d0, d1, d2, d3, d4, d5, d6, d7
  <2> HIDE DEF d
  <2> QED
    BY <1>21 DEF Value
<1>25. Value(c) = c0 + 256 * c1 + 65536 * c2 + 16777216 * c3 + 4294967296 * c4
             + 1099511627776 * c5 + 281474976710656 * c6 + 72057594037927936 * c7
  BY DEF Value
<1> HIDE DEF t, c0, d0, e0, c1, d1, e1, c2, d2, e2, c3, d3, e3,
             c4, d4, e4, c5, d5, e5, c6, d6, e6, c7, d7, e7
<1>26. Value(t) = Value(c) + Modulus * (-e7)
  <2>1. Value(c) = Value(t) + 18446744073709551616 * e7
    BY <1>22, <1>23, <1>24, <1>25
  <2>2. Value(t) \in Int /\ e7 \in Int
    BY <1>22, <1>24
  <2> QED
    BY <2>1, <2>2 DEF Modulus
<1>27. -e7 \in Int
  BY <1>22
<1> QED
  BY <1>3, <1>20, <1>26, <1>27 DEF Congruent

(* The value of a word is a 64-bit number.                                 *)
LEMMA ValueType ==
    ASSUME NEW w \in Word
    PROVE  Value(w) \in Nat /\ Value(w) < Modulus
<1> DEFINE c0 == w[8]
           c1 == w[7]
           c2 == w[6]
           c3 == w[5]
           c4 == w[4]
           c5 == w[3]
           c6 == w[2]
           c7 == w[1]
<1>1. /\ c0 \in 0 .. 255 /\ c1 \in 0 .. 255 /\ c2 \in 0 .. 255 /\ c3 \in 0 .. 255
      /\ c4 \in 0 .. 255 /\ c5 \in 0 .. 255 /\ c6 \in 0 .. 255 /\ c7 \in 0 .. 255
  BY DEF Word, Byte
<1>2. Value(w) = c0 + 256 * c1 + 65536 * c2 + 16777216 * c3 + 4294967296 * c4
             + 1099511627776 * c5 + 281474976710656 * c6 + 72057594037927936 * c7
  BY DEF Value
<1> HIDE DEF c0, c1, c2, c3, c4, c5, c6, c7
<1> QED
  BY <1>1, <1>2 DEF Modulus

(* A word is determined by its value modulo 2^64, digit by digit from the  *)
(* most significant one.                                                   *)
LEMMA SameWord ==
    ASSUME NEW a \in Word, NEW b \in Word, Congruent(Value(a), Value(b))
    PROVE  a = b
<1>1. PICK k \in Int : Value(a) = Value(b) + Modulus * k
  BY DEF Congruent
<1>2. Value(a) = Value(b)
  BY <1>1, ValueType DEF Modulus
<1> DEFINE c0 == a[8]
           d0 == b[8]
           c1 == a[7]
           d1 == b[7]
           c2 == a[6]
           d2 == b[6]
           c3 == a[5]
           d3 == b[5]
           c4 == a[4]
           d4 == b[4]
           c5 == a[3]
           d5 == b[3]
           c6 == a[2]
           d6 == b[2]
           c7 == a[1]
           d7 == b[1]
<1>3. /\ c0 \in 0 .. 255 /\ c1 \in 0 .. 255 /\ c2 \in 0 .. 255 /\ c3 \in 0 .. 255
      /\ c4 \in 0 .. 255 /\ c5 \in 0 .. 255 /\ c6 \in 0 .. 255 /\ c7 \in 0 .. 255
      /\ d0 \in 0 .. 255 /\ d1 \in 0 .. 255 /\ d2 \in 0 .. 255 /\ d3 \in 0 .. 255
      /\ d4 \in 0 .. 255 /\ d5 \in 0 .. 255 /\ d6 \in 0 .. 255 /\ d7 \in 0 .. 255
  BY DEF Word, Byte
<1>4. c0 + 256 * c1 + 65536 * c2 + 16777216 * c3 + 4294967296 * c4
        + 1099511627776 * c5 + 281474976710656 * c6 + 72057594037927936 * c7
      = d0 + 256 * d1 + 65536 * d2 + 16777216 * d3 + 4294967296 * d4
        + 1099511627776 * d5 + 281474976710656 * d6 + 72057594037927936 * d7
  BY <1>2 DEF Value
<1> HIDE DEF c0, d0, c1, d1, c2, d2, c3, d3, c4, d4, c5, d5, c6, d6, c7, d7
<1> DEFINE x7 == c7
           y7 == d7
           x6 == c6 + 256 * x7
           y6 == d6 + 256 * y7
           x5 == c5 + 256 * x6
           y5 == d5 + 256 * y6
           x4 == c4 + 256 * x5
           y4 == d4 + 256 * y5
           x3 == c3 + 256 * x4
           y3 == d3 + 256 * y4
           x2 == c2 + 256 * x3
           y2 == d2 + 256 * y3
           x1 == c1 + 256 * x2
           y1 == d1 + 256 * y2
<1>50. c0 + 256 * x1 = d0 + 256 * y1
  BY <1>3, <1>4
<1>51. /\ x1 \in Nat /\ y1 \in Nat
       /\ x2 \in Nat /\ y2 \in Nat
       /\ x3 \in Nat /\ y3 \in Nat
       /\ x4 \in Nat /\ y4 \in Nat
       /\ x5 \in Nat /\ y5 \in Nat
       /\ x6 \in Nat /\ y6 \in Nat
       /\ x7 \in Nat /\ y7 \in Nat
  BY <1>3
<1>60. c0 = d0 /\ x1 = y1
  <2>1. c0 \in 0 .. 255 /\ d0 \in 0 .. 255 /\ x1 \in Nat /\ y1 \in Nat
    BY <1>3, <1>51
  <2>2. c0 + 256 * x1 = d0 + 256 * y1
    BY <1>50
  <2> HIDE DEF x1, y1
  <2> QED
    BY <2>1, <2>2
<1>61. c1 = d1 /\ x2 = y2
  <2>1. c1 \in 0 .. 255 /\ d1 \in 0 .. 255 /\ x2 \in Nat /\ y2 \in Nat
    BY <1>3, <1>51
  <2>2. c1 + 256 * x2 = d1 + 256 * y2
    BY <1>60
  <2> HIDE DEF x2, y2
  <2> QED
    BY <2>1, <2>2
<1>62. c2 = d2 /\ x3 = y3
  <2>1. c2 \in 0 .. 255 /\ d2 \in 0 .. 255 /\ x3 \in Nat /\ y3 \in Nat
    BY <1>3, <1>51
  <2>2. c2 + 256 * x3 = d2 + 256 * y3
    BY <1>61
  <2> HIDE DEF x3, y3
  <2> QED
    BY <2>1, <2>2
<1>63. c3 = d3 /\ x4 = y4
  <2>1. c3 \in 0 .. 255 /\ d3 \in 0 .. 255 /\ x4 \in Nat /\ y4 \in Nat
    BY <1>3, <1>51
  <2>2. c3 + 256 * x4 = d3 + 256 * y4
    BY <1>62
  <2> HIDE DEF x4, y4
  <2> QED
    BY <2>1, <2>2
<1>64. c4 = d4 /\ x5 = y5
  <2>1. c4 \in 0 .. 255 /\ d4 \in 0 .. 255 /\ x5 \in Nat /\ y5 \in Nat
    BY <1>3, <1>51
  <2>2. c4 + 256 * x5 = d4 + 256 * y5
    BY <1>63
  <2> HIDE DEF x5, y5
  <2> QED
    BY <2>1, <2>2
<1>65. c5 = d5 /\ x6 = y6
  <2>1. c5 \in 0 .. 255 /\ d5 \in 0 .. 255 /\ x6 \in Nat /\ y6 \in Nat
    BY <1>3, <1>51
  <2>2. c5 + 256 * x6 = d5 + 256 * y6
    BY <1>64
  <2> HIDE DEF x6, y6
  <2> QED
    BY <2>1, <2>2
<1>66. c6 = d6 /\ x7 = y7
  <2>1. c6 \in 0 .. 255 /\ d6 \in 0 .. 255 /\ x7 \in Nat /\ y7 \in Nat
    BY <1>3, <1>51
  <2>2. c6 + 256 * x7 = d6 + 256 * y7
    BY <1>65
  <2> HIDE DEF x7, y7
  <2> QED
    BY <2>1, <2>2
<1>5. c0 = d0 /\ c1 = d1 /\ c2 = d2 /\ c3 = d3 /\ c4 = d4 /\ c5 = d5 /\ c6 = d6 /\ c7 = d7
  BY <1>60, <1>61, <1>62, <1>63, <1>64, <1>65, <1>66
<1>6. \A i \in 1 .. 8 : a[i] = b[i]
  BY <1>5 DEF c0, d0, c1, d1, c2, d2, c3, d3, c4, d4, c5, d5, c6, d6, c7, d7
<1> QED
  BY <1>6 DEF Word

-----------------------------------------------------------------------------
(* Sums and products of words.                                             *)

(* The digits of a word are numbers.                                       *)
LEMMA DigitType ==
    ASSUME NEW w \in Word
    PROVE  \A i \in 1 .. 8 : w[i] \in Nat
<1>1. \A i \in 1 .. 8 : w[i] \in Byte
  BY DEF Word
<1>2. Byte \subseteq Nat
  BY DEF Byte
<1> QED
  BY <1>1, <1>2

(* The value of columns added one by one is the sum of the values.         *)
Together(c, d) == <<c[1] + d[1], c[2] + d[2], c[3] + d[3], c[4] + d[4],
                    c[5] + d[5], c[6] + d[6], c[7] + d[7], c[8] + d[8]>>

LEMMA TogetherFacts ==
    ASSUME NEW c, NEW d, NatColumns(c), NatColumns(d)
    PROVE  /\ NatColumns(Together(c, d))
           /\ Value(Together(c, d)) = Value(c) + Value(d)
<1> DEFINE t == Together(c, d)
<1>1. /\ t[1] = c[1] + d[1] /\ c[1] \in Nat /\ d[1] \in Nat
      /\ t[2] = c[2] + d[2] /\ c[2] \in Nat /\ d[2] \in Nat
      /\ t[3] = c[3] + d[3] /\ c[3] \in Nat /\ d[3] \in Nat
      /\ t[4] = c[4] + d[4] /\ c[4] \in Nat /\ d[4] \in Nat
      /\ t[5] = c[5] + d[5] /\ c[5] \in Nat /\ d[5] \in Nat
      /\ t[6] = c[6] + d[6] /\ c[6] \in Nat /\ d[6] \in Nat
      /\ t[7] = c[7] + d[7] /\ c[7] \in Nat /\ d[7] \in Nat
      /\ t[8] = c[8] + d[8] /\ c[8] \in Nat /\ d[8] \in Nat
  BY DEF Together, NatColumns
<1> HIDE DEF t
<1>2. NatColumns(t)
  BY <1>1 DEF NatColumns
<1>3. Value(t) = Value(c) + Value(d)
  BY <1>1, SMTT(30) DEF Value
<1> QED
  BY <1>2, <1>3 DEF t

(* The columns of a sum.                                                   *)
LEMMA TogetherAt ==
    ASSUME NEW c, NEW d
    PROVE  \A k \in 1 .. 8 : Together(c, d)[k] = c[k] + d[k]
<1> DEFINE t == Together(c, d)
<1>1. /\ t[1] = c[1] + d[1]
      /\ t[2] = c[2] + d[2]
      /\ t[3] = c[3] + d[3]
      /\ t[4] = c[4] + d[4]
      /\ t[5] = c[5] + d[5]
      /\ t[6] = c[6] + d[6]
      /\ t[7] = c[7] + d[7]
      /\ t[8] = c[8] + d[8]
  BY DEF Together
<1> HIDE DEF t
<1>2. \A k \in 1 .. 8 : k = 1 \/ k = 2 \/ k = 3 \/ k = 4 \/ k = 5 \/ k = 6 \/ k = 7 \/ k = 8
  OBVIOUS
<1>3. \A k \in 1 .. 8 : t[k] = c[k] + d[k]
  BY <1>1, <1>2
<1> QED
  BY <1>3 DEF t

(* A word is columns.                                                      *)
LEMMA WordColumns ==
    ASSUME NEW w \in Word
    PROVE  NatColumns(w)
  BY DigitType DEF NatColumns

(* The sum of two words is their sum modulo 2^64.                          *)
LEMMA AddFacts ==
    ASSUME NEW a \in Word, NEW b \in Word
    PROVE  /\ Add(a, b) \in Word
           /\ Congruent(Value(Add(a, b)), Value(a) + Value(b))
<1>1. Add(a, b) = Carried(Together(a, b))
  BY DEF Add, BigEndian, Digit, Together
<1>2. NatColumns(Together(a, b)) /\ Value(Together(a, b)) = Value(a) + Value(b)
  BY WordColumns, TogetherFacts
<1>3. Carried(Together(a, b)) \in Word
  BY <1>2, CarriedFacts
<1>4. Congruent(Value(Carried(Together(a, b))), Value(Together(a, b)))
  BY <1>2, CarriedFacts
<1> QED
  BY <1>1, <1>2, <1>3, <1>4

(* A product with a word, digit by digit.                                  *)
LEMMA Row ==
    ASSUME NEW y \in Int, NEW b \in Word
    PROVE  y * Value(b) = (y * b[8]) + 256 * (y * b[7]) + 65536 * (y * b[6]) + 16777216 * (y * b[5])
             + 4294967296 * (y * b[4]) + 1099511627776 * (y * b[3])
             + 281474976710656 * (y * b[2]) + 72057594037927936 * (y * b[1])
<1> DEFINE b0 == b[8]
           b1 == b[7]
           b2 == b[6]
           b3 == b[5]
           b4 == b[4]
           b5 == b[3]
           b6 == b[2]
           b7 == b[1]
           v == Value(b)
<1>1. \A i \in 1 .. 8 : b[i] \in Nat
  BY DigitType
<1>2. /\ b0 \in Int /\ b1 \in Int /\ b2 \in Int /\ b3 \in Int
      /\ b4 \in Int /\ b5 \in Int /\ b6 \in Int /\ b7 \in Int
  BY <1>1
<1>3. v = b0 + 256 * b1 + 65536 * b2 + 16777216 * b3
             + 4294967296 * b4 + 1099511627776 * b5 + 281474976710656 * b6 + 72057594037927936 * b7
  BY DEF Value
<1> HIDE DEF v, b0, b1, b2, b3, b4, b5, b6, b7
<1>4. y * v = (y * b0) + 256 * (y * b1) + 65536 * (y * b2) + 16777216 * (y * b3)
             + 4294967296 * (y * b4) + 1099511627776 * (y * b5)
             + 281474976710656 * (y * b6) + 72057594037927936 * (y * b7)
  BY <1>2, <1>3
<1> QED
  BY <1>4 DEF v, b0, b1, b2, b3, b4, b5, b6, b7

(* Products of numbers are numbers.                                        *)
LEMMA NatTimes == \A x, y \in Nat : x * y \in Nat
  OBVIOUS

(* The columns that digit j of a makes of b, beside those beyond 2^64.     *)
Partial(a, b, j) == BigEndian(LAMBDA i : IF j <= i THEN Digit(a, j) * Digit(b, i - j) ELSE 0)

(* The columns of a partial product.                                       *)
LEMMA PartialAt ==
    ASSUME NEW a, NEW b, NEW j
    PROVE  \A i \in 0 .. 7 : Partial(a, b, j)[8 - i] =
                IF j <= i THEN Digit(a, j) * Digit(b, i - j) ELSE 0
<1> DEFINE part(i) == IF j <= i THEN Digit(a, j) * Digit(b, i - j) ELSE 0
           t == Partial(a, b, j)
<1>1. /\ t[8] = part(0)
      /\ t[7] = part(1)
      /\ t[6] = part(2)
      /\ t[5] = part(3)
      /\ t[4] = part(4)
      /\ t[3] = part(5)
      /\ t[2] = part(6)
      /\ t[1] = part(7)
  <2> HIDE DEF part
  <2>1. t = BigEndian(LAMBDA i : part(i))
    BY DEF Partial, part
  <2> HIDE DEF t
  <2> QED
    BY <2>1 DEF BigEndian
<1> HIDE DEF t, part
<1>2. \A i \in 0 .. 7 : i = 0 \/ i = 1 \/ i = 2 \/ i = 3 \/ i = 4 \/ i = 5 \/ i = 6 \/ i = 7
  OBVIOUS
<1>3. \A i \in 0 .. 7 : t[8 - i] = part(i)
  BY <1>1, <1>2
<1> QED
  BY <1>3 DEF t, part

(* The value of the partial product of digit j is that of the digit, moved *)
(* by j places, times b, modulo 2^64.  One lemma for each digit.           *)
LEMMA Partial0 ==
    ASSUME NEW a \in Word, NEW b \in Word
    PROVE  /\ NatColumns(Partial(a, b, 0))
           /\ \E h \in Int : (a[8] * Value(b)) = Value(Partial(a, b, 0)) + Modulus * h
<1> DEFINE d == a[8]
           c == Partial(a, b, 0)
           x == Value(b)
           b0 == d * b[8]
           b1 == d * b[7]
           b2 == d * b[6]
           b3 == d * b[5]
           b4 == d * b[4]
           b5 == d * b[3]
           b6 == d * b[2]
           b7 == d * b[1]
<1>1. d \in Nat /\ \A i \in 1 .. 8 : b[i] \in Nat
  BY DigitType
<1>2. /\ TRUE
      /\ c[8] = b0
      /\ c[7] = b1
      /\ c[6] = b2
      /\ c[5] = b3
      /\ c[4] = b4
      /\ c[3] = b5
      /\ c[2] = b6
      /\ c[1] = b7
  BY DEF Partial, BigEndian, Digit
<1>3. d * x = b0 + 256 * b1 + 65536 * b2 + 16777216 * b3
              + 4294967296 * b4 + 1099511627776 * b5 + 281474976710656 * b6 + 72057594037927936 * b7
  <2>1. d \in Int
    BY <1>1
  <2> HIDE DEF d
  <2> QED
    BY <2>1, Row
<1>4. /\ b0 \in Nat /\ b1 \in Nat /\ b2 \in Nat /\ b3 \in Nat
      /\ b4 \in Nat /\ b5 \in Nat /\ b6 \in Nat /\ b7 \in Nat
  <2>1. /\ d \in Nat /\ b[8] \in Nat /\ b[7] \in Nat /\ b[6] \in Nat /\ b[5] \in Nat
        /\ b[4] \in Nat /\ b[3] \in Nat /\ b[2] \in Nat /\ b[1] \in Nat
    BY <1>1
  <2> HIDE DEF d
  <2> QED
    BY <2>1, NatTimes
<1> DEFINE y == d * x
           h == 0
<1> HIDE DEF y, c, b0, b1, b2, b3, b4, b5, b6, b7
<1>5. Value(c) = b0 + 256 * b1 + 65536 * b2 + 16777216 * b3
                 + 4294967296 * b4 + 1099511627776 * b5
                 + 281474976710656 * b6 + 72057594037927936 * b7
  BY <1>2, <1>4 DEF Value
<1>6. y = Value(c) + Modulus * h
  BY <1>3, <1>4, <1>5 DEF Modulus, y
<1>7. h \in Int
  BY <1>4
<1>8. NatColumns(c)
  BY <1>2, <1>4 DEF NatColumns
<1> QED
  BY <1>6, <1>7, <1>8 DEF c, y

LEMMA Partial1 ==
    ASSUME NEW a \in Word, NEW b \in Word
    PROVE  /\ NatColumns(Partial(a, b, 1))
           /\ \E h \in Int : 256 * (a[7] * Value(b)) = Value(Partial(a, b, 1)) + Modulus * h
<1> DEFINE d == a[7]
           c == Partial(a, b, 1)
           x == Value(b)
           b0 == d * b[8]
           b1 == d * b[7]
           b2 == d * b[6]
           b3 == d * b[5]
           b4 == d * b[4]
           b5 == d * b[3]
           b6 == d * b[2]
           b7 == d * b[1]
<1>1. d \in Nat /\ \A i \in 1 .. 8 : b[i] \in Nat
  BY DigitType
<1>2. /\ c[8] = 0
      /\ c[7] = b0
      /\ c[6] = b1
      /\ c[5] = b2
      /\ c[4] = b3
      /\ c[3] = b4
      /\ c[2] = b5
      /\ c[1] = b6
  BY DEF Partial, BigEndian, Digit
<1>3. d * x = b0 + 256 * b1 + 65536 * b2 + 16777216 * b3
              + 4294967296 * b4 + 1099511627776 * b5 + 281474976710656 * b6 + 72057594037927936 * b7
  <2>1. d \in Int
    BY <1>1
  <2> HIDE DEF d
  <2> QED
    BY <2>1, Row
<1>4. /\ b0 \in Nat /\ b1 \in Nat /\ b2 \in Nat /\ b3 \in Nat
      /\ b4 \in Nat /\ b5 \in Nat /\ b6 \in Nat /\ b7 \in Nat
  <2>1. /\ d \in Nat /\ b[8] \in Nat /\ b[7] \in Nat /\ b[6] \in Nat /\ b[5] \in Nat
        /\ b[4] \in Nat /\ b[3] \in Nat /\ b[2] \in Nat /\ b[1] \in Nat
    BY <1>1
  <2> HIDE DEF d
  <2> QED
    BY <2>1, NatTimes
<1> DEFINE y == d * x
           h == b7
<1> HIDE DEF y, c, b0, b1, b2, b3, b4, b5, b6, b7
<1>5. Value(c) = 256 * b0 + 65536 * b1 + 16777216 * b2 + 4294967296 * b3
                 + 1099511627776 * b4 + 281474976710656 * b5 + 72057594037927936 * b6
  BY <1>2, <1>4 DEF Value
<1>6. 256 * y = Value(c) + Modulus * h
  BY <1>3, <1>4, <1>5 DEF Modulus, y
<1>7. h \in Int
  BY <1>4
<1>8. NatColumns(c)
  BY <1>2, <1>4 DEF NatColumns
<1> QED
  BY <1>6, <1>7, <1>8 DEF c, y

LEMMA Partial2 ==
    ASSUME NEW a \in Word, NEW b \in Word
    PROVE  /\ NatColumns(Partial(a, b, 2))
           /\ \E h \in Int : 65536 * (a[6] * Value(b)) = Value(Partial(a, b, 2)) + Modulus * h
<1> DEFINE d == a[6]
           c == Partial(a, b, 2)
           x == Value(b)
           b0 == d * b[8]
           b1 == d * b[7]
           b2 == d * b[6]
           b3 == d * b[5]
           b4 == d * b[4]
           b5 == d * b[3]
           b6 == d * b[2]
           b7 == d * b[1]
<1>1. d \in Nat /\ \A i \in 1 .. 8 : b[i] \in Nat
  BY DigitType
<1>2. /\ c[8] = 0 /\ c[7] = 0
      /\ c[6] = b0
      /\ c[5] = b1
      /\ c[4] = b2
      /\ c[3] = b3
      /\ c[2] = b4
      /\ c[1] = b5
  BY DEF Partial, BigEndian, Digit
<1>3. d * x = b0 + 256 * b1 + 65536 * b2 + 16777216 * b3
              + 4294967296 * b4 + 1099511627776 * b5 + 281474976710656 * b6 + 72057594037927936 * b7
  <2>1. d \in Int
    BY <1>1
  <2> HIDE DEF d
  <2> QED
    BY <2>1, Row
<1>4. /\ b0 \in Nat /\ b1 \in Nat /\ b2 \in Nat /\ b3 \in Nat
      /\ b4 \in Nat /\ b5 \in Nat /\ b6 \in Nat /\ b7 \in Nat
  <2>1. /\ d \in Nat /\ b[8] \in Nat /\ b[7] \in Nat /\ b[6] \in Nat /\ b[5] \in Nat
        /\ b[4] \in Nat /\ b[3] \in Nat /\ b[2] \in Nat /\ b[1] \in Nat
    BY <1>1
  <2> HIDE DEF d
  <2> QED
    BY <2>1, NatTimes
<1> DEFINE y == d * x
           h == b6 + 256 * b7
<1> HIDE DEF y, c, b0, b1, b2, b3, b4, b5, b6, b7
<1>5. Value(c) = 65536 * b0 + 16777216 * b1 + 4294967296 * b2 + 1099511627776 * b3
                 + 281474976710656 * b4 + 72057594037927936 * b5
  BY <1>2, <1>4 DEF Value
<1>6. 65536 * y = Value(c) + Modulus * h
  BY <1>3, <1>4, <1>5 DEF Modulus, y
<1>7. h \in Int
  BY <1>4
<1>8. NatColumns(c)
  BY <1>2, <1>4 DEF NatColumns
<1> QED
  BY <1>6, <1>7, <1>8 DEF c, y

LEMMA Partial3 ==
    ASSUME NEW a \in Word, NEW b \in Word
    PROVE  /\ NatColumns(Partial(a, b, 3))
           /\ \E h \in Int : 16777216 * (a[5] * Value(b)) = Value(Partial(a, b, 3)) + Modulus * h
<1> DEFINE d == a[5]
           c == Partial(a, b, 3)
           x == Value(b)
           b0 == d * b[8]
           b1 == d * b[7]
           b2 == d * b[6]
           b3 == d * b[5]
           b4 == d * b[4]
           b5 == d * b[3]
           b6 == d * b[2]
           b7 == d * b[1]
<1>1. d \in Nat /\ \A i \in 1 .. 8 : b[i] \in Nat
  BY DigitType
<1>2. /\ c[8] = 0 /\ c[7] = 0 /\ c[6] = 0
      /\ c[5] = b0
      /\ c[4] = b1
      /\ c[3] = b2
      /\ c[2] = b3
      /\ c[1] = b4
  BY DEF Partial, BigEndian, Digit
<1>3. d * x = b0 + 256 * b1 + 65536 * b2 + 16777216 * b3
              + 4294967296 * b4 + 1099511627776 * b5 + 281474976710656 * b6 + 72057594037927936 * b7
  <2>1. d \in Int
    BY <1>1
  <2> HIDE DEF d
  <2> QED
    BY <2>1, Row
<1>4. /\ b0 \in Nat /\ b1 \in Nat /\ b2 \in Nat /\ b3 \in Nat
      /\ b4 \in Nat /\ b5 \in Nat /\ b6 \in Nat /\ b7 \in Nat
  <2>1. /\ d \in Nat /\ b[8] \in Nat /\ b[7] \in Nat /\ b[6] \in Nat /\ b[5] \in Nat
        /\ b[4] \in Nat /\ b[3] \in Nat /\ b[2] \in Nat /\ b[1] \in Nat
    BY <1>1
  <2> HIDE DEF d
  <2> QED
    BY <2>1, NatTimes
<1> DEFINE y == d * x
           h == b5 + 256 * b6 + 65536 * b7
<1> HIDE DEF y, c, b0, b1, b2, b3, b4, b5, b6, b7
<1>5. Value(c) = 16777216 * b0 + 4294967296 * b1 + 1099511627776 * b2 + 281474976710656 * b3
                 + 72057594037927936 * b4
  BY <1>2, <1>4 DEF Value
<1>6. 16777216 * y = Value(c) + Modulus * h
  BY <1>3, <1>4, <1>5 DEF Modulus, y
<1>7. h \in Int
  BY <1>4
<1>8. NatColumns(c)
  BY <1>2, <1>4 DEF NatColumns
<1> QED
  BY <1>6, <1>7, <1>8 DEF c, y

LEMMA Partial4 ==
    ASSUME NEW a \in Word, NEW b \in Word
    PROVE  /\ NatColumns(Partial(a, b, 4))
           /\ \E h \in Int : 4294967296 * (a[4] * Value(b)) = Value(Partial(a, b, 4)) + Modulus * h
<1> DEFINE d == a[4]
           c == Partial(a, b, 4)
           x == Value(b)
           b0 == d * b[8]
           b1 == d * b[7]
           b2 == d * b[6]
           b3 == d * b[5]
           b4 == d * b[4]
           b5 == d * b[3]
           b6 == d * b[2]
           b7 == d * b[1]
<1>1. d \in Nat /\ \A i \in 1 .. 8 : b[i] \in Nat
  BY DigitType
<1>2. /\ c[8] = 0 /\ c[7] = 0 /\ c[6] = 0 /\ c[5] = 0
      /\ c[4] = b0
      /\ c[3] = b1
      /\ c[2] = b2
      /\ c[1] = b3
  BY DEF Partial, BigEndian, Digit
<1>3. d * x = b0 + 256 * b1 + 65536 * b2 + 16777216 * b3
              + 4294967296 * b4 + 1099511627776 * b5 + 281474976710656 * b6 + 72057594037927936 * b7
  <2>1. d \in Int
    BY <1>1
  <2> HIDE DEF d
  <2> QED
    BY <2>1, Row
<1>4. /\ b0 \in Nat /\ b1 \in Nat /\ b2 \in Nat /\ b3 \in Nat
      /\ b4 \in Nat /\ b5 \in Nat /\ b6 \in Nat /\ b7 \in Nat
  <2>1. /\ d \in Nat /\ b[8] \in Nat /\ b[7] \in Nat /\ b[6] \in Nat /\ b[5] \in Nat
        /\ b[4] \in Nat /\ b[3] \in Nat /\ b[2] \in Nat /\ b[1] \in Nat
    BY <1>1
  <2> HIDE DEF d
  <2> QED
    BY <2>1, NatTimes
<1> DEFINE y == d * x
           h == b4 + 256 * b5 + 65536 * b6 + 16777216 * b7
<1> HIDE DEF y, c, b0, b1, b2, b3, b4, b5, b6, b7
<1>5. Value(c) = 4294967296 * b0 + 1099511627776 * b1
               + 281474976710656 * b2 + 72057594037927936 * b3
  BY <1>2, <1>4 DEF Value
<1>6. 4294967296 * y = Value(c) + Modulus * h
  BY <1>3, <1>4, <1>5 DEF Modulus, y
<1>7. h \in Int
  BY <1>4
<1>8. NatColumns(c)
  BY <1>2, <1>4 DEF NatColumns
<1> QED
  BY <1>6, <1>7, <1>8 DEF c, y

LEMMA Partial5 ==
    ASSUME NEW a \in Word, NEW b \in Word
    PROVE  /\ NatColumns(Partial(a, b, 5))
           /\ \E h \in Int : 1099511627776 * (a[3] * Value(b))
                            = Value(Partial(a, b, 5)) + Modulus * h
<1> DEFINE d == a[3]
           c == Partial(a, b, 5)
           x == Value(b)
           b0 == d * b[8]
           b1 == d * b[7]
           b2 == d * b[6]
           b3 == d * b[5]
           b4 == d * b[4]
           b5 == d * b[3]
           b6 == d * b[2]
           b7 == d * b[1]
<1>1. d \in Nat /\ \A i \in 1 .. 8 : b[i] \in Nat
  BY DigitType
<1>2. /\ c[8] = 0 /\ c[7] = 0 /\ c[6] = 0 /\ c[5] = 0 /\ c[4] = 0
      /\ c[3] = b0
      /\ c[2] = b1
      /\ c[1] = b2
  BY DEF Partial, BigEndian, Digit
<1>3. d * x = b0 + 256 * b1 + 65536 * b2 + 16777216 * b3
              + 4294967296 * b4 + 1099511627776 * b5 + 281474976710656 * b6 + 72057594037927936 * b7
  <2>1. d \in Int
    BY <1>1
  <2> HIDE DEF d
  <2> QED
    BY <2>1, Row
<1>4. /\ b0 \in Nat /\ b1 \in Nat /\ b2 \in Nat /\ b3 \in Nat
      /\ b4 \in Nat /\ b5 \in Nat /\ b6 \in Nat /\ b7 \in Nat
  <2>1. /\ d \in Nat /\ b[8] \in Nat /\ b[7] \in Nat /\ b[6] \in Nat /\ b[5] \in Nat
        /\ b[4] \in Nat /\ b[3] \in Nat /\ b[2] \in Nat /\ b[1] \in Nat
    BY <1>1
  <2> HIDE DEF d
  <2> QED
    BY <2>1, NatTimes
<1> DEFINE y == d * x
           h == b3 + 256 * b4 + 65536 * b5 + 16777216 * b6
                + 4294967296 * b7
<1> HIDE DEF y, c, b0, b1, b2, b3, b4, b5, b6, b7
<1>5. Value(c) = 1099511627776 * b0 + 281474976710656 * b1 + 72057594037927936 * b2
  BY <1>2, <1>4 DEF Value
<1>6. 1099511627776 * y = Value(c) + Modulus * h
  BY <1>3, <1>4, <1>5 DEF Modulus, y
<1>7. h \in Int
  BY <1>4
<1>8. NatColumns(c)
  BY <1>2, <1>4 DEF NatColumns
<1> QED
  BY <1>6, <1>7, <1>8 DEF c, y

LEMMA Partial6 ==
    ASSUME NEW a \in Word, NEW b \in Word
    PROVE  /\ NatColumns(Partial(a, b, 6))
           /\ \E h \in Int : 281474976710656 * (a[2] * Value(b))
                            = Value(Partial(a, b, 6)) + Modulus * h
<1> DEFINE d == a[2]
           c == Partial(a, b, 6)
           x == Value(b)
           b0 == d * b[8]
           b1 == d * b[7]
           b2 == d * b[6]
           b3 == d * b[5]
           b4 == d * b[4]
           b5 == d * b[3]
           b6 == d * b[2]
           b7 == d * b[1]
<1>1. d \in Nat /\ \A i \in 1 .. 8 : b[i] \in Nat
  BY DigitType
<1>2. /\ c[8] = 0 /\ c[7] = 0 /\ c[6] = 0 /\ c[5] = 0 /\ c[4] = 0 /\ c[3] = 0
      /\ c[2] = b0
      /\ c[1] = b1
  BY DEF Partial, BigEndian, Digit
<1>3. d * x = b0 + 256 * b1 + 65536 * b2 + 16777216 * b3
              + 4294967296 * b4 + 1099511627776 * b5 + 281474976710656 * b6 + 72057594037927936 * b7
  <2>1. d \in Int
    BY <1>1
  <2> HIDE DEF d
  <2> QED
    BY <2>1, Row
<1>4. /\ b0 \in Nat /\ b1 \in Nat /\ b2 \in Nat /\ b3 \in Nat
      /\ b4 \in Nat /\ b5 \in Nat /\ b6 \in Nat /\ b7 \in Nat
  <2>1. /\ d \in Nat /\ b[8] \in Nat /\ b[7] \in Nat /\ b[6] \in Nat /\ b[5] \in Nat
        /\ b[4] \in Nat /\ b[3] \in Nat /\ b[2] \in Nat /\ b[1] \in Nat
    BY <1>1
  <2> HIDE DEF d
  <2> QED
    BY <2>1, NatTimes
<1> DEFINE y == d * x
           h == b2 + 256 * b3 + 65536 * b4 + 16777216 * b5
                + 4294967296 * b6 + 1099511627776 * b7
<1> HIDE DEF y, c, b0, b1, b2, b3, b4, b5, b6, b7
<1>5. Value(c) = 281474976710656 * b0 + 72057594037927936 * b1
  BY <1>2, <1>4 DEF Value
<1>6. 281474976710656 * y = Value(c) + Modulus * h
  BY <1>3, <1>4, <1>5 DEF Modulus, y
<1>7. h \in Int
  BY <1>4
<1>8. NatColumns(c)
  BY <1>2, <1>4 DEF NatColumns
<1> QED
  BY <1>6, <1>7, <1>8 DEF c, y

LEMMA Partial7 ==
    ASSUME NEW a \in Word, NEW b \in Word
    PROVE  /\ NatColumns(Partial(a, b, 7))
           /\ \E h \in Int : 72057594037927936 * (a[1] * Value(b))
                            = Value(Partial(a, b, 7)) + Modulus * h
<1> DEFINE d == a[1]
           c == Partial(a, b, 7)
           x == Value(b)
           b0 == d * b[8]
           b1 == d * b[7]
           b2 == d * b[6]
           b3 == d * b[5]
           b4 == d * b[4]
           b5 == d * b[3]
           b6 == d * b[2]
           b7 == d * b[1]
<1>1. d \in Nat /\ \A i \in 1 .. 8 : b[i] \in Nat
  BY DigitType
<1>2. /\ c[8] = 0 /\ c[7] = 0 /\ c[6] = 0 /\ c[5] = 0 /\ c[4] = 0 /\ c[3] = 0 /\ c[2] = 0
      /\ c[1] = b0
  BY DEF Partial, BigEndian, Digit
<1>3. d * x = b0 + 256 * b1 + 65536 * b2 + 16777216 * b3
              + 4294967296 * b4 + 1099511627776 * b5 + 281474976710656 * b6 + 72057594037927936 * b7
  <2>1. d \in Int
    BY <1>1
  <2> HIDE DEF d
  <2> QED
    BY <2>1, Row
<1>4. /\ b0 \in Nat /\ b1 \in Nat /\ b2 \in Nat /\ b3 \in Nat
      /\ b4 \in Nat /\ b5 \in Nat /\ b6 \in Nat /\ b7 \in Nat
  <2>1. /\ d \in Nat /\ b[8] \in Nat /\ b[7] \in Nat /\ b[6] \in Nat /\ b[5] \in Nat
        /\ b[4] \in Nat /\ b[3] \in Nat /\ b[2] \in Nat /\ b[1] \in Nat
    BY <1>1
  <2> HIDE DEF d
  <2> QED
    BY <2>1, NatTimes
<1> DEFINE y == d * x
           h == b1 + 256 * b2 + 65536 * b3 + 16777216 * b4
                + 4294967296 * b5 + 1099511627776 * b6 + 281474976710656 * b7
<1> HIDE DEF y, c, b0, b1, b2, b3, b4, b5, b6, b7
<1>5. Value(c) = 72057594037927936 * b0
  BY <1>2, <1>4 DEF Value
<1>6. 72057594037927936 * y = Value(c) + Modulus * h
  BY <1>3, <1>4, <1>5 DEF Modulus, y
<1>7. h \in Int
  BY <1>4
<1>8. NatColumns(c)
  BY <1>2, <1>4 DEF NatColumns
<1> QED
  BY <1>6, <1>7, <1>8 DEF c, y

(* A product of words is their product modulo 2^64.                        *)
LEMMA MulFacts ==
    ASSUME NEW a \in Word, NEW b \in Word
    PROVE  /\ Mul(a, b) \in Word
           /\ Congruent(Value(Mul(a, b)), Value(a) * Value(b))
<1> DEFINE p0 == Partial(a, b, 0)
           p1 == Partial(a, b, 1)
           p2 == Partial(a, b, 2)
           p3 == Partial(a, b, 3)
           p4 == Partial(a, b, 4)
           p5 == Partial(a, b, 5)
           p6 == Partial(a, b, 6)
           p7 == Partial(a, b, 7)
           t1 == Together(p0, p1)
           t2 == Together(t1, p2)
           t3 == Together(t2, p3)
           t4 == Together(t3, p4)
           t5 == Together(t4, p5)
           t6 == Together(t5, p6)
           t7 == Together(t6, p7)
<1> DEFINE x == Value(b)
           y == Value(a)
           r0 == a[8] * x
           r1 == a[7] * x
           r2 == a[6] * x
           r3 == a[5] * x
           r4 == a[4] * x
           r5 == a[3] * x
           r6 == a[2] * x
           r7 == a[1] * x
<1>2. x \in Int /\ y \in Int
  BY ValueType
<1>30. NatColumns(p0) /\ \E h \in Int : r0 = Value(p0) + Modulus * h
  BY Partial0
<1>40. PICK h0 \in Int : r0 = Value(p0) + Modulus * h0
  BY <1>30
<1>31. NatColumns(p1) /\ \E h \in Int : 256 * r1 = Value(p1) + Modulus * h
  BY Partial1
<1>41. PICK h1 \in Int : 256 * r1 = Value(p1) + Modulus * h1
  BY <1>31
<1>32. NatColumns(p2) /\ \E h \in Int : 65536 * r2 = Value(p2) + Modulus * h
  BY Partial2
<1>42. PICK h2 \in Int : 65536 * r2 = Value(p2) + Modulus * h2
  BY <1>32
<1>33. NatColumns(p3) /\ \E h \in Int : 16777216 * r3 = Value(p3) + Modulus * h
  BY Partial3
<1>43. PICK h3 \in Int : 16777216 * r3 = Value(p3) + Modulus * h3
  BY <1>33
<1>34. NatColumns(p4) /\ \E h \in Int : 4294967296 * r4 = Value(p4) + Modulus * h
  BY Partial4
<1>44. PICK h4 \in Int : 4294967296 * r4 = Value(p4) + Modulus * h4
  BY <1>34
<1>35. NatColumns(p5) /\ \E h \in Int : 1099511627776 * r5 = Value(p5) + Modulus * h
  BY Partial5
<1>45. PICK h5 \in Int : 1099511627776 * r5 = Value(p5) + Modulus * h5
  BY <1>35
<1>36. NatColumns(p6) /\ \E h \in Int : 281474976710656 * r6 = Value(p6) + Modulus * h
  BY Partial6
<1>46. PICK h6 \in Int : 281474976710656 * r6 = Value(p6) + Modulus * h6
  BY <1>36
<1>37. NatColumns(p7) /\ \E h \in Int : 72057594037927936 * r7 = Value(p7) + Modulus * h
  BY Partial7
<1>47. PICK h7 \in Int : 72057594037927936 * r7 = Value(p7) + Modulus * h7
  BY <1>37
<1> HIDE DEF p0, p1, p2, p3, p4, p5, p6, p7
<1>61. \A k \in 1 .. 8 : t1[k] = p0[k] + p1[k]
  <2> QED
    BY TogetherAt
<1>62. \A k \in 1 .. 8 : t2[k] = t1[k] + p2[k]
  <2> HIDE DEF t1
  <2> QED
    BY TogetherAt
<1>63. \A k \in 1 .. 8 : t3[k] = t2[k] + p3[k]
  <2> HIDE DEF t2
  <2> QED
    BY TogetherAt
<1>64. \A k \in 1 .. 8 : t4[k] = t3[k] + p4[k]
  <2> HIDE DEF t3
  <2> QED
    BY TogetherAt
<1>65. \A k \in 1 .. 8 : t5[k] = t4[k] + p5[k]
  <2> HIDE DEF t4
  <2> QED
    BY TogetherAt
<1>66. \A k \in 1 .. 8 : t6[k] = t5[k] + p6[k]
  <2> HIDE DEF t5
  <2> QED
    BY TogetherAt
<1>67. \A k \in 1 .. 8 : t7[k] = t6[k] + p7[k]
  <2> HIDE DEF t6
  <2> QED
    BY TogetherAt
<1> HIDE DEF t1, t2, t3, t4, t5, t6
<1>70. \A k \in 1 .. 8 : t7[k] = p0[k] + p1[k] + p2[k] + p3[k] + p4[k] + p5[k] + p6[k] + p7[k]
  <2> HIDE DEF t7
  <2> QED
    BY <1>61, <1>62, <1>63, <1>64, <1>65, <1>66, <1>67
<1> DEFINE part(i, j) == IF j <= i THEN Digit(a, j) * Digit(b, i - j) ELSE 0
<1>71. /\ \A i \in 0 .. 7 : p0[8 - i] = part(i, 0)
       /\ \A i \in 0 .. 7 : p1[8 - i] = part(i, 1)
       /\ \A i \in 0 .. 7 : p2[8 - i] = part(i, 2)
       /\ \A i \in 0 .. 7 : p3[8 - i] = part(i, 3)
       /\ \A i \in 0 .. 7 : p4[8 - i] = part(i, 4)
       /\ \A i \in 0 .. 7 : p5[8 - i] = part(i, 5)
       /\ \A i \in 0 .. 7 : p6[8 - i] = part(i, 6)
       /\ \A i \in 0 .. 7 : p7[8 - i] = part(i, 7)
  BY PartialAt DEF p0, p1, p2, p3, p4, p5, p6, p7
<1> HIDE DEF part
<1>72. \A i \in 0 .. 7 : t7[8 - i] = part(i, 0) + part(i, 1) + part(i, 2) + part(i, 3)
                                   + part(i, 4) + part(i, 5) + part(i, 6) + part(i, 7)
  <2> HIDE DEF t7
  <2> TAKE i \in 0 .. 7
  <2>1. 8 - i \in 1 .. 8
    OBVIOUS
  <2> QED
    BY <1>70, <1>71, <2>1
<1>73. t7 = BigEndian(LAMBDA i : part(i, 0) + part(i, 1) + part(i, 2) + part(i, 3)
                               + part(i, 4) + part(i, 5) + part(i, 6) + part(i, 7))
  <2>1. t7 = <<t7[1], t7[2], t7[3], t7[4], t7[5], t7[6], t7[7], t7[8]>>
    BY DEF Together
  <2> HIDE DEF t7
  <2>2. /\ t7[8] = part(0, 0) + part(0, 1) + part(0, 2) + part(0, 3)
                 + part(0, 4) + part(0, 5) + part(0, 6) + part(0, 7)
        /\ t7[7] = part(1, 0) + part(1, 1) + part(1, 2) + part(1, 3)
                 + part(1, 4) + part(1, 5) + part(1, 6) + part(1, 7)
        /\ t7[6] = part(2, 0) + part(2, 1) + part(2, 2) + part(2, 3)
                 + part(2, 4) + part(2, 5) + part(2, 6) + part(2, 7)
        /\ t7[5] = part(3, 0) + part(3, 1) + part(3, 2) + part(3, 3)
                 + part(3, 4) + part(3, 5) + part(3, 6) + part(3, 7)
        /\ t7[4] = part(4, 0) + part(4, 1) + part(4, 2) + part(4, 3)
                 + part(4, 4) + part(4, 5) + part(4, 6) + part(4, 7)
        /\ t7[3] = part(5, 0) + part(5, 1) + part(5, 2) + part(5, 3)
                 + part(5, 4) + part(5, 5) + part(5, 6) + part(5, 7)
        /\ t7[2] = part(6, 0) + part(6, 1) + part(6, 2) + part(6, 3)
                 + part(6, 4) + part(6, 5) + part(6, 6) + part(6, 7)
        /\ t7[1] = part(7, 0) + part(7, 1) + part(7, 2) + part(7, 3)
                 + part(7, 4) + part(7, 5) + part(7, 6) + part(7, 7)
    BY <1>72
  <2> QED
    BY <2>1, <2>2 DEF BigEndian
<1>1. Mul(a, b) = Carried(t7)
  <2> HIDE DEF t7
  <2> QED
    BY <1>73 DEF Mul, part
<1> USE DEF t1, t2, t3, t4, t5, t6
<1>51. NatColumns(t1) /\ Value(t1) = Value(p0) + Value(p1)
  BY <1>30, <1>31, TogetherFacts
<1>52. NatColumns(t2) /\ Value(t2) = Value(t1) + Value(p2)
  BY <1>32, <1>51, TogetherFacts
<1>53. NatColumns(t3) /\ Value(t3) = Value(t2) + Value(p3)
  BY <1>33, <1>52, TogetherFacts
<1>54. NatColumns(t4) /\ Value(t4) = Value(t3) + Value(p4)
  BY <1>34, <1>53, TogetherFacts
<1>55. NatColumns(t5) /\ Value(t5) = Value(t4) + Value(p5)
  BY <1>35, <1>54, TogetherFacts
<1>56. NatColumns(t6) /\ Value(t6) = Value(t5) + Value(p6)
  BY <1>36, <1>55, TogetherFacts
<1>57. NatColumns(t7) /\ Value(t7) = Value(t6) + Value(p7)
  BY <1>37, <1>56, TogetherFacts
<1>6. x * y = (x * a[8]) + 256 * (x * a[7]) + 65536 * (x * a[6]) + 16777216 * (x * a[5])
              + 4294967296 * (x * a[4]) + 1099511627776 * (x * a[3])
              + 281474976710656 * (x * a[2]) + 72057594037927936 * (x * a[1])
  BY <1>2, Row
<1>7. /\ x * a[8] = r0 /\ r0 \in Int
      /\ x * a[7] = r1 /\ r1 \in Int
      /\ x * a[6] = r2 /\ r2 \in Int
      /\ x * a[5] = r3 /\ r3 \in Int
      /\ x * a[4] = r4 /\ r4 \in Int
      /\ x * a[3] = r5 /\ r5 \in Int
      /\ x * a[2] = r6 /\ r6 \in Int
      /\ x * a[1] = r7 /\ r7 \in Int
  <2>1. \A i \in 1 .. 8 : a[i] \in Nat
    BY DigitType
  <2>2. /\ a[8] \in Int
        /\ a[7] \in Int
        /\ a[6] \in Int
        /\ a[5] \in Int
        /\ a[4] \in Int
        /\ a[3] \in Int
        /\ a[2] \in Int
        /\ a[1] \in Int
    BY <2>1
  <2> HIDE DEF x
  <2> QED
    BY <1>2, <2>2
<1>8. Value(a) * Value(b) = x * y
  <2> HIDE DEF x, y
  <2>1. y * x = x * y
    BY <1>2
  <2> QED
    BY <2>1 DEF x, y
<1> DEFINE z == x * y
           h == h0 + h1 + h2 + h3 + h4 + h5 + h6 + h7
<1>9. z = r0 + 256 * r1 + 65536 * r2 + 16777216 * r3
          + 4294967296 * r4 + 1099511627776 * r5 + 281474976710656 * r6 + 72057594037927936 * r7
  <2> HIDE DEF r0, r1, r2, r3, r4, r5, r6, r7
  <2> QED
    BY <1>6, <1>7
<1> HIDE DEF x, y, z, r0, p0, r1, p1, r2, p2, r3, p3, r4, p4,
             r5, p5, r6, p6, r7, p7, t1, t2, t3, t4, t5, t6, t7
<1>10. /\ Value(p0) \in Int /\ Value(p1) \in Int /\ Value(p2) \in Int /\ Value(p3) \in Int
       /\ Value(p4) \in Int /\ Value(p5) \in Int /\ Value(p6) \in Int /\ Value(p7) \in Int
  <2>1. ASSUME NEW c, NatColumns(c) PROVE Value(c) \in Int
    BY <2>1 DEF NatColumns, Value
  <2> QED
    BY <2>1, <1>30, <1>31, <1>32, <1>33, <1>34, <1>35, <1>36, <1>37
<1>11. z = Value(t7) + Modulus * h /\ Value(t7) \in Int /\ h \in Int
  BY <1>7, <1>9, <1>10, <1>40, <1>41, <1>42, <1>43, <1>44, <1>45, <1>46, <1>47,
     <1>51, <1>52, <1>53, <1>54, <1>55, <1>56, <1>57 DEF Modulus
<1>12. Mul(a, b) \in Word
  BY <1>1, <1>57, CarriedFacts
<1>13. PICK k \in Int : Value(Mul(a, b)) = Value(t7) + Modulus * k
  BY <1>1, <1>57, CarriedFacts DEF Congruent
<1> HIDE DEF h
<1>14. Value(Mul(a, b)) = z + Modulus * (k - h) /\ k - h \in Int
  BY <1>11, <1>13 DEF Modulus
<1> QED
  BY <1>8, <1>12, <1>14 DEF Congruent, z

-----------------------------------------------------------------------------
(* The constants of init_state.h, as numbers.                              *)

(* The two halves of a word: no product of literals above 2^62 is written. *)
High(w) == w[4] + 256 * w[3] + 65536 * w[2] + 16777216 * w[1]
Low(w) == w[8] + 256 * w[7] + 65536 * w[6] + 16777216 * w[5]

(* The value of a word from its halves.                                    *)
LEMMA ValueOf ==
    ASSUME NEW w \in Word, NEW v \in Nat, NEW h \in Nat, NEW l \in Nat,
           High(w) = h, Low(w) = l, v = 4294967296 * h + l
    PROVE  Value(w) = v
<1> DEFINE w1 == w[1]
           w2 == w[2]
           w3 == w[3]
           w4 == w[4]
           w5 == w[5]
           w6 == w[6]
           w7 == w[7]
           w8 == w[8]
<1>1. /\ w1 \in Int /\ w2 \in Int /\ w3 \in Int /\ w4 \in Int
      /\ w5 \in Int /\ w6 \in Int /\ w7 \in Int /\ w8 \in Int
  BY DEF Word, Byte
<1>2. h = w4 + 256 * w3 + 65536 * w2 + 16777216 * w1
  BY DEF High
<1>3. l = w8 + 256 * w7 + 65536 * w6 + 16777216 * w5
  BY DEF Low
<1>4. Value(w) = w8 + 256 * w7 + 65536 * w6 + 16777216 * w5 + 4294967296 * w4
                 + 1099511627776 * w3 + 281474976710656 * w2 + 72057594037927936 * w1
  BY SMT DEF Value
<1> HIDE DEF w1, w2, w3, w4, w5, w6, w7, w8
<1> QED
  BY <1>1, <1>2, <1>3, <1>4, SMT

(* The values of the constants of a step and of a seek.                    *)
LEMMA Constants ==
    /\ RNG_A \in Word /\ Value(RNG_A) = 6364136223846793005
    /\ RNG_INC \in Word /\ Value(RNG_INC) = 109
    /\ RNG_A_SEEKED \in Word /\ Value(RNG_A_SEEKED) = 6584243485182795213
    /\ RNG_INC_SEEKED \in Word /\ Value(RNG_INC_SEEKED) = 2421600692713375493
<1>1. RNG_A \in Word /\ Value(RNG_A) = 6364136223846793005
  <2>1. /\ RNG_A[1] = \h58 /\ RNG_A[2] = \h51 /\ RNG_A[3] = \hf4 /\ RNG_A[4] = \h2d
        /\ RNG_A[5] = \h4c /\ RNG_A[6] = \h95 /\ RNG_A[7] = \h7f /\ RNG_A[8] = \h2d
    BY DEF RNG_A
  <2>2. RNG_A \in Word
    BY DEF RNG_A, Word, Byte
  <2>3. High(RNG_A) = 1481765933 /\ Low(RNG_A) = 1284865837
    BY <2>1, SMT DEF High, Low
  <2> QED
    BY <2>2, <2>3, ValueOf
<1>2. RNG_INC \in Word /\ Value(RNG_INC) = 109
  <2>1. /\ RNG_INC[1] = \h00 /\ RNG_INC[2] = \h00 /\ RNG_INC[3] = \h00 /\ RNG_INC[4] = \h00
        /\ RNG_INC[5] = \h00 /\ RNG_INC[6] = \h00 /\ RNG_INC[7] = \h00 /\ RNG_INC[8] = \h6d
    BY DEF RNG_INC
  <2>2. RNG_INC \in Word
    BY DEF RNG_INC, Word, Byte
  <2>3. High(RNG_INC) = 0 /\ Low(RNG_INC) = 109
    BY <2>1, SMT DEF High, Low
  <2> QED
    BY <2>2, <2>3, ValueOf
<1>3. RNG_A_SEEKED \in Word /\ Value(RNG_A_SEEKED) = 6584243485182795213
  <2>1. /\ RNG_A_SEEKED[1] = \h5b /\ RNG_A_SEEKED[2] = \h5f
        /\ RNG_A_SEEKED[3] = \hee /\ RNG_A_SEEKED[4] = \h90
        /\ RNG_A_SEEKED[5] = \ha1 /\ RNG_A_SEEKED[6] = \h00
        /\ RNG_A_SEEKED[7] = \h1d /\ RNG_A_SEEKED[8] = \hcd
    BY DEF RNG_A_SEEKED
  <2>2. RNG_A_SEEKED \in Word
    BY DEF RNG_A_SEEKED, Word, Byte
  <2>3. High(RNG_A_SEEKED) = 1533013648 /\ Low(RNG_A_SEEKED) = 2701139405
    BY <2>1, SMT DEF High, Low
  <2> QED
    BY <2>2, <2>3, ValueOf
<1>4. RNG_INC_SEEKED \in Word /\ Value(RNG_INC_SEEKED) = 2421600692713375493
  <2>1. /\ RNG_INC_SEEKED[1] = \h21 /\ RNG_INC_SEEKED[2] = \h9b
        /\ RNG_INC_SEEKED[3] = \h40 /\ RNG_INC_SEEKED[4] = \hff
        /\ RNG_INC_SEEKED[5] = \hf5 /\ RNG_INC_SEEKED[6] = \h05
        /\ RNG_INC_SEEKED[7] = \h47 /\ RNG_INC_SEEKED[8] = \h05
    BY DEF RNG_INC_SEEKED
  <2>2. RNG_INC_SEEKED \in Word
    BY DEF RNG_INC_SEEKED, Word, Byte
  <2>3. High(RNG_INC_SEEKED) = 563822847 /\ Low(RNG_INC_SEEKED) = 4110763781
    BY <2>1, SMT DEF High, Low
  <2> QED
    BY <2>2, <2>3, ValueOf
<1> QED
  BY <1>1, <1>2, <1>3, <1>4, SMT

(* The values of the nine seeds.                                           *)
LEMMA Seeds ==
    /\ INIT_STATE \in [Lane -> Word]
    /\ Value(INIT_STATE[0]) = 1753877967969059832
    /\ Value(INIT_STATE[1]) = 3118741472915405573
    /\ Value(INIT_STATE[2]) = 10030406343644371790
    /\ Value(INIT_STATE[3]) = 17800363335834976035
    /\ Value(INIT_STATE[4]) = 16987470693695682196
    /\ Value(INIT_STATE[5]) = 9440484487994590321
    /\ Value(INIT_STATE[6]) = 13742400798436595530
    /\ Value(INIT_STATE[7]) = 17113982732917624431
    /\ Value(INIT_STATE[8]) = 518186974999665392
<1>1. INIT_STATE[0] \in Word /\ Value(INIT_STATE[0]) = 1753877967969059832
  <2>1. /\ INIT_STATE[0][1] = \h18 /\ INIT_STATE[0][2] = \h57
        /\ INIT_STATE[0][3] = \h06 /\ INIT_STATE[0][4] = \hb8
        /\ INIT_STATE[0][5] = \h2c /\ INIT_STATE[0][6] = \h2e
        /\ INIT_STATE[0][7] = \h03 /\ INIT_STATE[0][8] = \hf8
    BY DEF INIT_STATE, LaneSeed, Lane, BREAK_NUM
  <2>2. INIT_STATE[0] \in Word
    BY DEF INIT_STATE, LaneSeed, Lane, BREAK_NUM, Word, Byte
  <2>3. High(INIT_STATE[0]) = 408356536 /\ Low(INIT_STATE[0]) = 741213176
    BY <2>1, SMT DEF High, Low
  <2> QED
    BY <2>2, <2>3, ValueOf
<1>2. INIT_STATE[1] \in Word /\ Value(INIT_STATE[1]) = 3118741472915405573
  <2>1. /\ INIT_STATE[1][1] = \h2b /\ INIT_STATE[1][2] = \h47
        /\ INIT_STATE[1][3] = \hfe /\ INIT_STATE[1][4] = \hd8
        /\ INIT_STATE[1][5] = \h87 /\ INIT_STATE[1][6] = \h66
        /\ INIT_STATE[1][7] = \hbb /\ INIT_STATE[1][8] = \h05
    BY DEF INIT_STATE, LaneSeed, Lane, BREAK_NUM
  <2>2. INIT_STATE[1] \in Word
    BY DEF INIT_STATE, LaneSeed, Lane, BREAK_NUM, Word, Byte
  <2>3. High(INIT_STATE[1]) = 726138584 /\ Low(INIT_STATE[1]) = 2271656709
    BY <2>1, SMT DEF High, Low
  <2> QED
    BY <2>2, <2>3, ValueOf
<1>3. INIT_STATE[2] \in Word /\ Value(INIT_STATE[2]) = 10030406343644371790
  <2>1. /\ INIT_STATE[2][1] = \h8b /\ INIT_STATE[2][2] = \h33
        /\ INIT_STATE[2][3] = \h29 /\ INIT_STATE[2][4] = \h6d
        /\ INIT_STATE[2][5] = \h19 /\ INIT_STATE[2][6] = \hbf
        /\ INIT_STATE[2][7] = \h5b /\ INIT_STATE[2][8] = \h4e
    BY DEF INIT_STATE, LaneSeed, Lane, BREAK_NUM
  <2>2. INIT_STATE[2] \in Word
    BY DEF INIT_STATE, LaneSeed, Lane, BREAK_NUM, Word, Byte
  <2>3. High(INIT_STATE[2]) = 2335385965 /\ Low(INIT_STATE[2]) = 431971150
    BY <2>1, SMT DEF High, Low
  <2> QED
    BY <2>2, <2>3, ValueOf
<1>4. INIT_STATE[3] \in Word /\ Value(INIT_STATE[3]) = 17800363335834976035
  <2>1. /\ INIT_STATE[3][1] = \hf7 /\ INIT_STATE[3][2] = \h07
        /\ INIT_STATE[3][3] = \h98 /\ INIT_STATE[3][4] = \h24
        /\ INIT_STATE[3][5] = \hc1 /\ INIT_STATE[3][6] = \h54
        /\ INIT_STATE[3][7] = \hbf /\ INIT_STATE[3][8] = \h23
    BY DEF INIT_STATE, LaneSeed, Lane, BREAK_NUM
  <2>2. INIT_STATE[3] \in Word
    BY DEF INIT_STATE, LaneSeed, Lane, BREAK_NUM, Word, Byte
  <2>3. High(INIT_STATE[3]) = 4144470052 /\ Low(INIT_STATE[3]) = 3243556643
    BY <2>1, SMT DEF High, Low
  <2> QED
    BY <2>2, <2>3, ValueOf
<1>5. INIT_STATE[4] \in Word /\ Value(INIT_STATE[4]) = 16987470693695682196
  <2>1. /\ INIT_STATE[4][1] = \heb /\ INIT_STATE[4][2] = \hbf
        /\ INIT_STATE[4][3] = \h9e /\ INIT_STATE[4][4] = \h97
        /\ INIT_STATE[4][5] = \haa /\ INIT_STATE[4][6] = \h16
        /\ INIT_STATE[4][7] = \hf6 /\ INIT_STATE[4][8] = \h94
    BY DEF INIT_STATE, LaneSeed, Lane, BREAK_NUM
  <2>2. INIT_STATE[4] \in Word
    BY DEF INIT_STATE, LaneSeed, Lane, BREAK_NUM, Word, Byte
  <2>3. High(INIT_STATE[4]) = 3955203735 /\ Low(INIT_STATE[4]) = 2853631636
    BY <2>1, SMT DEF High, Low
  <2> QED
    BY <2>2, <2>3, ValueOf
<1>6. INIT_STATE[5] \in Word /\ Value(INIT_STATE[5]) = 9440484487994590321
  <2>1. /\ INIT_STATE[5][1] = \h83 /\ INIT_STATE[5][2] = \h03
        /\ INIT_STATE[5][3] = \h56 /\ INIT_STATE[5][4] = \h9f
        /\ INIT_STATE[5][5] = \hbe /\ INIT_STATE[5][6] = \h80
        /\ INIT_STATE[5][7] = \hc4 /\ INIT_STATE[5][8] = \h71
    BY DEF INIT_STATE, LaneSeed, Lane, BREAK_NUM
  <2>2. INIT_STATE[5] \in Word
    BY DEF INIT_STATE, LaneSeed, Lane, BREAK_NUM, Word, Byte
  <2>3. High(INIT_STATE[5]) = 2198034079 /\ Low(INIT_STATE[5]) = 3196109937
    BY <2>1, SMT DEF High, Low
  <2> QED
    BY <2>2, <2>3, ValueOf
<1>7. INIT_STATE[6] \in Word /\ Value(INIT_STATE[6]) = 13742400798436595530
  <2>1. /\ INIT_STATE[6][1] = \hbe /\ INIT_STATE[6][2] = \hb6
        /\ INIT_STATE[6][3] = \hd0 /\ INIT_STATE[6][4] = \hb7
        /\ INIT_STATE[6][5] = \h3f /\ INIT_STATE[6][6] = \hdb
        /\ INIT_STATE[6][7] = \h97 /\ INIT_STATE[6][8] = \h4a
    BY DEF INIT_STATE, LaneSeed, Lane, BREAK_NUM
  <2>2. INIT_STATE[6] \in Word
    BY DEF INIT_STATE, LaneSeed, Lane, BREAK_NUM, Word, Byte
  <2>3. High(INIT_STATE[6]) = 3199652023 /\ Low(INIT_STATE[6]) = 1071355722
    BY <2>1, SMT DEF High, Low
  <2> QED
    BY <2>2, <2>3, ValueOf
<1>8. INIT_STATE[7] \in Word /\ Value(INIT_STATE[7]) = 17113982732917624431
  <2>1. /\ INIT_STATE[7][1] = \hed /\ INIT_STATE[7][2] = \h81
        /\ INIT_STATE[7][3] = \h14 /\ INIT_STATE[7][4] = \h9f
        /\ INIT_STATE[7][5] = \h2f /\ INIT_STATE[7][6] = \hb9
        /\ INIT_STATE[7][7] = \h4e /\ INIT_STATE[7][8] = \h6f
    BY DEF INIT_STATE, LaneSeed, Lane, BREAK_NUM
  <2>2. INIT_STATE[7] \in Word
    BY DEF INIT_STATE, LaneSeed, Lane, BREAK_NUM, Word, Byte
  <2>3. High(INIT_STATE[7]) = 3984659615 /\ Low(INIT_STATE[7]) = 800673391
    BY <2>1, SMT DEF High, Low
  <2> QED
    BY <2>2, <2>3, ValueOf
<1>9. INIT_STATE[8] \in Word /\ Value(INIT_STATE[8]) = 518186974999665392
  <2>1. /\ INIT_STATE[8][1] = \h07 /\ INIT_STATE[8][2] = \h30
        /\ INIT_STATE[8][3] = \hf8 /\ INIT_STATE[8][4] = \h4e
        /\ INIT_STATE[8][5] = \hec /\ INIT_STATE[8][6] = \h16
        /\ INIT_STATE[8][7] = \hda /\ INIT_STATE[8][8] = \hf0
    BY DEF INIT_STATE, LaneSeed, Lane, BREAK_NUM
  <2>2. INIT_STATE[8] \in Word
    BY DEF INIT_STATE, LaneSeed, Lane, BREAK_NUM, Word, Byte
  <2>3. High(INIT_STATE[8]) = 120649806 /\ Low(INIT_STATE[8]) = 3960920816
    BY <2>1, SMT DEF High, Low
  <2> QED
    BY <2>2, <2>3, ValueOf
<1>10. Lane = {0, 1, 2, 3, 4, 5, 6, 7, 8}
  BY DEF Lane, BREAK_NUM
<1>11. INIT_STATE = [k \in Lane |-> INIT_STATE[k]]
  BY DEF INIT_STATE
<1>12. \A k \in Lane : INIT_STATE[k] \in Word
  BY <1>1, <1>2, <1>3, <1>4, <1>5, <1>6, <1>7, <1>8, <1>9, <1>10
<1>13. INIT_STATE \in [Lane -> Word]
  BY <1>11, <1>12
<1> QED
  BY <1>1, <1>2, <1>3, <1>4, <1>5, <1>6, <1>7, <1>8, <1>9, <1>13, SMT

-----------------------------------------------------------------------------
(* One transition, one seek.                                               *)

(* What the transitions do to the value of a state.                        *)
LEMMA AffineFacts ==
    ASSUME NEW x \in Word, NEW m \in Word, NEW c \in Word
    PROVE  /\ Add(Mul(x, m), c) \in Word
           /\ Congruent(Value(Add(Mul(x, m), c)), Value(x) * Value(m) + Value(c))
<1> DEFINE p == Mul(x, m)
           s == Add(p, c)
<1>1. p \in Word /\ Congruent(Value(p), Value(x) * Value(m))
  BY MulFacts
<1> HIDE DEF p
<1>2. s \in Word /\ Congruent(Value(s), Value(p) + Value(c))
  BY <1>1, AddFacts
<1> HIDE DEF s
<1>3. Value(x) \in Int /\ Value(m) \in Int /\ Value(c) \in Int /\ Value(p) \in Int
  BY <1>1, ValueType
<1>4. Value(x) * Value(m) \in Int
  BY <1>3
<1>5. PICK h \in Int : Value(p) = Value(x) * Value(m) + Modulus * h
  BY <1>1 DEF Congruent
<1>6. PICK k \in Int : Value(s) = Value(p) + Value(c) + Modulus * k
  BY <1>2 DEF Congruent
<1> DEFINE y == Value(x) * Value(m)
<1>7. Value(s) = y + Value(c) + Modulus * (h + k)
  <2>1. Value(p) = y + Modulus * h /\ y \in Int
    BY <1>4, <1>5
  <2> HIDE DEF y
  <2> QED
    BY <1>3, <1>6, <2>1 DEF Modulus
<1> QED
  BY <1>2, <1>7 DEF Congruent, s, p

(* A step on values.                                                       *)
LEMMA StepFacts ==
    ASSUME NEW x \in Word
    PROVE  /\ Step(x) \in Word
           /\ Congruent(Value(Step(x)), 6364136223846793005 * Value(x) + 109)
<1>1. Value(x) * 6364136223846793005 = 6364136223846793005 * Value(x)
  BY ValueType, SMT
<1> QED
  BY <1>1, Constants, AffineFacts DEF Step

(* A seek on values.                                                       *)
LEMMA SeekFacts ==
    ASSUME NEW x \in Word
    PROVE  /\ Seek(x) \in Word
           /\ Congruent(Value(Seek(x)), 6584243485182795213 * Value(x) + 2421600692713375493)
<1>1. Value(x) * 6584243485182795213 = 6584243485182795213 * Value(x)
  BY ValueType, SMT
<1> QED
  BY <1>1, Constants, AffineFacts DEF Seek

(* One transition is determined by values: the quotient q is the witness.  *)
LEMMA StepTo ==
    ASSUME NEW x \in Word, NEW y \in Word, NEW q \in Int,
           6364136223846793005 * Value(x) + 109 = Value(y) + 18446744073709551616 * q
    PROVE  Step(x) = y
<1> DEFINE u == Value(x)
           v == Value(y)
           t == Value(Step(x))
<1>1. Step(x) \in Word /\ Congruent(t, 6364136223846793005 * u + 109)
  BY StepFacts
<1>2. u \in Int /\ v \in Int /\ t \in Int
  BY <1>1, ValueType
<1>3. 6364136223846793005 * u + 109 = v + 18446744073709551616 * q
  OBVIOUS
<1> HIDE DEF u, v, t
<1>4. PICK k \in Int : t = 6364136223846793005 * u + 109 + Modulus * k
  BY <1>1 DEF Congruent
<1>5. t = v + Modulus * (k + q)
  BY <1>2, <1>3, <1>4, SMT DEF Modulus
<1>6. k + q \in Int
  OBVIOUS
<1>7. Congruent(t, v)
  BY <1>5, <1>6 DEF Congruent
<1> QED
  BY <1>1, <1>7, SameWord DEF t, v

(* The same of a seek.                                                     *)
LEMMA SeekTo ==
    ASSUME NEW x \in Word, NEW y \in Word, NEW q \in Int,
           6584243485182795213 * Value(x) + 2421600692713375493
             = Value(y) + 18446744073709551616 * q
    PROVE  Seek(x) = y
<1> DEFINE u == Value(x)
           v == Value(y)
           t == Value(Seek(x))
<1>1. Seek(x) \in Word
      /\ Congruent(t, 6584243485182795213 * u + 2421600692713375493)
  BY SeekFacts
<1>2. u \in Int /\ v \in Int /\ t \in Int
  BY <1>1, ValueType
<1>3. 6584243485182795213 * u + 2421600692713375493 = v + 18446744073709551616 * q
  OBVIOUS
<1> HIDE DEF u, v, t
<1>4. PICK k \in Int : t = 6584243485182795213 * u + 2421600692713375493 + Modulus * k
  BY <1>1 DEF Congruent
<1>5. t = v + Modulus * (k + q)
  BY <1>2, <1>3, <1>4, SMT DEF Modulus
<1>6. k + q \in Int
  OBVIOUS
<1>7. Congruent(t, v)
  BY <1>5, <1>6 DEF Congruent
<1> QED
  BY <1>1, <1>7, SameWord DEF t, v

(* RNG_A * RNG_INC_SEEKED + RNG_INC and RNG_A_SEEKED * RNG_INC +            *)
(* RNG_INC_SEEKED are the same modulo 2^64; the quotient is the literal.    *)
LEMMA Commute ==
    ASSUME NEW x \in Word
    PROVE  Seek(Step(x)) = Step(Seek(x))
<1> DEFINE y == Step(x)
           z == Seek(x)
           u == Value(x)
           v == Value(y)
           w == Value(z)
           a == Value(Seek(y))
           b == Value(Step(z))
<1>1. y \in Word /\ Congruent(v, 6364136223846793005 * u + 109)
  BY StepFacts
<1>2. z \in Word /\ Congruent(w, 6584243485182795213 * u + 2421600692713375493)
  BY SeekFacts
<1> HIDE DEF y, z
<1>3. Seek(y) \in Word /\ Congruent(a, 6584243485182795213 * v + 2421600692713375493)
  BY <1>1, SeekFacts
<1>4. Step(z) \in Word /\ Congruent(b, 6364136223846793005 * w + 109)
  BY <1>2, StepFacts
<1>5. u \in Int /\ v \in Int /\ w \in Int /\ a \in Int /\ b \in Int
  BY <1>1, <1>2, <1>3, <1>4, ValueType
<1> HIDE DEF u, v, w, a, b
<1>6. PICK h \in Int : v = 6364136223846793005 * u + 109 + Modulus * h
  BY <1>1 DEF Congruent
<1>7. PICK i \in Int : w = 6584243485182795213 * u + 2421600692713375493 + Modulus * i
  BY <1>2 DEF Congruent
<1>8. PICK j \in Int : a = 6584243485182795213 * v + 2421600692713375493 + Modulus * j
  BY <1>3 DEF Congruent
<1>9. PICK k \in Int : b = 6364136223846793005 * w + 109 + Modulus * k
  BY <1>4 DEF Congruent
<1> DEFINE d == 6584243485182795213 * h + j - 6364136223846793005 * i - k - 835453488518557904
<1>10. a = b + Modulus * d
  BY <1>5, <1>6, <1>7, <1>8, <1>9, SMT DEF Modulus
<1>11. d \in Int
  BY SMT
<1>12. Congruent(a, b)
  BY <1>10, <1>11 DEF Congruent
<1> QED
  BY <1>3, <1>4, <1>12, SameWord DEF a, b, y, z

(* The seeds are nine states in a row (init_state.h).                       *)
LEMMA SeedsInStep ==
    /\ \A k \in 1 .. 8 : INIT_STATE[k] = Step(INIT_STATE[k - 1])
    /\ Seek(INIT_STATE[0]) = Step(INIT_STATE[8])
<1> DEFINE S(k) == INIT_STATE[k]
           u0 == Value(S(0))
           u1 == Value(S(1))
           u2 == Value(S(2))
           u3 == Value(S(3))
           u4 == Value(S(4))
           u5 == Value(S(5))
           u6 == Value(S(6))
           u7 == Value(S(7))
           u8 == Value(S(8))
<1>1. \A k \in 0 .. 8 : INIT_STATE[k] \in Word
  BY Seeds DEF Lane, BREAK_NUM
<1>2. /\ u0 = 1753877967969059832
      /\ u1 = 3118741472915405573
      /\ u2 = 10030406343644371790
      /\ u3 = 17800363335834976035
      /\ u4 = 16987470693695682196
      /\ u5 = 9440484487994590321
      /\ u6 = 13742400798436595530
      /\ u7 = 17113982732917624431
      /\ u8 = 518186974999665392
  BY Seeds
<1> HIDE DEF u0, u1, u2, u3, u4, u5, u6, u7, u8
<1>11. Step(INIT_STATE[0]) = INIT_STATE[1]
  <2>1. PICK q \in Int : q = 605088803940569381
    OBVIOUS
  <2>2. 6364136223846793005 * u0 + 109 = u1 + 18446744073709551616 * q
    BY <1>2, <2>1, SMT
  <2>3. INIT_STATE[0] \in Word /\ INIT_STATE[1] \in Word
    BY <1>1
  <2> QED
    BY <2>2, <2>3, StepTo DEF u0, u1
<1>12. Step(INIT_STATE[1]) = INIT_STATE[2]
  <2>1. PICK q \in Int : q = 1075967417409010424
    OBVIOUS
  <2>2. 6364136223846793005 * u1 + 109 = u2 + 18446744073709551616 * q
    BY <1>2, <2>1, SMT
  <2>3. INIT_STATE[1] \in Word /\ INIT_STATE[2] \in Word
    BY <1>1
  <2> QED
    BY <2>2, <2>3, StepTo DEF u1, u2
<1>13. Step(INIT_STATE[2]) = INIT_STATE[3]
  <2>1. PICK q \in Int : q = 3460495364191005664
    OBVIOUS
  <2>2. 6364136223846793005 * u2 + 109 = u3 + 18446744073709551616 * q
    BY <1>2, <2>1, SMT
  <2>3. INIT_STATE[2] \in Word /\ INIT_STATE[3] \in Word
    BY <1>1
  <2> QED
    BY <2>2, <2>3, StepTo DEF u2, u3
<1>14. Step(INIT_STATE[3]) = INIT_STATE[4]
  <2>1. PICK q \in Int : q = 6141134535751210893
    OBVIOUS
  <2>2. 6364136223846793005 * u3 + 109 = u4 + 18446744073709551616 * q
    BY <1>2, <2>1, SMT
  <2>3. INIT_STATE[3] \in Word /\ INIT_STATE[4] \in Word
    BY <1>1
  <2> QED
    BY <2>2, <2>3, StepTo DEF u3, u4
<1>15. Step(INIT_STATE[4]) = INIT_STATE[5]
  <2>1. PICK q \in Int : q = 5860686154765087623
    OBVIOUS
  <2>2. 6364136223846793005 * u4 + 109 = u5 + 18446744073709551616 * q
    BY <1>2, <2>1, SMT
  <2>3. INIT_STATE[4] \in Word /\ INIT_STATE[5] \in Word
    BY <1>1
  <2> QED
    BY <2>2, <2>3, StepTo DEF u4, u5
<1>16. Step(INIT_STATE[5]) = INIT_STATE[6]
  <2>1. PICK q \in Int : q = 3256972019595445674
    OBVIOUS
  <2>2. 6364136223846793005 * u5 + 109 = u6 + 18446744073709551616 * q
    BY <1>2, <2>1, SMT
  <2>3. INIT_STATE[5] \in Word /\ INIT_STATE[6] \in Word
    BY <1>1
  <2> QED
    BY <2>2, <2>3, StepTo DEF u5, u6
<1>17. Step(INIT_STATE[6]) = INIT_STATE[7]
  <2>1. PICK q \in Int : q = 4741135366462746283
    OBVIOUS
  <2>2. 6364136223846793005 * u6 + 109 = u7 + 18446744073709551616 * q
    BY <1>2, <2>1, SMT
  <2>3. INIT_STATE[6] \in Word /\ INIT_STATE[7] \in Word
    BY <1>1
  <2> QED
    BY <2>2, <2>3, StepTo DEF u6, u7
<1>18. Step(INIT_STATE[7]) = INIT_STATE[8]
  <2>1. PICK q \in Int : q = 5904332873576163917
    OBVIOUS
  <2>2. 6364136223846793005 * u7 + 109 = u8 + 18446744073709551616 * q
    BY <1>2, <2>1, SMT
  <2>3. INIT_STATE[7] \in Word /\ INIT_STATE[8] \in Word
    BY <1>1
  <2> QED
    BY <2>2, <2>3, StepTo DEF u7, u8
<1>20. Seek(INIT_STATE[0]) = Step(INIT_STATE[8])
  <2> DEFINE y == Step(INIT_STATE[8])
             v == Value(y)
  <2>1. INIT_STATE[0] \in Word /\ INIT_STATE[8] \in Word
    BY <1>1
  <2>2. y \in Word /\ Congruent(v, 6364136223846793005 * u8 + 109)
    BY <2>1, StepFacts DEF u8
  <2> HIDE DEF y
  <2>3. v \in Int
    BY <2>2, ValueType
  <2> HIDE DEF v
  <2>4. PICK k \in Int : v = 6364136223846793005 * u8 + 109 + Modulus * k
    BY <2>2 DEF Congruent
  <2>5. PICK q \in Int : q = 447241369702913290 - k
    OBVIOUS
  <2>6. 6584243485182795213 * u0 + 2421600692713375493 = v + 18446744073709551616 * q
    BY <1>2, <2>4, <2>5, SMT DEF Modulus
  <2> QED
    BY <2>1, <2>2, <2>6, SeekTo DEF u0, v, y
<1>3. \A k \in 1 .. 8 : INIT_STATE[k] = Step(INIT_STATE[k - 1])
  <2> TAKE k \in 1 .. 8
  <2>1. k = 1 \/ k = 2 \/ k = 3 \/ k = 4 \/ k = 5 \/ k = 6 \/ k = 7 \/ k = 8
    OBVIOUS
  <2>11. CASE k = 1
    BY <1>11, <2>11
  <2>12. CASE k = 2
    BY <1>12, <2>12
  <2>13. CASE k = 3
    BY <1>13, <2>13
  <2>14. CASE k = 4
    BY <1>14, <2>14
  <2>15. CASE k = 5
    BY <1>15, <2>15
  <2>16. CASE k = 6
    BY <1>16, <2>16
  <2>17. CASE k = 7
    BY <1>17, <2>17
  <2>18. CASE k = 8
    BY <1>18, <2>18
  <2> QED
    BY <2>1, <2>11, <2>12, <2>13, <2>14, <2>15, <2>16, <2>17, <2>18
<1> QED
  BY <1>3, <1>20

-----------------------------------------------------------------------------
(* The offset of a leaf: FromNat, OrOne and Negative.                      *)

(* Congruence modulo 2^64 is an equivalence that sums respect.             *)
LEMMA Congruence ==
    /\ \A x, y \in Int : Congruent(x, y) => Congruent(y, x)
    /\ \A x, y, z \in Int : Congruent(x, y) /\ Congruent(y, z) => Congruent(x, z)
    /\ \A x, y, u, v \in Int : Congruent(x, y) /\ Congruent(u, v) => Congruent(x + u, y + v)
<1>1. ASSUME NEW x \in Int, NEW y \in Int, Congruent(x, y)
      PROVE  Congruent(y, x)
  <2>1. PICK k \in Int : x = y + Modulus * k
    BY <1>1 DEF Congruent
  <2>2. y = x + Modulus * (-k) /\ -k \in Int
    BY <2>1, SMT DEF Modulus
  <2> QED
    BY <2>2 DEF Congruent
<1>2. ASSUME NEW x \in Int, NEW y \in Int, NEW z \in Int, Congruent(x, y), Congruent(y, z)
      PROVE  Congruent(x, z)
  <2>1. PICK k \in Int : x = y + Modulus * k
    BY <1>2 DEF Congruent
  <2>2. PICK h \in Int : y = z + Modulus * h
    BY <1>2 DEF Congruent
  <2>3. x = z + Modulus * (k + h) /\ k + h \in Int
    BY <2>1, <2>2, SMT DEF Modulus
  <2> QED
    BY <2>3 DEF Congruent
<1>3. ASSUME NEW x \in Int, NEW y \in Int, NEW u \in Int, NEW v \in Int,
             Congruent(x, y), Congruent(u, v)
      PROVE  Congruent(x + u, y + v)
  <2>1. PICK k \in Int : x = y + Modulus * k
    BY <1>3 DEF Congruent
  <2>2. PICK h \in Int : u = v + Modulus * h
    BY <1>3 DEF Congruent
  <2>3. x + u = y + v + Modulus * (k + h) /\ k + h \in Int
    BY <2>1, <2>2, SMT DEF Modulus
  <2> QED
    BY <2>3 DEF Congruent
<1> QED
  BY <1>1, <1>2, <1>3

(* The word of a number, modulo 2^64.                                      *)
LEMMA FromNatFacts ==
    ASSUME NEW m \in Nat
    PROVE  FromNat(m) \in Word /\ Congruent(Value(FromNat(m)), m)
<1> DEFINE c == <<0, 0, 0, 0, 0, 0, 0, m>>
<1>1. /\ c[1] = 0 /\ c[2] = 0 /\ c[3] = 0 /\ c[4] = 0
      /\ c[5] = 0 /\ c[6] = 0 /\ c[7] = 0 /\ c[8] = m
  OBVIOUS
<1>2. FromNat(m) = Carried(c)
  BY DEF FromNat
<1> HIDE DEF c
<1>3. NatColumns(c)
  BY <1>1 DEF NatColumns
<1>4. Value(c) = m
  BY <1>1, SMT DEF Value
<1> QED
  BY <1>2, <1>3, <1>4, CarriedFacts

(* What the least byte says of the value.                                  *)
LEMMA LeastByte ==
    ASSUME NEW a \in Word
    PROVE  a[8] \in 0 .. 255 /\ \E r \in Int : Value(a) = a[8] + 2 * r
<1> DEFINE w1 == a[1]
           w2 == a[2]
           w3 == a[3]
           w4 == a[4]
           w5 == a[5]
           w6 == a[6]
           w7 == a[7]
           w8 == a[8]
           r == 128 * w7 + 32768 * w6 + 8388608 * w5 + 2147483648 * w4
                + 549755813888 * w3 + 140737488355328 * w2 + 36028797018963968 * w1
<1>1. /\ w1 \in Int /\ w2 \in Int /\ w3 \in Int /\ w4 \in Int
      /\ w5 \in Int /\ w6 \in Int /\ w7 \in Int /\ w8 \in 0 .. 255
  BY DEF Word, Byte
<1>2. Value(a) = w8 + 256 * w7 + 65536 * w6 + 16777216 * w5 + 4294967296 * w4
                 + 1099511627776 * w3 + 281474976710656 * w2 + 72057594037927936 * w1
  BY SMT DEF Value
<1> HIDE DEF w1, w2, w3, w4, w5, w6, w7, w8
<1>3. r \in Int
  BY <1>1, SMT
<1>4. PICK t : t = r
  OBVIOUS
<1>5. t = 128 * w7 + 32768 * w6 + 8388608 * w5 + 2147483648 * w4
          + 549755813888 * w3 + 140737488355328 * w2 + 36028797018963968 * w1
  BY <1>4, SMT
<1> HIDE DEF r
<1>6. Value(a) = w8 + 2 * t
  BY <1>1, <1>2, <1>3, <1>4, <1>5, SMT
<1> QED
  BY <1>1, <1>3, <1>4, <1>6 DEF w8

(* Whether a word is odd is whether its value is.                          *)
LEMMA OddFacts ==
    ASSUME NEW a \in Word, NEW x \in Int, Congruent(Value(a), x)
    PROVE  /\ IsOdd(a) <=> x % 2 = 1
           /\ OrOne(a) = IF x % 2 = 1 THEN a ELSE [a EXCEPT ![8] = a[8] + 1]
<1>1. PICK r \in Int : Value(a) = a[8] + 2 * r
  BY LeastByte
<1>2. PICK k \in Int : Value(a) = x + Modulus * k
  BY DEF Congruent
<1> DEFINE b == a[8]
<1>3. b \in 0 .. 255 /\ b + 2 * r = x + Modulus * k
  BY <1>1, <1>2, LeastByte
<1>4. b % 2 = 1 <=> x % 2 = 1
  <2> HIDE DEF b
  <2> DEFINE t == 9223372036854775808 * k - r
  <2>1. b \in Int /\ b = x + Modulus * k - 2 * r
    BY <1>3, SMT DEF Modulus
  <2>2. t \in Int
    BY SMT
  <2>3. b = x + 2 * t
    BY <2>1, SMT DEF Modulus
  <2> HIDE DEF t
  <2> QED
    BY <2>1, <2>2, <2>3, SMT
<1> QED
  BY <1>4 DEF IsOdd, OrOne

(* Setting the last bit of an even word adds one.                          *)
LEMMA OrOneFacts ==
    ASSUME NEW a \in Word, NEW x \in Int, x % 2 = 0, Congruent(Value(a), x)
    PROVE  OrOne(a) \in Word /\ Congruent(Value(OrOne(a)), x + 1)
<1> DEFINE b == [a EXCEPT ![8] = a[8] + 1]
<1>2. OrOne(a) = b /\ ~ IsOdd(a)
  <2>1. ~ (x % 2 = 1)
    OBVIOUS
  <2> QED
    BY <2>1, OddFacts
<1>3. a[8] \in 0 .. 255 /\ a[8] % 2 # 1
  BY <1>2, LeastByte DEF IsOdd
<1>4. a[8] + 1 \in 0 .. 255
  BY <1>3, SMT
<1>5. b \in Word
  BY <1>4 DEF Word, Byte
<1>6. /\ b[1] = a[1] /\ b[2] = a[2] /\ b[3] = a[3] /\ b[4] = a[4]
      /\ b[5] = a[5] /\ b[6] = a[6] /\ b[7] = a[7] /\ b[8] = a[8] + 1
  BY DEF Word
<1> HIDE DEF b
<1>7. Value(b) = Value(a) + 1
  <2> DEFINE a8 == a[8]
             y == 256 * a[7] + 65536 * a[6] + 16777216 * a[5] + 4294967296 * a[4]
                  + 1099511627776 * a[3] + 281474976710656 * a[2] + 72057594037927936 * a[1]
  <2>1. /\ a[1] \in Int /\ a[2] \in Int /\ a[3] \in Int /\ a[4] \in Int
        /\ a[5] \in Int /\ a[6] \in Int /\ a[7] \in Int /\ a8 \in Int
    BY DigitType
  <2>2. y \in Int
    BY <2>1, SMT
  <2>3. Value(a) = a8 + y
    BY <2>1, SMT DEF Value
  <2>4. Value(b) = (a8 + 1) + 256 * a[7] + 65536 * a[6] + 16777216 * a[5] + 4294967296 * a[4]
                   + 1099511627776 * a[3] + 281474976710656 * a[2] + 72057594037927936 * a[1]
    <3> HIDE DEF y
    <3> QED
      BY <1>6, SMT DEF Value
  <2>5. Value(b) = a8 + 1 + y
    BY <2>1, <2>4, SMT
  <2> HIDE DEF a8, y
  <2> QED
    BY <2>1, <2>2, <2>3, <2>5, SMT
<1>8. PICK k \in Int : Value(a) = x + Modulus * k
  BY DEF Congruent
<1>9. Value(b) = x + 1 + Modulus * k
  BY <1>7, <1>8, SMT DEF Modulus
<1>10. Congruent(Value(b), x + 1)
  BY <1>9 DEF Congruent
<1> QED
  BY <1>2, <1>5, <1>10

(* The offset of a leaf, as a number.                                      *)
LEMMA OffsetFacts ==
    ASSUME NEW seq \in Nat, NEW e \in Int, e = 6364136223846793005 * seq,
           NEW x \in Int, x = 2 * e
    PROVE  Offset(seq) \in Word /\ Congruent(Value(Offset(seq)), x + 1)
<1> DEFINE f == FromNat(2 * seq)
           p == Mul(RNG_A, f)
           u == Value(f)
           v == Value(p)
<1>1. 2 * seq \in Nat
  BY SMT
<1>2. f \in Word /\ Congruent(u, 2 * seq)
  BY <1>1, FromNatFacts
<1> HIDE DEF f
<1>3. p \in Word /\ Congruent(v, Value(RNG_A) * u)
  BY <1>2, Constants, MulFacts
<1> HIDE DEF p
<1>4. u \in Int /\ v \in Int
  BY <1>2, <1>3, ValueType, SMT
<1> HIDE DEF u, v
<1>5. PICK h \in Int : u = 2 * seq + Modulus * h
  BY <1>2 DEF Congruent
<1>6. PICK k \in Int : v = 6364136223846793005 * u + Modulus * k
  BY <1>3, Constants, SMT DEF Congruent
<1>8. v = x + Modulus * (k + 6364136223846793005 * h) /\ k + 6364136223846793005 * h \in Int
  BY <1>4, <1>5, <1>6, SMT DEF Modulus
<1>9. Congruent(v, x) /\ x % 2 = 0
  BY <1>8, SMT DEF Congruent
<1>10. Offset(seq) = OrOne(p)
  BY DEF Offset, p, f
<1>11. OrOne(p) \in Word /\ Congruent(Value(OrOne(p)), x + 1)
  BY <1>3, <1>9, OrOneFacts DEF v
<1> QED
  BY <1>10, <1>11

(* The two's complement is the negative, modulo 2^64.                      *)
LEMMA NegativeFacts ==
    ASSUME NEW a \in Word
    PROVE  Negative(a) \in Word /\ Congruent(Value(Negative(a)), -Value(a))
<1> DEFINE c == <<255 - a[1], 255 - a[2], 255 - a[3], 255 - a[4],
                  255 - a[5], 255 - a[6], 255 - a[7], 255 - a[8]>>
           one == FromNat(1)
           u == Value(one)
           v == Value(Add(c, one))
           x == Value(a)
<1>1. Negative(a) = Add(c, one)
  BY DEF Negative, BigEndian, Digit
<1>2. /\ c[1] = 255 - a[1] /\ c[2] = 255 - a[2] /\ c[3] = 255 - a[3] /\ c[4] = 255 - a[4]
      /\ c[5] = 255 - a[5] /\ c[6] = 255 - a[6] /\ c[7] = 255 - a[7] /\ c[8] = 255 - a[8]
  OBVIOUS
<1>4. c \in Word
  <2>1. \A k \in 1 .. 8 : k = 1 \/ k = 2 \/ k = 3 \/ k = 4 \/ k = 5 \/ k = 6 \/ k = 7 \/ k = 8
    OBVIOUS
  <2>2. c = [k \in 1 .. 8 |-> c[k]]
    OBVIOUS
  <2>3. \A k \in 1 .. 8 : c[k] = 255 - a[k]
    BY <1>2, <2>1
  <2> HIDE DEF c
  <2>4. \A k \in 1 .. 8 : a[k] \in 0 .. 255
    BY DEF Word, Byte
  <2>5. ASSUME NEW k \in 1 .. 8
        PROVE  c[k] \in 0 .. 255
    <3>1. c[k] = 255 - a[k] /\ a[k] \in 0 .. 255
      BY <2>3, <2>4
    <3> QED
      BY <3>1, SMT
  <2> QED
    BY <2>2, <2>5 DEF Word, Byte
<1>5. Value(c) = Modulus - 1 - x
  <2> DEFINE a1 == a[1]
             a2 == a[2]
             a3 == a[3]
             a4 == a[4]
             a5 == a[5]
             a6 == a[6]
             a7 == a[7]
             a8 == a[8]
  <2>1. Value(c) = (255 - a8) + 256 * (255 - a7) + 65536 * (255 - a6) + 16777216 * (255 - a5)
                   + 4294967296 * (255 - a4) + 1099511627776 * (255 - a3)
                   + 281474976710656 * (255 - a2) + 72057594037927936 * (255 - a1)
    <3> HIDE DEF c
    <3> QED
      BY <1>2, SMT DEF Value
  <2>2. x = a8 + 256 * a7 + 65536 * a6 + 16777216 * a5 + 4294967296 * a4
            + 1099511627776 * a3 + 281474976710656 * a2 + 72057594037927936 * a1
    BY SMT DEF Value
  <2>3. /\ a1 \in Int /\ a2 \in Int /\ a3 \in Int /\ a4 \in Int
        /\ a5 \in Int /\ a6 \in Int /\ a7 \in Int /\ a8 \in Int
    BY DigitType
  <2> HIDE DEF a1, a2, a3, a4, a5, a6, a7, a8, x, c
  <2> QED
    BY <2>1, <2>2, <2>3, SMT DEF Modulus
<1>6. one \in Word /\ Congruent(u, 1)
  BY FromNatFacts
<1> HIDE DEF c, one
<1>7. Add(c, one) \in Word /\ Congruent(v, Value(c) + u)
  BY <1>4, <1>6, AddFacts
<1>8. u \in Int /\ v \in Int /\ x \in Int
  BY <1>6, <1>7, ValueType, SMT
<1> HIDE DEF u, v, x
<1>9. PICK h \in Int : u = 1 + Modulus * h
  BY <1>6 DEF Congruent
<1>10. PICK k \in Int : v = Value(c) + u + Modulus * k
  BY <1>7 DEF Congruent
<1>11. v = -x + Modulus * (1 + h + k) /\ 1 + h + k \in Int
  BY <1>5, <1>8, <1>9, <1>10, SMT DEF Modulus
<1>12. Congruent(v, -x)
  BY <1>11 DEF Congruent
<1> QED
  BY <1>1, <1>7, <1>12 DEF v, x

-----------------------------------------------------------------------------
(* The leaves are generators of their own.                                 *)

(* The increment of a leaf, as a number: 109 + off - RNG_A * off.           *)
LEMMA IncrementFacts ==
    ASSUME NEW id \in Nat, NEW seq, seq = 54 + id
    PROVE  /\ LeafIncrement(id) \in Word /\ Offset(seq) \in Word
           /\ \E k \in Int : Value(LeafIncrement(id))
                = 109 + Value(Offset(seq)) - 6364136223846793005 * Value(Offset(seq)) + Modulus * k
<1> DEFINE off == Offset(seq)
           o == Value(off)
           v == Value(LeafIncrement(id))
           p == Mul(RNG_A, off)
           g == Negative(p)
           s == Add(off, g)
           pv == Value(p)
           gv == Value(g)
           sv == Value(s)
<1>1. off \in Word
  <2>1. PICK e \in Int : e = 6364136223846793005 * seq
    BY SMT
  <2>2. PICK x \in Int : x = 2 * e
    BY SMT
  <2>3. seq \in Nat
    BY SMT
  <2> QED
    BY <2>1, <2>2, <2>3, OffsetFacts, SMT
<1>2. LeafIncrement(id) = Add(RNG_INC, s)
  BY SMT DEF LeafIncrement
<1> HIDE DEF off
<1>3. p \in Word /\ Congruent(pv, Value(RNG_A) * o)
  BY <1>1, <1>2, Constants, MulFacts, SMT
<1> HIDE DEF p
<1>4. g \in Word /\ Congruent(gv, -pv)
  BY <1>3, NegativeFacts, SMT
<1> HIDE DEF g
<1>5. s \in Word /\ Congruent(sv, o + gv)
  BY <1>1, <1>2, <1>4, AddFacts, SMT
<1> HIDE DEF s
<1>6. LeafIncrement(id) \in Word /\ Congruent(v, Value(RNG_INC) + sv)
  BY <1>2, <1>5, Constants, AddFacts, SMT
<1>7. o \in Int /\ pv \in Int /\ gv \in Int /\ sv \in Int /\ v \in Int
  BY <1>1, <1>2, <1>3, <1>4, <1>5, <1>6, ValueType, SMT
<1> HIDE DEF pv, gv, sv, o, v
<1>8. PICK h \in Int : pv = 6364136223846793005 * o + Modulus * h
  BY <1>3, Constants, SMT DEF Congruent
<1>9. PICK i \in Int : gv = -pv + Modulus * i
  BY <1>4, SMT DEF Congruent
<1>10. PICK j \in Int : sv = o + gv + Modulus * j
  BY <1>5, SMT DEF Congruent
<1>11. PICK k \in Int : v = 109 + sv + Modulus * k
  BY <1>6, Constants, SMT DEF Congruent
<1>12. v = 109 + o - 6364136223846793005 * o + Modulus * (i + j + k - h)
  BY <1>7, <1>8, <1>9, <1>10, <1>11, SMT DEF Modulus
<1>13. i + j + k - h \in Int
  BY SMT
<1> QED
  BY <1>1, <1>6, <1>12, <1>13, SMT DEF off, o, v

(* The offset is odd.                                                      *)
LEMMA OffsetOdd ==
    ASSUME NEW seq \in Nat, NEW t \in Int, t = 2 * seq
    PROVE  /\ Offset(seq) \in Word
           /\ \E k \in Int : Value(Offset(seq)) = 6364136223846793005 * t + 1 + Modulus * k
<1>1. PICK e \in Int : e = 6364136223846793005 * seq
  BY SMT
<1>2. PICK x \in Int : x = 2 * e
  BY SMT
<1>3. Offset(seq) \in Word /\ Congruent(Value(Offset(seq)), x + 1)
  BY <1>1, <1>2, OffsetFacts, SMT
<1>4. PICK k \in Int : Value(Offset(seq)) = x + 1 + Modulus * k
  BY <1>3, SMT DEF Congruent
<1>5. x = 6364136223846793005 * t
  BY <1>1, <1>2, SMT
<1>6. Value(Offset(seq)) = 6364136223846793005 * t + 1 + Modulus * k
  BY <1>4, <1>5, SMT
<1> QED
  BY <1>3, <1>6, SMT

(* The increment is odd.                                                   *)
LEMMA IncrementOdd ==
    ASSUME NEW id \in Nat
    PROVE  IsOdd(LeafIncrement(id))
<1>0. PICK seq : seq = 54 + id
  BY SMT
<1> DEFINE o == Value(Offset(seq))
           inc == LeafIncrement(id)
           v == Value(inc)
<1>1. inc \in Word /\ Offset(seq) \in Word
  BY <1>0, IncrementFacts, SMT
<1>2. PICK k \in Int : v = 109 + o - 6364136223846793005 * o + Modulus * k
  BY <1>0, IncrementFacts, SMT
<1> HIDE DEF inc
<1>10. v \in Int /\ o \in Int
  BY <1>1, ValueType, SMT
<1> HIDE DEF v, o
<1> DEFINE t == 54 - 3182068111923396502 * o + 9223372036854775808 * k
<1>3. t \in Int
  BY <1>10, SMT
<1>4. t = 54 - 3182068111923396502 * o + 9223372036854775808 * k
  BY SMT
<1> HIDE DEF t
<1>6. v = 1 + 2 * t
  BY <1>1, <1>2, <1>3, <1>4, <1>10, SMT DEF Modulus
<1>7. v % 2 = 1
  BY <1>3, <1>6, <1>10, SMT
<1>8. Congruent(Value(inc), v)
  <2>1. v = v + Modulus * 0 /\ 0 \in Int
    BY <1>10, SMT DEF Modulus
  <2> QED
    BY <2>1, SMT DEF Congruent, v
<1>9. IsOdd(inc) <=> v % 2 = 1
  BY <1>1, <1>8, <1>10, OddFacts, SMT
<1> QED
  BY <1>7, <1>9, SMT DEF inc

(* A leaf is a generator with the multiplier of the root sequence.         *)
LEMMA LeafStep ==
    ASSUME NEW id \in Nat, NEW x \in Word
    PROVE  multi_stream(Step(x), 54 + id)
             = Add(Mul(RNG_A, multi_stream(x, 54 + id)), LeafIncrement(id))
<1>0. PICK seq : seq = 54 + id
  BY SMT
<1> DEFINE off == Offset(seq)
           inc == LeafIncrement(id)
           y == Step(x)
           l == Add(y, off)
           m == Add(x, off)
           p == Mul(RNG_A, m)
           r == Add(p, inc)
           xv == Value(x)
           o == Value(off)
           i == Value(inc)
           yv == Value(y)
           lv == Value(l)
           mv == Value(m)
           pv == Value(p)
           rv == Value(r)
<1>1. off \in Word /\ inc \in Word
  BY <1>0, IncrementFacts, SMT
<1>2. PICK k1 \in Int : i = 109 + o - 6364136223846793005 * o + Modulus * k1
  BY <1>0, IncrementFacts, SMT
<1>3. y \in Word /\ Congruent(yv, 6364136223846793005 * xv + 109)
  BY StepFacts, SMT
<1> HIDE DEF off, inc, y
<1>4. l \in Word /\ Congruent(lv, yv + o)
  BY <1>1, <1>3, AddFacts, SMT
<1>5. m \in Word /\ Congruent(mv, xv + o)
  BY <1>1, AddFacts, SMT
<1> HIDE DEF l, m
<1>6. p \in Word /\ Congruent(pv, Value(RNG_A) * mv)
  BY <1>5, Constants, MulFacts, SMT
<1> HIDE DEF p
<1>7. r \in Word /\ Congruent(rv, pv + i)
  BY <1>1, <1>6, AddFacts, SMT
<1> HIDE DEF r
<1>8. /\ xv \in Int /\ o \in Int /\ i \in Int /\ yv \in Int
      /\ lv \in Int /\ mv \in Int /\ pv \in Int /\ rv \in Int
  BY <1>1, <1>3, <1>4, <1>5, <1>6, <1>7, ValueType, SMT
<1> HIDE DEF xv, o, i, yv, lv, mv, pv, rv
<1>9. PICK k2 \in Int : yv = 6364136223846793005 * xv + 109 + Modulus * k2
  BY <1>3, SMT DEF Congruent
<1>10. PICK k3 \in Int : lv = yv + o + Modulus * k3
  BY <1>4, SMT DEF Congruent
<1>11. PICK k4 \in Int : mv = xv + o + Modulus * k4
  BY <1>5, SMT DEF Congruent
<1>12. PICK k5 \in Int : pv = 6364136223846793005 * mv + Modulus * k5
  BY <1>6, Constants, SMT DEF Congruent
<1>13. PICK k6 \in Int : rv = pv + i + Modulus * k6
  BY <1>7, SMT DEF Congruent
<1> DEFINE d == k2 + k3 - 6364136223846793005 * k4 - k5 - k6 - k1
<1>14. d \in Int
  BY SMT
<1>15. lv = rv + Modulus * d
  BY <1>2, <1>8, <1>9, <1>10, <1>11, <1>12, <1>13, SMT DEF Modulus
<1>16. Congruent(lv, rv)
  BY <1>14, <1>15, SMT DEF Congruent
<1>17. l = r
  BY <1>4, <1>7, <1>16, SameWord, SMT DEF lv, rv
<1> QED
  BY <1>0, <1>17, SMT DEF l, r, p, m, y, off, inc, multi_stream

(* What is a multiple of 2^62 when multiplied by (RNG_A - 1) / 4 or by     *)
(* RNG_A is one already: both are odd and have an inverse modulo 2^62.     *)
Divisible(x) == \E y \in Int : x = 4611686018427387904 * y

(* The inverse of (RNG_A - 1) / 4 is 1314878037273365987.                  *)
LEMMA CancelQuarter ==
    ASSUME NEW x \in Int, NEW p \in Int, p = 1591034055961698251 * x, Divisible(p)
    PROVE  Divisible(x)
<1>1. PICK z \in Int : p = 4611686018427387904 * z
  BY SMT DEF Divisible
<1> DEFINE y == 1314878037273365987 * z - 453633601329040659 * x
<1>2. y \in Int
  BY SMT
<1>3. y = 1314878037273365987 * z - 453633601329040659 * x
  BY SMT
<1> HIDE DEF y
<1>4. x = 4611686018427387904 * y
  BY <1>1, <1>2, <1>3, SMT
<1> QED
  BY <1>2, <1>4, SMT DEF Divisible

(* The inverse of RNG_A is 42766085432158373.                              *)
LEMMA CancelFactor ==
    ASSUME NEW x \in Int, NEW p \in Int, p = 6364136223846793005 * x, Divisible(p)
    PROVE  Divisible(x)
<1>1. PICK z \in Int : p = 4611686018427387904 * z
  BY SMT DEF Divisible
<1> DEFINE y == 42766085432158373 * z - 59017286164624241 * x
<1>2. y \in Int
  BY SMT
<1>3. y = 42766085432158373 * z - 59017286164624241 * x
  BY SMT
<1> HIDE DEF y
<1>4. x = 4611686018427387904 * y
  BY <1>1, <1>2, <1>3, SMT
<1> QED
  BY <1>2, <1>4, SMT DEF Divisible

(* Two ids have different increments: (RNG_A - 1) * (2 * RNG_A) is eight    *)
(* times an odd number, so equal increments mean equal ids modulo 2^61.    *)
LEMMA IncrementsDiffer ==
    ASSUME NEW a \in Nat, NEW b \in Nat,
           a < 2305843009213693952, b < 2305843009213693952, LeafIncrement(a) = LeafIncrement(b)
    PROVE  a = b
<1>7. PICK p \in Nat : p = 54 + a
  BY SMT
<1>8. PICK q \in Nat : q = 54 + b
  BY SMT
<1>9. PICK s \in Int : s = 2 * p
  BY SMT
<1>10. PICK t \in Int : t = 2 * q
  BY SMT
<1> DEFINE oa == Value(Offset(p))
           ob == Value(Offset(q))
           v == Value(LeafIncrement(a))
           w == Value(LeafIncrement(b))
<1>2. oa \in Int /\ ob \in Int /\ v \in Int /\ w \in Int
  BY <1>7, <1>8, IncrementFacts, ValueType, SMT
<1>3. PICK h \in Int : v = 109 + oa - 6364136223846793005 * oa + Modulus * h
  BY <1>7, IncrementFacts, SMT
<1>4. PICK i \in Int : w = 109 + ob - 6364136223846793005 * ob + Modulus * i
  BY <1>8, IncrementFacts, SMT
<1>5. PICK j \in Int : oa = 6364136223846793005 * s + 1 + Modulus * j
  BY <1>9, OffsetOdd, SMT
<1>6. PICK k \in Int : ob = 6364136223846793005 * t + 1 + Modulus * k
  BY <1>10, OffsetOdd, SMT
<1>1. v = w
  BY SMT
<1> HIDE DEF oa, ob, v, w
<1>11. PICK x \in Int : x = oa - ob
  BY <1>2, SMT
<1>12. PICK g \in Int : g = h - i
  BY SMT
<1>13. PICK y \in Int : x = 4611686018427387904 * y
  <2>1. PICK z \in Int : z = 1591034055961698251 * x
    BY SMT
  <2>10. oa - 6364136223846793005 * oa + Modulus * g = ob - 6364136223846793005 * ob
    <3>1. Modulus * g = Modulus * h - Modulus * i
      BY <1>12, SMT DEF Modulus
    <3>2. v = 109 + oa - 6364136223846793005 * oa + Modulus * h
      BY <1>3
    <3>3. v = 109 + ob - 6364136223846793005 * ob + Modulus * i
      BY <1>1, <1>4, SMT
    <3> QED
      BY <1>2, <3>1, <3>2, <3>3, SMT DEF Modulus
  <2>11. 6364136223846793004 * x = Modulus * g
    BY <1>2, <1>11, <2>10, SMT DEF Modulus
  <2>2. z = 4611686018427387904 * g
    BY <2>1, <2>11, SMT DEF Modulus
  <2>3. Divisible(z)
    BY <2>2, SMT DEF Divisible
  <2>4. Divisible(x)
    BY <2>1, <2>3, CancelQuarter, SMT
  <2> QED
    BY <2>4, SMT DEF Divisible
<1>14. PICK e \in Int : e = s - t
  BY SMT
<1>15. PICK z \in Int : z = y - 4 * (j - k)
  BY SMT
<1>16. PICK d \in Int : d = 6364136223846793005 * e
  BY SMT
<1>17. PICK r \in Int : e = 4611686018427387904 * r
  <2>1. d = 4611686018427387904 * z
    BY <1>2, <1>5, <1>6, <1>11, <1>13, <1>14, <1>15, <1>16, SMT DEF Modulus
  <2>2. Divisible(d)
    BY <2>1, SMT DEF Divisible
  <2>3. Divisible(e)
    BY <1>16, <2>2, CancelFactor, SMT
  <2> QED
    BY <2>3, SMT DEF Divisible
<1>18. e = 2 * (a - b)
  BY <1>7, <1>8, <1>9, <1>10, <1>14, SMT
<1>19. r = 0
  BY <1>17, <1>18, SMT
<1> QED
  BY <1>17, <1>18, <1>19, SMT

-----------------------------------------------------------------------------
(* The lanes.                                                              *)

(* The lanes are a window of nine states in a row, from the lane that the  *)
(* merge reads next around to the one before it; a seek from the first     *)
(* lane of the window is one step from the last.                           *)
Window ==
    /\ \A i \in 1 .. 8 : state[(lane + i) % 9] = Step(state[(lane + i - 1) % 9])
    /\ Seek(state[lane]) = Step(state[(lane + 8) % 9])

(* The inductive invariant: the window follows the state written last.     *)
WindowInv ==
    /\ state \in [Lane -> Word] /\ lane \in 0 .. 8 /\ last \in Word /\ n \in Nat
    /\ n > 0 => state[lane] = Step(last)
    /\ Window

(* The seeds are such a window.                                            *)
LEMMA WindowInit == Init => WindowInv
<1> SUFFICES ASSUME Init PROVE WindowInv
  OBVIOUS
<1>1. state \in [Lane -> Word] /\ lane = 0 /\ n = 0
  BY Seeds DEF Init
<1>2. last \in Word
  BY Seeds DEF Init, Lane, BREAK_NUM
<1>3. \A i \in 1 .. 8 : state[(lane + i) % 9] = Step(state[(lane + i - 1) % 9])
  <2> TAKE i \in 1 .. 8
  <2>1. (lane + i) % 9 = i /\ (lane + i - 1) % 9 = i - 1
    BY <1>1, SMT
  <2>2. state = INIT_STATE
    BY DEF Init
  <2> QED
    BY <2>1, <2>2, SeedsInStep
<1>4. (lane + 8) % 9 = 8 /\ state = INIT_STATE
  BY <1>1, SMT DEF Init
<1>5. Seek(state[lane]) = Step(state[(lane + 8) % 9])
  BY <1>1, <1>4, SeedsInStep
<1> QED
  BY <1>1, <1>2, <1>3, <1>5 DEF WindowInv, Window

(* A write moves the window on by one lane: the lane that was written is a *)
(* seek ahead, which makes it the last of the window.                      *)
LEMMA WindowStep == WindowInv /\ [Next]_vars => WindowInv'
<1> SUFFICES ASSUME WindowInv, [Next]_vars PROVE WindowInv'
  OBVIOUS
<1>0. CASE UNCHANGED vars
  BY <1>0 DEF WindowInv, Window, vars
<1>1. CASE Write
  <2> USE DEF Lane, BREAK_NUM
  <2> DEFINE l == lane
             m == (lane + 1) % 9
             s == state[l]
  <2>1. /\ l \in 0 .. 8 /\ state \in [0 .. 8 -> Word] /\ n \in Nat /\ s \in Word
    BY DEF WindowInv
  <2>2. lane' = m /\ n' = n + 1 /\ last' = s
    BY <1>1 DEF Write
  <2>3. m \in 0 .. 8 /\ m # l /\ m = (IF l = 8 THEN 0 ELSE l + 1)
    BY <2>1, SMT
  <2>4. state' = [state EXCEPT ![l] = Seek(s)]
    BY <1>1 DEF Write
  <2>5. Seek(s) \in Word
    BY <2>1, SeekFacts
  <2>6. state' \in [0 .. 8 -> Word] /\ state'[l] = Seek(s)
    BY <2>1, <2>4, <2>5
  <2>7. \A k \in 0 .. 8 : k # l => state'[k] = state[k]
    BY <2>1, <2>4
  <2>8. state[m] = Step(s)
    <3>1. (lane + 1 - 1) % 9 = l
      BY <2>1, SMT
    <3>2. state[(lane + 1) % 9] = Step(state[(lane + 1 - 1) % 9])
      BY DEF WindowInv, Window
    <3> QED
      BY <3>1, <3>2
  <2>9. state'[m] = Step(s)
    BY <2>3, <2>7, <2>8
  <2> HIDE DEF s
  <2>10. \A i \in 1 .. 8 : state'[(m + i) % 9] = Step(state'[(m + i - 1) % 9])
    <3> TAKE i \in 1 .. 8
    <3>1. CASE i < 8
      <4>1. i + 1 \in 1 .. 8
        BY <3>1, SMT
      <4>2. state[(l + (i + 1)) % 9] = Step(state[(l + (i + 1) - 1) % 9])
        BY <4>1 DEF WindowInv, Window
      <4>3. /\ (m + i) % 9 = (l + (i + 1)) % 9 /\ (m + i) % 9 \in 0 .. 8 /\ (m + i) % 9 # l
            /\ (m + i - 1) % 9 = (l + (i + 1) - 1) % 9
            /\ (m + i - 1) % 9 \in 0 .. 8 /\ (m + i - 1) % 9 # l
        <5> HIDE DEF m
        <5> QED
          BY <2>1, <2>3, <3>1, SMT
      <4> QED
        BY <2>7, <4>2, <4>3
    <3>2. CASE i = 8
      <4>1. (m + 8) % 9 = l
        <5> HIDE DEF m
        <5> QED
          BY <2>1, <2>3, SMT
      <4>2. (m + 8 - 1) % 9 = (l + 8) % 9 /\ (l + 8) % 9 \in 0 .. 8 /\ (l + 8) % 9 # l
        <5> HIDE DEF m
        <5> QED
          BY <2>1, <2>3, SMT
      <4>3. Seek(s) = Step(state[(l + 8) % 9])
        BY DEF WindowInv, Window, s
      <4> QED
        BY <2>6, <2>7, <3>2, <4>1, <4>2, <4>3
    <3> QED
      BY <3>1, <3>2
  <2>11. Seek(state'[m]) = Step(state'[(m + 8) % 9])
    <3>1. (m + 8) % 9 = l
      <4> HIDE DEF m
      <4> QED
        BY <2>1, <2>3, SMT
    <3>2. Seek(Step(s)) = Step(Seek(s))
      BY <2>1, Commute
    <3> QED
      BY <2>6, <2>9, <3>1, <3>2
  <2> HIDE DEF m
  <2> QED
    BY <2>1, <2>2, <2>3, <2>6, <2>9, <2>10, <2>11 DEF WindowInv, Window
<1> QED
  BY <1>0, <1>1 DEF Next

(* The constants of init_state.h satisfy what RootGenerator asks of them   *)
(* (its SeekAssumption), for every 64-bit state.                           *)
THEOREM SeekAssumptionHolds ==
    /\ \A k \in 1 .. BREAK_NUM - 1 : INIT_STATE[k] = Step(INIT_STATE[k - 1])
    /\ Seek(INIT_STATE[0]) = Step(INIT_STATE[BREAK_NUM - 1])
    /\ \A s \in Word : Step(Seek(s)) = Seek(Step(s))
  BY SeedsInStep, Commute DEF BREAK_NUM

(* However often the lanes have been written.                              *)
THEOREM LanesCorrect == Spec => []LanesConsecutive
<1>1. WindowInv => LanesConsecutive
  <2> SUFFICES ASSUME WindowInv PROVE LanesConsecutive
    OBVIOUS
  <2>1. \A k \in Lane : Seek(Step(state[k])) = Step(Seek(state[k]))
    BY Commute DEF WindowInv
  <2> QED
    BY <2>1 DEF WindowInv, Window, LanesConsecutive, BREAK_NUM
<1> QED
  BY <1>1, WindowInit, WindowStep, PTL DEF Spec

(* The merge writes the root sequence: each state is one step after the    *)
(* one before it.                                                          *)
THEOREM RootSequence == Spec => [][n > 0 => last' = Step(last)]_vars
<1>1. WindowInv /\ [Next]_vars => [n > 0 => last' = Step(last)]_vars
  BY DEF WindowInv, Next, Write
<1> QED
  BY <1>1, WindowInit, WindowStep, PTL DEF Spec

(* What an instance makes of the root states is a generator of its own,    *)
(* with an odd increment that no other id has: for every id that an int    *)
(* can hold, and however long it runs.                                     *)
THEOREM LeavesCorrect == Spec => LeavesAreGenerators
<1> DEFINE A == \A id \in SampleId :
         /\ n > 0 => multi_stream(last', 54 + id) =
                       Add(Mul(RNG_A, multi_stream(last, 54 + id)), LeafIncrement(id))
         /\ IsOdd(LeafIncrement(id))
         /\ \A other \in SampleId \ {id} : LeafIncrement(other) # LeafIncrement(id)
<1>1. WindowInv /\ [Next]_vars => [A]_vars
  <2> SUFFICES ASSUME WindowInv, Next PROVE A
    OBVIOUS
  <2> TAKE id \in SampleId
  <2>1. id \in Nat
    BY IdAssumption
  <2>2. ASSUME n > 0
        PROVE  multi_stream(last', 54 + id) =
                 Add(Mul(RNG_A, multi_stream(last, 54 + id)), LeafIncrement(id))
    <3>1. last' = Step(last) /\ last \in Word
      BY <2>2 DEF WindowInv, Next, Write
    <3> QED
      BY <2>1, <3>1, LeafStep
  <2>3. IsOdd(LeafIncrement(id))
    BY <2>1, IncrementOdd
  <2>4. \A other \in SampleId \ {id} : LeafIncrement(other) # LeafIncrement(id)
    <3> TAKE other \in SampleId \ {id}
    <3>1. /\ other \in Nat /\ other < 2305843009213693952 /\ other # id
          /\ id < 2305843009213693952
      <4>1. INT_MAX \in Nat /\ INT_MAX < 2305843009213693952
        BY SMT DEF INT_MAX
      <4>2. id \in 0 .. INT_MAX /\ other \in 0 .. INT_MAX
        BY IdAssumption
      <4> QED
        BY <4>1, <4>2, SMT
    <3> QED
      BY <2>1, <3>1, IncrementsDiffer, SMT
  <2> QED
    BY <2>2, <2>3, <2>4
<1> QED
  BY <1>1, WindowInit, WindowStep, PTL DEF Spec, LeavesAreGenerators

-----------------------------------------------------------------------------
(* The map of k steps, in integers, and what a pair of words says of it.   *)

(* k steps of x -> a * x + c lead from x to A[k] * x + C[k], in integers.  *)
StepMaps(A, C, a, c) ==
    /\ A \in [Nat -> Int] /\ A[0] = 1 /\ \A k \in Nat : A[k + 1] = a * A[k]
    /\ C \in [Nat -> Int] /\ C[0] = 0 /\ \A k \in Nat : C[k + 1] = a * C[k] + c

(* There are such functions.                                               *)
LEMMA MapsExist ==
    ASSUME NEW a \in Int, NEW c \in Int
    PROVE  \E A, C : StepMaps(A, C, a, c)
<1> DEFINE S == [A : Int, C : Int]
           next == [m \in S |-> [A |-> a * m.A, C |-> a * m.C + c]]
           g == [k \in Nat |-> next]
           m0 == [A |-> 1, C |-> 0]
<1>1. m0 \in S
  OBVIOUS
<1>2. g \in [Nat -> [S -> S]]
  <2>1. ASSUME NEW m \in S
        PROVE  [A |-> a * m.A, C |-> a * m.C + c] \in S
    OBVIOUS
  <2> HIDE DEF S
  <2>2. next \in [S -> S]
    BY <2>1
  <2> HIDE DEF next
  <2> QED
    BY <2>2
<1>3. ASSUME NEW k \in Nat, NEW m \in S
      PROVE  g[k][m] = [A |-> a * m.A, C |-> a * m.C + c]
  OBVIOUS
<1> HIDE DEF g
<1>4. PICK f : Iterates(f, S, m0, g)
  <2> HIDE DEF S, m0, next
  <2> QED
    BY <1>1, <1>2, IterationExists
<1> DEFINE A == [k \in Nat |-> f[k].A]
           C == [k \in Nat |-> f[k].C]
<1>5. ASSUME NEW k \in Nat
      PROVE  A[k] \in Int /\ C[k] \in Int
  BY <1>4 DEF Iterates
<1>6. A[0] = 1 /\ C[0] = 0
  BY <1>4 DEF Iterates
<1>7. ASSUME NEW k \in Nat
      PROVE  A[k + 1] = a * A[k] /\ C[k + 1] = a * C[k] + c
  <2>1. f[k] \in S /\ k + 1 \in Nat
    BY <1>4 DEF Iterates
  <2>2. f[k + 1] = [A |-> a * f[k].A, C |-> a * f[k].C + c]
    BY <1>3, <1>4, <2>1 DEF Iterates
  <2> QED
    BY <2>1, <2>2
<1>8. A \in [Nat -> Int] /\ C \in [Nat -> Int]
  BY <1>5
<1> HIDE DEF A, C
<1>9. StepMaps(A, C, a, c)
  BY <1>6, <1>7, <1>8 DEF StepMaps
<1> QED
  BY <1>9

(* The map of j + k steps is that of k steps behind that of j steps.       *)
LEMMA MapsAdd ==
    ASSUME NEW a \in Int, NEW c \in Int, NEW A, NEW C, StepMaps(A, C, a, c),
           NEW j \in Nat, NEW k \in Nat
    PROVE  /\ A[j + k] = A[j] * A[k]
           /\ C[j + k] = A[k] * C[j] + C[k]
<1> DEFINE Holds(i) == A[j + i] = A[j] * A[i] /\ C[j + i] = A[i] * C[j] + C[i]
           S == {i \in Nat : Holds(i)}
<1>1. 0 \in S
  <2>1. A[j] \in Int /\ C[j] \in Int /\ A[0] = 1 /\ C[0] = 0
    BY DEF StepMaps
  <2>3. j + 0 = j
    OBVIOUS
  <2>2. A[j] = A[j] * 1 /\ C[j] = 1 * C[j] + 0
    BY <2>1
  <2> QED
    BY <2>1, <2>2, <2>3
<1>2. ASSUME NEW i \in S PROVE i + 1 \in S
  <2> DEFINE x == A[j]
             y == A[i]
             z == C[j]
             w == C[i]
             u == A[j + i]
             v == C[j + i]
  <2>1. i \in Nat /\ i + 1 \in Nat /\ j + i \in Nat /\ j + (i + 1) = (j + i) + 1
    OBVIOUS
  <2>2. x \in Int /\ y \in Int /\ z \in Int /\ w \in Int
    BY <2>1 DEF StepMaps
  <2>3. u = x * y /\ v = y * z + w
    OBVIOUS
  <2>4. A[i + 1] = a * y /\ C[i + 1] = a * w + c
    BY <2>1 DEF StepMaps
  <2>5. A[(j + i) + 1] = a * u /\ C[(j + i) + 1] = a * v + c
    BY <2>1 DEF StepMaps
  <2> HIDE DEF x, y, z, w, u, v
  <2>6. a * u = x * (a * y)
    BY <2>2, <2>3, SMT
  <2>7. a * v + c = (a * y) * z + (a * w + c)
    BY <2>2, <2>3, SMT
  <2> QED
    BY <2>1, <2>4, <2>5, <2>6, <2>7 DEF x, z
<1>3. S \in SUBSET Nat
  OBVIOUS
<1>4. k \in S
  <2> HIDE DEF S
  <2> QED
    BY <1>1, <1>2, <1>3, Induction
<1> QED
  BY <1>4

(* The same for all of them at once.                                       *)
Composes(A, C) ==
    \A j, k \in Nat : /\ A[j + k] = A[j] * A[k]
                      /\ C[j + k] = A[k] * C[j] + C[k]

LEMMA MapsCompose ==
    ASSUME NEW a \in Int, NEW c \in Int, NEW A, NEW C, StepMaps(A, C, a, c)
    PROVE  Composes(A, C)
BY MapsAdd DEF Composes

(* Products respect congruence as well.                                    *)
LEMMA CongruentProducts ==
    ASSUME NEW x \in Int, NEW y \in Int, NEW u \in Int, NEW v \in Int,
           Congruent(x, y), Congruent(u, v)
    PROVE  Congruent(x * u, y * v)
<1>1. ASSUME NEW M \in Int, NEW k \in Int, NEW h \in Int, x = y + M * k, u = v + M * h
      PROVE  x * u = y * v + M * (y * h + k * v + M * (k * h))
  <2>1. x * u = y * v + y * (M * h) + (M * k) * v + (M * k) * (M * h)
    BY <1>1
  <2>2. y * (M * h) = M * (y * h) /\ (M * k) * v = M * (k * v)
        /\ (M * k) * (M * h) = M * (M * (k * h))
    BY <1>1
  <2> DEFINE p == y * h
             q == k * v
             r == M * (k * h)
  <2>3. p \in Int /\ q \in Int /\ r \in Int
    BY <1>1
  <2> HIDE DEF p, q, r
  <2>4. M * (p + q + r) = M * p + M * q + M * r
    BY <1>1, <2>3
  <2>5. y * v \in Int /\ M * p \in Int /\ M * q \in Int /\ M * r \in Int
    BY <1>1, <2>3
  <2> DEFINE yv == y * v
             xu == x * u
             Mp == M * p
             Mq == M * q
             Mr == M * r
  <2>6. xu = yv + Mp + Mq + Mr
    BY <2>1, <2>2 DEF p, q, r
  <2>7. yv \in Int /\ Mp \in Int /\ Mq \in Int /\ Mr \in Int /\ M * (p + q + r) = Mp + Mq + Mr
    BY <2>4, <2>5
  <2> HIDE DEF yv, xu, Mp, Mq, Mr
  <2>8. xu = yv + M * (p + q + r)
    BY <2>6, <2>7
  <2> QED
    BY <2>8 DEF xu, yv, p, q, r
<1>2. PICK k \in Int : x = y + Modulus * k
  BY DEF Congruent
<1>3. PICK h \in Int : u = v + Modulus * h
  BY DEF Congruent
<1>4. Modulus \in Int
  BY SMT DEF Modulus
<1>5. x * u = y * v + Modulus * (y * h + k * v + Modulus * (k * h))
  BY <1>1, <1>2, <1>3, <1>4
<1>6. y * h + k * v + Modulus * (k * h) \in Int
  BY <1>4
<1> QED
  BY <1>5, <1>6 DEF Congruent

(* The words of m have the values x and y, modulo 2^64.                    *)
Represents(m, x, y) ==
    /\ m \in Affine
    /\ Congruent(Value(m.mult), x)
    /\ Congruent(Value(m.plus), y)

(* A number is congruent to itself.                                        *)
LEMMA SameCongruent == \A x \in Int : Congruent(x, x)
<1> TAKE x \in Int
<1>1. x = x + Modulus * 0
  BY SMT DEF Modulus
<1> QED
  BY <1>1 DEF Congruent

(* A map is that of its values.                                            *)
LEMMA AsRepresented ==
    ASSUME NEW m \in Affine
    PROVE  Represents(m, Value(m.mult), Value(m.plus))
<1>1. m.mult \in Word /\ m.plus \in Word
  BY DEF Affine
<1>2. Value(m.mult) \in Int /\ Value(m.plus) \in Int
  BY <1>1, ValueType
<1> QED
  BY <1>2, SameCongruent DEF Represents

(* The map that the accumulators start from leaves a state as it is.       *)
LEMMA IdentityFacts == Represents(Identity, 1, 0)
<1>1. FromNat(1) \in Word /\ Congruent(Value(FromNat(1)), 1)
  BY FromNatFacts
<1>2. FromNat(0) \in Word /\ Congruent(Value(FromNat(0)), 0)
  BY FromNatFacts
<1> QED
  BY <1>1, <1>2 DEF Represents, Identity, Affine

(* Sums and products of words, modulo 2^64.                                *)
LEMMA AddRepresents ==
    ASSUME NEW a \in Word, NEW b \in Word, NEW x \in Int, NEW y \in Int,
           Congruent(Value(a), x), Congruent(Value(b), y)
    PROVE  Add(a, b) \in Word /\ Congruent(Value(Add(a, b)), x + y)
<1> DEFINE s == Add(a, b)
<1>1. s \in Word /\ Congruent(Value(s), Value(a) + Value(b))
  BY AddFacts
<1> HIDE DEF s
<1>2. Value(a) \in Int /\ Value(b) \in Int /\ Value(s) \in Int
  BY <1>1, ValueType
<1>3. Congruent(Value(a) + Value(b), x + y)
  BY <1>2, Congruence
<1>4. Value(a) + Value(b) \in Int /\ x + y \in Int
  BY <1>2
<1>5. Congruent(Value(s), x + y)
  BY <1>1, <1>2, <1>3, <1>4, Congruence
<1> QED
  BY <1>1, <1>5 DEF s

(* And products.                                                           *)
LEMMA MulRepresents ==
    ASSUME NEW a \in Word, NEW b \in Word, NEW x \in Int, NEW y \in Int,
           Congruent(Value(a), x), Congruent(Value(b), y)
    PROVE  Mul(a, b) \in Word /\ Congruent(Value(Mul(a, b)), x * y)
<1> DEFINE s == Mul(a, b)
<1>1. s \in Word /\ Congruent(Value(s), Value(a) * Value(b))
  BY MulFacts
<1> HIDE DEF s
<1>2. Value(a) \in Int /\ Value(b) \in Int /\ Value(s) \in Int
  BY <1>1, ValueType
<1>3. Congruent(Value(a) * Value(b), x * y)
  BY <1>2, CongruentProducts
<1>4. Value(a) * Value(b) \in Int /\ x * y \in Int
  BY <1>2
<1>5. Congruent(Value(s), x * y)
  BY <1>1, <1>2, <1>3, <1>4, Congruence
<1> QED
  BY <1>1, <1>5 DEF s

(* Twice the steps.                                                        *)
LEMMA SquaredFacts ==
    ASSUME NEW m, NEW x \in Int, NEW y \in Int, Represents(m, x, y)
    PROVE  Represents(Squared(m), x * x, (x + 1) * y)
<1> DEFINE a == m.mult
           b == m.plus
           one == FromNat(1)
           e == Add(a, one)
           p == Mul(a, a)
           q == Mul(e, b)
<1>1. a \in Word /\ b \in Word /\ Congruent(Value(a), x) /\ Congruent(Value(b), y)
  BY DEF Represents, Affine
<1>2. one \in Word /\ Congruent(Value(one), 1)
  BY FromNatFacts
<1>3. Squared(m) = [mult |-> p, plus |-> q]
  BY DEF Squared
<1> HIDE DEF a, b, one
<1>4. p \in Word /\ Congruent(Value(p), x * x)
  BY <1>1, MulRepresents
<1>5. e \in Word /\ Congruent(Value(e), x + 1)
  BY <1>1, <1>2, AddRepresents
<1> HIDE DEF e
<1>6. x + 1 \in Int
  OBVIOUS
<1>7. q \in Word /\ Congruent(Value(q), (x + 1) * y)
  BY <1>1, <1>5, <1>6, MulRepresents
<1> HIDE DEF p, q
<1> QED
  BY <1>3, <1>4, <1>7 DEF Represents, Affine

(* The steps of one map behind those of another.                           *)
LEMMA AccumulatedFacts ==
    ASSUME NEW m, NEW x \in Int, NEW y \in Int, Represents(m, x, y),
           NEW d, NEW u \in Int, NEW v \in Int, Represents(d, u, v)
    PROVE  Represents(Accumulated(m, d), x * u, y * u + v)
<1> DEFINE a == m.mult
           b == m.plus
           f == d.mult
           g == d.plus
           p == Mul(a, f)
           q == Mul(b, f)
           r == Add(q, g)
<1>1. a \in Word /\ b \in Word /\ Congruent(Value(a), x) /\ Congruent(Value(b), y)
  BY DEF Represents, Affine
<1>2. f \in Word /\ g \in Word /\ Congruent(Value(f), u) /\ Congruent(Value(g), v)
  BY DEF Represents, Affine
<1>3. Accumulated(m, d) = [mult |-> p, plus |-> r]
  BY DEF Accumulated
<1> HIDE DEF a, b, f, g
<1>4. p \in Word /\ Congruent(Value(p), x * u)
  BY <1>1, <1>2, MulRepresents
<1>5. q \in Word /\ Congruent(Value(q), y * u)
  BY <1>1, <1>2, MulRepresents
<1> HIDE DEF q
<1>6. y * u \in Int
  OBVIOUS
<1>7. r \in Word /\ Congruent(Value(r), y * u + v)
  BY <1>2, <1>5, <1>6, AddRepresents
<1> HIDE DEF p, r
<1> QED
  BY <1>3, <1>4, <1>7 DEF Represents, Affine

-----------------------------------------------------------------------------
(* Powers of two, and the bits of a word.                                  *)

(* P[b] is 2^b.                                                            *)
Doubles(P) ==
    /\ P \in [Nat -> Nat] /\ P[0] = 1
    /\ \A b \in Nat : P[b + 1] = 2 * P[b]

(* There is such a P.                                                      *)
LEMMA DoublesExist == \E P : Doubles(P)
<1> DEFINE twice == [x \in Nat |-> 2 * x]
           g == [k \in Nat |-> twice]
<1>1. g \in [Nat -> [Nat -> Nat]]
  OBVIOUS
<1>2. ASSUME NEW k \in Nat, NEW x \in Nat PROVE g[k][x] = 2 * x
  OBVIOUS
<1> HIDE DEF g
<1>3. PICK P : Iterates(P, Nat, 1, g)
  BY <1>1, IterationExists
<1>4. Doubles(P)
  BY <1>2, <1>3 DEF Iterates, Doubles
<1> QED
  BY <1>4

(* Eight bits further.                                                     *)
LEMMA DoublesFacts ==
    ASSUME NEW P, Doubles(P), NEW b \in Nat
    PROVE  /\ P[b] \in Nat /\ P[b + 1] = 2 * P[b] /\ P[b + 2] = 4 * P[b] /\ P[b + 3] = 8 * P[b]
           /\ P[b + 4] = 16 * P[b] /\ P[b + 5] = 32 * P[b] /\ P[b + 6] = 64 * P[b]
           /\ P[b + 7] = 128 * P[b] /\ P[b + 8] = 256 * P[b]
<1>1. \A k \in Nat : P[k] \in Nat /\ P[k + 1] = 2 * P[k]
  BY DEF Doubles
<1>2. /\ b + 2 = (b + 1) + 1 /\ b + 3 = (b + 2) + 1 /\ b + 4 = (b + 3) + 1 /\ b + 5 = (b + 4) + 1
      /\ b + 6 = (b + 5) + 1 /\ b + 7 = (b + 6) + 1 /\ b + 8 = (b + 7) + 1
  OBVIOUS
<1>3. /\ b + 1 \in Nat /\ b + 2 \in Nat /\ b + 3 \in Nat /\ b + 4 \in Nat /\ b + 5 \in Nat
      /\ b + 6 \in Nat /\ b + 7 \in Nat
  OBVIOUS
<1>4. P[b + 1] = 2 * P[b] /\ P[b] \in Nat
  BY <1>1
<1>5. P[b + 2] = 2 * P[b + 1]
  BY <1>1, <1>2, <1>3
<1>6. P[b + 3] = 2 * P[b + 2]
  BY <1>1, <1>2, <1>3
<1>7. P[b + 4] = 2 * P[b + 3]
  BY <1>1, <1>2, <1>3
<1>8. P[b + 5] = 2 * P[b + 4]
  BY <1>1, <1>2, <1>3
<1>9. P[b + 6] = 2 * P[b + 5]
  BY <1>1, <1>2, <1>3
<1>10. P[b + 7] = 2 * P[b + 6]
  BY <1>1, <1>2, <1>3
<1>11. P[b + 8] = 2 * P[b + 7]
  BY <1>1, <1>2, <1>3
<1> DEFINE p0 == P[b]
           p1 == P[b + 1]
           p2 == P[b + 2]
           p3 == P[b + 3]
           p4 == P[b + 4]
           p5 == P[b + 5]
           p6 == P[b + 6]
           p7 == P[b + 7]
           p8 == P[b + 8]
<1>12. /\ p0 \in Nat /\ p1 = 2 * p0 /\ p2 = 2 * p1 /\ p3 = 2 * p2 /\ p4 = 2 * p3 /\ p5 = 2 * p4
       /\ p6 = 2 * p5 /\ p7 = 2 * p6 /\ p8 = 2 * p7
  BY <1>4, <1>5, <1>6, <1>7, <1>8, <1>9, <1>10, <1>11
<1> HIDE DEF p0, p1, p2, p3, p4, p5, p6, p7, p8
<1>13. /\ p0 \in Nat /\ p1 = 2 * p0 /\ p2 = 4 * p0 /\ p3 = 8 * p0 /\ p4 = 16 * p0 /\ p5 = 32 * p0
       /\ p6 = 64 * p0 /\ p7 = 128 * p0 /\ p8 = 256 * p0
  BY <1>12, SMT
<1> QED
  BY <1>13 DEF p0, p1, p2, p3, p4, p5, p6, p7, p8

(* The weights of the bytes, and the modulus.                              *)
LEMMA ByteWeights ==
    ASSUME NEW P, Doubles(P)
    PROVE  /\ P[0] = 1 /\ P[8] = 256 /\ P[16] = 65536 /\ P[24] = 16777216 /\ P[32] = 4294967296
           /\ P[40] = 1099511627776 /\ P[48] = 281474976710656 /\ P[56] = 72057594037927936
           /\ P[64] = 18446744073709551616
<1>1. /\ 0 + 8 = 8 /\ 8 + 8 = 16 /\ 16 + 8 = 24 /\ 24 + 8 = 32 /\ 32 + 8 = 40 /\ 40 + 8 = 48
      /\ 48 + 8 = 56 /\ 56 + 8 = 64
  OBVIOUS
<1>2. \A b \in Nat : P[b + 8] = 256 * P[b]
  BY DoublesFacts
<1>3. P[0] = 1
  BY DEF Doubles
<1>4. P[8] = 256
  BY <1>1, <1>2, <1>3
<1>5. P[16] = 65536
  BY <1>1, <1>2, <1>4
<1>6. P[24] = 16777216
  BY <1>1, <1>2, <1>5, SMT
<1>7. P[32] = 4294967296
  BY <1>1, <1>2, <1>6, SMT
<1>8. P[40] = 1099511627776
  BY <1>1, <1>2, <1>7, SMT
<1>9. P[48] = 281474976710656
  BY <1>1, <1>2, <1>8, SMT
<1>10. P[56] = 72057594037927936
  BY <1>1, <1>2, <1>9, SMT
<1>11. P[64] = 18446744073709551616
  <2>1. ASSUME NEW x \in Nat, NEW y \in Nat, x >= 72057594037927936, x <= 72057594037927936, y = 256 * x
        PROVE  y = 18446744073709551616
    <3>1. y >= 18446744073709551616
      BY <2>1, SMT
    <3>2. y <= 18446744073709551616
      BY <2>1, SMT
    <3> QED
      BY <3>1, <3>2, SMT
  <2> DEFINE x == P[56]
             y == P[64]
  <2>2. y = 256 * x /\ x \in Nat /\ y \in Nat
    BY <1>1, <1>2, DoublesFacts
  <2>3. x >= 72057594037927936 /\ x <= 72057594037927936
    BY <1>10, SMT
  <2> HIDE DEF x, y
  <2>4. y = 18446744073709551616
    BY <2>1, <2>2, <2>3, SMT
  <2> QED
    BY <2>4, SMT DEF y
<1> QED
  BY <1>3, <1>4, <1>5, <1>6, <1>7, <1>8, <1>9, <1>10, <1>11, SMT

(* A byte is put together from its bits.                                   *)
LEMMA BitsOfByte ==
    ASSUME NEW d \in 0 .. 255
    PROVE  d = ((d \div 1) % 2) + 2 * ((d \div 2) % 2) + 4 * ((d \div 4) % 2)
                 + 8 * ((d \div 8) % 2) + 16 * ((d \div 16) % 2) + 32 * ((d \div 32) % 2)
                 + 64 * ((d \div 64) % 2)
                 + 128 * ((d \div 128) % 2)
<1> DEFINE x0 == d \div 1
           x1 == d \div 2
           x2 == d \div 4
           x3 == d \div 8
           x4 == d \div 16
           x5 == d \div 32
           x6 == d \div 64
           x7 == d \div 128
<1>1. x0 = d /\ x0 = 2 * x1 + (x0 % 2)
  BY SMT
<1>2. x1 = 2 * x2 + (x1 % 2)
  BY SMT
<1>3. x2 = 2 * x3 + (x2 % 2)
  BY SMT
<1>4. x3 = 2 * x4 + (x3 % 2)
  BY SMT
<1>5. x4 = 2 * x5 + (x4 % 2)
  BY SMT
<1>6. x5 = 2 * x6 + (x5 % 2)
  BY SMT
<1>7. x6 = 2 * x7 + (x6 % 2)
  BY SMT
<1>8. x7 = x7 % 2
  BY SMT
<1>9. x0 \in Int /\ x1 \in Int /\ x2 \in Int /\ x3 \in Int /\ x4 \in Int /\ x5 \in Int /\ x6 \in Int /\ x7 \in Int
  BY SMT
<1> DEFINE b0 == x0 % 2
           b1 == x1 % 2
           b2 == x2 % 2
           b3 == x3 % 2
           b4 == x4 % 2
           b5 == x5 % 2
           b6 == x6 % 2
           b7 == x7 % 2
<1> HIDE DEF x0, x1, x2, x3, x4, x5, x6, x7
<1>10. b0 \in Int /\ b1 \in Int /\ b2 \in Int /\ b3 \in Int /\ b4 \in Int /\ b5 \in Int /\ b6 \in Int /\ b7 \in Int
  BY <1>9
<1>11. /\ x0 = d /\ x0 = 2 * x1 + b0 /\ x1 = 2 * x2 + b1 /\ x2 = 2 * x3 + b2 /\ x3 = 2 * x4 + b3
       /\ x4 = 2 * x5 + b4 /\ x5 = 2 * x6 + b5 /\ x6 = 2 * x7 + b6 /\ x7 = b7
  BY <1>1, <1>2, <1>3, <1>4, <1>5, <1>6, <1>7, <1>8
<1> HIDE DEF b0, b1, b2, b3, b4, b5, b6, b7
<1>12. d = b0 + 2 * b1 + 4 * b2 + 8 * b3 + 16 * b4 + 32 * b5 + 64 * b6 + 128 * b7
  BY <1>9, <1>10, <1>11, SMT
<1> QED
  BY <1>12 DEF b0, b1, b2, b3, b4, b5, b6, b7, x0, x1, x2, x3, x4, x5, x6, x7

(* D[b] is the number that the b lowest bits of delta stand for.           *)
BitsBelow(D, P, delta) ==
    /\ D \in [Nat -> Nat] /\ D[0] = 0
    /\ \A b \in Nat : D[b + 1] = IF BitSet(delta, b) THEN D[b] + P[b] ELSE D[b]

(* There is such a D.                                                      *)
LEMMA BitsExist ==
    ASSUME NEW P, Doubles(P), NEW delta
    PROVE  \E D : BitsBelow(D, P, delta)
<1> DEFINE next(k) == [x \in Nat |-> IF BitSet(delta, k) THEN x + P[k] ELSE x]
           g == [k \in Nat |-> next(k)]
<1>1. \A k \in Nat : P[k] \in Nat
  BY DEF Doubles
<1>2. \A k \in Nat : next(k) \in [Nat -> Nat]
  BY <1>1
<1>3. ASSUME NEW k \in Nat, NEW x \in Nat
      PROVE  g[k][x] = IF BitSet(delta, k) THEN x + P[k] ELSE x
  OBVIOUS
<1> HIDE DEF next
<1>4. g \in [Nat -> [Nat -> Nat]]
  BY <1>2
<1> HIDE DEF g
<1>5. PICK D : Iterates(D, Nat, 0, g)
  BY <1>4, IterationExists
<1>6. BitsBelow(D, P, delta)
  <2>1. \A k \in Nat : D[k] \in Nat /\ D[k + 1] = g[k][D[k]]
    BY <1>5 DEF Iterates
  <2>2. \A k \in Nat : D[k + 1] = IF BitSet(delta, k) THEN D[k] + P[k] ELSE D[k]
    BY <1>3, <2>1
  <2> QED
    BY <1>5, <2>2 DEF BitsBelow, Iterates
<1> QED
  BY <1>6

(* The bits of the byte of weight 256^q.                                   *)
LEMMA BitAt ==
    ASSUME NEW delta, NEW q \in 0 .. 7, NEW d, d = Digit(delta, q)
    PROVE  /\ BitSet(delta, 8 * q + 0) <=> (d \div 1) % 2 = 1
           /\ BitSet(delta, 8 * q + 1) <=> (d \div 2) % 2 = 1
           /\ BitSet(delta, 8 * q + 2) <=> (d \div 4) % 2 = 1
           /\ BitSet(delta, 8 * q + 3) <=> (d \div 8) % 2 = 1
           /\ BitSet(delta, 8 * q + 4) <=> (d \div 16) % 2 = 1
           /\ BitSet(delta, 8 * q + 5) <=> (d \div 32) % 2 = 1
           /\ BitSet(delta, 8 * q + 6) <=> (d \div 64) % 2 = 1
           /\ BitSet(delta, 8 * q + 7) <=> (d \div 128) % 2 = 1
<1> DEFINE t == <<1, 2, 4, 8, 16, 32, 64, 128>>
<1>1. /\ t[1] = 1 /\ t[2] = 2 /\ t[3] = 4 /\ t[4] = 8 /\ t[5] = 16 /\ t[6] = 32 /\ t[7] = 64
      /\ t[8] = 128
  OBVIOUS
<1>2. \A b : BitSet(delta, b) <=> (Digit(delta, b \div 8) \div t[(b % 8) + 1]) % 2 = 1
  BY DEF BitSet
<1> HIDE DEF t
<1>3. ASSUME NEW r \in 0 .. 7 PROVE (8 * q + r) \div 8 = q /\ (8 * q + r) % 8 = r
  BY SMT
<1>4. ASSUME NEW r \in 0 .. 7
      PROVE  BitSet(delta, 8 * q + r) <=> (d \div t[r + 1]) % 2 = 1
  BY <1>2, <1>3
<1>5. /\ 0 + 1 = 1 /\ 1 + 1 = 2 /\ 2 + 1 = 3 /\ 3 + 1 = 4 /\ 4 + 1 = 5 /\ 5 + 1 = 6 /\ 6 + 1 = 7
      /\ 7 + 1 = 8
  OBVIOUS
<1>10. BitSet(delta, 8 * q + 0) <=> (d \div 1) % 2 = 1
  <2>1. BitSet(delta, 8 * q + 0) <=> (d \div t[0 + 1]) % 2 = 1
    BY <1>4
  <2> QED
    BY <1>1, <1>5, <2>1
<1>11. BitSet(delta, 8 * q + 1) <=> (d \div 2) % 2 = 1
  <2>1. BitSet(delta, 8 * q + 1) <=> (d \div t[1 + 1]) % 2 = 1
    BY <1>4
  <2> QED
    BY <1>1, <1>5, <2>1
<1>12. BitSet(delta, 8 * q + 2) <=> (d \div 4) % 2 = 1
  <2>1. BitSet(delta, 8 * q + 2) <=> (d \div t[2 + 1]) % 2 = 1
    BY <1>4
  <2> QED
    BY <1>1, <1>5, <2>1
<1>13. BitSet(delta, 8 * q + 3) <=> (d \div 8) % 2 = 1
  <2>1. BitSet(delta, 8 * q + 3) <=> (d \div t[3 + 1]) % 2 = 1
    BY <1>4
  <2> QED
    BY <1>1, <1>5, <2>1
<1>14. BitSet(delta, 8 * q + 4) <=> (d \div 16) % 2 = 1
  <2>1. BitSet(delta, 8 * q + 4) <=> (d \div t[4 + 1]) % 2 = 1
    BY <1>4
  <2> QED
    BY <1>1, <1>5, <2>1
<1>15. BitSet(delta, 8 * q + 5) <=> (d \div 32) % 2 = 1
  <2>1. BitSet(delta, 8 * q + 5) <=> (d \div t[5 + 1]) % 2 = 1
    BY <1>4
  <2> QED
    BY <1>1, <1>5, <2>1
<1>16. BitSet(delta, 8 * q + 6) <=> (d \div 64) % 2 = 1
  <2>1. BitSet(delta, 8 * q + 6) <=> (d \div t[6 + 1]) % 2 = 1
    BY <1>4
  <2> QED
    BY <1>1, <1>5, <2>1
<1>17. BitSet(delta, 8 * q + 7) <=> (d \div 128) % 2 = 1
  <2>1. BitSet(delta, 8 * q + 7) <=> (d \div t[7 + 1]) % 2 = 1
    BY <1>4
  <2> QED
    BY <1>1, <1>5, <2>1
<1> QED
  BY <1>10, <1>11, <1>12, <1>13, <1>14, <1>15, <1>16, <1>17

(* One more bit, of a weight that is p times that of the bit in its byte.  *)
LEMMA OneBit ==
    ASSUME NEW d \in Int, NEW w \in Nat \ {0}, NEW x \in Int, NEW u \in Int, NEW p \in Int,
           NEW y, y = IF (d \div w) % 2 = 1 THEN x + u ELSE x, u = w * p
    PROVE  y = x + w * (p * ((d \div w) % 2))
<1> DEFINE b == (d \div w) % 2
<1>1. d \div w \in Int
  OBVIOUS
<1>2. b \in 0 .. 1
  <2> DEFINE e == d \div w
  <2>1. e \in Int
    BY <1>1
  <2> HIDE DEF e
  <2>2. e % 2 \in 0 .. 1
    BY <2>1, SMT
  <2> QED
    BY <2>2 DEF e
<1>3. y = IF b = 1 THEN x + u ELSE x
  OBVIOUS
<1> HIDE DEF b
<1>4. ASSUME b = 1 PROVE y = x + w * (p * b)
  BY <1>3, <1>4
<1>5. ASSUME b = 0 PROVE y = x + w * (p * b)
  BY <1>3, <1>5
<1>6. y = x + w * (p * b)
  BY <1>2, <1>4, <1>5
<1> QED
  BY <1>6 DEF b

(* The eight bits of a byte.                                               *)
LEMMA BitsOfDigit ==
    ASSUME NEW P, Doubles(P), NEW delta \in Word, NEW D, BitsBelow(D, P, delta), NEW q \in 0 .. 7
    PROVE  D[8 * q + 8] = D[8 * q] + P[8 * q] * Digit(delta, q)
<1> DEFINE d == Digit(delta, q)
           p == P[8 * q]
           v(r) == D[8 * q + r]
           b(w) == (d \div w) % 2
<1>1. d \in 0 .. 255
  BY DEF Digit, Word, Byte
<1>2. \A i \in Nat : D[i] \in Nat /\ D[i + 1] = IF BitSet(delta, i) THEN D[i] + P[i] ELSE D[i]
  BY DEF BitsBelow
<1>3. /\ p \in Nat /\ P[8 * q + 1] = 2 * p /\ P[8 * q + 2] = 4 * p /\ P[8 * q + 3] = 8 * p
      /\ P[8 * q + 4] = 16 * p /\ P[8 * q + 5] = 32 * p /\ P[8 * q + 6] = 64 * p
      /\ P[8 * q + 7] = 128 * p
  <2> DEFINE i == 8 * q
  <2>1. i \in Nat
    OBVIOUS
  <2> HIDE DEF i
  <2>2. /\ P[i] \in Nat /\ P[i + 1] = 2 * P[i] /\ P[i + 2] = 4 * P[i] /\ P[i + 3] = 8 * P[i]
        /\ P[i + 4] = 16 * P[i] /\ P[i + 5] = 32 * P[i] /\ P[i + 6] = 64 * P[i]
        /\ P[i + 7] = 128 * P[i]
    BY <2>1, DoublesFacts
  <2> QED
    BY <2>2 DEF i
<1>4. /\ BitSet(delta, 8 * q + 0) <=> b(1) = 1
      /\ BitSet(delta, 8 * q + 1) <=> b(2) = 1
      /\ BitSet(delta, 8 * q + 2) <=> b(4) = 1
      /\ BitSet(delta, 8 * q + 3) <=> b(8) = 1
      /\ BitSet(delta, 8 * q + 4) <=> b(16) = 1
      /\ BitSet(delta, 8 * q + 5) <=> b(32) = 1
      /\ BitSet(delta, 8 * q + 6) <=> b(64) = 1
      /\ BitSet(delta, 8 * q + 7) <=> b(128) = 1
  BY BitAt
<1> HIDE DEF d, p
<1>5. ASSUME NEW r \in 0 .. 7, NEW w \in Nat \ {0}, BitSet(delta, 8 * q + r) <=> b(w) = 1,
             P[8 * q + r] = w * p
      PROVE  v(r + 1) = v(r) + w * (p * b(w))
  <2> DEFINE i == 8 * q + r
  <2>1. i \in Nat /\ 8 * q + (r + 1) = i + 1
    OBVIOUS
  <2> HIDE DEF i
  <2>2. D[i] \in Nat /\ D[i + 1] = IF BitSet(delta, i) THEN D[i] + P[i] ELSE D[i]
    BY <1>2, <2>1
  <2>3. D[i + 1] = IF b(w) = 1 THEN D[i] + P[i] ELSE D[i]
    BY <1>5, <2>2 DEF i
  <2>4. P[i] = w * p /\ P[i] \in Int /\ D[i] \in Int /\ p \in Int /\ d \in Int
    BY <1>1, <1>3, <1>5, <2>2 DEF i
  <2>5. D[i + 1] = D[i] + w * (p * b(w))
    BY <2>3, <2>4, OneBit
  <2> QED
    BY <2>1, <2>5 DEF i
<1>6. 8 * q + 0 = 8 * q /\ p = 1 * p
  BY <1>3
<1>7. P[8 * q + 0] = 1 * p
  BY <1>6 DEF p
<1>10. v(0 + 1) = v(0) + 1 * (p * b(1))
  BY <1>4, <1>5, <1>7
<1>11. v(1 + 1) = v(1) + 2 * (p * b(2))
  BY <1>3, <1>4, <1>5
<1>12. v(2 + 1) = v(2) + 4 * (p * b(4))
  BY <1>3, <1>4, <1>5
<1>13. v(3 + 1) = v(3) + 8 * (p * b(8))
  BY <1>3, <1>4, <1>5
<1>14. v(4 + 1) = v(4) + 16 * (p * b(16))
  BY <1>3, <1>4, <1>5
<1>15. v(5 + 1) = v(5) + 32 * (p * b(32))
  BY <1>3, <1>4, <1>5
<1>16. v(6 + 1) = v(6) + 64 * (p * b(64))
  BY <1>3, <1>4, <1>5
<1>17. v(7 + 1) = v(7) + 128 * (p * b(128))
  BY <1>3, <1>4, <1>5
<1>18. d = b(1) + 2 * b(2) + 4 * b(4) + 8 * b(8) + 16 * b(16) + 32 * b(32) + 64 * b(64)
             + 128 * b(128)
  BY <1>1, BitsOfByte
<1>19. /\ b(1) \in Int /\ b(2) \in Int /\ b(4) \in Int /\ b(8) \in Int /\ b(16) \in Int
       /\ b(32) \in Int /\ b(64) \in Int /\ b(128) \in Int
  BY <1>1, SMT
<1>20. \A r \in 0 .. 8 : v(r) \in Int
  BY <1>2
<1> DEFINE b0 == b(1)
           b1 == b(2)
           b2 == b(4)
           b3 == b(8)
           b4 == b(16)
           b5 == b(32)
           b6 == b(64)
           b7 == b(128)
           v0 == v(0)
           v8 == v(8)
<1>21. v8 = v0 + 1 * (p * b0) + 2 * (p * b1) + 4 * (p * b2) + 8 * (p * b3) + 16 * (p * b4)
              + 32 * (p * b5) + 64 * (p * b6) + 128 * (p * b7)
  <2> DEFINE v1 == v(1)
             v2 == v(2)
             v3 == v(3)
             v4 == v(4)
             v5 == v(5)
             v6 == v(6)
             v7 == v(7)
             y0 == p * b0
             y1 == p * b1
             y2 == p * b2
             y3 == p * b3
             y4 == p * b4
             y5 == p * b5
             y6 == p * b6
             y7 == p * b7
  <2>0. /\ 0 + 1 = 1 /\ 1 + 1 = 2 /\ 2 + 1 = 3 /\ 3 + 1 = 4 /\ 4 + 1 = 5 /\ 5 + 1 = 6
        /\ 6 + 1 = 7 /\ 7 + 1 = 8
    OBVIOUS
  <2>2. /\ v0 \in Int /\ v1 \in Int /\ v2 \in Int /\ v3 \in Int /\ v4 \in Int /\ v5 \in Int
        /\ v6 \in Int /\ v7 \in Int /\ v8 \in Int
    BY <1>20
  <2>3. /\ y0 \in Int /\ y1 \in Int /\ y2 \in Int /\ y3 \in Int /\ y4 \in Int /\ y5 \in Int
        /\ y6 \in Int /\ y7 \in Int
    <3>1. p \in Int
      BY <1>3
    <3>2. \A z \in Int : p * z \in Int
      BY <3>1
    <3> QED
      BY <1>19, <3>2
  <2> HIDE DEF b
  <2>1. /\ v1 = v0 + 1 * y0 /\ v2 = v1 + 2 * y1 /\ v3 = v2 + 4 * y2 /\ v4 = v3 + 8 * y3
        /\ v5 = v4 + 16 * y4 /\ v6 = v5 + 32 * y5 /\ v7 = v6 + 64 * y6 /\ v8 = v7 + 128 * y7
    BY <1>10, <1>11, <1>12, <1>13, <1>14, <1>15, <1>16, <1>17
  <2> HIDE DEF v0, v1, v2, v3, v4, v5, v6, v7, v8, y0, y1, y2, y3, y4, y5, y6, y7
  <2>4. v8 = v0 + 1 * y0 + 2 * y1 + 4 * y2 + 8 * y3 + 16 * y4 + 32 * y5 + 64 * y6 + 128 * y7
    BY <2>1, <2>2, <2>3, SMT
  <2> QED
    BY <2>4 DEF y0, y1, y2, y3, y4, y5, y6, y7
<1> HIDE DEF b0, b1, b2, b3, b4, b5, b6, b7
<1>22. p * d = 1 * (p * b0) + 2 * (p * b1) + 4 * (p * b2) + 8 * (p * b3) + 16 * (p * b4)
              + 32 * (p * b5) + 64 * (p * b6) + 128 * (p * b7)
  <2>1. /\ b0 \in Int /\ b1 \in Int /\ b2 \in Int /\ b3 \in Int /\ b4 \in Int /\ b5 \in Int
        /\ b6 \in Int /\ b7 \in Int
    BY <1>19 DEF b0, b1, b2, b3, b4, b5, b6, b7
  <2>2. d = b0 + 2 * b1 + 4 * b2 + 8 * b3 + 16 * b4 + 32 * b5 + 64 * b6 + 128 * b7
    BY <1>18 DEF b0, b1, b2, b3, b4, b5, b6, b7
  <2>3. p \in Int
    BY <1>3
  <2> QED
    BY <2>1, <2>2, <2>3, SMTT(30)
<1>23. v8 = v0 + p * d
  <2>1. /\ b0 \in Int /\ b1 \in Int /\ b2 \in Int /\ b3 \in Int /\ b4 \in Int /\ b5 \in Int
        /\ b6 \in Int /\ b7 \in Int
    BY <1>19 DEF b0, b1, b2, b3, b4, b5, b6, b7
  <2>2. p \in Int /\ v0 \in Int
    BY <1>3, <1>20
  <2> HIDE DEF v0, v8
  <2> DEFINE y0 == p * b0
             y1 == p * b1
             y2 == p * b2
             y3 == p * b3
             y4 == p * b4
             y5 == p * b5
             y6 == p * b6
             y7 == p * b7
             e == p * d
  <2>3. /\ y0 \in Int /\ y1 \in Int /\ y2 \in Int /\ y3 \in Int /\ y4 \in Int /\ y5 \in Int
        /\ y6 \in Int /\ y7 \in Int
    <3>1. \A z \in Int : p * z \in Int
      BY <2>2
    <3> QED
      BY <2>1, <3>1
  <2>4. /\ v8 = v0 + 1 * y0 + 2 * y1 + 4 * y2 + 8 * y3 + 16 * y4 + 32 * y5 + 64 * y6 + 128 * y7
        /\ e = 1 * y0 + 2 * y1 + 4 * y2 + 8 * y3 + 16 * y4 + 32 * y5 + 64 * y6 + 128 * y7
    BY <1>21, <1>22
  <2> HIDE DEF y0, y1, y2, y3, y4, y5, y6, y7, e
  <2>5. v8 = v0 + e
    BY <2>2, <2>3, <2>4, SMT
  <2> QED
    BY <2>5 DEF e
<1> QED
  BY <1>6, <1>23 DEF v0, v8, p, d

(* All the bits of a word are its value.                                   *)
LEMMA BitsValue ==
    ASSUME NEW P, Doubles(P), NEW delta \in Word, NEW D, BitsBelow(D, P, delta)
    PROVE  D[64] = Value(delta)
<1>1. ASSUME NEW q \in 0 .. 7
      PROVE  D[8 * q + 8] = D[8 * q] + P[8 * q] * Digit(delta, q)
  BY BitsOfDigit
<1>2. /\ 8 * 0 = 0 /\ 8 * 1 = 8 /\ 8 * 2 = 16 /\ 8 * 3 = 24 /\ 8 * 4 = 32 /\ 8 * 5 = 40
      /\ 8 * 6 = 48 /\ 8 * 7 = 56 /\ 0 + 8 = 8 /\ 8 + 8 = 16 /\ 16 + 8 = 24 /\ 24 + 8 = 32
      /\ 32 + 8 = 40 /\ 40 + 8 = 48 /\ 48 + 8 = 56 /\ 56 + 8 = 64
  OBVIOUS
<1>3. /\ Digit(delta, 0) = delta[8] /\ Digit(delta, 1) = delta[7] /\ Digit(delta, 2) = delta[6]
      /\ Digit(delta, 3) = delta[5] /\ Digit(delta, 4) = delta[4] /\ Digit(delta, 5) = delta[3]
      /\ Digit(delta, 6) = delta[2] /\ Digit(delta, 7) = delta[1]
  BY DEF Digit
<1>4. D[8] = D[0] + P[0] * delta[8]
  <2>1. D[8 * 0 + 8] = D[8 * 0] + P[8 * 0] * Digit(delta, 0)
    BY <1>1
  <2> QED
    BY <1>2, <1>3, <2>1
<1>5. D[16] = D[8] + P[8] * delta[7]
  <2>1. D[8 * 1 + 8] = D[8 * 1] + P[8 * 1] * Digit(delta, 1)
    BY <1>1
  <2> QED
    BY <1>2, <1>3, <2>1
<1>6. D[24] = D[16] + P[16] * delta[6]
  <2>1. D[8 * 2 + 8] = D[8 * 2] + P[8 * 2] * Digit(delta, 2)
    BY <1>1
  <2> QED
    BY <1>2, <1>3, <2>1
<1>7. D[32] = D[24] + P[24] * delta[5]
  <2>1. D[8 * 3 + 8] = D[8 * 3] + P[8 * 3] * Digit(delta, 3)
    BY <1>1
  <2> QED
    BY <1>2, <1>3, <2>1
<1>8. D[40] = D[32] + P[32] * delta[4]
  <2>1. D[8 * 4 + 8] = D[8 * 4] + P[8 * 4] * Digit(delta, 4)
    BY <1>1
  <2> QED
    BY <1>2, <1>3, <2>1
<1>9. D[48] = D[40] + P[40] * delta[3]
  <2>1. D[8 * 5 + 8] = D[8 * 5] + P[8 * 5] * Digit(delta, 5)
    BY <1>1
  <2> QED
    BY <1>2, <1>3, <2>1
<1>10. D[56] = D[48] + P[48] * delta[2]
  <2>1. D[8 * 6 + 8] = D[8 * 6] + P[8 * 6] * Digit(delta, 6)
    BY <1>1
  <2> QED
    BY <1>2, <1>3, <2>1
<1>11. D[64] = D[56] + P[56] * delta[1]
  <2>1. D[8 * 7 + 8] = D[8 * 7] + P[8 * 7] * Digit(delta, 7)
    BY <1>1
  <2> QED
    BY <1>2, <1>3, <2>1
<1> DEFINE a1 == delta[1]
           a2 == delta[2]
           a3 == delta[3]
           a4 == delta[4]
           a5 == delta[5]
           a6 == delta[6]
           a7 == delta[7]
           a8 == delta[8]
<1>12. /\ a1 \in Int /\ a2 \in Int /\ a3 \in Int /\ a4 \in Int /\ a5 \in Int /\ a6 \in Int
       /\ a7 \in Int /\ a8 \in Int
  BY DigitType
<1> DEFINE d1 == D[8]
           d2 == D[16]
           d3 == D[24]
           d4 == D[32]
           d5 == D[40]
           d6 == D[48]
           d7 == D[56]
           d8 == D[64]
<1>13. /\ d1 \in Int /\ d2 \in Int /\ d3 \in Int /\ d4 \in Int /\ d5 \in Int /\ d6 \in Int
       /\ d7 \in Int /\ d8 \in Int
  BY DEF BitsBelow
<1>14. Value(delta) = a8 + 256 * a7 + 65536 * a6 + 16777216 * a5 + 4294967296 * a4
            + 1099511627776 * a3 + 281474976710656 * a2 + 72057594037927936 * a1
  BY SMT DEF Value
<1>15. D[0] = 0
  BY DEF BitsBelow
<1>16. /\ d1 = 0 + 1 * a8 /\ d2 = d1 + 256 * a7 /\ d3 = d2 + 65536 * a6
       /\ d4 = d3 + 16777216 * a5 /\ d5 = d4 + 4294967296 * a4 /\ d6 = d5 + 1099511627776 * a3
       /\ d7 = d6 + 281474976710656 * a2 /\ d8 = d7 + 72057594037927936 * a1
  BY <1>4, <1>5, <1>6, <1>7, <1>8, <1>9, <1>10, <1>11, <1>15, ByteWeights, SMT
<1> HIDE DEF a1, a2, a3, a4, a5, a6, a7, a8, d1, d2, d3, d4, d5, d6, d7, d8
<1>17. d8 = Value(delta)
  BY <1>12, <1>13, <1>14, <1>16, SMT
<1> QED
  BY <1>17, SMT DEF d8

(* The loop ends behind the highest bit.                                   *)
LEMMA RoundsFacts ==
    ASSUME NEW delta
    PROVE  Rounds(delta) \in 0 .. 64 /\ \A b \in Rounds(delta) .. 63 : ~BitSet(delta, b)
<1> DEFINE T == {r \in 0 .. 64 : \A b \in r .. 63 : ~BitSet(delta, b)}
           Good(r) == (\A b \in r .. 63 : ~BitSet(delta, b)) /\ (r > 0 => BitSet(delta, r - 1))
<1>1. PICK r \in T : \A s \in T : r <= s
  <2>1. 64 \in T
    OBVIOUS
  <2>2. T \in SUBSET Nat
    OBVIOUS
  <2> HIDE DEF T
  <2> QED
    BY <2>1, <2>2, LeastNatural
<1>2. Good(r)
  <2>1. CASE r > 0
    <3>1. r - 1 \in 0 .. 64 /\ ~(r <= r - 1)
      BY <2>1
    <3>2. r - 1 \notin T
      BY <1>1, <3>1
    <3>3. PICK b \in r - 1 .. 63 : BitSet(delta, b)
      BY <3>1, <3>2
    <3>4. b = r - 1
      <4>1. b \in r .. 63 => ~BitSet(delta, b)
        BY <1>1
      <4>2. b \in r - 1 .. 63 /\ b \notin r .. 63
        BY <3>3, <4>1
      <4> QED
        BY <4>2
    <3> QED
      BY <1>1, <3>3, <3>4
  <2>2. CASE ~(r > 0)
    BY <1>1, <2>2
  <2> QED
    BY <2>1, <2>2
<1>3. r \in 0 .. 64
  OBVIOUS
<1>4. Rounds(delta) = CHOOSE i \in 0 .. 64 : Good(i)
  BY DEF Rounds
<1> HIDE DEF Good, T
<1>5. Rounds(delta) \in 0 .. 64 /\ Good(Rounds(delta))
  BY <1>2, <1>3, <1>4
<1> QED
  BY <1>5 DEF Good

(* So all the bits that are set have been visited.                         *)
LEMMA RoundsValue ==
    ASSUME NEW P, Doubles(P), NEW delta \in Word, NEW D, BitsBelow(D, P, delta)
    PROVE  D[Rounds(delta)] = Value(delta)
<1> DEFINE R == Rounds(delta)
           S == {k \in Nat : R + k <= 64 => D[R + k] = D[R]}
<1>1. R \in 0 .. 64 /\ \A b \in R .. 63 : ~BitSet(delta, b)
  BY RoundsFacts
<1> HIDE DEF R
<1>2. \A k \in Nat : k \in S
  <2>1. 0 \in S
    BY <1>1
  <2>2. ASSUME NEW k \in S PROVE k + 1 \in S
    <3>1. SUFFICES ASSUME R + (k + 1) <= 64 PROVE D[R + (k + 1)] = D[R]
      OBVIOUS
    <3>2. R + k \in R .. 63 /\ R + k \in Nat /\ R + k <= 64 /\ R + (k + 1) = (R + k) + 1
      BY <1>1, <3>1
    <3>3. D[(R + k) + 1] = D[R + k]
      BY <1>1, <3>2 DEF BitsBelow
    <3> QED
      BY <3>2, <3>3
  <2>3. S \in SUBSET Nat
    OBVIOUS
  <2> HIDE DEF S
  <2> QED
    BY <2>1, <2>2, <2>3, Induction
<1>3. 64 - R \in Nat /\ R + (64 - R) = 64
  BY <1>1
<1>4. D[64] = D[R]
  BY <1>2, <1>3
<1> QED
  BY <1>4, BitsValue DEF R

-----------------------------------------------------------------------------
(* The loop of the jump.                                                   *)

(* One round of the loop.                                                  *)
LEMMA RoundFacts ==
    ASSUME NEW bit, NEW v \in LoopState
    PROVE  /\ Round(bit)[v] \in LoopState
           /\ Round(bit)[v].cur = Squared(v.cur)
           /\ bit => Round(bit)[v].acc = Accumulated(v.acc, v.cur)
           /\ ~bit => Round(bit)[v].acc = v.acc
<1>1. v.cur \in Affine /\ v.acc \in Affine
  BY DEF LoopState
<1>2. Squared(v.cur) \in Affine
  <2> DEFINE m == v.cur
  <2>1. Represents(m, Value(m.mult), Value(m.plus)) /\ Value(m.mult) \in Int /\ Value(m.plus) \in Int
    BY <1>1, AsRepresented, ValueType DEF Affine
  <2> HIDE DEF m
  <2> QED
    BY <2>1, SquaredFacts DEF Represents, m
<1>3. Accumulated(v.acc, v.cur) \in Affine
  <2> DEFINE m == v.acc
             d == v.cur
  <2>1. Represents(m, Value(m.mult), Value(m.plus)) /\ Value(m.mult) \in Int /\ Value(m.plus) \in Int
    BY <1>1, AsRepresented, ValueType DEF Affine
  <2>2. Represents(d, Value(d.mult), Value(d.plus)) /\ Value(d.mult) \in Int /\ Value(d.plus) \in Int
    BY <1>1, AsRepresented, ValueType DEF Affine
  <2> HIDE DEF m, d
  <2> QED
    BY <2>1, <2>2, AccumulatedFacts DEF Represents, m, d
<1>4. Round(bit)[v] = [cur |-> Squared(v.cur), acc |-> IF bit THEN Accumulated(v.acc, v.cur) ELSE v.acc]
  BY DEF Round
<1> DEFINE w == Round(bit)[v]
           s == Squared(v.cur)
           t == Accumulated(v.acc, v.cur)
<1> HIDE DEF w, s, t
<1>5. w = [cur |-> s, acc |-> IF bit THEN t ELSE v.acc]
  BY <1>4 DEF w, s, t
<1>6. w.cur = s /\ (bit => w.acc = t) /\ (~bit => w.acc = v.acc)
  BY <1>5
<1>7. w \in LoopState
  BY <1>1, <1>2, <1>3, <1>5 DEF LoopState, s, t
<1> QED
  BY <1>6, <1>7 DEF w, s, t

(* loop[b] is what the variables of the loop hold after b rounds.          *)
IsLoop(loop, delta, mult, plus) ==
    loop = [b \in 0 .. 64 |->
               IF b = 0 THEN [cur |-> [mult |-> mult, plus |-> plus], acc |-> Identity]
               ELSE Round(BitSet(delta, b - 1))[loop[b - 1]]]

(* There is such a loop: the recursive function of the jump.               *)
LEMMA LoopExists ==
    ASSUME NEW delta, NEW mult \in Word, NEW plus \in Word
    PROVE  \E loop : IsLoop(loop, delta, mult, plus)
<1> DEFINE m0 == [cur |-> [mult |-> mult, plus |-> plus], acc |-> Identity]
           g == [k \in Nat |-> Round(BitSet(delta, k))]
<1>1. m0 \in LoopState
  BY IdentityFacts DEF LoopState, Affine, Represents
<1>2. g \in [Nat -> [LoopState -> LoopState]]
  <2>1. ASSUME NEW bit PROVE Round(bit) \in [LoopState -> LoopState]
    <3>1. \A v \in LoopState : Round(bit)[v] \in LoopState
      BY RoundFacts
    <3>2. Round(bit) = [v \in LoopState |-> Round(bit)[v]]
      BY DEF Round
    <3> DEFINE f == Round(bit)
    <3> HIDE DEF f
    <3>3. f = [v \in LoopState |-> f[v]] /\ \A v \in LoopState : f[v] \in LoopState
      BY <3>1, <3>2 DEF f
    <3>4. f \in [LoopState -> LoopState]
      BY <3>3
    <3> QED
      BY <3>4 DEF f
  <2> QED
    BY <2>1
<1>3. \A k \in Nat : g[k] = Round(BitSet(delta, k))
  OBVIOUS
<1> HIDE DEF g, m0
<1>4. PICK f : Iterates(f, LoopState, m0, g)
  BY <1>1, <1>2, IterationExists
<1> DEFINE loop == [b \in 0 .. 64 |-> f[b]]
<1>5. ASSUME NEW b \in 0 .. 64
      PROVE  f[b] = IF b = 0 THEN m0 ELSE Round(BitSet(delta, b - 1))[loop[b - 1]]
  <2>1. CASE b = 0
    BY <1>4, <2>1 DEF Iterates
  <2>2. CASE b # 0
    <3>1. b - 1 \in Nat /\ b - 1 \in 0 .. 64 /\ (b - 1) + 1 = b
      BY <2>2
    <3>2. f[(b - 1) + 1] = g[b - 1][f[b - 1]]
      BY <1>4, <3>1 DEF Iterates
    <3>3. g[b - 1] = Round(BitSet(delta, b - 1))
      BY <1>3, <3>1
    <3>4. loop[b - 1] = f[b - 1]
      BY <3>1
    <3> HIDE DEF loop
    <3> QED
      BY <2>2, <3>1, <3>2, <3>3, <3>4
  <2> QED
    BY <2>1, <2>2
<1>6. loop = [b \in 0 .. 64 |-> IF b = 0 THEN m0 ELSE Round(BitSet(delta, b - 1))[loop[b - 1]]]
  BY <1>5
<1>7. IsLoop(loop, delta, mult, plus)
  BY <1>6 DEF IsLoop, m0
<1> QED
  BY <1>7

(* What the loop computes: the map of as many steps as delta says.         *)
LEMMA AccIsSteps ==
    ASSUME NEW delta \in Word, NEW mult \in Word, NEW plus \in Word,
           NEW A, NEW C, StepMaps(A, C, Value(mult), Value(plus))
    PROVE  Represents(calculate_acc_value(delta, mult, plus), A[Value(delta)], C[Value(delta)])
<1> DEFINE a == Value(mult)
           c == Value(plus)
           loop == CHOOSE l : IsLoop(l, delta, mult, plus)
<1>1. a \in Int /\ c \in Int
  BY ValueType
<1>2. calculate_acc_value(delta, mult, plus) = loop[Rounds(delta)].acc
  BY DEF calculate_acc_value, IsLoop
<1>3. IsLoop(loop, delta, mult, plus)
  BY LoopExists
<1>4. StepMaps(A, C, a, c)
  OBVIOUS
<1> HIDE DEF loop, a, c
<1>5. PICK P : Doubles(P)
  BY DoublesExist
<1>6. PICK D : BitsBelow(D, P, delta)
  BY <1>5, BitsExist
<1> DEFINE Holds(b) ==
               /\ loop[b] \in LoopState
               /\ Represents(loop[b].cur, A[P[b]], C[P[b]])
               /\ Represents(loop[b].acc, A[D[b]], C[D[b]])
           S == {b \in Nat : b <= 64 => Holds(b)}
<1>7. /\ A \in [Nat -> Int] /\ C \in [Nat -> Int] /\ A[0] = 1 /\ C[0] = 0
      /\ A[1] = a /\ C[1] = c
  <2>1. A \in [Nat -> Int] /\ C \in [Nat -> Int] /\ A[0] = 1 /\ C[0] = 0
    BY <1>4 DEF StepMaps
  <2>2. A[0 + 1] = a * A[0] /\ C[0 + 1] = a * C[0] + c
    BY <1>4 DEF StepMaps
  <2>3. 0 + 1 = 1
    OBVIOUS
  <2> QED
    BY <1>1, <2>1, <2>2, <2>3
<1>8. \A b \in Nat : P[b] \in Nat /\ D[b] \in Nat
  BY <1>5, <1>6 DEF Doubles, BitsBelow
<1>9. 0 \in S
  <2> DEFINE m0 == [mult |-> mult, plus |-> plus]
  <2>1. loop[0] = [cur |-> m0, acc |-> Identity]
    BY <1>3 DEF IsLoop
  <2>2. m0 \in Affine /\ m0.mult = mult /\ m0.plus = plus
    BY DEF Affine
  <2> HIDE DEF m0
  <2>3. Represents(m0, a, c)
    <3>1. Represents(m0, Value(m0.mult), Value(m0.plus))
      BY <2>2, AsRepresented
    <3> QED
      BY <2>2, <3>1 DEF a, c
  <2>4. P[0] = 1 /\ D[0] = 0
    BY <1>5, <1>6 DEF Doubles, BitsBelow
  <2>5. Identity \in Affine
    BY IdentityFacts DEF Represents
  <2>6. loop[0].cur = m0 /\ loop[0].acc = Identity /\ loop[0] \in LoopState
    BY <2>1, <2>2, <2>5 DEF LoopState
  <2> QED
    BY <1>7, <2>3, <2>4, <2>6, IdentityFacts
<1>10. ASSUME NEW b \in S PROVE b + 1 \in S
  <2>1. SUFFICES ASSUME b + 1 <= 64 PROVE Holds(b + 1)
    OBVIOUS
  <2> DEFINE v == loop[b]
             w == loop[b + 1]
             bit == BitSet(delta, b)
             p == P[b]
             d == D[b]
  <2>2. b \in Nat /\ b \in 0 .. 64 /\ b + 1 \in 0 .. 64 /\ b + 1 # 0 /\ (b + 1) - 1 = b
    BY <2>1
  <2>3. /\ v \in LoopState
        /\ Represents(v.cur, A[p], C[p])
        /\ Represents(v.acc, A[d], C[d])
    BY <2>2
  <2>4. w = Round(bit)[v]
    <3>1. loop[b + 1] = Round(BitSet(delta, (b + 1) - 1))[loop[(b + 1) - 1]]
      BY <1>3, <2>2 DEF IsLoop
    <3> QED
      BY <2>2, <3>1
  <2>5. p \in Nat /\ d \in Nat /\ P[b + 1] = 2 * p
    BY <1>5, <1>8, <2>2 DEF Doubles
  <2>6. D[b + 1] = IF bit THEN d + p ELSE d
    BY <1>6, <2>2 DEF BitsBelow
  <2> HIDE DEF v, w, bit, p, d
  <2>7. /\ w \in LoopState /\ w.cur = Squared(v.cur)
        /\ bit => w.acc = Accumulated(v.acc, v.cur)
        /\ ~bit => w.acc = v.acc
    BY <2>3, <2>4, RoundFacts
  <2>8. A[p] \in Int /\ C[p] \in Int /\ A[d] \in Int /\ C[d] \in Int
    BY <1>7, <2>5
  <2>9. Represents(w.cur, A[2 * p], C[2 * p])
    <3>1. p + p = 2 * p
      BY <2>5
    <3>2. A[p + p] = A[p] * A[p] /\ C[p + p] = A[p] * C[p] + C[p]
      <4>1. ASSUME NEW i \in Nat, NEW k \in Nat
            PROVE  A[i + k] = A[i] * A[k] /\ C[i + k] = A[k] * C[i] + C[k]
        BY <1>1, <1>4, MapsAdd
      <4> QED
        BY <2>5, <4>1, Zenon
    <3>3. A[p] * C[p] + C[p] = (A[p] + 1) * C[p]
      BY <2>8
    <3>4. Represents(Squared(v.cur), A[p] * A[p], (A[p] + 1) * C[p])
      BY <2>3, <2>8, SquaredFacts
    <3> QED
      BY <2>7, <3>1, <3>2, <3>3, <3>4
  <2>10. bit => Represents(w.acc, A[d + p], C[d + p])
    <3>1. A[d + p] = A[d] * A[p] /\ C[d + p] = A[p] * C[d] + C[p]
      BY <1>1, <1>4, <2>5, MapsAdd
    <3>2. A[p] * C[d] + C[p] = C[d] * A[p] + C[p]
      BY <2>8
    <3>3. Represents(Accumulated(v.acc, v.cur), A[d] * A[p], C[d] * A[p] + C[p])
      BY <2>3, <2>8, AccumulatedFacts
    <3> QED
      BY <2>7, <3>1, <3>2, <3>3
  <2>11. Represents(w.acc, A[D[b + 1]], C[D[b + 1]])
    BY <2>3, <2>6, <2>7, <2>10
  <2>12. Represents(w.cur, A[P[b + 1]], C[P[b + 1]])
    BY <2>5, <2>9
  <2> QED
    BY <2>7, <2>11, <2>12 DEF w
<1>11. S \in SUBSET Nat
  OBVIOUS
<1>12. \A b \in 0 .. 64 : Holds(b)
  <2>1. \A b \in Nat : b \in S
    <3> HIDE DEF S
    <3> QED
      BY <1>9, <1>10, <1>11, Induction
  <2> HIDE DEF Holds
  <2> QED
    BY <2>1
<1> DEFINE R == Rounds(delta)
<1>13. R \in 0 .. 64 /\ D[R] = Value(delta)
  BY <1>5, <1>6, RoundsFacts, RoundsValue
<1> HIDE DEF R
<1>14. Represents(loop[R].acc, A[D[R]], C[D[R]])
  BY <1>12, <1>13
<1> QED
  BY <1>2, <1>13, <1>14 DEF R

-----------------------------------------------------------------------------
(* The cycle: 2^64 steps lead back, so numbers of steps count modulo       *)
(* 2^64.                                                                   *)

(* One bit further in the cycle.                                           *)
LEMMA CycleStep ==
    ASSUME NEW p \in Int, NEW x \in Int, NEW y \in Int,
           NEW u \in Int, u = 1 + 2 * (p * x), NEW v \in Int, v = p * y
    PROVE  /\ u * u = 1 + 2 * ((2 * p) * (x + p * (x * x)))
           /\ u * v + v = (2 * p) * (y + (p * x) * y)
<1> DEFINE q == p * x
<1>1. q \in Int /\ u = 1 + 2 * q
  OBVIOUS
<1>2. u * u = 1 + 4 * q + 4 * (q * q)
  <2> HIDE DEF q
  <2> QED
    BY <1>1
<1>3. u * v + v = 2 * v + 2 * (q * v)
  <2> HIDE DEF q
  <2>1. u * v = v + 2 * (q * v)
    BY <1>1
  <2> QED
    BY <1>1, <2>1
<1>4. q * q = p * (p * (x * x))
  OBVIOUS
<1>5. (2 * p) * (x + p * (x * x)) = 2 * q + 2 * (p * (p * (x * x)))
  <2> DEFINE e == x * x
             f == p * e
  <2>1. e \in Int /\ f \in Int
    OBVIOUS
  <2> HIDE DEF e, f
  <2>2. (2 * p) * (x + f) = 2 * (p * x) + 2 * (p * f)
    BY <2>1
  <2> QED
    BY <2>2 DEF e, f
<1>6. (2 * p) * (y + q * y) = 2 * v + 2 * (q * v)
  <2> HIDE DEF q
  <2> DEFINE e == q * y
  <2>1. e \in Int
    BY <1>1
  <2>2. p * e = q * v
    BY <1>1
  <2> HIDE DEF e
  <2>3. (2 * p) * (y + e) = 2 * (p * y) + 2 * (p * e)
    BY <2>1
  <2> QED
    BY <2>2, <2>3 DEF e
<1>7. u * u = 1 + 2 * ((2 * p) * (x + p * (x * x)))
  <2> DEFINE e == q * q
             f == (2 * p) * (x + p * (x * x))
             w == u * u
  <2>1. w = 1 + 4 * q + 4 * e /\ f = 2 * q + 2 * e /\ q \in Int /\ e \in Int
    BY <1>1, <1>2, <1>4, <1>5
  <2> HIDE DEF e, f, w, q
  <2>2. w = 1 + 2 * f
    BY <2>1
  <2> QED
    BY <2>2 DEF w, f
<1> QED
  BY <1>3, <1>6, <1>7

(* With an odd multiplier, 2^64 steps lead back to where they started.     *)
LEMMA FullCycle ==
    ASSUME NEW a \in Int, NEW c \in Int, NEW A, NEW C, StepMaps(A, C, a, c),
           NEW z \in Int, a = 1 + 2 * z
    PROVE  Modulus \in Nat /\ Congruent(A[Modulus], 1) /\ Congruent(C[Modulus], 0)
<1>1. PICK P : Doubles(P)
  BY DoublesExist
<1> DEFINE Holds(b) == \E x, y \in Int : A[P[b]] = 1 + 2 * (P[b] * x) /\ C[P[b]] = P[b] * y
           S == {b \in Nat : Holds(b)}
<1>2. \A k \in Nat : A[k] \in Int /\ C[k] \in Int
  BY DEF StepMaps
<1>3. 0 \in S
  <2>1. A[0 + 1] = a * A[0] /\ C[0 + 1] = a * C[0] + c /\ A[0] = 1 /\ C[0] = 0
    BY DEF StepMaps
  <2>2. A[1] = a /\ C[1] = c
    <3>1. 0 + 1 = 1
      OBVIOUS
    <3> QED
      BY <2>1, <3>1
  <2>3. P[0] = 1
    BY <1>1 DEF Doubles
  <2>4. A[P[0]] = 1 + 2 * (P[0] * z) /\ C[P[0]] = P[0] * c
    <3>1. 1 * z = z /\ 1 * c = c
      OBVIOUS
    <3> QED
      BY <2>2, <2>3, <3>1
  <2> QED
    BY <2>4
<1>4. ASSUME NEW b \in S PROVE b + 1 \in S
  <2> DEFINE p == P[b]
             u == A[p]
             v == C[p]
  <2>1. PICK x \in Int, y \in Int : u = 1 + 2 * (p * x) /\ v = p * y
    OBVIOUS
  <2>2. p \in Nat /\ P[b + 1] = 2 * p
    BY <1>1 DEF Doubles
  <2>3. A[2 * p] = u * u /\ C[2 * p] = u * v + v
    <3>1. Composes(A, C)
      BY MapsCompose
    <3> HIDE DEF p
    <3>2. A[p + p] = A[p] * A[p] /\ C[p + p] = A[p] * C[p] + C[p]
      BY <2>2, <3>1, Zenon DEF Composes
    <3>3. p + p = 2 * p
      BY <2>2
    <3> QED
      BY <3>2, <3>3
  <2>4. u \in Int /\ v \in Int /\ p \in Int
    BY <1>2, <2>2
  <2> HIDE DEF u, v, p
  <2>5. /\ u * u = 1 + 2 * ((2 * p) * (x + p * (x * x)))
        /\ u * v + v = (2 * p) * (y + (p * x) * y)
    BY <2>1, <2>4, CycleStep
  <2> DEFINE x2 == x + p * (x * x)
             y2 == y + (p * x) * y
  <2>6. x2 \in Int /\ y2 \in Int
    BY <2>4
  <2> HIDE DEF x2, y2
  <2>7. A[P[b + 1]] = 1 + 2 * (P[b + 1] * x2) /\ C[P[b + 1]] = P[b + 1] * y2
    BY <2>2, <2>3, <2>5 DEF x2, y2
  <2>8. Holds(b + 1)
    BY <2>6, <2>7
  <2> QED
    BY <2>8
<1>5. Holds(64)
  <2>1. S \in SUBSET Nat
    OBVIOUS
  <2>2. \A b \in Nat : b \in S
    <3> HIDE DEF S
    <3> QED
      BY <1>3, <1>4, <2>1, Induction
  <2> QED
    BY <2>2
<1>6. P[64] = Modulus /\ Modulus \in Nat
  BY <1>1, ByteWeights, SMT DEF Modulus
<1>7. PICK x \in Int, y \in Int : A[Modulus] = 1 + 2 * (Modulus * x) /\ C[Modulus] = Modulus * y
  BY <1>5, <1>6
<1>8. A[Modulus] = 1 + Modulus * (2 * x) /\ C[Modulus] = 0 + Modulus * y /\ 2 * x \in Int
  <2>1. ASSUME NEW M \in Int PROVE 2 * (M * x) = M * (2 * x) /\ M * y = 0 + M * y
    OBVIOUS
  <2> QED
    BY <1>6, <1>7, <2>1
<1> QED
  BY <1>6, <1>8 DEF Congruent

(* Ones and zeros, modulo 2^64.                                            *)
LEMMA Neutral ==
    ASSUME NEW x \in Int, NEW u \in Int, NEW v \in Int, Congruent(u, 1), Congruent(v, 0)
    PROVE  Congruent(x * u, x) /\ Congruent(u * x + v, x)
<1>1. ASSUME NEW M \in Int, NEW k \in Int, NEW h \in Int, u = 1 + M * k, v = 0 + M * h
      PROVE  x * u = x + M * (k * x) /\ u * x + v = x + M * (k * x + h)
  <2>1. x * (M * k) = M * (k * x)
    BY <1>1
  <2> DEFINE e == k * x
             f == M * k
             g == M * h
  <2>2. e \in Int /\ f \in Int /\ g \in Int /\ u = 1 + f /\ v = g /\ x * f = M * e
    BY <1>1, <2>1
  <2>3. M * (e + h) = M * e + g
    <3>1. e \in Int
      BY <2>2
    <3> HIDE DEF e
    <3> QED
      BY <1>1, <3>1
  <2> HIDE DEF e, f, g
  <2>4. x * u = x + x * f /\ u * x = x + x * f
    BY <2>2
  <2>5. M * e \in Int
    BY <1>1, <2>2
  <2> QED
    BY <2>2, <2>3, <2>4, <2>5 DEF e
<1>2. PICK k \in Int : u = 1 + Modulus * k
  BY DEF Congruent
<1>3. PICK h \in Int : v = 0 + Modulus * h
  BY DEF Congruent
<1>4. Modulus \in Int
  BY SMT DEF Modulus
<1>5. x * u = x + Modulus * (k * x) /\ u * x + v = x + Modulus * (k * x + h)
  BY <1>1, <1>2, <1>3, <1>4
<1>6. k * x \in Int /\ k * x + h \in Int
  OBVIOUS
<1> QED
  BY <1>5, <1>6 DEF Congruent

(* And so do multiples of 2^64 steps.                                      *)
LEMMA Cycles ==
    ASSUME NEW a \in Int, NEW c \in Int, NEW A, NEW C, StepMaps(A, C, a, c),
           NEW z \in Int, a = 1 + 2 * z, NEW k \in Nat
    PROVE  /\ Modulus * k \in Nat
           /\ Congruent(A[Modulus * k], 1) /\ Congruent(C[Modulus * k], 0)
<1> DEFINE M == Modulus
           Holds(i) == M * i \in Nat /\ Congruent(A[M * i], 1) /\ Congruent(C[M * i], 0)
           S == {i \in Nat : Holds(i)}
<1>1. M \in Nat /\ Congruent(A[M], 1) /\ Congruent(C[M], 0)
  BY FullCycle
<1>2. \A i \in Nat : A[i] \in Int /\ C[i] \in Int
  BY DEF StepMaps
<1> HIDE DEF M
<1>3. 0 \in S
  <2>1. M * 0 = 0
    BY <1>1
  <2>2. A[0] = 1 /\ C[0] = 0
    BY DEF StepMaps
  <2>3. Congruent(A[0], 1) /\ Congruent(C[0], 0)
    BY <2>2, SameCongruent
  <2> QED
    BY <2>1, <2>3
<1>4. ASSUME NEW i \in S PROVE i + 1 \in S
  <2> DEFINE j == M * i
  <2>1. j \in Nat /\ Congruent(A[j], 1) /\ Congruent(C[j], 0) /\ i \in Nat
    OBVIOUS
  <2>2. M * (i + 1) = j + M /\ j + M \in Nat
    BY <1>1, <2>1
  <2> HIDE DEF j
  <2>3. A[j + M] = A[j] * A[M] /\ C[j + M] = A[M] * C[j] + C[M]
    BY <1>1, <2>1, MapsAdd
  <2>4. A[j] \in Int /\ C[j] \in Int /\ A[M] \in Int /\ C[M] \in Int
    BY <1>1, <1>2, <2>1
  <2>5. /\ Congruent(A[j] * A[M], A[j])
        /\ Congruent(A[M] * C[j] + C[M], C[j])
    BY <1>1, <2>4, Neutral
  <2>6. Congruent(A[j + M], A[j]) /\ Congruent(C[j + M], C[j])
        /\ A[j + M] \in Int /\ C[j + M] \in Int
    BY <1>2, <2>2, <2>3, <2>5
  <2>7. Congruent(A[j + M], 1) /\ Congruent(C[j + M], 0)
    <3>1. 0 \in Int /\ 1 \in Int
      OBVIOUS
    <3> QED
      BY <2>1, <2>4, <2>6, <3>1, Congruence
  <2>10. Holds(i + 1)
    BY <2>2, <2>7
  <2> QED
    BY <2>1, <2>10
<1>5. k \in S
  <2>1. S \in SUBSET Nat
    OBVIOUS
  <2> HIDE DEF S
  <2> QED
    BY <1>3, <1>4, <2>1, Induction
<1> QED
  BY <1>5 DEF M

(* Numbers of steps that are the same modulo 2^64 are the same map.        *)
LEMMA SameSteps ==
    ASSUME NEW a \in Int, NEW c \in Int, NEW A, NEW C, StepMaps(A, C, a, c),
           NEW z \in Int, a = 1 + 2 * z, NEW i \in Nat, NEW j \in Nat, Congruent(i, j)
    PROVE  Congruent(A[i], A[j]) /\ Congruent(C[i], C[j])
<1>0. \A k \in Nat : A[k] \in Int /\ C[k] \in Int
  BY DEF StepMaps
<1>1. ASSUME NEW m \in Nat, NEW k \in Nat
      PROVE  Congruent(A[m + Modulus * k], A[m]) /\ Congruent(C[m + Modulus * k], C[m])
  <2> DEFINE h == Modulus * k
  <2>1. h \in Nat /\ Congruent(A[h], 1) /\ Congruent(C[h], 0)
    BY Cycles
  <2> HIDE DEF h
  <2>2. A[m + h] = A[m] * A[h] /\ C[m + h] = A[h] * C[m] + C[h]
    <3>1. Composes(A, C)
      BY MapsCompose
    <3> QED
      BY <2>1, <3>1, Zenon DEF Composes
  <2>3. A[m] \in Int /\ C[m] \in Int /\ A[h] \in Int /\ C[h] \in Int
    BY <1>0, <2>1
  <2>4. Congruent(A[m] * A[h], A[m])
    BY <2>1, <2>3, Neutral
  <2>5. Congruent(A[h] * C[m] + C[h], C[m])
    BY <2>1, <2>3, Neutral
  <2>9. Congruent(A[m + h], A[m]) /\ Congruent(C[m + h], C[m])
    BY <2>2, <2>4, <2>5
  <2> QED
    BY <2>9 DEF h
<1>2. PICK k \in Int : i = j + Modulus * k
  BY DEF Congruent
<1>3. CASE k >= 0
  <2>1. k \in Nat
    BY <1>3
  <2> QED
    BY <1>1, <1>2, <2>1
<1>4. CASE k < 0
  <2>1. -k \in Nat
    BY <1>4
  <2>2. j = i + Modulus * (-k)
    <3>1. ASSUME NEW M \in Int, i = j + M * k PROVE j = i + M * (-k)
      BY <3>1
    <3>2. Modulus \in Int
      BY SMT DEF Modulus
    <3> QED
      BY <1>2, <3>1, <3>2
  <2>3. Congruent(A[j], A[i]) /\ Congruent(C[j], C[i])
    BY <1>1, <2>1, <2>2
  <2> QED
    BY <1>0, <2>3, Congruence
<1> QED
  BY <1>2, <1>3, <1>4

-----------------------------------------------------------------------------
(* Jumps and seeks.                                                        *)

(* One step, on values.                                                    *)
LEMMA StepOnValues ==
    ASSUME NEW mult \in Word, NEW plus \in Word, NEW A, NEW C,
           StepMaps(A, C, Value(mult), Value(plus)),
           NEW s \in Int, NEW k \in Nat, NEW y \in Word, Congruent(Value(y), A[k] * s + C[k])
    PROVE  /\ Add(Mul(y, mult), plus) \in Word
           /\ Congruent(Value(Add(Mul(y, mult), plus)), A[k + 1] * s + C[k + 1])
<1> DEFINE a == Value(mult)
           c == Value(plus)
           u == A[k]
           v == C[k]
           p == Mul(y, mult)
           w == Add(p, plus)
           e == u * s + v
<1>1. a \in Int /\ c \in Int /\ Congruent(a, a) /\ Congruent(c, c)
  <2>1. a \in Int /\ c \in Int
    BY ValueType
  <2> HIDE DEF a, c
  <2> QED
    BY <2>1, SameCongruent
<1>2. u \in Int /\ v \in Int
  BY DEF StepMaps
<1>3. A[k + 1] = a * u /\ C[k + 1] = a * v + c
  BY DEF StepMaps
<1>4. e \in Int
  BY <1>2
<1>5. Congruent(Value(y), e)
  OBVIOUS
<1> HIDE DEF e
<1>6. p \in Word /\ Congruent(Value(p), e * a)
  BY <1>1, <1>4, <1>5, MulRepresents
<1>7. e * a \in Int
  BY <1>1, <1>4
<1> HIDE DEF p
<1>8. w \in Word /\ Congruent(Value(w), e * a + c)
  BY <1>1, <1>6, <1>7, AddRepresents
<1>9. e * a + c = (a * u) * s + (a * v + c)
  <2> HIDE DEF a, c, u, v
  <2>1. e * a = a * (u * s + v)
    BY <1>1, <1>2 DEF e
  <2> DEFINE f == u * s
  <2>2. f \in Int /\ a * f = (a * u) * s
    BY <1>1, <1>2
  <2> HIDE DEF f
  <2>3. a * (f + v) = a * f + a * v /\ a * f \in Int /\ a * v \in Int
    BY <1>1, <1>2, <2>2
  <2> DEFINE g == a * f
             h == a * v
             i == e * a
  <2>4. i = g + h /\ g \in Int /\ h \in Int /\ g = (a * u) * s
    BY <2>1, <2>2, <2>3 DEF f
  <2> HIDE DEF g, h, i
  <2>5. i + c = g + (h + c)
    BY <1>1, <2>4
  <2> QED
    BY <2>4, <2>5 DEF h, i
<1>10. Congruent(Value(w), A[k + 1] * s + C[k + 1])
  BY <1>3, <1>8, <1>9
<1> QED
  BY <1>8, <1>10 DEF w, p

(* A jump, on values.                                                      *)
LEMMA JumpOnValues ==
    ASSUME NEW delta \in Word, NEW mult \in Word, NEW plus \in Word, NEW A, NEW C,
           StepMaps(A, C, Value(mult), Value(plus)),
           NEW s \in Int, NEW x \in Word, Congruent(Value(x), s)
    PROVE  /\ pcg_advance_lcg_64(x, delta, mult, plus) \in Word
           /\ Congruent(Value(pcg_advance_lcg_64(x, delta, mult, plus)),
                        A[Value(delta)] * s + C[Value(delta)])
<1> DEFINE acc == calculate_acc_value(delta, mult, plus)
           p == Mul(acc.mult, x)
           w == Add(p, acc.plus)
           u == A[Value(delta)]
           v == C[Value(delta)]
<1>1. Represents(acc, u, v)
  BY AccIsSteps
<1>2. pcg_advance_lcg_64(x, delta, mult, plus) = w
  BY DEF pcg_advance_lcg_64
<1>3. u \in Int /\ v \in Int
  BY ValueType DEF StepMaps
<1> HIDE DEF acc, u, v
<1>4. /\ acc.mult \in Word /\ acc.plus \in Word
      /\ Congruent(Value(acc.mult), u) /\ Congruent(Value(acc.plus), v)
  BY <1>1 DEF Represents, Affine
<1>5. p \in Word /\ Congruent(Value(p), u * s)
  BY <1>3, <1>4, MulRepresents
<1>6. u * s \in Int
  BY <1>3
<1> HIDE DEF p
<1>7. w \in Word /\ Congruent(Value(w), u * s + v)
  BY <1>3, <1>4, <1>5, <1>6, AddRepresents
<1> QED
  BY <1>2, <1>7 DEF u, v

(* k steps from the m-th value of a sequence.                              *)
LEMMA IterationValues ==
    ASSUME NEW mult \in Word, NEW plus \in Word, NEW A, NEW C,
           StepMaps(A, C, Value(mult), Value(plus)),
           NEW f \in [Nat -> Word], \A k \in Nat : f[k + 1] = Add(Mul(f[k], mult), plus),
           NEW m \in Nat, NEW i \in Nat
    PROVE  Congruent(Value(f[m + i]), A[i] * Value(f[m]) + C[i])
<1> DEFINE s == Value(f[m])
           Holds(k) == Congruent(Value(f[m + k]), A[k] * s + C[k])
           S == {k \in Nat : Holds(k)}
<1>1. s \in Int
  BY ValueType
<1> HIDE DEF s
<1>2. 0 \in S
  <2>1. A[0] = 1 /\ C[0] = 0
    BY DEF StepMaps
  <2>2. 1 * s + 0 = s /\ m + 0 = m
    BY <1>1
  <2>3. Congruent(s, s)
    BY <1>1, SameCongruent
  <2>4. Congruent(Value(f[m]), s)
    BY <2>3 DEF s
  <2> QED
    BY <2>1, <2>2, <2>4
<1>3. ASSUME NEW k \in S PROVE k + 1 \in S
  <2> DEFINE y == f[m + k]
  <2>1. k \in Nat /\ k + 1 \in Nat /\ m + k \in Nat /\ m + (k + 1) = (m + k) + 1 /\ y \in Word
    OBVIOUS
  <2>2. f[(m + k) + 1] = Add(Mul(y, mult), plus) /\ Congruent(Value(y), A[k] * s + C[k])
    BY <2>1
  <2> HIDE DEF y
  <2>3. Congruent(Value(Add(Mul(y, mult), plus)), A[k + 1] * s + C[k + 1])
    BY <1>1, <2>1, <2>2, StepOnValues
  <2>4. Holds(k + 1)
    BY <2>1, <2>2, <2>3
  <2> QED
    BY <2>1, <2>4
<1>4. i \in S
  <2>1. S \in SUBSET Nat
    OBVIOUS
  <2> HIDE DEF S
  <2> QED
    BY <1>2, <1>3, <2>1, Induction
<1> QED
  BY <1>4 DEF s

(* The logarithmic jump is the iterated step.                              *)
THEOREM JumpExact ==
    ASSUME NEW delta \in Word, NEW mult \in Word, NEW plus \in Word, NEW x \in Word,
           NEW f \in [Nat -> Word], f[0] = x,
           \A k \in Nat : f[k + 1] = Add(Mul(f[k], mult), plus)
    PROVE  pcg_advance_lcg_64(x, delta, mult, plus) = f[Value(delta)]
<1> DEFINE a == Value(mult)
           c == Value(plus)
           s == Value(x)
           j == pcg_advance_lcg_64(x, delta, mult, plus)
           d == Value(delta)
<1>1. a \in Int /\ c \in Int /\ s \in Int /\ d \in Nat
  BY ValueType
<1>2. PICK A, C : StepMaps(A, C, a, c)
  <2> HIDE DEF a, c
  <2> QED
    BY <1>1, MapsExist
<1>3. Congruent(s, s)
  <2> HIDE DEF s
  <2> QED
    BY <1>1, SameCongruent
<1>4. j \in Word /\ Congruent(Value(j), A[d] * s + C[d])
  BY <1>1, <1>2, <1>3, JumpOnValues
<1>5. \A k \in Nat : A[k] \in Int /\ C[k] \in Int
  BY <1>2 DEF StepMaps
<1>6. Congruent(Value(f[d]), A[d] * s + C[d])
  <2>1. Congruent(Value(f[0 + d]), A[d] * Value(f[0]) + C[d])
    BY <1>1, <1>2, IterationValues
  <2>2. 0 + d = d
    BY <1>1
  <2> QED
    BY <2>1, <2>2
<1>7. f[d] \in Word
  BY <1>1
<1>8. Congruent(Value(j), Value(f[d]))
  <2> DEFINE e == A[d] * s + C[d]
             y == Value(j)
             z == Value(f[d])
  <2>1. e \in Int /\ y \in Int /\ z \in Int
    <3>1. A[d] \in Int /\ C[d] \in Int
      BY <1>1, <1>5
    <3>2. e \in Int
      BY <1>1, <3>1
    <3> QED
      BY <1>4, <1>7, <3>2, ValueType
  <2>2. Congruent(y, e) /\ Congruent(z, e)
    BY <1>4, <1>6
  <2> HIDE DEF e, y, z
  <2>3. Congruent(y, z)
    BY <2>1, <2>2, Congruence
  <2> QED
    BY <2>3 DEF y, z
<1> HIDE DEF d, j
<1>9. j = f[d]
  BY <1>4, <1>7, <1>8, SameWord
<1> QED
  BY <1>9 DEF j, d

(* A step on residues: the quotient q is the witness.                      *)
LEMMA StepOnResidues ==
    ASSUME NEW a \in Int, NEW x \in Int, NEW r \in Int, Congruent(x, r), NEW e \in Int,
           NEW t \in Int, NEW q \in Int, a * r + e = t + Modulus * q
    PROVE  Congruent(a * x + e, t)
<1>1. ASSUME NEW M \in Int, NEW k \in Int, x = r + M * k, a * r + e = t + M * q
      PROVE  a * x + e = t + M * (q + a * k)
  <2> DEFINE f == a * k
             g == a * r
             h == a * x
  <2>1. h = g + a * (M * k) /\ a * (M * k) = M * f /\ f \in Int /\ g \in Int
    BY <1>1
  <2>2. g + e = t + M * q
    BY <1>1
  <2> HIDE DEF f, g, h
  <2>3. M * (q + f) = M * q + M * f /\ M * q \in Int /\ M * f \in Int
    BY <1>1, <2>1
  <2> DEFINE u == M * q
             v == M * f
             w == M * (q + f)
  <2>4. h = g + v /\ g + e = t + u /\ w = u + v /\ u \in Int /\ v \in Int
    BY <2>1, <2>2, <2>3
  <2> HIDE DEF u, v, w
  <2>5. h + e = t + w
    BY <2>1, <2>4
  <2> QED
    BY <2>5 DEF h, w, f
<1>2. PICK k \in Int : x = r + Modulus * k
  BY DEF Congruent
<1>3. Modulus \in Int
  BY SMT DEF Modulus
<1>4. a * x + e = t + Modulus * (q + a * k)
  BY <1>1, <1>2, <1>3
<1>5. q + a * k \in Int
  OBVIOUS
<1> QED
  BY <1>4, <1>5 DEF Congruent

(* The constants of a seek are the map of nine steps.                      *)
LEMMA NineSteps ==
    ASSUME NEW A, NEW C, StepMaps(A, C, Value(RNG_A), Value(RNG_INC))
    PROVE  /\ Congruent(A[9], 6584243485182795213)
           /\ Congruent(C[9], 2421600692713375493)
<1> DEFINE a == Value(RNG_A)
           c == Value(RNG_INC)
<1>1. \A k \in Nat : A[k] \in Int /\ C[k] \in Int /\ A[k + 1] = a * A[k] /\ C[k + 1] = a * C[k] + c
  BY DEF StepMaps
<1>2. A[0] = 1 /\ C[0] = 0
  BY DEF StepMaps
<1>6. a \in Int /\ c \in Int
  BY Constants, ValueType
<1>7. a = 6364136223846793005 /\ c = 109
  BY Constants
<1> HIDE DEF a, c
<1>3. ASSUME NEW k \in Nat, NEW r \in Int, Congruent(A[k], r), NEW t \in Int, NEW q \in Int,
             a * r = t + Modulus * q
      PROVE  Congruent(A[k + 1], t)
  <2> DEFINE x == A[k]
             y == A[k + 1]
  <2>1. x \in Int /\ y = a * x /\ Congruent(x, r)
    BY <1>1, <1>3
  <2> HIDE DEF x, y
  <2>2. PICK e \in Int : e = 0
    OBVIOUS
  <2>3. a * r + e = t + Modulus * q
    BY <1>3, <1>6, <2>2
  <2>4. Congruent(a * x + e, t)
    <3>1. x \in Int /\ Congruent(x, r)
      BY <2>1
    <3> QED
      BY <1>6, <2>3, <3>1, StepOnResidues
  <2>5. a * x + e = y
    BY <1>6, <2>1, <2>2
  <2> QED
    BY <2>4, <2>5 DEF y
<1>4. ASSUME NEW k \in Nat, NEW r \in Int, Congruent(C[k], r), NEW t \in Int, NEW q \in Int,
             a * r + c = t + Modulus * q
      PROVE  Congruent(C[k + 1], t)
  <2> DEFINE x == C[k]
             y == C[k + 1]
  <2>1. x \in Int /\ y = a * x + c /\ Congruent(x, r)
    BY <1>1, <1>4
  <2> HIDE DEF x, y
  <2>4. Congruent(a * x + c, t)
    BY <1>4, <1>6, <2>1, StepOnResidues
  <2> QED
    BY <2>1, <2>4 DEF y
<1>5. /\ 0 + 1 = 1 /\ 1 + 1 = 2 /\ 2 + 1 = 3 /\ 3 + 1 = 4 /\ 4 + 1 = 5 /\ 5 + 1 = 6 /\ 6 + 1 = 7
      /\ 7 + 1 = 8 /\ 8 + 1 = 9
  OBVIOUS
<1>10. Congruent(A[0], 1) /\ Congruent(C[0], 0)
  BY <1>2, SameCongruent
<1>11. Congruent(A[1], 6364136223846793005)
  <2>1. PICK r \in Int, t \in Int, q \in Int : r = 1 /\ t = 6364136223846793005 /\ q = 0
    BY SMT
  <2>2. a * r = t + Modulus * q
    BY <1>7, <2>1, SMT DEF Modulus
  <2>3. Congruent(A[0], r)
    BY <1>10, <2>1, SMT
  <2>4. Congruent(A[0 + 1], t)
    BY <1>3, <2>2, <2>3, SMT
  <2> QED
    BY <1>5, <2>1, <2>4, SMT
<1>12. Congruent(A[2], 7520897724310334953)
  <2>1. PICK r \in Int, t \in Int, q \in Int : r = 6364136223846793005 /\ t = 7520897724310334953 /\ q = 2195630281085919242
    BY SMT
  <2>2. a * r = t + Modulus * q
    BY <1>7, <2>1, SMT DEF Modulus
  <2>3. Congruent(A[1], r)
    BY <1>11, <2>1, SMT
  <2>4. Congruent(A[1 + 1], t)
    BY <1>3, <2>2, <2>3, SMT
  <2> QED
    BY <1>5, <2>1, <2>4, SMT
<1>13. Congruent(A[3], 793875393913628917)
  <2>1. PICK r \in Int, t \in Int, q \in Int : r = 7520897724310334953 /\ t = 793875393913628917 /\ q = 2594713595628320003
    BY SMT
  <2>2. a * r = t + Modulus * q
    BY <1>7, <2>1, SMT DEF Modulus
  <2>3. Congruent(A[2], r)
    BY <1>12, <2>1, SMT
  <2>4. Congruent(A[2 + 1], t)
    BY <1>3, <2>2, <2>3, SMT
  <2> QED
    BY <1>5, <2>1, <2>4, SMT
<1>14. Congruent(A[4], 18108194425815612945)
  <2>1. PICK r \in Int, t \in Int, q \in Int : r = 793875393913628917 /\ t = 18108194425815612945 /\ q = 273887420535474915
    BY SMT
  <2>2. a * r = t + Modulus * q
    BY <1>7, <2>1, SMT DEF Modulus
  <2>3. Congruent(A[3], r)
    BY <1>13, <2>1, SMT
  <2>4. Congruent(A[3 + 1], t)
    BY <1>3, <2>2, <2>3, SMT
  <2> QED
    BY <1>5, <2>1, <2>4, SMT
<1>15. Congruent(A[5], 7596774164172298237)
  <2>1. PICK r \in Int, t \in Int, q \in Int : r = 18108194425815612945 /\ t = 7596774164172298237 /\ q = 6247336420633655168
    BY SMT
  <2>2. a * r = t + Modulus * q
    BY <1>7, <2>1, SMT DEF Modulus
  <2>3. Congruent(A[4], r)
    BY <1>14, <2>1, SMT
  <2>4. Congruent(A[4 + 1], t)
    BY <1>3, <2>2, <2>3, SMT
  <2> QED
    BY <1>5, <2>1, <2>4, SMT
<1>16. Congruent(A[6], 17333513496047876729)
  <2>1. PICK r \in Int, t \in Int, q \in Int : r = 7596774164172298237 /\ t = 17333513496047876729 /\ q = 2620891006532516866
    BY SMT
  <2>2. a * r = t + Modulus * q
    BY <1>7, <2>1, SMT DEF Modulus
  <2>3. Congruent(A[5], r)
    BY <1>15, <2>1, SMT
  <2>4. Congruent(A[5 + 1], t)
    BY <1>3, <2>2, <2>3, SMT
  <2> QED
    BY <1>5, <2>1, <2>4, SMT
<1>17. Congruent(A[7], 8758975453663301189)
  <2>1. PICK r \in Int, t \in Int, q \in Int : r = 17333513496047876729 /\ t = 8758975453663301189 /\ q = 5980071100132749616
    BY SMT
  <2>2. a * r = t + Modulus * q
    BY <1>7, <2>1, SMT DEF Modulus
  <2>3. Congruent(A[6], r)
    BY <1>16, <2>1, SMT
  <2>4. Congruent(A[6 + 1], t)
    BY <1>3, <2>2, <2>3, SMT
  <2> QED
    BY <1>5, <2>1, <2>4, SMT
<1>18. Congruent(A[8], 13086856194709077281)
  <2>1. PICK r \in Int, t \in Int, q \in Int : r = 8758975453663301189 /\ t = 13086856194709077281 /\ q = 3021851051096292454
    BY SMT
  <2>2. a * r = t + Modulus * q
    BY <1>7, <2>1, SMT DEF Modulus
  <2>3. Congruent(A[7], r)
    BY <1>17, <2>1, SMT
  <2>4. Congruent(A[7 + 1], t)
    BY <1>3, <2>2, <2>3, SMT
  <2> QED
    BY <1>5, <2>1, <2>4, SMT
<1>19. Congruent(A[9], 6584243485182795213)
  <2>1. PICK r \in Int, t \in Int, q \in Int : r = 13086856194709077281 /\ t = 6584243485182795213 /\ q = 4514972139919395312
    BY SMT
  <2>2. a * r = t + Modulus * q
    BY <1>7, <2>1, SMT DEF Modulus
  <2>3. Congruent(A[8], r)
    BY <1>18, <2>1, SMT
  <2>4. Congruent(A[8 + 1], t)
    BY <1>3, <2>2, <2>3, SMT
  <2> QED
    BY <1>5, <2>1, <2>4, SMT
<1>20. Congruent(C[1], 109)
  <2>1. PICK r \in Int, t \in Int, q \in Int : r = 0 /\ t = 109 /\ q = 0
    BY SMT
  <2>2. a * r + c = t + Modulus * q
    BY <1>7, <2>1, SMT DEF Modulus
  <2>3. Congruent(C[0], r)
    BY <1>10, <2>1, SMT
  <2>4. Congruent(C[0 + 1], t)
    BY <1>4, <2>2, <2>3, SMT
  <2> QED
    BY <1>5, <2>1, <2>4, SMT
<1>21. Congruent(C[2], 11161317672047027862)
  <2>1. PICK r \in Int, t \in Int, q \in Int : r = 109 /\ t = 11161317672047027862 /\ q = 37
    BY SMT
  <2>2. a * r + c = t + Modulus * q
    BY <1>7, <2>1, SMT DEF Modulus
  <2>3. Congruent(C[1], r)
    BY <1>20, <2>1, SMT
  <2>4. Congruent(C[1 + 1], t)
    BY <1>4, <2>2, <2>3, SMT
  <2> QED
    BY <1>5, <2>1, <2>4, SMT
<1>22. Congruent(C[3], 835686304943715019)
  <2>1. PICK r \in Int, t \in Int, q \in Int : r = 11161317672047027862 /\ t = 835686304943715019 /\ q = 3850660356033856275
    BY SMT
  <2>2. a * r + c = t + Modulus * q
    BY <1>7, <2>1, SMT DEF Modulus
  <2>3. Congruent(C[2], r)
    BY <1>21, <2>1, SMT
  <2>4. Congruent(C[2 + 1], t)
    BY <1>4, <2>2, <2>3, SMT
  <2> QED
    BY <1>5, <2>1, <2>4, SMT
<1>23. Congruent(C[4], 13581127946691060508)
  <2>1. PICK r \in Int, t \in Int, q \in Int : r = 835686304943715019 /\ t = 13581127946691060508 /\ q = 288312206415051381
    BY SMT
  <2>2. a * r + c = t + Modulus * q
    BY <1>7, <2>1, SMT DEF Modulus
  <2>3. Congruent(C[3], r)
    BY <1>22, <2>1, SMT
  <2>4. Congruent(C[3 + 1], t)
    BY <1>4, <2>2, <2>3, SMT
  <2> QED
    BY <1>5, <2>1, <2>4, SMT
<1>24. Congruent(C[5], 13572704473670848601)
  <2>1. PICK r \in Int, t \in Int, q \in Int : r = 13581127946691060508 /\ t = 13572704473670848601 /\ q = 4685496149394645203
    BY SMT
  <2>2. a * r + c = t + Modulus * q
    BY <1>7, <2>1, SMT DEF Modulus
  <2>3. Congruent(C[4], r)
    BY <1>23, <2>1, SMT
  <2>4. Congruent(C[4 + 1], t)
    BY <1>4, <2>2, <2>3, SMT
  <2> QED
    BY <1>5, <2>1, <2>4, SMT
<1>25. Congruent(C[6], 11517605051521533714)
  <2>1. PICK r \in Int, t \in Int, q \in Int : r = 13572704473670848601 /\ t = 11517605051521533714 /\ q = 4682590046856207025
    BY SMT
  <2>2. a * r + c = t + Modulus * q
    BY <1>7, <2>1, SMT DEF Modulus
  <2>3. Congruent(C[5], r)
    BY <1>24, <2>1, SMT
  <2>4. Congruent(C[5 + 1], t)
    BY <1>4, <2>2, <2>3, SMT
  <2> QED
    BY <1>5, <2>1, <2>4, SMT
<1>26. Congruent(C[7], 855936528656280727)
  <2>1. PICK r \in Int, t \in Int, q \in Int : r = 11517605051521533714 /\ t = 855936528656280727 /\ q = 3973579685794860297
    BY SMT
  <2>2. a * r + c = t + Modulus * q
    BY <1>7, <2>1, SMT DEF Modulus
  <2>3. Congruent(C[6], r)
    BY <1>25, <2>1, SMT
  <2>4. Congruent(C[6 + 1], t)
    BY <1>4, <2>2, <2>3, SMT
  <2> QED
    BY <1>5, <2>1, <2>4, SMT
<1>27. Congruent(C[8], 14800313218768977912)
  <2>1. PICK r \in Int, t \in Int, q \in Int : r = 855936528656280727 /\ t = 14800313218768977912 /\ q = 295298544044888977
    BY SMT
  <2>2. a * r + c = t + Modulus * q
    BY <1>7, <2>1, SMT DEF Modulus
  <2>3. Congruent(C[7], r)
    BY <1>26, <2>1, SMT
  <2>4. Congruent(C[7 + 1], t)
    BY <1>4, <2>2, <2>3, SMT
  <2> QED
    BY <1>5, <2>1, <2>4, SMT
<1>28. Congruent(C[9], 2421600692713375493)
  <2>1. PICK r \in Int, t \in Int, q \in Int : r = 14800313218768977912 /\ t = 2421600692713375493 /\ q = 5106115697354323286
    BY SMT
  <2>2. a * r + c = t + Modulus * q
    BY <1>7, <2>1, SMT DEF Modulus
  <2>3. Congruent(C[8], r)
    BY <1>27, <2>1, SMT
  <2>4. Congruent(C[8 + 1], t)
    BY <1>4, <2>2, <2>3, SMT
  <2> QED
    BY <1>5, <2>1, <2>4, SMT
<1> QED
  BY <1>19, <1>28, SMT

(* The generator of the test program is that of init_state.h: the same     *)
(* multiplier and increment, and after its seeding the state that lane 0   *)
(* starts from.                                                            *)
LEMMA SeededAsLanes ==
    /\ PCG_DEFAULT_MULTIPLIER_64 = RNG_A
    /\ pcg32_srandom_r(42, 54) = [state |-> INIT_STATE[0], inc |-> RNG_INC]
<1> DEFINE zero == FromNat(0)
           even == FromNat(2 * 54)
           inc == OrOne(even)
           r0 == [state |-> zero, inc |-> inc]
           r1 == pcg32_random_r(r0)
           r2 == [r1 EXCEPT !.state = Add(@, FromNat(42))]
           r3 == pcg32_random_r(r2)
<1>1. PCG_DEFAULT_MULTIPLIER_64 = RNG_A
  BY DEF PCG_DEFAULT_MULTIPLIER_64, RNG_A
<1>2. pcg32_srandom_r(42, 54) = r3
  BY DEF pcg32_srandom_r
<1>3. zero \in Word /\ Congruent(Value(zero), 0) /\ even \in Word /\ Congruent(Value(even), 108)
  BY FromNatFacts
<1> HIDE DEF zero, even
<1>4. inc = RNG_INC
  <2>1. inc \in Word /\ Congruent(Value(inc), 108 + 1)
    BY <1>3, OrOneFacts
  <2>2. Congruent(Value(inc), Value(RNG_INC)) /\ RNG_INC \in Word
    BY <2>1, Constants
  <2> HIDE DEF inc
  <2> QED
    BY <2>1, <2>2, SameWord
<1> HIDE DEF inc
<1>5. ASSUME NEW s \in Word
      PROVE  pcg32_random_r([state |-> s, inc |-> inc]) = [state |-> Step(s), inc |-> inc]
  BY <1>1, <1>4 DEF pcg32_random_r, Step
<1>6. r1 = [state |-> Step(zero), inc |-> inc]
  BY <1>3, <1>5
<1> DEFINE s1 == Step(zero)
           s2 == Add(s1, FromNat(42))
<1>7. s1 \in Word /\ Congruent(Value(s1), 109)
  <2>1. PICK z \in Int : z = Value(zero)
    BY <1>3, ValueType
  <2>2. s1 \in Word /\ Congruent(Value(s1), 6364136223846793005 * z + 109)
    BY <1>3, <2>1, StepFacts
  <2>3. PICK k \in Int : z = 18446744073709551616 * k
    BY <1>3, <2>1, SMT DEF Congruent, Modulus
  <2> HIDE DEF s1
  <2>4. PICK h \in Int : Value(s1) = 6364136223846793005 * z + 109 + 18446744073709551616 * h
    BY <2>2 DEF Congruent, Modulus
  <2> DEFINE g == 6364136223846793005 * k + h
  <2>5. g \in Int
    BY SMT
  <2>6. Value(s1) = 109 + 18446744073709551616 * g
    BY <2>3, <2>4, SMT
  <2> HIDE DEF g
  <2> QED
    BY <2>2, <2>5, <2>6 DEF Congruent, Modulus
<1>8. r2 = [state |-> s2, inc |-> inc]
  <2> HIDE DEF r1
  <2> QED
    BY <1>6
<1> HIDE DEF s1
<1>9. s2 \in Word /\ Congruent(Value(s2), 151)
  <2>1. FromNat(42) \in Word /\ Congruent(Value(FromNat(42)), 42)
    BY FromNatFacts
  <2>2. Add(s1, FromNat(42)) \in Word /\ Congruent(Value(Add(s1, FromNat(42))), 109 + 42)
    BY <1>7, <2>1, AddRepresents
  <2> QED
    BY <2>2
<1> HIDE DEF s2
<1>10. Step(s2) = INIT_STATE[0]
  <2> DEFINE u == Value(s2)
             w == Value(INIT_STATE[0])
  <2>1. PICK k \in Int : u = 151 + 18446744073709551616 * k
    BY <1>9, SMT DEF Congruent, Modulus
  <2>2. w = 1753877967969059832 /\ INIT_STATE[0] \in Word
    BY Seeds DEF Lane, BREAK_NUM
  <2> HIDE DEF u, w
  <2>3. PICK q \in Int : q = 52 + 6364136223846793005 * k
    BY SMT
  <2>4. PICK v \in Int : v = 151 + 18446744073709551616 * k
    BY SMT
  <2>5. 6364136223846793005 * v + 109 = w + 18446744073709551616 * q
    BY <2>2, <2>3, <2>4, SMT
  <2>6. 6364136223846793005 * u + 109 = w + 18446744073709551616 * q
    BY <2>1, <2>4, <2>5, SMT
  <2> QED
    BY <1>9, <2>2, <2>6, StepTo DEF u, w
<1>11. r3 = [state |-> INIT_STATE[0], inc |-> RNG_INC]
  <2> HIDE DEF r2
  <2> QED
    BY <1>4, <1>5, <1>8, <1>9, <1>10
<1> QED
  BY <1>1, <1>2, <1>11

(* The multiplier is odd.                                                  *)
LEMMA OddMultiplier == \E z \in Int : Value(RNG_A) = 1 + 2 * z
<1>1. PICK r \in Int : Value(RNG_A) = RNG_A[8] + 2 * r
  BY Constants, LeastByte
<1>2. RNG_A[8] = 45
  BY DEF RNG_A
<1>3. Value(RNG_A) = 1 + 2 * (22 + r) /\ 22 + r \in Int
  BY <1>1, <1>2
<1> QED
  BY <1>3

(* The state that the merge reads next is n steps from the first.          *)
JumpInv(A, C) ==
    /\ WindowInv
    /\ Congruent(Value(state[lane]), A[n] * Value(INIT_STATE[0]) + C[n])

(* No state has been read at first.                                        *)
LEMMA JumpInvInit ==
    ASSUME NEW A, NEW C, StepMaps(A, C, Value(RNG_A), Value(RNG_INC))
    PROVE  Init => JumpInv(A, C)
<1> SUFFICES ASSUME Init PROVE JumpInv(A, C)
  OBVIOUS
<1> DEFINE s == Value(INIT_STATE[0])
<1>1. INIT_STATE[0] \in Word
  BY Seeds DEF Lane, BREAK_NUM
<1>2. s \in Int
  BY <1>1, ValueType
<1>3. state[lane] = INIT_STATE[0] /\ n = 0
  BY DEF Init
<1> HIDE DEF s
<1>4. Congruent(s, A[0] * s + C[0])
  <2>1. A[0] = 1 /\ C[0] = 0
    BY DEF StepMaps
  <2>2. 1 * s + 0 = s
    BY <1>2
  <2> QED
    BY <1>2, <2>1, <2>2, SameCongruent
<1> QED
  BY <1>3, <1>4, WindowInit DEF JumpInv, s

(* Every state that the merge reads is one step from the last.             *)
LEMMA JumpInvStep ==
    ASSUME NEW A, NEW C, StepMaps(A, C, Value(RNG_A), Value(RNG_INC))
    PROVE  JumpInv(A, C) /\ [Next]_vars => JumpInv(A, C)'
<1> SUFFICES ASSUME JumpInv(A, C), [Next]_vars PROVE JumpInv(A, C)'
  OBVIOUS
<1>1. WindowInv /\ WindowInv'
  BY WindowStep DEF JumpInv
<1>2. CASE UNCHANGED vars
  BY <1>1, <1>2 DEF JumpInv, vars
<1>3. CASE Write
  <2> DEFINE y == state[lane]
             s == Value(INIT_STATE[0])
  <2>1. y \in Word /\ n \in Nat
    BY <1>1 DEF WindowInv, Lane, BREAK_NUM
  <2>2. n' = n + 1 /\ last' = y
    BY <1>3 DEF Write
  <2>3. state'[lane'] = Step(y)
    <3>1. n' > 0 /\ (n' > 0 => state'[lane'] = Step(last'))
      BY <1>1, <2>1, <2>2 DEF WindowInv
    <3> QED
      BY <2>2, <3>1
  <2>4. s \in Int
    BY Seeds, ValueType DEF Lane, BREAK_NUM
  <2>5. Congruent(Value(y), A[n] * s + C[n])
    BY DEF JumpInv
  <2> HIDE DEF y, s
  <2>6. Congruent(Value(Add(Mul(y, RNG_A), RNG_INC)), A[n + 1] * s + C[n + 1])
    BY <2>1, <2>4, <2>5, Constants, StepOnValues
  <2> QED
    BY <1>1, <2>2, <2>3, <2>6 DEF JumpInv, Step, s
<1> QED
  BY <1>2, <1>3 DEF Next

(* A jump from the first state by n, and back.                             *)
LEMMA JumpFromInv ==
    ASSUME NEW A, NEW C, StepMaps(A, C, Value(RNG_A), Value(RNG_INC)), JumpInv(A, C)
    PROVE  /\ pcg_advance_lcg_64(INIT_STATE[0], FromNat(n), RNG_A, RNG_INC) = state[lane]
           /\ pcg_advance_lcg_64(state[lane], Negative(FromNat(n)), RNG_A, RNG_INC)
                = INIT_STATE[0]
<1> DEFINE s == Value(INIT_STATE[0])
           y == state[lane]
           d == Value(FromNat(n))
           e == Value(Negative(FromNat(n)))
           t == A[n] * s + C[n]
           j == pcg_advance_lcg_64(INIT_STATE[0], FromNat(n), RNG_A, RNG_INC)
           i == pcg_advance_lcg_64(y, Negative(FromNat(n)), RNG_A, RNG_INC)
<1>1. y \in Word /\ n \in Nat /\ Congruent(Value(y), t)
  BY DEF JumpInv, WindowInv, Lane, BREAK_NUM
<1>2. INIT_STATE[0] \in Word
  BY Seeds DEF Lane, BREAK_NUM
<1>3. s \in Int /\ Congruent(s, s)
  BY <1>2, ValueType, SameCongruent
<1>4. FromNat(n) \in Word /\ d \in Nat /\ Congruent(d, n)
  BY <1>1, FromNatFacts, ValueType
<1>5. Negative(FromNat(n)) \in Word /\ e \in Nat /\ Congruent(e, -d)
  BY <1>4, NegativeFacts, ValueType
<1>6. RNG_A \in Word /\ RNG_INC \in Word /\ Value(RNG_A) \in Int /\ Value(RNG_INC) \in Int
  BY Constants, ValueType
<1>7. PICK z \in Int : Value(RNG_A) = 1 + 2 * z
  BY OddMultiplier
<1>8. \A k \in Nat : A[k] \in Int /\ C[k] \in Int
  BY DEF StepMaps
<1>9. t \in Int
  BY <1>1, <1>3, <1>8
<1>10. j \in Word /\ Congruent(Value(j), A[d] * s + C[d])
  BY <1>2, <1>3, <1>4, <1>6, JumpOnValues
<1>11. i \in Word /\ Congruent(Value(i), A[e] * t + C[e])
  <2> HIDE DEF t, y
  <2> QED
    BY <1>1, <1>5, <1>6, <1>9, JumpOnValues
<1> HIDE DEF s, y, d, e, i, j
<1>12. j = y
  <2>1. Congruent(A[d], A[n]) /\ Congruent(C[d], C[n])
    BY <1>1, <1>4, <1>6, <1>7, SameSteps
  <2>2. A[d] \in Int /\ C[d] \in Int /\ A[n] \in Int /\ C[n] \in Int
    BY <1>1, <1>4, <1>8
  <2>3. Congruent(A[d] * s, A[n] * s)
    BY <1>3, <2>1, <2>2, CongruentProducts
  <2>4. A[d] * s \in Int /\ A[n] * s \in Int
    BY <1>3, <2>2
  <2>5. Congruent(A[d] * s + C[d], t)
    BY <2>1, <2>2, <2>3, <2>4, Congruence
  <2>6. Value(j) \in Int /\ Value(y) \in Int /\ A[d] * s + C[d] \in Int
    BY <1>1, <1>10, <2>2, <2>4, ValueType
  <2> HIDE DEF t
  <2>7. Congruent(Value(j), t)
    BY <1>9, <1>10, <2>5, <2>6, Congruence
  <2>8. Congruent(Value(j), Value(y))
    BY <1>1, <1>9, <2>6, <2>7, Congruence
  <2> QED
    BY <1>1, <1>10, <2>8, SameWord
<1>13. i = INIT_STATE[0]
  <2>1. Congruent(n + e, 0) /\ n + e \in Nat
    <3>1. PICK k \in Int : d = n + Modulus * k
      BY <1>4 DEF Congruent
    <3>2. PICK h \in Int : e = -d + Modulus * h
      BY <1>5 DEF Congruent
    <3>3. n + e = 0 + Modulus * (h - k) /\ h - k \in Int
      BY <1>1, <1>4, <1>5, <3>1, <3>2, SMT DEF Modulus
    <3> QED
      BY <1>1, <1>5, <3>3 DEF Congruent
  <2> DEFINE m == n + e
  <2>2. A[m] = A[n] * A[e] /\ C[m] = A[e] * C[n] + C[e]
    <3>1. ASSUME NEW p \in Nat, NEW q \in Nat
          PROVE  A[p + q] = A[p] * A[q] /\ C[p + q] = A[q] * C[p] + C[q]
      BY <1>6, MapsAdd
    <3> QED
      BY <1>1, <1>5, <3>1, Zenon
  <2>3. m \in Nat /\ Congruent(m, 0)
    BY <2>1
  <2> HIDE DEF m
  <2>4. Congruent(A[m], A[0]) /\ Congruent(C[m], C[0])
    <3>1. 0 \in Nat
      OBVIOUS
    <3> QED
      BY <1>6, <1>7, <2>3, <3>1, SameSteps
  <2>5. A[0] = 1 /\ C[0] = 0
    BY DEF StepMaps
  <2>6. A[m] \in Int /\ C[m] \in Int /\ A[e] \in Int /\ C[e] \in Int /\ A[n] \in Int /\ C[n] \in Int
    BY <1>1, <1>5, <1>8, <2>3
  <2>7. Congruent(A[m] * s + C[m], s)
    BY <1>3, <2>4, <2>5, <2>6, Neutral
  <2>8. A[e] * t + C[e] = A[m] * s + C[m]
    <3> DEFINE a == A[e]
               b == A[n]
               u == C[n]
               v == C[e]
    <3>1. a \in Int /\ b \in Int /\ u \in Int /\ v \in Int
      BY <2>6
    <3>2. A[m] = b * a /\ C[m] = a * u + v /\ t = b * s + u
      BY <2>2
    <3> HIDE DEF a, b, u, v, t
    <3>3. a * t + v = (b * a) * s + (a * u + v)
      BY <1>3, <3>1, <3>2, SMT
    <3> QED
      BY <3>2, <3>3 DEF a, v
  <2>9. Congruent(Value(i), s)
    <3>1. Congruent(Value(i), A[m] * s + C[m])
      BY <1>11, <2>8
    <3>2. A[m] * s + C[m] \in Int /\ Value(i) \in Int
      BY <1>3, <1>11, <2>6, ValueType
    <3> QED
      BY <1>3, <2>7, <3>1, <3>2, Congruence
  <2> QED
    BY <1>2, <1>11, <2>9, SameWord DEF s
<1> QED
  BY <1>12, <1>13 DEF i, j, y

(* The map of a seek.                                                      *)
LEMMA SeekIsNineSteps ==
    calculate_acc_value(FromNat(SEEK_NUM), RNG_A, RNG_INC)
      = [mult |-> RNG_A_SEEKED, plus |-> RNG_INC_SEEKED]
<1> DEFINE m == calculate_acc_value(FromNat(SEEK_NUM), RNG_A, RNG_INC)
<1>1. PICK A, C : StepMaps(A, C, Value(RNG_A), Value(RNG_INC))
  BY Constants, ValueType, MapsExist
<1>2. FromNat(9) \in Word /\ Value(FromNat(9)) = 9
  <2> DEFINE v == Value(FromNat(9))
  <2>1. FromNat(9) \in Word /\ Congruent(v, 9)
    BY FromNatFacts
  <2>2. v \in Nat /\ v < 18446744073709551616
    BY <2>1, ValueType, SMT DEF Modulus
  <2>3. PICK k \in Int : v = 9 + 18446744073709551616 * k
    BY <2>1 DEF Congruent, Modulus
  <2> HIDE DEF v
  <2>4. k = 0
    BY <2>2, <2>3, SMT
  <2>5. v = 9
    BY <2>3, <2>4, SMT
  <2> QED
    BY <2>1, <2>5 DEF v
<1>3. Represents(m, A[9], C[9])
  <2>1. RNG_A \in Word /\ RNG_INC \in Word
    BY Constants
  <2>2. Represents(calculate_acc_value(FromNat(9), RNG_A, RNG_INC),
                   A[Value(FromNat(9))], C[Value(FromNat(9))])
    BY <1>1, <1>2, <2>1, AccIsSteps
  <2> QED
    BY <1>2, <2>2 DEF SEEK_NUM
<1>4. Congruent(A[9], Value(RNG_A_SEEKED)) /\ Congruent(C[9], Value(RNG_INC_SEEKED))
  BY <1>1, NineSteps, Constants, SMT
<1>5. A[9] \in Int /\ C[9] \in Int
  BY <1>1 DEF StepMaps
<1>6. RNG_A_SEEKED \in Word /\ RNG_INC_SEEKED \in Word
  BY Constants
<1> HIDE DEF m
<1>7. m \in Affine /\ m.mult \in Word /\ m.plus \in Word
  BY <1>3 DEF Represents, Affine
<1>8. Congruent(Value(m.mult), A[9]) /\ Congruent(Value(m.plus), C[9])
  BY <1>3 DEF Represents
<1>9. /\ Value(m.mult) \in Int /\ Value(m.plus) \in Int
      /\ Value(RNG_A_SEEKED) \in Int /\ Value(RNG_INC_SEEKED) \in Int
  BY <1>6, <1>7, ValueType
<1>10. m.mult = RNG_A_SEEKED
  <2>1. Congruent(Value(m.mult), Value(RNG_A_SEEKED))
    <3> DEFINE x == Value(m.mult)
               y == A[9]
               z == Value(RNG_A_SEEKED)
    <3>1. x \in Int /\ y \in Int /\ z \in Int /\ Congruent(x, y) /\ Congruent(y, z)
      BY <1>4, <1>5, <1>8, <1>9
    <3> HIDE DEF x, y, z
    <3>2. Congruent(x, z)
      BY <3>1, Congruence
    <3> QED
      BY <3>2 DEF x, z
  <2> QED
    BY <1>6, <1>7, <2>1, SameWord
<1>11. m.plus = RNG_INC_SEEKED
  <2>1. Congruent(Value(m.plus), Value(RNG_INC_SEEKED))
    <3> DEFINE x == Value(m.plus)
               y == C[9]
               z == Value(RNG_INC_SEEKED)
    <3>1. x \in Int /\ y \in Int /\ z \in Int /\ Congruent(x, y) /\ Congruent(y, z)
      BY <1>4, <1>5, <1>8, <1>9
    <3> HIDE DEF x, y, z
    <3>2. Congruent(x, z)
      BY <3>1, Congruence
    <3> QED
      BY <3>2 DEF x, z
  <2> QED
    BY <1>6, <1>7, <2>1, SameWord
<1>12. m = [mult |-> m.mult, plus |-> m.plus]
  BY <1>7 DEF Affine
<1> QED
  BY <1>10, <1>11, <1>12 DEF m

(* However many states have been written, also beyond 2^64.                *)
THEOREM JumpCorrect == Spec => []JumpIsSteps
<1>1. PICK A, C : StepMaps(A, C, Value(RNG_A), Value(RNG_INC))
  BY Constants, ValueType, MapsExist
<1>2. JumpInv(A, C) => JumpIsSteps
  <2>1. SUFFICES ASSUME JumpInv(A, C) PROVE JumpIsSteps
    OBVIOUS
  <2>2. /\ pcg_advance_lcg_64(INIT_STATE[0], FromNat(n), RNG_A, RNG_INC) = state[lane]
        /\ pcg_advance_lcg_64(state[lane], Negative(FromNat(n)), RNG_A, RNG_INC) = INIT_STATE[0]
    BY <1>1, <2>1, JumpFromInv
  <2> DEFINE rng == pcg32_srandom_r(42, 54)
  <2>3. rng.state = INIT_STATE[0] /\ rng.inc = RNG_INC
    BY SeededAsLanes
  <2> HIDE DEF rng
  <2> QED
    BY <2>2, <2>3, SeededAsLanes, SeekIsNineSteps DEF JumpIsSteps, rng
<1>3. Init => JumpInv(A, C)
  BY <1>1, JumpInvInit
<1>4. JumpInv(A, C) /\ [Next]_vars => JumpInv(A, C)'
  BY <1>1, JumpInvStep
<1> QED
  BY <1>2, <1>3, <1>4, PTL DEF Spec

-----------------------------------------------------------------------------
(* The period.                                                             *)

(* One bit further, with a multiplier that is 1 modulo 4: the increment of *)
(* 2^b steps is 2^b times an odd number.                                   *)
LEMMA OddCycleStep ==
    ASSUME NEW p \in Int, NEW x \in Int, NEW y \in Int,
           NEW u \in Int, u = 1 + 4 * (p * x), NEW v \in Int, v = p * y
    PROVE  /\ u * u = 1 + 4 * ((2 * p) * (x + 2 * (p * (x * x))))
           /\ u * v + v = (2 * p) * (y + 2 * (p * (x * y)))
<1> DEFINE w == 2 * x
<1>1. w \in Int
  OBVIOUS
<1>2. u = 1 + 2 * (p * w)
  OBVIOUS
<1>3. w * w = 4 * (x * x)
  OBVIOUS
<1> HIDE DEF w
<1>4. /\ u * u = 1 + 2 * ((2 * p) * (w + p * (w * w)))
      /\ u * v + v = (2 * p) * (y + (p * w) * y)
  BY <1>1, <1>2, CycleStep
<1>5. w + p * (w * w) = 2 * (x + 2 * (p * (x * x)))
  <2> DEFINE e == x * x
  <2>1. e \in Int /\ w * w = 4 * e
    BY <1>3
  <2> HIDE DEF e
  <2>2. p * (4 * e) = 4 * (p * e) /\ p * e \in Int
    BY <2>1
  <2>3. w = 2 * x
    BY DEF w
  <2> DEFINE f == p * e
  <2>4. f \in Int /\ p * (w * w) = 4 * f
    BY <2>1, <2>2
  <2> HIDE DEF f
  <2>5. w + p * (w * w) = 2 * (x + 2 * f)
    BY <2>3, <2>4
  <2> QED
    BY <2>5 DEF f, e
<1>6. (p * w) * y = 2 * (p * (x * y))
  BY DEF w
<1>7. (2 * p) * (2 * (x + 2 * (p * (x * x)))) = 2 * ((2 * p) * (x + 2 * (p * (x * x))))
  <2> DEFINE f == x + 2 * (p * (x * x))
             g == 2 * p
  <2>1. f \in Int /\ g \in Int
    OBVIOUS
  <2> HIDE DEF f, g
  <2>2. g * (2 * f) = 2 * (g * f)
    BY <2>1
  <2> QED
    BY <2>2 DEF f, g
<1> DEFINE f == (2 * p) * (x + 2 * (p * (x * x)))
<1>8. u * u = 1 + 2 * (2 * f) /\ f \in Int
  BY <1>4, <1>5, <1>7
<1>9. u * u = 1 + 4 * f
  <2> DEFINE g == u * u
  <2>1. g = 1 + 2 * (2 * f)
    BY <1>8
  <2> HIDE DEF f, g
  <2>2. g = 1 + 4 * f
    BY <1>8, <2>1
  <2> QED
    BY <2>2 DEF g
<1> QED
  BY <1>4, <1>6, <1>9

(* y is 1 + 2 r for some r.                                                *)
OddNumber(y) == \E r \in Int : y = 1 + 2 * r

(* The map of p = 2^b steps.                                               *)
PowerMap(u, v, p) ==
    \E x, y \in Int : u = 1 + 4 * (p * x) /\ v = p * y /\ OddNumber(y)

(* The increment of 2^b steps is 2^b times an odd number.                  *)
LEMMA PowersOdd ==
    ASSUME NEW a \in Int, NEW c \in Int, NEW A, NEW C, StepMaps(A, C, a, c),
           NEW z \in Int, a = 1 + 4 * z, OddNumber(c), NEW P, Doubles(P)
    PROVE  \A b \in Nat : PowerMap(A[P[b]], C[P[b]], P[b])
<1> DEFINE S == {b \in Nat : PowerMap(A[P[b]], C[P[b]], P[b])}
<1>1. \A k \in Nat : A[k] \in Int /\ C[k] \in Int
  BY DEF StepMaps
<1>2. 0 \in S
  <2>1. A[0 + 1] = a * A[0] /\ C[0 + 1] = a * C[0] + c /\ A[0] = 1 /\ C[0] = 0
    BY DEF StepMaps
  <2>2. A[1] = a /\ C[1] = c
    <3>1. 0 + 1 = 1
      OBVIOUS
    <3> QED
      BY <2>1, <3>1
  <2>3. P[0] = 1
    BY DEF Doubles
  <2>4. A[P[0]] = 1 + 4 * (P[0] * z) /\ C[P[0]] = P[0] * c
    <3>1. 1 * z = z /\ 1 * c = c
      OBVIOUS
    <3> QED
      BY <2>2, <2>3, <3>1
  <2>5. PowerMap(A[P[0]], C[P[0]], P[0])
    BY <2>4 DEF PowerMap
  <2> QED
    BY <2>5
<1>3. ASSUME NEW b \in S PROVE b + 1 \in S
  <2> DEFINE p == P[b]
             u == A[p]
             v == C[p]
  <2>0. PowerMap(u, v, p)
    OBVIOUS
  <2>1. PICK x \in Int, y \in Int : u = 1 + 4 * (p * x) /\ v = p * y /\ OddNumber(y)
    BY <2>0 DEF PowerMap
  <2>2. p \in Nat /\ P[b + 1] = 2 * p
    BY DEF Doubles
  <2>3. A[2 * p] = u * u /\ C[2 * p] = u * v + v
    <3>1. Composes(A, C)
      BY MapsCompose
    <3> HIDE DEF p
    <3>2. A[p + p] = A[p] * A[p] /\ C[p + p] = A[p] * C[p] + C[p]
      BY <2>2, <3>1, Zenon DEF Composes
    <3>3. p + p = 2 * p
      BY <2>2
    <3> QED
      BY <3>2, <3>3
  <2>4. u \in Int /\ v \in Int /\ p \in Int
    BY <1>1, <2>2
  <2> HIDE DEF u, v, p
  <2> DEFINE x2 == x + 2 * (p * (x * x))
             y2 == y + 2 * (p * (x * y))
  <2>5. /\ u * u = 1 + 4 * ((2 * p) * x2)
        /\ u * v + v = (2 * p) * y2
    BY <2>1, <2>4, OddCycleStep
  <2>6. x2 \in Int /\ y2 \in Int
    <3>1. p * (x * x) \in Int /\ p * (x * y) \in Int
      BY <2>4
    <3> QED
      BY <3>1
  <2>7. OddNumber(y2)
    <3>1. PICK r \in Int : y = 1 + 2 * r
      BY <2>1 DEF OddNumber
    <3> DEFINE e == p * (x * y)
    <3>2. e \in Int
      BY <2>4
    <3> HIDE DEF e
    <3>3. y + 2 * e = 1 + 2 * (r + e) /\ r + e \in Int
      BY <3>1, <3>2
    <3> QED
      BY <3>3 DEF OddNumber, e
  <2> HIDE DEF x2, y2
  <2>8. A[P[b + 1]] = 1 + 4 * (P[b + 1] * x2) /\ C[P[b + 1]] = P[b + 1] * y2
    BY <2>2, <2>3, <2>5
  <2>9. PowerMap(A[P[b + 1]], C[P[b + 1]], P[b + 1])
    BY <2>6, <2>7, <2>8 DEF PowerMap
  <2> QED
    BY <2>9
<1>4. S \in SUBSET Nat
  OBVIOUS
<1>5. \A b \in Nat : b \in S
  <2> HIDE DEF S
  <2> QED
    BY <1>2, <1>3, <1>4, Induction
<1> QED
  BY <1>5

(* The map of m times p steps: its increment is p times an odd number if m *)
(* is odd.                                                                 *)
MultipleMap(u, v, p, m) ==
    \E x, y, t \in Int : u = 1 + 4 * (p * x) /\ v = p * y /\ y = m + 2 * t

(* So is that of an odd number of 2^b steps.                               *)
LEMMA OddMultiples ==
    ASSUME NEW a \in Int, NEW c \in Int, NEW A, NEW C, StepMaps(A, C, a, c),
           NEW p \in Nat, PowerMap(A[p], C[p], p), NEW m \in Nat
    PROVE  MultipleMap(A[p * m], C[p * m], p, m)
<1> DEFINE Holds(i) == \E x, y, t \in Int : /\ A[p * i] = 1 + 4 * (p * x) /\ C[p * i] = p * y
                                            /\ y = i + 2 * t
           S == {i \in Nat : Holds(i)}
<1>1. \A k \in Nat : A[k] \in Int /\ C[k] \in Int
  BY DEF StepMaps
<1>2. PICK x1 \in Int, y1 \in Int : A[p] = 1 + 4 * (p * x1) /\ C[p] = p * y1 /\ OddNumber(y1)
  BY DEF PowerMap
<1>3. PICK r \in Int : y1 = 1 + 2 * r
  BY <1>2 DEF OddNumber
<1>4. 0 \in S
  <2>1. A[0] = 1 /\ C[0] = 0
    BY DEF StepMaps
  <2>2. p * 0 = 0 /\ 4 * 0 = 0 /\ 2 * 0 = 0 /\ 1 + 0 = 1 /\ 0 + 0 = 0
    OBVIOUS
  <2>3. A[p * 0] = 1 + 4 * (p * 0) /\ C[p * 0] = p * 0 /\ 0 = 0 + 2 * 0
    BY <2>1, <2>2
  <2>4. Holds(0)
    BY <2>3
  <2> QED
    BY <2>4
<1>5. ASSUME NEW i \in S PROVE i + 1 \in S
  <2>1. PICK x \in Int, y \in Int, t \in Int :
          A[p * i] = 1 + 4 * (p * x) /\ C[p * i] = p * y /\ y = i + 2 * t
    OBVIOUS
  <2> DEFINE q == p * i
  <2>2. q \in Nat /\ p * (i + 1) = q + p /\ i \in Nat
    BY NatTimes
  <2>3. A[q + p] = A[q] * A[p] /\ C[q + p] = A[p] * C[q] + C[p]
    <3>1. Composes(A, C)
      BY MapsCompose
    <3> HIDE DEF q
    <3> QED
      BY <2>2, <3>1, Zenon DEF Composes
  <2>4. A[q] = 1 + 4 * (p * x) /\ C[q] = p * y
    BY <2>1
  <2> HIDE DEF q
  <2> DEFINE e == p * (x * x1)
             f == p * (x1 * y)
             x2 == x + x1 + 4 * e
             y2 == y1 + y + 4 * f
             t2 == t + r + 2 * f
  <2>5. e \in Int /\ f \in Int
    OBVIOUS
  <2>6. A[q + p] = 1 + 4 * (p * x2)
    <3> DEFINE g == p * x
               h == p * x1
    <3>1. g \in Int /\ h \in Int /\ A[q] = 1 + 4 * g /\ A[p] = 1 + 4 * h
      BY <1>2, <2>4
    <3>2. g * h = p * e
      OBVIOUS
    <3>3. p * x2 = g + h + 4 * (p * e)
      <4> HIDE DEF e
      <4> QED
        BY <2>5
    <3> HIDE DEF g, h, x2
    <3>4. (1 + 4 * g) * (1 + 4 * h) = 1 + 4 * (g + h + 4 * (g * h))
      BY <3>1, SMT
    <3> QED
      BY <2>3, <3>1, <3>2, <3>3, <3>4
  <2>7. C[q + p] = p * y2
    <3> DEFINE g == p * y
               h == p * y1
               k == p * x1
    <3>1. g \in Int /\ h \in Int /\ k \in Int /\ C[q] = g /\ C[p] = h /\ A[p] = 1 + 4 * k
      BY <1>2, <2>4
    <3>2. k * g = p * f
      OBVIOUS
    <3>3. p * y2 = h + g + 4 * (p * f)
      <4> HIDE DEF f
      <4> QED
        BY <2>5
    <3> HIDE DEF g, h, k, y2
    <3>4. (1 + 4 * k) * g + h = h + g + 4 * (k * g)
      BY <3>1, SMT
    <3> QED
      BY <2>3, <3>1, <3>2, <3>3, <3>4
  <2> HIDE DEF e, f
  <2>8. x2 \in Int /\ y2 \in Int /\ t2 \in Int /\ y2 = (i + 1) + 2 * t2
    BY <1>3, <2>1, <2>2, <2>5
  <2> HIDE DEF x2, y2, t2
  <2>9. Holds(i + 1)
    BY <2>2, <2>6, <2>7, <2>8
  <2> QED
    BY <2>2, <2>9
<1>6. m \in S
  <2>1. S \in SUBSET Nat
    OBVIOUS
  <2> HIDE DEF S
  <2> QED
    BY <1>4, <1>5, <2>1, Induction
<1> QED
  BY <1>6 DEF MultipleMap

(* 2^(b + d) is 2^b times 2^d.                                             *)
LEMMA DoublesAdd ==
    ASSUME NEW P, Doubles(P), NEW i \in Nat, NEW j \in Nat
    PROVE  P[i + j] = P[i] * P[j] /\ P[i] \in Nat \ {0}
<1> DEFINE S == {k \in Nat : P[i + k] = P[i] * P[k]}
           T == {k \in Nat : P[k] # 0}
<1>1. P[0] = 1 /\ \A k \in Nat : P[k] \in Nat /\ P[k + 1] = 2 * P[k]
  BY DEF Doubles
<1>2. 0 \in S
  <2>1. i + 0 = i /\ P[i] * 1 = P[i]
    BY <1>1
  <2> QED
    BY <1>1, <2>1
<1>3. ASSUME NEW k \in S PROVE k + 1 \in S
  <2>1. k \in Nat /\ k + 1 \in Nat /\ i + k \in Nat /\ i + (k + 1) = (i + k) + 1
    OBVIOUS
  <2>2. P[(i + k) + 1] = 2 * P[i + k] /\ P[k + 1] = 2 * P[k] /\ P[i + k] = P[i] * P[k]
    BY <1>1, <2>1
  <2>3. P[i] \in Int /\ P[k] \in Int
    BY <1>1, <2>1
  <2>4. 2 * (P[i] * P[k]) = P[i] * (2 * P[k])
    BY <2>3
  <2> QED
    BY <2>1, <2>2, <2>4
<1>4. j \in S
  <2>1. S \in SUBSET Nat
    OBVIOUS
  <2> HIDE DEF S
  <2> QED
    BY <1>2, <1>3, <2>1, Induction
<1>5. i \in T
  <2>1. 0 \in T
    BY <1>1
  <2>2. ASSUME NEW k \in T PROVE k + 1 \in T
    BY <1>1
  <2>3. T \in SUBSET Nat
    OBVIOUS
  <2> HIDE DEF T
  <2> QED
    BY <2>1, <2>2, <2>3, Induction
<1> QED
  BY <1>1, <1>4, <1>5

(* A smaller power of two goes into 2^64 an even number of times.          *)
LEMMA PowersDivide ==
    ASSUME NEW P, Doubles(P), NEW b \in 0 .. 63
    PROVE  \E q \in Int : Modulus = P[b] * (2 * q)
<1>1. 63 - b \in Nat /\ b \in Nat /\ 64 - b \in Nat /\ b + (64 - b) = 64 /\ (63 - b) + 1 = 64 - b
  OBVIOUS
<1>2. P[b + (64 - b)] = P[b] * P[64 - b]
  <2> DEFINE j == 64 - b
  <2>1. j \in Nat
    BY <1>1
  <2> HIDE DEF j
  <2> QED
    BY <1>1, <2>1, DoublesAdd DEF j
<1>3. P[(63 - b) + 1] = 2 * P[63 - b] /\ P[63 - b] \in Nat
  BY <1>1 DEF Doubles
<1>4. P[64] = Modulus
  BY ByteWeights, SMT DEF Modulus
<1>5. Modulus = P[b] * (2 * P[63 - b])
  BY <1>1, <1>2, <1>3, <1>4
<1> QED
  BY <1>3, <1>5

(* A positive number below 2^64 is an odd multiple of a power of two.      *)
LEMMA OddPart ==
    ASSUME NEW P, Doubles(P), NEW k \in Nat, k # 0, k < Modulus
    PROVE  \E b \in 0 .. 63 : \E m \in Nat : k = P[b] * m /\ OddNumber(m)
<1> DEFINE T == {b \in Nat : ~ \E m \in Nat : k = P[b] * m}
<1>1. 64 \in T
  <2>1. ASSUME NEW m \in Nat, k = P[64] * m PROVE FALSE
    <3>1. k = 18446744073709551616 * m
      BY <2>1, ByteWeights, SMT
    <3>2. k < 18446744073709551616
      BY SMT DEF Modulus
    <3> QED
      BY <3>1, <3>2, SMT
  <2> QED
    BY <2>1
<1>2. PICK c \in T : \A b \in T : c <= b
  <2>1. T \in SUBSET Nat
    OBVIOUS
  <2> HIDE DEF T
  <2> QED
    BY <1>1, <2>1, LeastNatural
<1>3. P[0] = 1 /\ \A b \in Nat : P[b] \in Nat /\ P[b + 1] = 2 * P[b]
  BY DEF Doubles
<1>4. 0 \notin T
  <2>1. k = 1 * k
    OBVIOUS
  <2> QED
    BY <1>3, <2>1
<1> DEFINE b == c - 1
<1>5. b \in 0 .. 63 /\ b \in Nat /\ b + 1 = c /\ ~(c <= b)
  <2>1. c \in Nat /\ c # 0 /\ c <= 64
    BY <1>1, <1>2, <1>4
  <2> QED
    BY <2>1
<1> HIDE DEF b
<1>6. b \notin T
  BY <1>2, <1>5
<1>7. PICK m \in Nat : k = P[b] * m
  BY <1>5, <1>6
<1>8. OddNumber(m)
  <2>1. CASE m % 2 = 1
    <3>1. m = 1 + 2 * (m \div 2) /\ m \div 2 \in Int
      BY <2>1
    <3> QED
      BY <3>1 DEF OddNumber
  <2>2. CASE m % 2 # 1
    <3>1. m = 2 * (m \div 2) /\ m \div 2 \in Nat
      BY <2>2
    <3> DEFINE h == m \div 2
    <3>2. h \in Nat /\ m = 2 * h
      BY <3>1
    <3> HIDE DEF h
    <3>3. k = (2 * P[b]) * h
      <4>1. P[b] \in Int
        BY <1>3, <1>5
      <4>2. P[b] * (2 * h) = (2 * P[b]) * h
        BY <3>2, <4>1
      <4> QED
        BY <1>7, <3>2, <4>2
    <3>4. P[c] = 2 * P[b]
      BY <1>3, <1>5
    <3>5. k = P[c] * h
      BY <3>3, <3>4
    <3> QED
      BY <1>2, <3>2, <3>5
  <2> QED
    BY <2>1, <2>2
<1> QED
  BY <1>5, <1>7, <1>8

(* So fewer than 2^64 steps never lead back.                               *)
LEMMA NoShortCycle ==
    ASSUME NEW a \in Int, NEW c \in Int, NEW A, NEW C, StepMaps(A, C, a, c),
           NEW z \in Int, a = 1 + 4 * z, OddNumber(c),
           NEW s \in Int, NEW k \in Nat, k # 0, k < Modulus
    PROVE  ~ Congruent(A[k] * s + C[k], s)
<1> SUFFICES ASSUME Congruent(A[k] * s + C[k], s) PROVE FALSE
  OBVIOUS
<1>1. PICK P : Doubles(P)
  BY DoublesExist
<1>2. PICK b \in 0 .. 63, m \in Nat : k = P[b] * m /\ OddNumber(m)
  BY <1>1, OddPart
<1> DEFINE p == P[b]
<1>3. b \in Nat /\ p \in Nat \ {0}
  BY <1>1, DoublesAdd
<1>4. PowerMap(A[p], C[p], p)
  BY <1>1, <1>3, PowersOdd
<1>5. PICK q \in Int : Modulus = p * (2 * q)
  BY <1>1, PowersDivide
<1>6. k = p * m
  BY <1>2
<1> HIDE DEF p
<1>7. PICK x \in Int, y \in Int, t \in Int :
         A[p * m] = 1 + 4 * (p * x) /\ C[p * m] = p * y /\ y = m + 2 * t
  <2>1. MultipleMap(A[p * m], C[p * m], p, m)
    BY <1>3, <1>4, OddMultiples
  <2> QED
    BY <2>1 DEF MultipleMap
<1>8. PICK r \in Int : m = 1 + 2 * r
  BY <1>2 DEF OddNumber
<1>9. PICK h \in Int : A[k] * s + C[k] = s + Modulus * h
  BY DEF Congruent
<1>10. A[k] = 1 + 4 * (p * x) /\ C[k] = p * y
  BY <1>6, <1>7
<1> DEFINE e == x * s
           f == q * h
           g == 4 * e + y
<1>11. e \in Int /\ f \in Int /\ g \in Int
  OBVIOUS
<1>12. A[k] * s + C[k] = s + p * g
  <2>1. (p * x) * s = p * e
    BY <1>3
  <2> DEFINE u == p * x
             v == p * y
  <2>2. u \in Int /\ v \in Int /\ A[k] = 1 + 4 * u /\ C[k] = v
    BY <1>3, <1>10
  <2>3. p * g = 4 * (p * e) + v
    <3> HIDE DEF e
    <3> QED
      BY <1>3, <1>11
  <2> HIDE DEF u, v, g, e
  <2>4. (1 + 4 * u) * s = s + 4 * (u * s)
    BY <2>2
  <2>5. u * s = p * e
    BY <2>1 DEF u
  <2> DEFINE i == p * e
             j == p * g
             l == A[k] * s
  <2>6. l = s + 4 * i /\ j = 4 * i + v /\ i \in Int /\ C[k] = v
    BY <1>3, <1>11, <2>2, <2>3, <2>4, <2>5
  <2> HIDE DEF i, j, l
  <2>7. l + C[k] = s + j
    BY <2>2, <2>6
  <2> QED
    BY <2>7 DEF l, j
<1>13. Modulus * h = p * (2 * f)
  <2>1. (p * (2 * q)) * h = p * (2 * (q * h))
    BY <1>3
  <2> QED
    BY <1>5, <2>1
<1> HIDE DEF e, f
<1>14. p * g = p * (2 * f)
  <2> DEFINE i == p * g
             j == p * (2 * f)
  <2>1. i \in Int /\ j \in Int /\ s + i = s + j
    BY <1>3, <1>9, <1>11, <1>12, <1>13
  <2> HIDE DEF i, j
  <2>2. i = j
    BY <2>1
  <2> QED
    BY <2>2 DEF i, j
<1>15. g = 2 * f
  <2> DEFINE i == 2 * f
  <2>1. i \in Int
    BY <1>11
  <2> HIDE DEF i, g
  <2>2. p * (g - i) = 0
    BY <1>3, <1>11, <1>14, <2>1 DEF i
  <2>3. ASSUME NEW d \in Int, p * d = 0 PROVE d = 0
    BY <1>3, <2>3
  <2>4. g - i = 0
    BY <1>11, <2>1, <2>2, <2>3
  <2> QED
    BY <1>11, <2>1, <2>4 DEF i
<1> QED
  BY <1>7, <1>8, <1>11, <1>15

(* What the least byte says of the value, modulo four.                     *)
LEMMA LeastByteQuarter ==
    ASSUME NEW w \in Word, w[8] % 4 = 1
    PROVE  \E z \in Int : Value(w) = 1 + 4 * z
<1> DEFINE a1 == w[1]
           a2 == w[2]
           a3 == w[3]
           a4 == w[4]
           a5 == w[5]
           a6 == w[6]
           a7 == w[7]
           a8 == w[8]
<1>1. /\ a1 \in Int /\ a2 \in Int /\ a3 \in Int /\ a4 \in Int
      /\ a5 \in Int /\ a6 \in Int /\ a7 \in Int /\ a8 \in Int
  BY DEF Word, Byte
<1>2. Value(w) = a8 + 256 * a7 + 65536 * a6 + 16777216 * a5 + 4294967296 * a4
                 + 1099511627776 * a3 + 281474976710656 * a2 + 72057594037927936 * a1
  BY SMT DEF Value
<1>3. a8 = 1 + 4 * (a8 \div 4) /\ a8 \div 4 \in Int
  BY <1>1
<1> DEFINE d == a8 \div 4
<1>4. d \in Int /\ a8 = 1 + 4 * d
  BY <1>3
<1> HIDE DEF d, a1, a2, a3, a4, a5, a6, a7, a8
<1>5. PICK t \in Int :
         t = d + 64 * a7 + 16384 * a6 + 4194304 * a5 + 1073741824 * a4 + 274877906944 * a3
              + 70368744177664 * a2 + 18014398509481984 * a1
  BY <1>1, <1>4, SMT
<1>6. Value(w) = 1 + 4 * t
  BY <1>1, <1>2, <1>4, <1>5, SMT
<1> QED
  BY <1>6

(* f is the sequence that x starts, it goes through all words once, and    *)
(* then it starts again.                                                   *)
RunsThroughAll(f, x, mult, plus) ==
    /\ f \in [0 .. Modulus - 1 -> Word]
    /\ \A s \in Word : \E m \in 0 .. Modulus - 1 : f[m] = s
    /\ \A m, k \in 0 .. Modulus - 1 : f[m] = f[k] => m = k
    /\ f[0] = x
    /\ \A m \in 0 .. Modulus - 1 : f[(m + 1) % Modulus] = Add(Mul(f[m], mult), plus)

(* A multiplier that is 1 modulo 4 and an odd increment give the period    *)
(* 2^64, whatever the state is that the generator starts from.             *)
THEOREM LongestPeriod ==
    ASSUME NEW mult \in Word, mult[8] % 4 = 1, NEW plus \in Word, IsOdd(plus), NEW x \in Word
    PROVE  \E f : RunsThroughAll(f, x, mult, plus)
<1> DEFINE a == Value(mult)
           c == Value(plus)
           M == Modulus
           next == [s \in Word |-> Add(Mul(s, mult), plus)]
           g == [k \in Nat |-> next]
<1>1. a \in Int /\ c \in Int
  BY ValueType
<1>2. PICK z \in Int : a = 1 + 4 * z
  BY LeastByteQuarter
<1>3. OddNumber(c)
  <2>1. PICK r \in Int : c = plus[8] + 2 * r
    BY LeastByte
  <2>2. plus[8] \in 0 .. 255 /\ plus[8] % 2 = 1
    BY LeastByte DEF IsOdd
  <2>3. PICK d \in Int : d = plus[8] \div 2
    BY <2>2
  <2>4. plus[8] = 1 + 2 * d
    BY <2>2, <2>3
  <2> HIDE DEF c
  <2>5. c = 1 + 2 * (d + r) /\ d + r \in Int
    BY <2>1, <2>4
  <2> QED
    BY <2>5 DEF OddNumber
<1>4. PICK A, C : StepMaps(A, C, a, c)
  <2> HIDE DEF a, c
  <2> QED
    BY <1>1, MapsExist
<1>5. \A s \in Word : Add(Mul(s, mult), plus) \in Word
  BY AffineFacts
<1>6. g \in [Nat -> [Word -> Word]]
  BY <1>5
<1>7. \A k \in Nat, s \in Word : g[k][s] = Add(Mul(s, mult), plus)
  OBVIOUS
<1> HIDE DEF g
<1>8. PICK h : Iterates(h, Word, x, g)
  BY <1>6, IterationExists
<1>9. h \in [Nat -> Word] /\ h[0] = x /\ \A k \in Nat : h[k + 1] = Add(Mul(h[k], mult), plus)
  <2>1. h \in [Nat -> Word] /\ h[0] = x /\ \A k \in Nat : h[k + 1] = g[k][h[k]]
    BY <1>8 DEF Iterates
  <2> QED
    BY <1>7, <2>1
<1>10. ASSUME NEW m \in Nat, NEW k \in Nat
       PROVE  Congruent(Value(h[m + k]), A[k] * Value(h[m]) + C[k])
  BY <1>4, <1>9, IterationValues
<1>11. M \in Nat /\ M # 0
  BY SMT DEF Modulus
<1>12. \A k \in Nat : A[k] \in Int /\ C[k] \in Int
  BY <1>4 DEF StepMaps
<1> HIDE DEF a, c
<1>13. ASSUME NEW m \in Nat, NEW k \in Nat, k # 0, k < Modulus
       PROVE  h[m + k] # h[m]
  <2> DEFINE s == Value(h[m])
  <2>1. s \in Int
    BY <1>9, ValueType
  <2>2. Congruent(Value(h[m + k]), A[k] * s + C[k])
    BY <1>10
  <2> HIDE DEF s
  <2>3. ~ Congruent(A[k] * s + C[k], s)
    BY <1>1, <1>2, <1>3, <1>4, <1>13, <2>1, NoShortCycle
  <2>4. A[k] * s + C[k] \in Int
    BY <1>12, <2>1
  <2>5. ASSUME h[m + k] = h[m] PROVE FALSE
    <3>1. Congruent(s, A[k] * s + C[k])
      BY <2>2, <2>5 DEF s
    <3> QED
      BY <2>1, <2>3, <2>4, <3>1, Congruence
  <2> QED
    BY <2>5
<1>14. h[M] = h[0]
  <2> DEFINE s == Value(h[0])
             y == Value(h[M])
  <2>1. s \in Int /\ y \in Int /\ h[0] \in Word /\ h[M] \in Word
    BY <1>9, <1>11, ValueType
  <2>2. Congruent(y, A[M] * s + C[M])
    <3>1. 0 + M = M
      BY <1>11
    <3> QED
      BY <1>10, <1>11, <3>1
  <2>3. Congruent(A[M], 1) /\ Congruent(C[M], 0)
    <3>1. 2 * z \in Int /\ a = 1 + 2 * (2 * z)
      BY <1>2
    <3> DEFINE w == 2 * z
    <3>2. w \in Int /\ a = 1 + 2 * w
      BY <3>1
    <3> HIDE DEF w
    <3> QED
      BY <1>1, <1>4, <3>2, FullCycle
  <2>4. A[M] \in Int /\ C[M] \in Int
    BY <1>11, <1>12
  <2> HIDE DEF s, y, M
  <2>5. Congruent(A[M] * s + C[M], s)
    BY <2>1, <2>3, <2>4, Neutral
  <2>6. A[M] * s + C[M] \in Int
    BY <2>1, <2>4
  <2>7. Congruent(y, s)
    BY <2>1, <2>2, <2>5, <2>6, Congruence
  <2> QED
    BY <2>1, <2>7, SameWord DEF s, y
<1> HIDE DEF M
<1>15. ASSUME NEW m \in 0 .. M - 1, NEW k \in 0 .. M - 1, h[m] = h[k]
       PROVE  m = k
  <2>1. ASSUME NEW i \in 0 .. M - 1, NEW j \in 0 .. M - 1, i < j PROVE h[j] # h[i]
    <3> DEFINE e == j - i
    <3>1. e \in Nat /\ e # 0 /\ e < M /\ i \in Nat /\ i + e = j
      BY <1>11, <2>1
    <3> HIDE DEF e
    <3>2. h[i + e] # h[i]
      BY <1>13, <3>1 DEF M
    <3> QED
      BY <3>1, <3>2
  <2>2. m < k \/ k < m \/ m = k
    BY <1>11
  <2> QED
    BY <1>15, <2>1, <2>2
<1> DEFINE f == [m \in 0 .. M - 1 |-> h[m]]
<1>16. f \in [0 .. M - 1 -> Word] /\ \A m \in 0 .. M - 1 : f[m] = h[m]
  BY <1>9, <1>11
<1> HIDE DEF f
<1>17. \A m, k \in 0 .. M - 1 : f[m] = f[k] => m = k
  BY <1>15, <1>16
<1>18. 0 \in 0 .. M - 1 /\ f[0] = x
  <2>1. 0 \in 0 .. M - 1
    BY <1>11
  <2> QED
    BY <1>9, <1>16, <2>1
<1>19. ASSUME NEW m \in 0 .. M - 1
       PROVE  f[(m + 1) % M] = Add(Mul(f[m], mult), plus)
  <2>1. m \in Nat /\ h[m + 1] = Add(Mul(f[m], mult), plus)
    BY <1>9, <1>11, <1>16
  <2>2. CASE m + 1 = M
    <3>1. (m + 1) % M = 0
      BY <1>11, <2>2
    <3>2. f[0] = h[m + 1]
      BY <1>9, <1>14, <1>18, <2>2
    <3> QED
      BY <2>1, <3>1, <3>2
  <2>3. CASE m + 1 # M
    <3>1. (m + 1) % M = m + 1 /\ m + 1 \in 0 .. M - 1
      BY <1>11, <2>3
    <3> QED
      BY <1>16, <2>1, <3>1
  <2> QED
    BY <2>2, <2>3
<1>20. ASSUME NEW s \in Word PROVE \E m \in 0 .. M - 1 : f[m] = s
  <2> DEFINE N == 0 .. M - 1
             v == [m \in N |-> Value(f[m])]
  <2>1. \A w \in Word : Value(w) \in N
    BY <1>11, ValueType DEF M
  <2>2. v \in [N -> N]
    BY <1>16, <2>1
  <2>3. \A m, k \in N : v[m] = v[k] => m = k
    <3>1. ASSUME NEW m \in N, NEW k \in N, v[m] = v[k] PROVE m = k
      <4>1. f[m] \in Word /\ f[k] \in Word /\ Value(f[m]) = Value(f[k])
        BY <1>16, <3>1
      <4>2. Congruent(Value(f[m]), Value(f[k]))
        BY <4>1, ValueType, SameCongruent
      <4>3. f[m] = f[k]
        BY <4>1, <4>2, SameWord
      <4> QED
        BY <1>17, <4>3
    <3> QED
      BY <3>1
  <2>4. v \in Injection(N, N)
    BY <2>2, <2>3 DEF Injection, IsInjective
  <2>5. IsFiniteSet(N)
    <3>1. M - 1 \in Int
      BY <1>11
    <3> QED
      BY <3>1, FS_Interval
  <2>6. \A m \in N : v[m] = Value(f[m])
    OBVIOUS
  <2> HIDE DEF v, N
  <2>7. v \in Surjection(N, N)
    BY <2>4, <2>5, FS_Injection
  <2>8. PICK m \in N : v[m] = Value(s)
    BY <2>1, <2>7 DEF Surjection
  <2>9. f[m] \in Word
    BY <1>16 DEF N
  <2>10. Congruent(Value(f[m]), Value(s))
    BY <2>6, <2>8, <2>9, ValueType, SameCongruent
  <2>11. f[m] = s
    BY <2>9, <2>10, SameWord
  <2> QED
    BY <2>11 DEF N
<1>21. RunsThroughAll(f, x, mult, plus)
  BY <1>16, <1>17, <1>18, <1>19, <1>20 DEF RunsThroughAll, M
<1> QED
  BY <1>21

(* The root sequence of init_state.h is what RootGenerator assumes of it   *)
(* (its PeriodAssumption, RootAt of the period 2^64): it goes through all  *)
(* 64-bit states, each of them once.                                       *)
THEOREM PeriodAssumptionHolds ==
    \E RootAt : /\ RunsThroughAll(RootAt, INIT_STATE[0], RNG_A, RNG_INC)
                /\ \A m \in 0 .. Modulus - 1 : RootAt[(m + 1) % Modulus] = Step(RootAt[m])
<1>1. INIT_STATE[0] \in Word
  BY Seeds DEF Lane, BREAK_NUM
<1>2. RNG_A[8] % 4 = 1 /\ IsOdd(RNG_INC)
  <2>1. RNG_A[8] = 45 /\ RNG_INC[8] = 109
    BY DEF RNG_A, RNG_INC
  <2> QED
    BY <2>1 DEF IsOdd
<1>3. PICK f : RunsThroughAll(f, INIT_STATE[0], RNG_A, RNG_INC)
  BY <1>1, <1>2, Constants, LongestPeriod
<1>4. \A m \in 0 .. Modulus - 1 : f[(m + 1) % Modulus] = Step(f[m])
  BY <1>3 DEF RunsThroughAll, Step
<1> QED
  BY <1>3, <1>4

(* And so is the sequence of every instance before permutation, whose      *)
(* increment is its own.                                                   *)
THEOREM LeafPeriod ==
    ASSUME NEW id \in Nat, NEW RootAt, RunsThroughAll(RootAt, INIT_STATE[0], RNG_A, RNG_INC)
    PROVE  RunsThroughAll([m \in 0 .. Modulus - 1 |-> multi_stream(RootAt[m], 54 + id)],
                          multi_stream(INIT_STATE[0], 54 + id), RNG_A, LeafIncrement(id))
<1> DEFINE M == Modulus
           Leaf(x) == multi_stream(x, 54 + id)
           o == Offset(54 + id)
           f == [m \in 0 .. M - 1 |-> Leaf(RootAt[m])]
<1>1. M \in Nat /\ M # 0
  BY SMT DEF Modulus
<1> HIDE DEF M
<1>2. o \in Word /\ LeafIncrement(id) \in Word /\ RNG_A \in Word /\ RNG_INC \in Word
  <2>1. PICK seq : seq = 54 + id
    OBVIOUS
  <2> QED
    BY <2>1, IncrementFacts, Constants
<1> HIDE DEF o
<1>3. ASSUME NEW x \in Word
      PROVE  Leaf(x) \in Word /\ Congruent(Value(Leaf(x)), Value(x) + Value(o))
  BY <1>2, AddFacts DEF multi_stream, o
<1>4. ASSUME NEW x \in Word PROVE Leaf(Step(x)) = Add(Mul(Leaf(x), RNG_A), LeafIncrement(id))
  <2> DEFINE y == Leaf(x)
             p == Mul(RNG_A, y)
             q == Mul(y, RNG_A)
  <2>1. Leaf(Step(x)) = Add(p, LeafIncrement(id)) /\ y \in Word
    BY <1>3, LeafStep
  <2> HIDE DEF y
  <2>2. /\ p \in Word /\ Congruent(Value(p), Value(RNG_A) * Value(y))
        /\ q \in Word /\ Congruent(Value(q), Value(y) * Value(RNG_A))
    BY <1>2, <2>1, MulFacts
  <2> DEFINE u == Value(RNG_A) * Value(y)
  <2>3. u \in Int /\ u = Value(y) * Value(RNG_A) /\ Value(p) \in Int /\ Value(q) \in Int
    <3>1. Value(RNG_A) \in Int /\ Value(y) \in Int
      BY <1>2, <2>1, ValueType
    <3>2. Value(p) \in Int /\ Value(q) \in Int
      BY <2>2, ValueType
    <3> QED
      BY <3>1, <3>2
  <2> HIDE DEF p, q
  <2>4. Congruent(Value(p), u) /\ Congruent(Value(q), u)
    BY <2>2, <2>3
  <2> HIDE DEF u
  <2>5. Congruent(Value(p), Value(q))
    BY <2>3, <2>4, Congruence
  <2>6. p = q
    BY <2>2, <2>5, SameWord DEF p, q
  <2> QED
    BY <2>1, <2>6 DEF p, q, y
<1> HIDE DEF Leaf
<1>5. ASSUME NEW x \in Word, NEW y \in Word, Leaf(x) = Leaf(y)
      PROVE  x = y
  <2> DEFINE u == Value(x)
             v == Value(y)
             w == Value(o)
             r == Value(Leaf(x))
  <2>1. u \in Int /\ v \in Int /\ w \in Int
    BY <1>2, ValueType
  <2>2. Congruent(r, u + w) /\ Congruent(r, v + w)
    BY <1>3, <1>5
  <2> HIDE DEF u, v, w, r
  <2>3. PICK k \in Int : r = u + w + Modulus * k
    BY <2>2 DEF Congruent
  <2>4. PICK h \in Int : r = v + w + Modulus * h
    BY <2>2 DEF Congruent
  <2>5. u = v + Modulus * (h - k) /\ h - k \in Int
    BY <2>1, <2>3, <2>4, SMT DEF Modulus
  <2>6. Congruent(u, v)
    BY <2>5 DEF Congruent
  <2> QED
    BY <2>6, SameWord DEF u, v
<1>6. ASSUME NEW s \in Word PROVE \E x \in Word : Leaf(x) = s
  <2> DEFINE g == Negative(o)
             x == Add(s, g)
             u == Value(s)
             w == Value(o)
  <2>1. g \in Word /\ Congruent(Value(g), -w)
    BY <1>2, NegativeFacts
  <2> HIDE DEF g
  <2>2. x \in Word /\ Congruent(Value(x), u + Value(g))
    BY <2>1, AddFacts
  <2> HIDE DEF x
  <2>3. Leaf(x) \in Word /\ Congruent(Value(Leaf(x)), Value(x) + w)
    BY <1>3, <2>2
  <2>4. u \in Int /\ w \in Int /\ Value(g) \in Int /\ Value(x) \in Int
    BY <1>2, <2>1, <2>2, ValueType
  <2> HIDE DEF u, w
  <2>5. PICK k \in Int : Value(g) = -w + Modulus * k
    BY <2>1 DEF Congruent
  <2>6. PICK h \in Int : Value(x) = u + Value(g) + Modulus * h
    BY <2>2 DEF Congruent
  <2>7. PICK i \in Int : Value(Leaf(x)) = Value(x) + w + Modulus * i
    BY <2>3 DEF Congruent
  <2>8. Value(Leaf(x)) = u + Modulus * (k + h + i) /\ k + h + i \in Int
    BY <2>4, <2>5, <2>6, <2>7, SMT DEF Modulus
  <2>9. Congruent(Value(Leaf(x)), u)
    BY <2>8 DEF Congruent
  <2>10. Leaf(x) = s
    BY <2>3, <2>9, SameWord DEF u
  <2> QED
    BY <2>2, <2>10
<1>7. /\ RootAt \in [0 .. M - 1 -> Word]
      /\ \A s \in Word : \E m \in 0 .. M - 1 : RootAt[m] = s
      /\ \A m, k \in 0 .. M - 1 : RootAt[m] = RootAt[k] => m = k
      /\ RootAt[0] = INIT_STATE[0]
      /\ \A m \in 0 .. M - 1 : RootAt[(m + 1) % M] = Step(RootAt[m])
  BY DEF RunsThroughAll, Step, M
<1>8. f \in [0 .. M - 1 -> Word] /\ \A m \in 0 .. M - 1 : f[m] = Leaf(RootAt[m])
  BY <1>3, <1>7
<1> HIDE DEF f
<1>9. \A s \in Word : \E m \in 0 .. M - 1 : f[m] = s
  BY <1>6, <1>7, <1>8
<1>10. \A m, k \in 0 .. M - 1 : f[m] = f[k] => m = k
  BY <1>5, <1>7, <1>8
<1>11. f[0] = Leaf(INIT_STATE[0])
  <2>1. 0 \in 0 .. M - 1
    BY <1>1
  <2> QED
    BY <1>7, <1>8, <2>1
<1>12. ASSUME NEW m \in 0 .. M - 1
       PROVE  f[(m + 1) % M] = Add(Mul(f[m], RNG_A), LeafIncrement(id))
  <2> DEFINE j == (m + 1) % M
  <2>1. j \in 0 .. M - 1
    BY <1>1
  <2>2. RootAt[j] = Step(RootAt[m]) /\ RootAt[m] \in Word
    BY <1>7
  <2> HIDE DEF j
  <2>3. f[j] = Leaf(Step(RootAt[m])) /\ f[m] = Leaf(RootAt[m])
    BY <1>8, <2>1, <2>2
  <2>4. f[j] = Add(Mul(f[m], RNG_A), LeafIncrement(id))
    BY <1>4, <2>2, <2>3
  <2> QED
    BY <2>4 DEF j
<1>13. RunsThroughAll(f, Leaf(INIT_STATE[0]), RNG_A, LeafIncrement(id))
  BY <1>8, <1>9, <1>10, <1>11, <1>12 DEF RunsThroughAll, M
<1> QED
  BY <1>13 DEF f, Leaf, M

=============================================================================
