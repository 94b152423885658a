------------------------------ MODULE Words64 ------------------------------
(***************************************************************************)
(* Unsigned 64-bit arithmetic, modulo 2^64 as rng_state_t (ap_uint<64>)    *)
(* has it, on words of eight bytes.  A word is written as its literal is   *)
(* in C, most significant byte first.                                      *)
(***************************************************************************)
EXTENDS Naturals, Sequences

Byte == 0 .. 255
Word == [1 .. 8 -> Byte]

(* The byte of weight 256^i.                                               *)
Digit(a, i) == a[8 - i]

(* The eight values of a sequence indexed by weight, as a word is written. *)
BigEndian(f(_)) == <<f(7), f(6), f(5), f(4), f(3), f(2), f(1), f(0)>>

(* The word with the given column sums, the carries done.                  *)
Carried(column) ==
    LET sum[i \in 0 .. 7] ==
            Digit(column, i) + IF i = 0 THEN 0 ELSE sum[i - 1] \div 256
    IN  BigEndian(LAMBDA i : sum[i] % 256)

Add(a, b) == Carried(BigEndian(LAMBDA i : Digit(a, i) + Digit(b, i)))

Mul(a, b) ==
    LET part(i, j) == IF j <= i THEN Digit(a, j) * Digit(b, i - j) ELSE 0
    IN  Carried(BigEndian(LAMBDA i : part(i, 0) + part(i, 1) + part(i, 2) + part(i, 3)
                                   + part(i, 4) + part(i, 5) + part(i, 6) + part(i, 7)))

(* A number below 2^31 as a word.                                          *)
FromNat(n) == Carried(<<0, 0, 0, 0, 0, 0, 0, n>>)

(* a | 1.                                                                  *)
OrOne(a) == IF a[8] % 2 = 1 THEN a ELSE [a EXCEPT ![8] = @ + 1]

IsOdd(a) == a[8] % 2 = 1

(* -a.                                                                     *)
Negative(a) == Add(BigEndian(LAMBDA i : 255 - Digit(a, i)), FromNat(1))

=============================================================================
