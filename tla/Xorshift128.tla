---------------------------- MODULE Xorshift128 ----------------------------
(***************************************************************************)
(* The xorshift generator of 128 bits, and its jump by a power of its      *)
(* transition matrix over GF(2) (test/rngs/xorshift128.h).                 *)
(*                                                                         *)
(* A 32-bit word is the set of its bits that are 1, state_t the sequence   *)
(* of its four words, and a matrix tr_t the function from a row to the set *)
(* of its columns that are 1.                                              *)
(***************************************************************************)
EXTENDS Integers, Sequences, FiniteSets

Bit == 0 .. 127

Xor(a, b) == (a \ b) \cup (b \ a)
ShiftLeft(w, k) == {b + k : b \in w} \cap (0 .. 31)
ShiftRight(w, k) == {b - k : b \in w} \cap (0 .. 31)

(* 123456789, 362436069, 521288629 and 88675123.                           *)
InitialState == << {0, 2, 4, 8, 10, 11, 14, 15, 16, 17, 19, 20, 22, 24, 25, 26},
                   {0, 2, 5, 6, 7, 8, 10, 12, 14, 17, 19, 20, 23, 24, 26, 28},
                   {0, 2, 4, 5, 7, 8, 9, 11, 12, 13, 17, 20, 24, 25, 26, 27, 28},
                   {0, 1, 4, 5, 8, 9, 12, 16, 19, 22, 24, 26} >>

step_forward(s) ==
    LET t == Xor(s[1], ShiftLeft(s[1], 11))
    IN <<s[2], s[3], s[4],
         Xor(Xor(s[4], ShiftRight(s[4], 19)), Xor(t, ShiftRight(t, 8)))>>

(* Row i of the table T, which moves words 1 to 3 down and makes the new   *)
(* last word of the first and the last one.                                *)
T0 == [i \in Bit |->
         IF i < 96 THEN {i + 32}
         ELSE LET b == i - 96
              IN {b, i} \cup ({b - 11} \cap Bit) \cup ({i + 19} \cap Bit)
                 \cup (IF b + 8 < 32 THEN {b + 8} \cup ({b - 3} \cap Bit) ELSE {})]

mat_mul(A, B) ==
    [i \in Bit |-> {j \in Bit : Cardinality({k \in A[i] : j \in B[k]}) % 2 = 1}]

Unit == [i \in Bit |-> {i}]

(* do_transition: bit j of word i is the parity of what row 32 i + j       *)
(* selects from the state.                                                 *)
do_transition(s, M) ==
    LET flat == UNION {{32 * w + b : b \in s[w + 1]} : w \in 0 .. 3}
    IN [w \in 1 .. 4 |->
          {b \in 0 .. 31 : Cardinality(M[32 * (w - 1) + b] \cap flat) % 2 = 1}]

=============================================================================
