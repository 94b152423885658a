----------------------------- MODULE JumpAhead -----------------------------
(***************************************************************************)
(* pcg_advance_lcg_64 and calculate_acc_value                              *)
(* (test/lcg_jumpahead/lcg_jump_ahead_test.c): the affine map of delta     *)
(* steps of x -> mult * x + plus, by repeated squaring.  The program that  *)
(* holds them prints what init_state.h carries: the constants of a seek,   *)
(* and the states that the lanes start from.                               *)
(***************************************************************************)
EXTENDS Lcg64

SEEK_NUM == 9
PCG_DEFAULT_MULTIPLIER_64 == <<\h58, \h51, \hf4, \h2d, \h4c, \h95, \h7f, \h2d>>

(* pcg32_srandom_r: from state 0, a step, the seed, and a step.            *)
pcg32_random_r(rng) ==
    [rng EXCEPT !.state = Add(Mul(@, PCG_DEFAULT_MULTIPLIER_64), rng.inc)]

pcg32_srandom_r(initstate, initseq) ==
    LET fresh == [state |-> FromNat(0), inc |-> OrOne(FromNat(2 * initseq))]
    IN pcg32_random_r([pcg32_random_r(fresh) EXCEPT !.state = Add(@, FromNat(initstate))])

(* The map x -> mult * x + plus.                                           *)
Affine == [mult : Word, plus : Word]
Identity == [mult |-> FromNat(1), plus |-> FromNat(0)]

(* A slip: cur_mult is squared before cur_plus is computed from it.        *)
SquareFirst(cur) == LET m == Mul(cur.mult, cur.mult)
                    IN [mult |-> m, plus |-> Mul(Add(m, FromNat(1)), cur.plus)]

(* cur_plus = (cur_mult + 1) * cur_plus; cur_mult *= cur_mult.             *)
Squared(cur) == [mult |-> Mul(cur.mult, cur.mult),
                 plus |-> Mul(Add(cur.mult, FromNat(1)), cur.plus)]

Accumulated(acc, cur) == [mult |-> Mul(acc.mult, cur.mult),
                          plus |-> Add(Mul(acc.plus, cur.mult), cur.plus)]

(* delta & 1, in the round with b others before it.                        *)
BitSet(a, b) == (Digit(a, b \div 8) \div <<1, 2, 4, 8, 16, 32, 64, 128>>[(b % 8) + 1]) % 2 = 1

(* The rounds that the loop makes: it ends behind the highest bit.         *)
Rounds(delta) == CHOOSE r \in 0 .. 64 : /\ \A b \in r .. 63 : ~BitSet(delta, b)
                                        /\ r > 0 => BitSet(delta, r - 1)

(* One round, a map of the four variables of the loop.                     *)
LoopState == [cur : Affine, acc : Affine]
Round(bit) ==
    [v \in LoopState |-> [cur |-> Squared(v.cur),
                          acc |-> IF bit THEN Accumulated(v.acc, v.cur) ELSE v.acc]]

calculate_acc_value(delta, mult, plus) ==
    LET loop[b \in 0 .. 64] ==
            IF b = 0 THEN [cur |-> [mult |-> mult, plus |-> plus], acc |-> Identity]
            ELSE Round(BitSet(delta, b - 1))[loop[b - 1]]
    IN loop[Rounds(delta)].acc

pcg_advance_lcg_64(x, delta, mult, plus) ==
    LET acc == calculate_acc_value(delta, mult, plus)
    IN Add(Mul(acc.mult, x), acc.plus)

-----------------------------------------------------------------------------
(* A jump over n states from where the generator starts leads to the root  *)
(* state that the nine lanes deliver after n others, and a jump by -n, the *)
(* long way round ("we can pass a signed integer to go backwards", lines   *)
(* 15 to 16), back to the start; and what the program prints is what the   *)
(* lanes use.                                                              *)
JumpIsSteps ==
    LET rng == pcg32_srandom_r(42, 54)
        Jump(x, delta) == pcg_advance_lcg_64(x, delta, PCG_DEFAULT_MULTIPLIER_64, rng.inc)
        seek == calculate_acc_value(FromNat(SEEK_NUM), PCG_DEFAULT_MULTIPLIER_64, rng.inc)
    IN /\ Jump(rng.state, FromNat(n)) = state[lane]
       /\ Jump(state[lane], Negative(FromNat(n))) = rng.state
       /\ seek = [mult |-> RNG_A_SEEKED, plus |-> RNG_INC_SEEKED]

=============================================================================
