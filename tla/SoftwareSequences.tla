------------------------- MODULE SoftwareSequences -------------------------
(***************************************************************************)
(* The generator as the statistical tests draw from it, in software:       *)
(* rng_test.cpp prepares CO_NUM sequences (xor128_s_init) and then draws   *)
(* from them in turn (mxor128_pcg_rr, test/rngs/xorshift128.h).  One root  *)
(* state, leaf states made of it, and one xorshift generator per sequence, *)
(* all in static variables of a function that knows its sequence from a    *)
(* counter.  The lanes of Lcg64 run beside it, one root state per round.   *)
(*                                                                         *)
(* A number is the pair of what the code XORs: the leaf state, before its  *)
(* output function, and the word of the xorshift generator.                *)
(***************************************************************************)
EXTENDS JumpAhead, Xorshift128

CONSTANTS CO_NUM,    (* sequences                                            *)
          Distance,  (* the jump between their seeds, a third of it: 2^32    *)
          Selector   (* 54u + mapping[i] of the sequences, as words          *)

ASSUME SoftwareAssumption ==
    /\ CO_NUM \in Nat \ {0} /\ Distance \in Nat
    /\ Selector \in [0 .. CO_NUM - 1 -> Word]

Sequence == 0 .. CO_NUM - 1

VARIABLES k, T, B,        (* mat_pow: what is left of the exponent, the      *)
                          (* square and the product                          *)
          xor128_s,       (* the xorshift states, as far as prepared         *)
          counter,        (* numbers drawn                                   *)
          software_state, (* state: the root state                           *)
          last_s,         (* mxorpcg_last_s: the leaf states                 *)
          number          (* the last number                                 *)

jumping == <<k, T, B>>
drawing == <<counter, software_state, last_s, number>>

-----------------------------------------------------------------------------
(* One round of mat_pow, called by the first xor128_s_init.                *)
PowerRound ==
    /\ k > 0
    /\ B' = IF k % 2 = 1 THEN mat_mul(T, B) ELSE B
    /\ T' = mat_mul(T, T)
    /\ k' = k \div 2
    /\ UNCHANGED <<xor128_s, drawing, vars>>

(* xor128_s_init(index), for the next index.                               *)
Seed ==
    /\ k = 0 /\ Len(xor128_s) < CO_NUM
    /\ LET jumped[j \in 0 .. 3 * Len(xor128_s)] ==
             IF j = 0 THEN InitialState ELSE do_transition(jumped[j - 1], B)
       IN xor128_s' = Append(xor128_s, jumped[3 * Len(xor128_s)])
    /\ UNCHANGED <<jumping, drawing, vars>>

(* multi_stream_seeked, with the constants of a seek over nine lanes.      *)
Seeked(x, seq) == Add(x, OrOne(Add(Mul(RNG_A_SEEKED, seq), RNG_INC_SEEKED)))

(* A slip: every number makes a new root state.                            *)
TransitionAlways(current_rng) == Step(software_state)

(* The root state is stepped by the first sequence of a round.             *)
Transition(current_rng) ==
    IF current_rng = 0 THEN Step(software_state) ELSE software_state

(* mxor128_pcg_rr: the leaf state is made of the root state as it was when *)
(* the function was called, and the number of the leaf state that the      *)
(* sequence was left with the last time.                                   *)
Draw ==
    /\ Len(xor128_s) = CO_NUM
    /\ LET current_rng == counter % CO_NUM
           forward == step_forward(xor128_s[current_rng + 1])
       IN /\ software_state' = Transition(current_rng)
          /\ number' = [leaf |-> last_s[current_rng], xorshift |-> forward[4]]
          /\ last_s' = [last_s EXCEPT ![current_rng] =
                           Seeked(software_state, Selector[current_rng])]
          /\ xor128_s' = [xor128_s EXCEPT ![current_rng + 1] = forward]
          /\ IF current_rng = 0 THEN Write ELSE UNCHANGED vars
    /\ counter' = counter + 1
    /\ UNCHANGED jumping

SoftwareInit ==
    /\ Init
    /\ k = Distance /\ T = T0 /\ B = Unit
    /\ xor128_s = <<>>
    /\ counter = 0
    /\ software_state = INIT_STATE[0]
    /\ last_s = [i \in Sequence |-> FromNat(0)]
    /\ number = [leaf |-> FromNat(0), xorshift |-> {}]

SoftwareNext == PowerRound \/ Seed \/ Draw

SoftwareSpec == SoftwareInit /\ [][SoftwareNext]_<<jumping, xor128_s, drawing, vars>>

-----------------------------------------------------------------------------
(* The d-th root state and the d-th xorshift state, step by step.          *)
RootAt(d) == LET walk[j \in 0 .. d] == IF j = 0 THEN INIT_STATE[0] ELSE Step(walk[j - 1])
             IN walk[d]

XorshiftAt(d) == LET walk[j \in 0 .. d] == IF j = 0 THEN InitialState
                                           ELSE step_forward(walk[j - 1])
                 IN walk[d]

(* How often sequence i has been drawn from, and the leaf state that leaves*)
(* it with: sequence 0 is one root state behind the others, because it is  *)
(* the one that steps the root state and does not use the step.            *)
Drawn(i) == (counter + CO_NUM - 1 - i) \div CO_NUM

LeafAfter(i, d) ==
    IF d = 0 THEN FromNat(0)
    ELSE Seeked(RootAt(IF i = 0 THEN d - 1 ELSE d), Selector[i])

(* Every sequence is one generator, although all share one root state, one *)
(* counter and one function: sequence i starts 3 i jumps down the xorshift *)
(* sequence and takes a step of it per number of its own, its leaf states  *)
(* are made of consecutive root states, the same ones that the hardware    *)
(* delivers, and a number is made of the leaf state of the number before   *)
(* (xor128_s_init, mxor128_pcg_rr).                                        *)
SequencesExact ==
    /\ \A i \in 0 .. Len(xor128_s) - 1 :
          xor128_s[i + 1] = XorshiftAt(3 * i * Distance + Drawn(i))
    /\ \A i \in Sequence : last_s[i] = LeafAfter(i, Drawn(i))
    /\ counter > 0 =>
          LET i == (counter - 1) % CO_NUM
          IN number = [leaf |-> LeafAfter(i, Drawn(i) - 1), xorshift |-> xor128_s[i + 1][4]]
    /\ software_state = state[lane]

=============================================================================
