------------------------------- MODULE Lcg64 -------------------------------
(***************************************************************************)
(* The generator with the 64-bit constants of fpga/rng/src/init_state.h:   *)
(* the nine lanes of the root state generation unit, visited in the order  *)
(* of the merge kernel, and the leaf transition of the output units        *)
(* (multi_stream of sou_function.h).  How the kernels interleave is        *)
(* RootGenerator's subject; here it is whether the numbers are right, that *)
(* is whether they satisfy RootGenerator's assumptions.                    *)
(***************************************************************************)
EXTENDS Words64

CONSTANTS Count,     (* root states to look at: the bound of the model     *)
          SampleId   (* the ids of the leaf generators to look at          *)

ASSUME CountAssumption == Count \in Nat

(* An id is a const int of its kernel (leaf_state_stream).                  *)
INT_MAX == 2147483647

ASSUME IdAssumption == SampleId \subseteq 0 .. INT_MAX

BREAK_NUM == 9
Lane == 0 .. BREAK_NUM - 1

RNG_INC == <<\h00, \h00, \h00, \h00, \h00, \h00, \h00, \h6d>>
RNG_A == <<\h58, \h51, \hf4, \h2d, \h4c, \h95, \h7f, \h2d>>
RNG_INC_SEEKED == <<\h21, \h9b, \h40, \hff, \hf5, \h05, \h47, \h05>>

(* A slip: the multiplier of a seek over six lanes, as misc/init_state.h   *)
(* has it.                                                                 *)
RNG_A_SEEKED_6 == <<\hf0, \h8d, \h02, \hb0, \h11, \h5f, \h7a, \h79>>
RNG_A_SEEKED == <<\h5b, \h5f, \hee, \h90, \ha1, \h00, \h1d, \hcd>>

(* INIT_STATE_0 .. INIT_STATE_8.                                           *)
LaneSeed(k) ==
    CASE k = 0 -> <<\h18, \h57, \h06, \hb8, \h2c, \h2e, \h03, \hf8>>
      [] k = 1 -> <<\h2b, \h47, \hfe, \hd8, \h87, \h66, \hbb, \h05>>
      [] k = 2 -> <<\h8b, \h33, \h29, \h6d, \h19, \hbf, \h5b, \h4e>>
      [] k = 3 -> <<\hf7, \h07, \h98, \h24, \hc1, \h54, \hbf, \h23>>
      [] k = 4 -> <<\heb, \hbf, \h9e, \h97, \haa, \h16, \hf6, \h94>>
      [] k = 5 -> <<\h83, \h03, \h56, \h9f, \hbe, \h80, \hc4, \h71>>
      [] k = 6 -> <<\hbe, \hb6, \hd0, \hb7, \h3f, \hdb, \h97, \h4a>>
      [] k = 7 -> <<\hed, \h81, \h14, \h9f, \h2f, \hb9, \h4e, \h6f>>
      [] k = 8 -> <<\h07, \h30, \hf8, \h4e, \hec, \h16, \hda, \hf0>>

INIT_STATE == [k \in Lane |-> LaneSeed(k)]

(* One transition of the generator, and the transition of an updater.      *)
Step(x) == Add(Mul(x, RNG_A), RNG_INC)
Seek(x) == Add(Mul(x, RNG_A_SEEKED), RNG_INC_SEEKED)

(* (RNG_A * (seq << 1)) | 1, the distance of a leaf from the root state.   *)
Offset(seq) == OrOne(Mul(RNG_A, FromNat(2 * seq)))

(* A slip: the root state is scaled instead of shifted.                    *)
MultiStreamScaled(x, seq) == Mul(x, Offset(seq))

multi_stream(x, seq) == Add(x, Offset(seq))

(* A multiplier that is 1 modulo 4 and an odd increment: the period is     *)
(* 2^64 (LongestPeriod), as RootGenerator's PeriodAssumption asks for.     *)
ASSUME FullPeriodAssumption == RNG_A[8] % 4 = 1 /\ RNG_INC[8] % 2 = 1

VARIABLES state,     (* the state of every updater                         *)
          lane,      (* the lane the merge reads next                      *)
          last,      (* the root state it wrote last                       *)
          n          (* how many it has written                            *)

vars == <<state, lane, last, n>>

-----------------------------------------------------------------------------
(* The updater of the lane writes its state and seeks; the merge passes    *)
(* the state on and turns to the next lane.                                *)
Write ==
    /\ n < Count
    /\ last' = state[lane]
    /\ state' = [state EXCEPT ![lane] = Seek(@)]
    /\ lane' = (lane + 1) % BREAK_NUM
    /\ n' = n + 1

Init ==
    /\ state = INIT_STATE
    /\ lane = 0
    /\ last = INIT_STATE[0]
    /\ n = 0

Next == Write

Spec == Init /\ [][Next]_vars

-----------------------------------------------------------------------------
(* The lanes hold the next BREAK_NUM root states, in the order of the      *)
(* merge, and the one written last precedes them: the constants satisfy    *)
(* SeekAssumption of RootGenerator at every state that is reached          *)
(* (init_state.h; the wrap-around modulo 2^64 included).                   *)
LanesConsecutive ==
    /\ n > 0 => state[lane] = Step(last)
    /\ \A i \in 1 .. BREAK_NUM - 1 :
          state[(lane + i) % BREAK_NUM] = Step(state[(lane + i - 1) % BREAK_NUM])
    /\ \A k \in Lane : Seek(Step(state[k])) = Step(Seek(state[k]))

(* The numbers of an output unit before permutation are a generator of     *)
(* their own: the multiplier of the root sequence with another increment,  *)
(* which is odd, as a full period requires, and different for every id     *)
(* (multi_stream; the offset of an id is fixed, 54 + id selects it).       *)
LeafIncrement(id) ==
    Add(RNG_INC, Add(Offset(54 + id), Negative(Mul(RNG_A, Offset(54 + id)))))

LeavesAreGenerators ==
    [][\A id \in SampleId :
         /\ n > 0 => multi_stream(last', 54 + id) =
                       Add(Mul(RNG_A, multi_stream(last, 54 + id)), LeafIncrement(id))
         /\ IsOdd(LeafIncrement(id))
         /\ \A other \in SampleId \ {id} : LeafIncrement(other) # LeafIncrement(id)]_vars

=============================================================================
