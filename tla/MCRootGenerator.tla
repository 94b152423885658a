-------------------------- MODULE MCRootGenerator --------------------------
(***************************************************************************)
(* RootGenerator with three lanes and a full-period generator modulo 16:   *)
(* multiplier 5, increment 3, and the affine map of three steps, 125 and   *)
(* 93 modulo 16, for the seek, as RNG_A_SEEKED and RNG_INC_SEEKED are for  *)
(* nine steps modulo 2^64.                                                 *)
(***************************************************************************)
EXTENDS RootGenerator

M == 16
MCState == 0 .. M - 1
MCStep == [s \in MCState |-> (5 * s + 3) % M]
MCSeek == [s \in MCState |-> (13 * s + 13) % M]

(* The states in the order in which the generator goes through them.       *)
MCRootAt[n \in 0 .. M - 1] == IF n = 0 THEN 7 ELSE MCStep[MCRootAt[n - 1]]

(* Seeds one step apart, the last step wrapping around the modulus.        *)
MCInitState == [k \in Lane |-> CASE k = 0 -> 7 [] k = 1 -> 6 [] k = 2 -> 1]

=============================================================================
