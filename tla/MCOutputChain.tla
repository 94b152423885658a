--------------------------- MODULE MCOutputChain ---------------------------
(***************************************************************************)
(* OutputChain with a root sequence that goes around RootCycle.  The       *)
(* module compares root states only through RootStep, so a rotation of the *)
(* cycle is a symmetry of it.                                              *)
(***************************************************************************)
EXTENDS OutputChain

CONSTANTS r0, r1, r2, r3, r4

RootCycle == <<r0, r1, r2, r3, r4>>
Cycle == Len(RootCycle)

MCRoot == Range(RootCycle)
Turn(k) == [r \in MCRoot |-> LET i == CHOOSE j \in 1 .. Cycle : RootCycle[j] = r
                             IN  RootCycle[((i + k - 1) % Cycle) + 1]]
MCRootStep == Turn(1)

(* With one root state for all (OutputChainLive) NoNumberTwice is not      *)
(* checked; otherwise what it rests on holds.                              *)
ASSUME PeriodAssumption ==
    \/ Cardinality(MCRoot) = 1
    \/ PeriodsSuffice([i \in 0 .. Cycle - 1 |-> RootCycle[i + 1]], Cycle)

Rotations == {Turn(k) : k \in 1 .. Cycle - 1}

=============================================================================
