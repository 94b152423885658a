-------------------------- MODULE MCBlockingChain --------------------------
(***************************************************************************)
(* BlockingChain with a root sequence that goes around four states.        *)
(***************************************************************************)
EXTENDS BlockingChain

MCRoot == 0 .. 3
MCRootStep == [r \in MCRoot |-> (r + 1) % 4]

=============================================================================
