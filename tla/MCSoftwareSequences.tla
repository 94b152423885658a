------------------------ MODULE MCSoftwareSequences ------------------------
(***************************************************************************)
(* SoftwareSequences with the selectors that rng_test.cpp computes: its    *)
(* main fills mapping with the first outputs of pcg_golden, and a selector *)
(* at or above 2^31 is a negative int.                                     *)
(***************************************************************************)
EXTENDS SoftwareSequences

MCSelector == [i \in 0 .. 1 |->
    IF i = 0 THEN <<\hff, \hff, \hff, \hff, \ha1, \h5c, \h02, \hed>>
             ELSE <<\h00, \h00, \h00, \h00, \h7b, \h47, \hf4, \h3f>>]

=============================================================================
