------------------------------ MODULE MCEstPi ------------------------------
(* Constants for model checking EstPi: two samples of three hit, and the   *)
(* stream of root states with the pad process holds more than the others.  *)
EXTENDS EstPi

MCHit(p, r) == (p + r) % 3 # 0

MCSDepth == [l \in 0 .. N |-> IF l = 0 THEN 2 ELSE 1]
MCODepth == [l \in 0 .. N |-> 1]

=============================================================================
