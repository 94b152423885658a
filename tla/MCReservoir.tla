---------------------------- MODULE MCReservoir ----------------------------
(***************************************************************************)
(* Reservoir on two short streams of edges, with the random numbers that   *)
(* make a stage do each of the things it can do.                           *)
(***************************************************************************)
EXTENDS Reservoir

Of(seq) == [j \in 0 .. Len(seq) - 1 |-> seq[j + 1]]

Case(s, d, r, r2) == [s |-> Of(s), d |-> Of(d), r |-> Of(r), r2 |-> Of(r2)]

(* Two stages find a triangle each, and one of them then starts over; a    *)
(* second edge is replaced before its triangle is closed.                  *)
MCRun == { Case(<<1, 1, 2, 2>>, <<2, 3, 3, 1>>, <<7, 0, 5, 1>>, <<0, 0, 7, 7>>),
           Case(<<1, 3, 2, 2>>, <<2, 1, 4, 3>>, <<0, 7, 5, 3>>, <<0, 0, 3, 7>>) }

=============================================================================
