---------------------------- MODULE BoundedFifo ----------------------------
(***************************************************************************)
(* What an hls::stream promises to the two kernels at its ends: a FIFO of  *)
(* fixed capacity, a write that blocks while it is full and a read that    *)
(* blocks while it is empty.  Every link of the FPGA design is one of      *)
(* these, an AXI stream between two kernels as well as an inner stream of  *)
(* a dataflow region.                                                      *)
(***************************************************************************)
EXTENDS Naturals, Sequences

CONSTANTS Data,      (* the values that travel on the stream *)
          Capacity   (* how many of them it can hold         *)

VARIABLE fifo

-----------------------------------------------------------------------------

Init == fifo = <<>>

Write(d) == /\ Len(fifo) < Capacity
            /\ fifo' = Append(fifo, d)

Read(d) == /\ fifo # <<>>
           /\ d = Head(fifo)
           /\ fifo' = Tail(fifo)

Next == \E d \in Data : Write(d) \/ Read(d)

Spec == Init /\ [][Next]_fifo /\ WF_fifo(\E d \in Data : Read(d))

=============================================================================
