--------------------------- MODULE StreamAdapter ---------------------------
(***************************************************************************)
(* axis_to_hls_stream and hls_to_axis_stream (stream_operation.h): a       *)
(* dataflow process that copies the AXI stream at the border of an output  *)
(* unit to the inner stream behind it, or back.  pad is the same loop      *)
(* within one stream type.                                                 *)
(*                                                                         *)
(* Together with the streams on both sides the adapter is one longer       *)
(* stream (Fifo below).  OutputChain and BlockingChain use that: a border  *)
(* stream of theirs stands for an AXI link, an adapter and an inner        *)
(* stream.                                                                 *)
(***************************************************************************)
EXTENDS Streams

CONSTANTS Data,      (* payloads: the adapters copy the data field only *)
          InDepth,   (* capacity of the stream in front of the adapter  *)
          OutDepth   (* capacity of the stream behind it                *)

ASSUME DepthAssumption == InDepth \in Nat \ {0} /\ OutDepth \in Nat \ {0}

VARIABLES in,        (* the stream in front of the adapter       *)
          held,      (* the value read and not yet written: <<>> *)
                     (* before the read, <<data>> after it       *)
          out        (* the stream behind the adapter            *)

adapterVars == <<in, held, out>>

-----------------------------------------------------------------------------
(* The kernel in front writes ...                                          *)
Produce(d) ==
    /\ CanWrite(in, InDepth)
    /\ in' = Append(in, d)
    /\ UNCHANGED <<held, out>>

(* A slip: the adapter peeks at its input instead of reading it.           *)
TakePeeks ==
    /\ held = <<>>
    /\ CanRead(in)
    /\ held' = <<Head(in)>>
    /\ UNCHANGED <<in, out>>

(* ... data = in.read() ...                                                *)
Take ==
    /\ held = <<>>
    /\ CanRead(in)
    /\ held' = <<Head(in)>>
    /\ in' = Tail(in)
    /\ UNCHANGED out

(* A slip: a write that does not wait for a free slot.                     *)
GiveUnchecked ==
    /\ held # <<>>
    /\ out' = out \o held
    /\ held' = <<>>
    /\ UNCHANGED in

(* ... out.write(data) ...                                                 *)
Give ==
    /\ held # <<>>
    /\ CanWrite(out, OutDepth)
    /\ out' = out \o held
    /\ held' = <<>>
    /\ UNCHANGED in

(* ... and the kernel behind reads.                                        *)
Deliver ==
    /\ CanRead(out)
    /\ out' = Tail(out)
    /\ UNCHANGED <<in, held>>

AdapterInit == in = <<>> /\ held = <<>> /\ out = <<>>

AdapterNext == (\E d \in Data : Produce(d)) \/ Take \/ Give \/ Deliver

AdapterFairness == WF_adapterVars(Take) /\ WF_adapterVars(Give) /\ WF_adapterVars(Deliver)

AdapterSpec == AdapterInit /\ [][AdapterNext]_adapterVars /\ AdapterFairness

-----------------------------------------------------------------------------
AdapterTypeOK ==
    /\ in \in Seq(Data) /\ Len(in) <= InDepth
    /\ held \in Seq(Data) /\ Len(held) <= 1
    /\ out \in Seq(Data) /\ Len(out) <= OutDepth

(* What the kernels at the two ends see: one FIFO of the summed capacity,  *)
(* the adapter's register included, which delivers what it was given.      *)
Fifo == INSTANCE BoundedFifo WITH fifo <- out \o held \o in,
                                  Capacity <- InDepth + 1 + OutDepth

IsOneFifo == Fifo!Spec

=============================================================================
