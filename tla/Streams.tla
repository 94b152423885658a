------------------------------ MODULE Streams ------------------------------
(***************************************************************************)
(* The operations of hls::stream that the kernels use, on a stream that is *)
(* held as the sequence of its contents.  A blocking read() or write() is  *)
(* a guard of the action that performs it; read_nb() is a test of CanRead  *)
(* that the action survives either way.                                    *)
(***************************************************************************)
EXTENDS Naturals, Sequences

(* read() may return: the stream is not empty.                             *)
CanRead(stream) == stream # <<>>

(* write() may return: the stream has a free slot.                         *)
CanWrite(stream, depth) == Len(stream) < depth

=============================================================================
