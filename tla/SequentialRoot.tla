-------------------------- MODULE SequentialRoot --------------------------
(***************************************************************************)
(* The abstract root state generator: one linear congruential generator    *)
(* that writes its states, one after the other, into a bounded stream.     *)
(* It is what the nine leapfrogged updaters and the merge kernel together  *)
(* stand for: the shared root sequence that every output unit reads.       *)
(***************************************************************************)
EXTENDS Streams

CONSTANTS State,     (* the root states                                 *)
          Step,      (* one transition of the generator: [State -> State] *)
          FirstState,(* the first state written                         *)
          OutDepth   (* capacity of the output stream                   *)

VARIABLES next,      (* the state the generator writes next *)
          out        (* the output stream                   *)

vars == <<next, out>>

-----------------------------------------------------------------------------

Init == /\ next = FirstState
        /\ out = <<>>

Emit == /\ CanWrite(out, OutDepth)
        /\ out' = Append(out, next)
        /\ next' = Step[next]

Consume == /\ CanRead(out)
           /\ out' = Tail(out)
           /\ UNCHANGED next

Next == Emit \/ Consume

Spec == Init /\ [][Next]_vars /\ WF_vars(Emit) /\ WF_vars(Consume)

=============================================================================
