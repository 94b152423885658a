--------------------------- MODULE BlockingChain ---------------------------
(***************************************************************************)
(* The alternative output unit (fpga/rng/src/soum), which the Makefile     *)
(* leaves out of the build: one chain of instances, each of which reads a  *)
(* root state, passes it on, reads a packet and passes that on with its    *)
(* own number XORed into it, all with blocking accesses.                   *)
(*                                                                         *)
(* Numbers are symbolic, as in OutputChain.  The code gives every instance *)
(* the id 0 (rng_instance_1.cpp, line 70).                                 *)
(***************************************************************************)
EXTENDS Streams, Integers

CONSTANTS NRNG,      (* instances of the unit                                *)
          Depth,     (* capacity of the inner streams (2 in the code)        *)
          LinkDepth, (* capacity of a border: link, adapter and inner stream *)
          Root, RootStep, FirstRoot, (* the root sequence                    *)
          Period,    (* period of the xorshift decorrelators                 *)
          NoVal      (* an uninitialised local variable                      *)

ASSUME SizeAssumption ==
    /\ NRNG \in Nat \ {0} /\ Period \in Nat \ {0}
    /\ Depth \in Nat \ {0} /\ LinkDepth \in Nat \ {0}

ASSUME RootAssumption ==
    /\ RootStep \in [Root -> Root]
    /\ FirstRoot \in Root
    /\ NoVal \notin Root

Instance == 0 .. NRNG - 1
Link == 0 .. NRNG
Capacity(l) == IF l % NRNG = 0 THEN LinkDepth ELSE Depth

InstanceId(p) == 0

(* The number of instance p for a root state, after n jumps.               *)
Output(p, r, n) == {[src |-> "leaf", id |-> InstanceId(p), at |-> r],
                    [src |-> "xorshift", id |-> InstanceId(p), at |-> n]}

XOR(a, b) == (a \ b) \cup (b \ a)

VARIABLES s,         (* the root state streams, s[0] .. s[NRNG]      *)
          o,         (* the packet streams, o[0] .. o[NRNG]          *)
          pc,        (* the next stream access of every instance     *)
          s_pkt,     (* the root state an instance works on          *)
          v,         (* the packet it is about to write              *)
          sg,        (* sg_state: jumps made (mod Period)            *)
          root       (* the root state the merge kernel writes next  *)

vars == <<s, o, pc, s_pkt, v, sg, root>>

-----------------------------------------------------------------------------
RootIn ==
    /\ CanWrite(s[0], Capacity(0))
    /\ s' = [s EXCEPT ![0] = Append(@, root)]
    /\ root' = RootStep[root]
    /\ UNCHANGED <<o, pc, s_pkt, v, sg>>

StartPacket ==
    /\ CanWrite(o[0], Capacity(0))
    /\ o' = [o EXCEPT ![0] = Append(@, {})]
    /\ UNCHANGED <<s, pc, s_pkt, v, sg, root>>

SinkRoot ==
    /\ CanRead(s[NRNG])
    /\ s' = [s EXCEPT ![NRNG] = Tail(@)]
    /\ UNCHANGED <<o, pc, s_pkt, v, sg, root>>

Draw ==
    /\ CanRead(o[NRNG])
    /\ o' = [o EXCEPT ![NRNG] = Tail(@)]
    /\ UNCHANGED <<s, pc, s_pkt, v, sg, root>>

(* soum_instance: s_in.read() ...                                          *)
ReadRoot(p) ==
    /\ pc[p] = "readRoot"
    /\ CanRead(s[p])
    /\ s_pkt' = [s_pkt EXCEPT ![p] = Head(s[p])]
    /\ s' = [s EXCEPT ![p] = Tail(@)]
    /\ pc' = [pc EXCEPT ![p] = "writeRoot"]
    /\ UNCHANGED <<o, v, sg, root>>

(* Slips: the packet is left for the next iteration, or the root state is  *)
(* written over a full stream.                                             *)
WriteRootOnly(p) ==
    /\ pc[p] = "writeRoot"
    /\ CanWrite(s[p + 1], Capacity(p + 1))
    /\ s' = [s EXCEPT ![p + 1] = Append(@, s_pkt[p])]
    /\ pc' = [pc EXCEPT ![p] = "readRoot"]
    /\ s_pkt' = [s_pkt EXCEPT ![p] = NoVal]
    /\ UNCHANGED <<o, v, sg, root>>

WriteRootUnchecked(p) ==
    /\ pc[p] = "writeRoot"
    /\ s' = [s EXCEPT ![p + 1] = Append(@, s_pkt[p])]
    /\ pc' = [pc EXCEPT ![p] = "readPacket"]
    /\ UNCHANGED <<o, s_pkt, v, sg, root>>

(* ... s_out.write(s_pkt) ...                                              *)
WriteRoot(p) ==
    /\ pc[p] = "writeRoot"
    /\ CanWrite(s[p + 1], Capacity(p + 1))
    /\ s' = [s EXCEPT ![p + 1] = Append(@, s_pkt[p])]
    /\ pc' = [pc EXCEPT ![p] = "readPacket"]
    /\ UNCHANGED <<o, s_pkt, v, sg, root>>

(* A slip: the packet is taken with a non-blocking read.                   *)
ReadPacketNb(p) ==
    /\ pc[p] = "readPacket"
    /\ v' = [v EXCEPT ![p] = XOR(IF CanRead(o[p]) THEN Head(o[p]) ELSE {},
                                 Output(p, s_pkt[p], (sg[p] + 1) % Period))]
    /\ sg' = [sg EXCEPT ![p] = (@ + 1) % Period]
    /\ o' = IF CanRead(o[p]) THEN [o EXCEPT ![p] = Tail(@)] ELSE o
    /\ pc' = [pc EXCEPT ![p] = "writePacket"]
    /\ UNCHANGED <<s, s_pkt, root>>

(* ... o_in.read(), and the random number XORed into the packet ...        *)
ReadPacket(p) ==
    /\ pc[p] = "readPacket"
    /\ CanRead(o[p])
    /\ v' = [v EXCEPT ![p] = XOR(Head(o[p]), Output(p, s_pkt[p], (sg[p] + 1) % Period))]
    /\ sg' = [sg EXCEPT ![p] = (@ + 1) % Period]
    /\ o' = [o EXCEPT ![p] = Tail(@)]
    /\ pc' = [pc EXCEPT ![p] = "writePacket"]
    /\ UNCHANGED <<s, s_pkt, root>>

(* ... o_out.write(v).                                                     *)
WritePacket(p) ==
    /\ pc[p] = "writePacket"
    /\ CanWrite(o[p + 1], Capacity(p + 1))
    /\ o' = [o EXCEPT ![p + 1] = Append(@, v[p])]
    /\ pc' = [pc EXCEPT ![p] = "readRoot"]
    /\ s_pkt' = [s_pkt EXCEPT ![p] = NoVal]
    /\ v' = [v EXCEPT ![p] = {}]
    /\ UNCHANGED <<s, sg, root>>

Process(p) == ReadRoot(p) \/ WriteRoot(p) \/ ReadPacket(p) \/ WritePacket(p)

Init ==
    /\ s = [l \in Link |-> <<>>]
    /\ o = [l \in Link |-> <<>>]
    /\ pc = [p \in Instance |-> "readRoot"]
    /\ s_pkt = [p \in Instance |-> NoVal]
    /\ v = [p \in Instance |-> {}]
    /\ sg = [p \in Instance |-> 0]
    /\ root = FirstRoot

Next == RootIn \/ StartPacket \/ SinkRoot \/ Draw \/ \E p \in Instance : Process(p)

(* Free-running hardware, and a host that keeps drawing numbers.           *)
Fairness ==
    /\ WF_vars(RootIn) /\ WF_vars(StartPacket) /\ WF_vars(SinkRoot) /\ WF_vars(Draw)
    /\ \A p \in Instance : WF_vars(Process(p))

Spec == Init /\ [][Next]_vars /\ Fairness

-----------------------------------------------------------------------------
Term == UNION {Output(p, r, n) : p \in Instance, r \in Root, n \in 0 .. Period - 1}

TypeOK ==
    /\ \A l \in Link : s[l] \in Seq(Root) /\ Len(s[l]) <= Capacity(l)
    /\ \A l \in Link : o[l] \in Seq(SUBSET Term) /\ Len(o[l]) <= Capacity(l)
    /\ pc \in [Instance -> {"readRoot", "writeRoot", "readPacket", "writePacket"}]
    /\ \A p \in Instance : s_pkt[p] \in IF pc[p] = "readRoot" THEN {NoVal} ELSE Root
    /\ v \in [Instance -> SUBSET Term]
    /\ sg \in [Instance -> 0 .. Period - 1]
    /\ root \in Root

(* The root states instance p will combine with the packets in front of    *)
(* it, in this order.                                                      *)
RootsAhead(p) == (IF pc[p] \in {"writeRoot", "readPacket"} THEN <<s_pkt[p]>> ELSE <<>>)
                     \o s[p]

(* Lock step: a packet was combined upstream with the very root state, and *)
(* at the very position of the decorrelators, that this instance will      *)
(* combine it with, although root states and packets travel on separate    *)
(* streams (soum_instance, order of the four accesses).                    *)
LockStep ==
    \A p \in Instance \ {0} : \A i \in DOMAIN o[p] :
        /\ i \in DOMAIN RootsAhead(p)
        /\ \A t \in o[p][i] :
              IF t.src = "leaf" THEN t.at = RootsAhead(p)[i]
                                ELSE t.at = (sg[p] + i) % Period

(* Random numbers keep coming: waiting on both streams never closes a      *)
(* circle.                                                                 *)
NumbersKeepComing == []<>(o[NRNG] # <<>>) /\ []<>(o[NRNG] = <<>>)

=============================================================================
