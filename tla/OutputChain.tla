---------------------------- MODULE OutputChain ----------------------------
(***************************************************************************)
(* The output units (fpga/rng/src/sou): a chain of leaf generators that    *)
(* hand the root states from one to the next, and a chain of instances     *)
(* that hand an output packet from one to the next, each XORing its own    *)
(* random number into it.  A leaf generator reaches its instance through a *)
(* stream that the instance polls with read_nb: it never waits for a leaf  *)
(* number, it passes the packet on without one.                            *)
(*                                                                         *)
(* Units compute units of NRNG instances are linked as Linkage has it:     *)
(* root states run from unit 1 to unit Units, packets the other way.       *)
(* Within a unit, instance i is served by leaf generator NRNG - i - 1.     *)
(*                                                                         *)
(* Numbers are symbolic: a packet is the set of the terms XORed into it,   *)
(* so that equal terms cancel.  A term names the generator it comes from,  *)
(* by the id that selects its parameters, and the root state or the        *)
(* position of the xorshift generator it was computed from.                *)
(***************************************************************************)
EXTENDS Streams, Linkage, FiniteSets, FiniteSetsExt, Functions

CONSTANTS Units,      (* compute units: CUs of gen_link.c                     *)
          NRNG,       (* instances of a unit                                  *)
          Depth,      (* capacity of the inner streams (2 in the code)        *)
          LinkDepth,  (* capacity of a border: link, adapter and inner stream *)
          Root,       (* root states                                          *)
          RootStep,   (* the root sequence: [Root -> Root]                    *)
          FirstRoot,  (* INIT_STATE_0                                         *)
          Period,     (* period of the xorshift decorrelators                 *)
          NoVal       (* an uninitialised local variable                      *)

ASSUME SizeAssumption ==
    /\ Units \in Nat \ {0} /\ NRNG \in Nat \ {0}
    /\ Depth \in Nat \ {0} /\ LinkDepth \in Nat \ {0}
    /\ Period \in Nat \ {0}

ASSUME RootAssumption ==
    /\ RootStep \in [Root -> Root]
    /\ FirstRoot \in Root
    /\ NoVal \notin Root

-----------------------------------------------------------------------------
(* Leaf generators are numbered along the chain of root states, instances  *)
(* along the chain of packets.                                             *)
Total == Units * NRNG
Position == 0 .. Total - 1
Link == 0 .. Total

(* s[0], s[NRNG], ... and o[0], o[NRNG], ... cross the border of a unit.   *)
Capacity(l) == IF l % NRNG = 0 THEN LinkDepth ELSE Depth

RootUnits == [n \in 1 .. Units |-> RootOrder(Units)[n]]
PacketUnits == [n \in 1 .. Units |-> PacketOrder(Units)[n]]
UnitOfLeaf(g) == RootUnits[(g \div NRNG) + 1]
UnitOfInstance(p) == PacketUnits[(p \div NRNG) + 1]

(* A slip: the template's unit number is not substituted.                  *)
KernelIdOfTemplate(k) == NRNG - 1

KernelId(k) == k * NRNG - 1
LeafId(g) == 54 + KernelId(UnitOfLeaf(g)) + (g % NRNG)
InstanceId(p) == KernelId(UnitOfInstance(p)) + (p % NRNG)

(* A slip: the pairing of the first unit used for all of them.             *)
LeafOfFirstUnit(p) == NRNG - (p % NRNG) - 1

(* leaf_state[NRNG - i - 1] of the unit of the instance.                   *)
Pairing == [p \in Position |->
    CHOOSE g \in Position : /\ UnitOfLeaf(g) = UnitOfInstance(p)
                            /\ g % NRNG = NRNG - (p % NRNG) - 1]
LeafOf(p) == Pairing[p]

(* output_function(multi_stream(state, 54 + id)) of leaf generator g.      *)
LeafTerm(g, root) == [src |-> "leaf", id |-> LeafId(g), at |-> root]

(* xorshiftjump applied n times to tmp_xor32_s[id] of instance p.          *)
JumpTerm(p, n) == [src |-> "xorshift", id |-> InstanceId(p), at |-> n]

XOR(a, b) == (a \ b) \cup (b \ a)

VARIABLES s,         (* the root state streams, s[0] .. s[Total]            *)
          o,         (* the packet streams, o[0] .. o[Total]                *)
          leaf,      (* leaf_state: from leaf generators to their instances *)
          lpc, lreg, (* next access and variable "state" of leaf generators *)
          ipc, ireg, (* next access of an instance and the packet it holds  *)
          sg,        (* sg_state: jumps an instance has made (mod Period)   *)
          root       (* the root state the merge kernel writes next         *)

rootVars == <<s, leaf, lpc, lreg, root>>
packetVars == <<o, ipc, ireg, sg>>
vars == <<s, o, leaf, lpc, lreg, ipc, ireg, sg, root>>

-----------------------------------------------------------------------------
(* The merge kernel feeds the chain of root states.                        *)
RootIn ==
    /\ CanWrite(s[0], Capacity(0))
    /\ s' = [s EXCEPT ![0] = Append(@, root)]
    /\ root' = RootStep[root]
    /\ UNCHANGED <<leaf, lpc, lreg, packetVars>>

(* leaf_state_stream: read a root state, ...                               *)
LeafRead(g) ==
    /\ lpc[g] = "read"
    /\ CanRead(s[g])
    /\ lreg' = [lreg EXCEPT ![g] = Head(s[g])]
    /\ s' = [s EXCEPT ![g] = Tail(@)]
    /\ lpc' = [lpc EXCEPT ![g] = "forward"]
    /\ UNCHANGED <<leaf, root, packetVars>>

(* A slip: a full stream to the next generator drops the root state.       *)
LeafForwardOrDrop(g) ==
    /\ lpc[g] = "forward"
    /\ s' = IF CanWrite(s[g + 1], Capacity(g + 1))
            THEN [s EXCEPT ![g + 1] = Append(@, lreg[g])] ELSE s
    /\ lpc' = [lpc EXCEPT ![g] = "leaf"]
    /\ UNCHANGED <<leaf, lreg, root, packetVars>>

(* ... pass it on, ...                                                     *)
LeafForward(g) ==
    /\ lpc[g] = "forward"
    /\ CanWrite(s[g + 1], Capacity(g + 1))
    /\ s' = [s EXCEPT ![g + 1] = Append(@, lreg[g])]
    /\ lpc' = [lpc EXCEPT ![g] = "leaf"]
    /\ UNCHANGED <<leaf, lreg, root, packetVars>>

(* ... and hand the leaf number to the instance.                           *)
LeafWrite(g) ==
    /\ lpc[g] = "leaf"
    /\ CanWrite(leaf[g], Depth)
    /\ leaf' = [leaf EXCEPT ![g] = Append(@, lreg[g])]
    /\ lpc' = [lpc EXCEPT ![g] = "read"]
    /\ lreg' = [lreg EXCEPT ![g] = NoVal]
    /\ UNCHANGED <<s, root, packetVars>>

(* rng_end sinks the root states.                                          *)
SinkRoot ==
    /\ CanRead(s[Total])
    /\ s' = [s EXCEPT ![Total] = Tail(@)]
    /\ UNCHANGED <<leaf, lpc, lreg, root, packetVars>>

(* rng_start writes packets of zero.                                       *)
StartPacket ==
    /\ CanWrite(o[0], Capacity(0))
    /\ o' = [o EXCEPT ![0] = Append(@, {})]
    /\ UNCHANGED <<ipc, ireg, sg, rootVars>>

(* The number an instance adds: its decorrelator's, XORed with the leaf    *)
(* number that has been waiting longest.                                   *)
Jumped(p) == (sg[p] + 1) % Period
Output(p) == XOR({JumpTerm(p, Jumped(p))},
                 {LeafTerm(LeafOf(p), Head(leaf[LeafOf(p)]))})

(* A slip: the decorrelator jumps only when a leaf number is there.        *)
CombineJumpsOnHit(p) ==
    /\ ipc[p] = "read"
    /\ CanRead(o[p])
    /\ IF CanRead(leaf[LeafOf(p)])
       THEN /\ ireg' = [ireg EXCEPT ![p] = XOR(Head(o[p]), Output(p))]
            /\ leaf' = [leaf EXCEPT ![LeafOf(p)] = Tail(@)]
            /\ sg' = [sg EXCEPT ![p] = Jumped(p)]
       ELSE /\ ireg' = [ireg EXCEPT ![p] = Head(o[p])]
            /\ UNCHANGED <<leaf, sg>>
    /\ o' = [o EXCEPT ![p] = Tail(@)]
    /\ ipc' = [ipc EXCEPT ![p] = "write"]
    /\ UNCHANGED <<s, lpc, lreg, root>>

(* A slip: the instance looks at the leaf number without consuming it.     *)
CombinePeeks(p) ==
    /\ ipc[p] = "read"
    /\ CanRead(o[p])
    /\ ireg' = [ireg EXCEPT ![p] = IF CanRead(leaf[LeafOf(p)])
                                   THEN XOR(Head(o[p]), Output(p)) ELSE Head(o[p])]
    /\ sg' = [sg EXCEPT ![p] = Jumped(p)]
    /\ o' = [o EXCEPT ![p] = Tail(@)]
    /\ ipc' = [ipc EXCEPT ![p] = "write"]
    /\ UNCHANGED <<leaf, s, lpc, lreg, root>>

(* instance: jump the decorrelator, read a packet, and XOR the random      *)
(* number into it if read_nb finds a leaf number.                          *)
Combine(p) ==
    /\ ipc[p] = "read"
    /\ CanRead(o[p])
    /\ IF CanRead(leaf[LeafOf(p)])
       THEN /\ ireg' = [ireg EXCEPT ![p] = XOR(Head(o[p]), Output(p))]
            /\ leaf' = [leaf EXCEPT ![LeafOf(p)] = Tail(@)]
       ELSE /\ ireg' = [ireg EXCEPT ![p] = Head(o[p])]
            /\ UNCHANGED leaf
    /\ sg' = [sg EXCEPT ![p] = Jumped(p)]
    /\ o' = [o EXCEPT ![p] = Tail(@)]
    /\ ipc' = [ipc EXCEPT ![p] = "write"]
    /\ UNCHANGED <<s, lpc, lreg, root>>

(* A slip: a write that does not wait for a free slot.                     *)
PutPacketUnchecked(p) ==
    /\ ipc[p] = "write"
    /\ o' = [o EXCEPT ![p + 1] = Append(@, ireg[p])]
    /\ ipc' = [ipc EXCEPT ![p] = "read"]
    /\ ireg' = [ireg EXCEPT ![p] = {}]
    /\ UNCHANGED <<sg, rootVars>>

(* The packet goes on to the next instance, or to rng_main.                *)
PutPacket(p) ==
    /\ ipc[p] = "write"
    /\ CanWrite(o[p + 1], Capacity(p + 1))
    /\ o' = [o EXCEPT ![p + 1] = Append(@, ireg[p])]
    /\ ipc' = [ipc EXCEPT ![p] = "read"]
    /\ ireg' = [ireg EXCEPT ![p] = {}]
    /\ UNCHANGED <<sg, rootVars>>

(* rng_main draws a random number.                                         *)
Draw ==
    /\ CanRead(o[Total])
    /\ o' = [o EXCEPT ![Total] = Tail(@)]
    /\ UNCHANGED <<ipc, ireg, sg, rootVars>>

-----------------------------------------------------------------------------
Init ==
    /\ s = [l \in Link |-> <<>>]
    /\ o = [l \in Link |-> <<>>]
    /\ leaf = [g \in Position |-> <<>>]
    /\ lpc = [g \in Position |-> "read"]
    /\ lreg = [g \in Position |-> NoVal]
    /\ ipc = [p \in Position |-> "read"]
    /\ ireg = [p \in Position |-> {}]
    /\ sg = [p \in Position |-> 0]
    /\ root = FirstRoot

Next ==
    \/ RootIn
    \/ \E g \in Position : LeafRead(g) \/ LeafForward(g) \/ LeafWrite(g)
    \/ SinkRoot
    \/ StartPacket
    \/ \E p \in Position : Combine(p) \/ PutPacket(p)
    \/ Draw

(* Every process is free running hardware.  Draw is fair while the host    *)
(* keeps drawing random numbers.                                           *)
Fairness ==
    /\ WF_vars(RootIn) /\ WF_vars(SinkRoot) /\ WF_vars(StartPacket)
    /\ \A g \in Position : WF_vars(LeafRead(g) \/ LeafForward(g) \/ LeafWrite(g))
    /\ \A p \in Position : WF_vars(Combine(p) \/ PutPacket(p))
    /\ WF_vars(Draw)

Spec == Init /\ [][Next]_vars /\ Fairness

-----------------------------------------------------------------------------
Term == {LeafTerm(g, r) : g \in Position, r \in Root}
            \cup {JumpTerm(p, n) : p \in Position, n \in 0 .. Period - 1}

TypeOK ==
    /\ \A l \in Link : s[l] \in Seq(Root) /\ Len(s[l]) <= Capacity(l)
    /\ \A l \in Link : o[l] \in Seq(SUBSET Term) /\ Len(o[l]) <= Capacity(l)
    /\ \A g \in Position : leaf[g] \in Seq(Root) /\ Len(leaf[g]) <= Depth
    /\ lpc \in [Position -> {"read", "forward", "leaf"}]
    /\ \A g \in Position : lreg[g] \in IF lpc[g] = "read" THEN {NoVal} ELSE Root
    /\ ipc \in [Position -> {"read", "write"}]
    /\ ireg \in [Position -> SUBSET Term]
    /\ sg \in [Position -> 0 .. Period - 1]
    /\ root \in Root

(* The root states that are still to pass generator g, oldest first: those *)
(* held by or queued to the generators before it, and the one the merge    *)
(* kernel writes next.                                                     *)
Held(g) == IF lpc[g] = "forward" THEN <<lreg[g]>> ELSE <<>>
Upstream[l \in Link] == IF l = 0 THEN s[0] \o <<root>>
                                 ELSE s[l] \o Held(l - 1) \o Upstream[l - 1]

(* The numbers that wait for the instance of generator g, and those that   *)
(* are still to come.                                                      *)
LeafLine(g) == leaf[g] \o (IF lpc[g] = "read" THEN <<>> ELSE <<lreg[g]>>)
                       \o Upstream[g]

Consecutive(line) == \A i \in 1 .. Len(line) - 1 : line[i + 1] = RootStep[line[i]]

(* Every leaf generator and rng_end see every root state once and in       *)
(* order, however far the generators drift apart (leaf_state_stream reads, *)
(* passes on and uses each root state, whatever blocks it in between).     *)
EveryRootSeen ==
    /\ \A g \in Position : Consecutive(LeafLine(g))
    /\ Consecutive(Upstream[Total])

(* The i-th packet in front of instance p is the i-th it will combine: the *)
(* decorrelators of all instances count the packets of the chain, hit or   *)
(* miss, so that the numbers XORed into one packet come from the same      *)
(* position of all xorshift generators (sg_state is updated before         *)
(* read_nb).                                                               *)
DecorrelatorsInStep ==
    \A p \in Position \ {0} : \A i \in DOMAIN o[p] : \A t \in o[p][i] :
        t.src = "xorshift" => t.at = (sg[p] + i) % Period

(* Packets on their way: the i-th of a stream, or the one an instance has  *)
(* combined and not yet passed on (place 0).                               *)
Places == (UNION {{l} \X DOMAIN o[l] : l \in Link})
            \cup ({p \in Position : ipc[p] = "write"} \X {0})
PacketAt(x) == IF x[2] = 0 THEN ireg[x[1]] ELSE o[x[1]][x[2]]

Waiting == UNION {{LeafTerm(g, r) : r \in Range(leaf[g])} : g \in Position}

(* No random number is used for two packets, and none that was used is     *)
(* still waiting in a leaf stream.  (Where PeriodsSuffice.)                *)
NoNumberTwice ==
    \A x, y \in Places :
        /\ x # y => PacketAt(x) \cap PacketAt(y) = {}
        /\ PacketAt(x) \cap Waiting = {}

(* The packets that the streams behind the first instance, and the         *)
(* instances, can hold.                                                    *)
Room == MapThenSumSet(LAMBDA l : Capacity(l) + 1, 1 .. Total)

(* The root sequence goes around cycle[0], ..., cycle[n - 1].              *)
GoesAround(cycle, n) ==
    /\ n \in Nat \ {0} /\ cycle \in [0 .. n - 1 -> Root]
    /\ \A i, j \in 0 .. n - 1 : cycle[i] = cycle[j] => i = j
    /\ cycle[0] = FirstRoot
    /\ \A i \in 0 .. n - 1 : RootStep[cycle[i]] = cycle[(i + 1) % n]

(* Neither the root sequence nor the decorrelators repeat within what the  *)
(* chain can hold.  (In the code: 2^64, and at most 2^32 - 1 for the 32    *)
(* bits of xorshiftjump, against thousands.)                               *)
PeriodsSuffice(cycle, n) ==
    GoesAround(cycle, n) /\ Room + Depth <= n /\ Room <= Period

(* A packet is made of whole numbers: for each instance it has passed, one *)
(* term of the decorrelator and one of that instance's leaf generator, or  *)
(* neither.  (An id says which of the generators of a kind is meant.  Both *)
(* halves go by LeafOf, and another pairing one to one would be as good;   *)
(* that it is one to one is PairingOneToOne, in OutputChain_proofs.)       *)
Of(packet, src, id) == {t \in packet : t.src = src /\ t.id = id}
WholeNumbers ==
    \A x \in Places, p \in Position :
        LET own == Of(PacketAt(x), "xorshift", InstanceId(p))
            leafs == Of(PacketAt(x), "leaf", LeafId(LeafOf(p)))
        IN  /\ Cardinality(own) = Cardinality(leafs) /\ Cardinality(own) <= 1
            /\ own # {} => p < x[1] \/ x = <<p, 0>>

(* No instance starves: although it never waits for a leaf number, each    *)
(* keeps getting them, from the one leaf generator that serves it (which   *)
(* one that is does not matter here either).                               *)
EveryInstanceContributes ==
    \A p \in Position : []<>(\E t \in ireg[p] : t.src = "xorshift" /\ t.id = InstanceId(p))

(* The chain of leaf generators never locks up behind a stream of leaf     *)
(* numbers: root states keep reaching rng_end.                             *)
RootsReachEnd == []<>(s[Total] # <<>>) /\ []<>(s[Total] = <<>>)

(* "The kernel [...] stalls when the data is not available" (README.rst,   *)
(* line 59): no random number that holds nothing random reaches rng_main.  *)
StallsWithoutData == {} \notin Range(o[Total])

=============================================================================
