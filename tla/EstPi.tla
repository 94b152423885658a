------------------------------- MODULE EstPi -------------------------------
(***************************************************************************)
(* The estimation of pi (misc/estpi/ssrng.cpp, mem_write.cpp).  A chain of *)
(* instances hands every root state on and makes a number of it.  A second *)
(* chain, of application stages, takes two numbers of its instance at a    *)
(* time, one sample, and adds the hits to a packet that mem_write sums.    *)
(* Numbers are waited for; packets are polled.  A stage that finds none    *)
(* starts a new one, whose sample is lost.                                 *)
(*                                                                         *)
(* A root state is its position in the root sequence, and a number is the  *)
(* root position it was made from.  The streams s[0] and o[N] stand for    *)
(* the stream, the pad process and the stream behind it: they hold more    *)
(* than those between the stages, and so capacities are given one by one.  *)
(***************************************************************************)
EXTENDS Streams, Integers, FiniteSets, FiniteSetsExt

CONSTANTS N,                          (* stages: NRMG - 1                    *)
          SDepth, RngDepth, ODepth,   (* capacities: of each s[l], of rng,   *)
                                      (* of each o[l]                        *)
          Size,                       (* packets that mem_write sums         *)
          Word,                       (* size of a memory word: 2^32         *)
          Hit(_, _)                   (* Hit(p, r): the sample of stage p    *)
                                      (* that ends with number r is a hit    *)

ASSUME SizeAssumption ==
    /\ {N, RngDepth, Word} \subseteq Nat \ {0}
    /\ SDepth \in [0 .. N -> Nat \ {0}] /\ ODepth \in [0 .. N -> Nat \ {0}]
    /\ Size \in Nat

Stage == 0 .. N - 1

VARIABLES s, rng, o,    (* the three families of streams                     *)
          root,         (* the next root position                            *)
          ipc, s_pkt,   (* an instance: where it is, the root state in hand  *)
          apc, random,  (* a stage: where it is, the numbers it has read,    *)
          v,            (* and the packet it is about to write               *)
          misses,       (* history: how often a stage found no packet,       *)
          written,      (* and how many packets it has written               *)
          wpc, i,       (* mem_write: where it is, packets read so far,      *)
          counter, mem  (* their sum, and the two words it leaves behind     *)

instances == <<s, rng, root, ipc, s_pkt>>
stages == <<apc, random, v, misses, written>>
memory == <<wpc, i, counter, mem>>
vars == <<instances, o, stages, memory>>

(* A packet: the hits, which is all the code keeps, and for the properties *)
(* the number of samples that were counted.                                *)
Packet(d, n) == [data |-> d, samples |-> n]

One(condition) == IF condition THEN 1 ELSE 0

-----------------------------------------------------------------------------
(* state_transition_merge and pad: the next root state.                    *)
RootIn ==
    /\ CanWrite(s[0], SDepth[0])
    /\ s' = [s EXCEPT ![0] = Append(@, root)]
    /\ root' = root + 1
    /\ UNCHANGED <<rng, ipc, s_pkt, o, stages, memory>>

(* dummy_stream: an empty packet.                                          *)
StartPacket ==
    /\ CanWrite(o[0], ODepth[0])
    /\ o' = [o EXCEPT ![0] = Append(@, Packet(0, 0))]
    /\ UNCHANGED <<instances, stages, memory>>

(* A slip: the sink looks at root states without taking them.              *)
SinkRootPeeks == CanRead(s[N]) /\ UNCHANGED vars

(* sink_stream behind the last instance.                                   *)
SinkRoot ==
    /\ CanRead(s[N])
    /\ s' = [s EXCEPT ![N] = Tail(@)]
    /\ UNCHANGED <<rng, root, ipc, s_pkt, o, stages, memory>>

(* rng_instance: s_in.read(), s_out.write(s_pkt), rng.write(v).            *)
ReadRoot(p) ==
    /\ ipc[p] = "read" /\ CanRead(s[p])
    /\ s_pkt' = [s_pkt EXCEPT ![p] = Head(s[p])]
    /\ s' = [s EXCEPT ![p] = Tail(@)]
    /\ ipc' = [ipc EXCEPT ![p] = "forward"]
    /\ UNCHANGED <<rng, root, o, stages, memory>>

ForwardRoot(p) ==
    /\ ipc[p] = "forward" /\ CanWrite(s[p + 1], SDepth[p + 1])
    /\ s' = [s EXCEPT ![p + 1] = Append(@, s_pkt[p])]
    /\ ipc' = [ipc EXCEPT ![p] = "emit"]
    /\ UNCHANGED <<rng, root, s_pkt, o, stages, memory>>

(* A slip: a number is written over a full stream.                         *)
EmitNumberUnchecked(p) ==
    /\ ipc[p] = "emit"
    /\ rng' = [rng EXCEPT ![p] = Append(@, s_pkt[p])]
    /\ ipc' = [ipc EXCEPT ![p] = "read"]
    /\ UNCHANGED <<s, root, s_pkt, o, stages, memory>>

EmitNumber(p) ==
    /\ ipc[p] = "emit" /\ CanWrite(rng[p], RngDepth)
    /\ rng' = [rng EXCEPT ![p] = Append(@, s_pkt[p])]
    /\ ipc' = [ipc EXCEPT ![p] = "read"]
    /\ UNCHANGED <<s, root, s_pkt, o, stages, memory>>

(* application: rng.read(), twice.                                         *)
ReadNumber(p) ==
    /\ apc[p] = "read" /\ CanRead(rng[p])
    /\ rng' = [rng EXCEPT ![p] = Tail(@)]
    /\ random' = [random EXCEPT ![p] = Append(@, Head(rng[p]))]
    /\ apc' = [apc EXCEPT ![p] = IF Len(random'[p]) = 2 THEN "poll" ELSE "read"]
    /\ UNCHANGED <<s, root, ipc, s_pkt, o, v, misses, written, memory>>

(* read_from_stream_nb(o_in, o_pkg): with a packet, the hit is added ...   *)
PollHit(p) ==
    /\ apc[p] = "poll" /\ CanRead(o[p])
    /\ LET o_pkg == Head(o[p])
       IN v' = [v EXCEPT ![p] =
                   Packet(o_pkg.data + One(Hit(p, random[p][2])), o_pkg.samples + 1)]
    /\ o' = [o EXCEPT ![p] = Tail(@)]
    /\ apc' = [apc EXCEPT ![p] = "write"]
    /\ UNCHANGED <<instances, random, misses, written, memory>>

(* ... without one, the stage writes 0.                                    *)
PollMiss(p) ==
    /\ apc[p] = "poll" /\ ~CanRead(o[p])
    /\ v' = [v EXCEPT ![p] = Packet(0, 0)]
    /\ misses' = [misses EXCEPT ![p] = @ + 1]
    /\ apc' = [apc EXCEPT ![p] = "write"]
    /\ UNCHANGED <<instances, o, random, written, memory>>

(* Slips: the second number is kept as the first of the next sample, or    *)
(* the loop goes back to the packet and not to the numbers.                *)
WritePacketSliding(p) ==
    /\ apc[p] = "write" /\ CanWrite(o[p + 1], ODepth[p + 1])
    /\ o' = [o EXCEPT ![p + 1] = Append(@, v[p])]
    /\ random' = [random EXCEPT ![p] = Tail(@)]
    /\ apc' = [apc EXCEPT ![p] = "read"]
    /\ written' = [written EXCEPT ![p] = @ + 1]
    /\ UNCHANGED <<instances, v, misses, memory>>

WritePacketOnly(p) ==
    /\ apc[p] = "write" /\ CanWrite(o[p + 1], ODepth[p + 1])
    /\ o' = [o EXCEPT ![p + 1] = Append(@, v[p])]
    /\ apc' = [apc EXCEPT ![p] = "poll"]
    /\ written' = [written EXCEPT ![p] = @ + 1]
    /\ UNCHANGED <<instances, random, v, misses, memory>>

(* o_out.write(v).                                                         *)
WritePacket(p) ==
    /\ apc[p] = "write" /\ CanWrite(o[p + 1], ODepth[p + 1])
    /\ o' = [o EXCEPT ![p + 1] = Append(@, v[p])]
    /\ random' = [random EXCEPT ![p] = <<>>]
    /\ apc' = [apc EXCEPT ![p] = "read"]
    /\ written' = [written EXCEPT ![p] = @ + 1]
    /\ UNCHANGED <<instances, v, misses, memory>>

(* mem_write, once the host has launched it: the loop, and its result.     *)
Launch ==
    /\ wpc = "idle"
    /\ wpc' = "running"
    /\ UNCHANGED <<instances, o, stages, i, counter, mem>>

Sum ==
    /\ wpc = "running" /\ i < Size /\ CanRead(o[N])
    /\ counter' = [data |-> counter.data + Head(o[N]).data,
                   samples |-> counter.samples + Head(o[N]).samples]
    /\ o' = [o EXCEPT ![N] = Tail(@)]
    /\ i' = i + 1
    /\ UNCHANGED <<instances, stages, wpc, mem>>

(* A slip: one packet too few.                                             *)
ReturnEarly ==
    /\ wpc = "running" /\ i = Size - 1
    /\ mem' = <<counter.data \div Word, counter.data % Word>>
    /\ wpc' = "done"
    /\ UNCHANGED <<instances, o, stages, i, counter>>

Return ==
    /\ wpc = "running" /\ i = Size
    /\ mem' = <<counter.data \div Word, counter.data % Word>>
    /\ wpc' = "done"
    /\ UNCHANGED <<instances, o, stages, i, counter>>

Instance(p) == ReadRoot(p) \/ ForwardRoot(p) \/ EmitNumber(p)
Application(p) == ReadNumber(p) \/ PollHit(p) \/ PollMiss(p) \/ WritePacket(p)

Init ==
    /\ s = [l \in 0 .. N |-> <<>>]
    /\ rng = [p \in Stage |-> <<>>]
    /\ o = [l \in 0 .. N |-> <<>>]
    /\ root = 0
    /\ ipc = [p \in Stage |-> "read"] /\ s_pkt = [p \in Stage |-> 0]
    /\ apc = [p \in Stage |-> "read"] /\ random = [p \in Stage |-> <<>>]
    /\ v = [p \in Stage |-> Packet(0, 0)]
    /\ misses = [p \in Stage |-> 0] /\ written = [p \in Stage |-> 0]
    /\ wpc = "idle" /\ i = 0 /\ counter = Packet(0, 0) /\ mem = <<0, 0>>

Next ==
    \/ RootIn \/ StartPacket \/ SinkRoot
    \/ \E p \in Stage : Instance(p) \/ Application(p)
    \/ Launch \/ Sum \/ Return

(* Free-running kernels, and a queue that starts what was launched.        *)
Fairness ==
    /\ WF_vars(RootIn) /\ WF_vars(StartPacket) /\ WF_vars(SinkRoot)
    /\ \A p \in Stage : WF_vars(Instance(p)) /\ WF_vars(Application(p))
    /\ WF_vars(Launch \/ Sum \/ Return)

Spec == Init /\ [][Next]_vars /\ Fairness

-----------------------------------------------------------------------------
PacketUpTo(n) == {pkt \in [data : 0 .. n, samples : 0 .. n] : pkt.data <= pkt.samples}

TypeOK ==
    /\ \A l \in 0 .. N : s[l] \in Seq(0 .. root - 1) /\ Len(s[l]) <= SDepth[l]
    /\ \A p \in Stage : rng[p] \in Seq(0 .. root - 1) /\ Len(rng[p]) <= RngDepth
    /\ \A l \in 0 .. N : o[l] \in Seq(PacketUpTo(l)) /\ Len(o[l]) <= ODepth[l]
    /\ ipc \in [Stage -> {"read", "forward", "emit"}] /\ s_pkt \in [Stage -> 0 .. root]
    /\ apc \in [Stage -> {"read", "poll", "write"}]
    /\ \A p \in Stage : Len(random[p]) = 2 <=> apc[p] # "read"
    /\ \A p \in Stage : v[p] \in PacketUpTo(p + 1)
    /\ wpc \in {"idle", "running", "done"} /\ i \in 0 .. Size
    /\ counter \in PacketUpTo(N * i)

(* No number is part of two samples, and a sample is made of two numbers   *)
(* in a row: the numbers from an application stage back to the root        *)
(* sequence are consecutive, and every sample starts at an even position   *)
(* (application, the reads of rng).                                        *)
InHand(p) == IF ipc[p] = "emit" THEN <<s_pkt[p]>> ELSE <<>>

SamplesInOrder ==
    \A p \in Stage :
        LET line == random[p] \o rng[p] \o InHand(p)
        IN /\ \A k \in 1 .. Len(line) - 1 : line[k + 1] = line[k] + 1
           /\ random[p] # <<>> => random[p][1] % 2 = 0

(* What balances between neighbours, and is inductive: the root states a   *)
(* stage was given are the numbers it has made, those of its next          *)
(* neighbour and the states in between; the packets it has written are     *)
(* those the neighbour has read and those in between, where a miss counts  *)
(* as a packet that was not read (rng_instance and application).           *)
Numbers(p) == 2 * written[p] + Len(random[p]) + Len(rng[p]) + One(ipc[p] = "emit")

Balance ==
    \A p \in Stage \ {0} :
        /\ Numbers(p - 1) = Numbers(p) + One(ipc[p] = "forward") + Len(s[p])
        /\ written[p - 1] + misses[p] = written[p] + One(apc[p] = "write") + Len(o[p])

(* Although packets are polled, a stage behind the first one can miss only *)
(* so many of them, however long the program runs: it lives on the root    *)
(* states that the stage in front of it has been given before, so it can   *)
(* poll ahead of it by no more samples than fit between the two, and each  *)
(* miss uses up one.  What a miss costs, it costs once (application, lines *)
(* 108 to 119).                                                            *)
MissLimit == (RngDepth + 3) \div 2
MissesLimited == \A p \in Stage \ {0} : misses[p] <= MissLimit

(* The result, put together from its two words, is short of all samples at *)
(* most by what the misses cost: stage p drops its sample and those of the *)
(* stages in front of it.  It never has a sample too many (mem_write).     *)
Cost == MapThenSumSet(LAMBDA p : (p + 1) * misses[p], Stage)
ResultNearlyComplete ==
    wpc = "done" =>
        /\ mem[2] < Word /\ mem[1] * Word + mem[2] = counter.data
        /\ counter.samples <= N * Size
        /\ counter.samples >= N * Size - Cost

(* mem_write gets its packets, and the host its answer.                    *)
ResultComes == <>(wpc = "done")

=============================================================================
