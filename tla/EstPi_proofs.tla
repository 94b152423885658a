---------------------------- MODULE EstPi_proofs ----------------------------
(***************************************************************************)
(* For any number of stages, any capacities and any hits: a stage misses   *)
(* only so many packets, its samples are made of neighbouring numbers of   *)
(* one sequence, and what the last packet adds up to lacks only what the   *)
(* misses cost.  First the counting invariant (CountInv), then where the   *)
(* numbers and samples are, then what the packets contain.                 *)
(***************************************************************************)
EXTENDS EstPi, StreamFacts

Packets == [data : Nat, samples : Nat]

(* The types that counting needs, part by part.                            *)
RootTypes ==
    /\ s \in [0 .. N -> Seq(Nat)] /\ root \in Nat
    /\ ipc \in [Stage -> {"read", "forward", "emit"}] /\ s_pkt \in [Stage -> Nat]
NumberTypes ==
    /\ rng \in [Stage -> Seq(Nat)]
    /\ \A p \in Stage : Len(rng[p]) <= RngDepth
PacketTypes == o \in [0 .. N -> Seq(Packets)] /\ v \in [Stage -> Packets]
SampleTypes ==
    /\ apc \in [Stage -> {"read", "poll", "write"}]
    /\ random \in [Stage -> Seq(Nat)]
    /\ \A p \in Stage : Len(random[p]) <= 2 /\ (Len(random[p]) = 2 <=> apc[p] # "read")
HistoryTypes == misses \in [Stage -> Nat] /\ written \in [Stage -> Nat]

CountType == RootTypes /\ NumberTypes /\ PacketTypes /\ SampleTypes /\ HistoryTypes

(* The places that a stage and its instance touch exist.                   *)
LEMMA StageFacts ==
    ASSUME NEW p \in Stage
    PROVE  /\ p \in 0 .. N /\ p + 1 \in 0 .. N /\ p \in Nat /\ p + 1 # p
  BY SizeAssumption DEF Stage

LEMMA EndFacts == 0 \in 0 .. N /\ N \in 0 .. N /\ RngDepth \in Nat
  BY SizeAssumption

(* One is a number.                                                        *)
LEMMA OneFacts == ASSUME NEW c \in BOOLEAN PROVE One(c) \in Nat
  BY DEF One

(* All types hold in the beginning.                                        *)
LEMMA InitTypes == Init => CountType
<1> SUFFICES ASSUME Init PROVE CountType
  OBVIOUS
<1> USE SizeAssumption DEF Init
<1>1. RootTypes /\ NumberTypes
  BY DEF RootTypes, NumberTypes
<1>2. PacketTypes
  BY DEF PacketTypes, Packets, Packet
<1>3. SampleTypes /\ HistoryTypes
  BY DEF SampleTypes, HistoryTypes
<1>4. QED
  BY <1>1, <1>2, <1>3 DEF CountType

(* The root chain and its instances keep the types.                        *)
LEMMA RootSide ==
    ASSUME CountType,
           RootIn \/ SinkRoot \/ \E p \in Stage : Instance(p)
    PROVE  CountType'
<1> USE DEF CanRead, CanWrite, memory, stages
<1>1. CASE RootIn
  <2>1. Append(s[0], root) \in Seq(Nat)
    BY EndFacts, AppendFacts DEF CountType, RootTypes
  <2>2. RootTypes'
    BY <1>1, <2>1, EndFacts DEF RootIn, CountType, RootTypes
  <2>3. QED
    BY <1>1, <2>2 DEF RootIn, CountType, NumberTypes, PacketTypes, SampleTypes, HistoryTypes
<1>2. CASE SinkRoot
  <2>1. Tail(s[N]) \in Seq(Nat)
    BY <1>2, EndFacts, TailFacts DEF SinkRoot, CountType, RootTypes
  <2>2. RootTypes'
    BY <1>2, <2>1, EndFacts DEF SinkRoot, CountType, RootTypes
  <2>3. QED
    BY <1>2, <2>2 DEF SinkRoot, CountType, NumberTypes, PacketTypes, SampleTypes, HistoryTypes
<1>3. ASSUME NEW p \in Stage, ReadRoot(p) PROVE CountType'
  <2>1. Head(s[p]) \in Nat /\ Tail(s[p]) \in Seq(Nat)
    BY <1>3, StageFacts, TailFacts DEF ReadRoot, CountType, RootTypes
  <2>2. RootTypes'
    BY <1>3, <2>1, StageFacts DEF ReadRoot, CountType, RootTypes
  <2>3. QED
    BY <1>3, <2>2 DEF ReadRoot, CountType, NumberTypes, PacketTypes, SampleTypes, HistoryTypes
<1>4. ASSUME NEW p \in Stage, ForwardRoot(p) PROVE CountType'
  <2>1. Append(s[p + 1], s_pkt[p]) \in Seq(Nat)
    BY StageFacts, AppendFacts DEF CountType, RootTypes
  <2>2. RootTypes'
    BY <1>4, <2>1, StageFacts DEF ForwardRoot, CountType, RootTypes
  <2>3. QED
    BY <1>4, <2>2 DEF ForwardRoot, CountType, NumberTypes, PacketTypes, SampleTypes, HistoryTypes
<1>5. ASSUME NEW p \in Stage, EmitNumber(p) PROVE CountType'
  <2>1. /\ Append(rng[p], s_pkt[p]) \in Seq(Nat)
        /\ Len(Append(rng[p], s_pkt[p])) = Len(rng[p]) + 1 /\ Len(rng[p]) \in Nat
    BY AppendFacts DEF CountType, RootTypes, NumberTypes
  <2>2. Len(Append(rng[p], s_pkt[p])) <= RngDepth
    <3>1. Len(rng[p]) < RngDepth
      BY <1>5 DEF EmitNumber
    <3>2. QED
      BY <2>1, <3>1, EndFacts
  <2>3. NumberTypes'
    BY <1>5, <2>1, <2>2 DEF EmitNumber, CountType, NumberTypes
  <2>4. RootTypes'
    BY <1>5 DEF EmitNumber, CountType, RootTypes
  <2>5. QED
    BY <1>5, <2>3, <2>4 DEF EmitNumber, CountType, PacketTypes, SampleTypes, HistoryTypes
<1>6. QED
  BY <1>1, <1>2, <1>3, <1>4, <1>5 DEF Instance

(* Reading a number: what happens to the numbers in hand.                  *)
LEMMA ReadNumberFacts ==
    ASSUME CountType, NEW p \in Stage, ReadNumber(p)
    PROVE  /\ rng[p] # <<>> /\ Len(rng[p]) \in Nat
           /\ rng' = [rng EXCEPT ![p] = Tail(rng[p])]
           /\ Tail(rng[p]) \in Seq(Nat) /\ Len(Tail(rng[p])) = Len(rng[p]) - 1
           /\ random' = [random EXCEPT ![p] = Append(random[p], Head(rng[p]))]
           /\ Append(random[p], Head(rng[p])) \in Seq(Nat)
           /\ Len(Append(random[p], Head(rng[p]))) = Len(random[p]) + 1
           /\ Len(random[p]) \in Nat /\ Len(random[p]) + 1 <= 2
           /\ apc' = [apc EXCEPT ![p] = IF Len(random[p]) + 1 = 2 THEN "poll" ELSE "read"]
<1>1. rng[p] \in Seq(Nat) /\ rng[p] # <<>> /\ random[p] \in Seq(Nat)
  BY DEF ReadNumber, CanRead, CountType, NumberTypes, SampleTypes
<1>2. /\ Head(rng[p]) \in Nat /\ Tail(rng[p]) \in Seq(Nat)
      /\ Len(Tail(rng[p])) = Len(rng[p]) - 1 /\ Len(rng[p]) \in Nat
  BY <1>1, TailFacts
<1>3. /\ Append(random[p], Head(rng[p])) \in Seq(Nat)
      /\ Len(Append(random[p], Head(rng[p]))) = Len(random[p]) + 1
      /\ Len(random[p]) \in Nat
  BY <1>1, <1>2, AppendFacts
<1>4. /\ random' = [random EXCEPT ![p] = Append(random[p], Head(rng[p]))]
      /\ random'[p] = Append(random[p], Head(rng[p]))
      /\ apc' = [apc EXCEPT ![p] = IF Len(random'[p]) = 2 THEN "poll" ELSE "read"]
  BY DEF ReadNumber, CountType, SampleTypes
<1>5. Len(random[p]) # 2 /\ Len(random[p]) <= 2
  BY DEF ReadNumber, CountType, SampleTypes
<1>6. Len(random[p]) + 1 <= 2
  <2> DEFINE n == Len(random[p])
  <2>1. n \in Nat /\ n # 2 /\ n <= 2
    BY <1>3, <1>5
  <2> HIDE DEF n
  <2>2. n + 1 <= 2
    BY <2>1
  <2>3. QED
    BY <2>2 DEF n
<1>7. QED
  BY <1>1, <1>2, <1>3, <1>4, <1>6 DEF ReadNumber

(* The application stages and mem_write keep the types.                    *)
LEMMA PacketSide ==
    ASSUME CountType,
           StartPacket \/ Launch \/ Sum \/ Return \/ \E p \in Stage : Application(p)
    PROVE  CountType'
<1> USE DEF CanRead, CanWrite, memory, stages, instances
<1>1. CASE StartPacket
  <2>1. Append(o[0], Packet(0, 0)) \in Seq(Packets)
    BY EndFacts, AppendFacts DEF CountType, PacketTypes, Packet, Packets
  <2>2. PacketTypes'
    BY <1>1, <2>1, EndFacts DEF StartPacket, CountType, PacketTypes
  <2>3. QED
    BY <1>1, <2>2 DEF StartPacket, CountType, RootTypes, NumberTypes, SampleTypes, HistoryTypes
<1>2. CASE Launch \/ Return
  BY <1>2 DEF Launch, Return, CountType, RootTypes, NumberTypes, PacketTypes, SampleTypes, HistoryTypes
<1>3. CASE Sum
  <2>1. Tail(o[N]) \in Seq(Packets)
    BY <1>3, EndFacts, TailFacts DEF Sum, CountType, PacketTypes
  <2>2. PacketTypes'
    BY <1>3, <2>1, EndFacts DEF Sum, CountType, PacketTypes
  <2>3. QED
    BY <1>3, <2>2 DEF Sum, CountType, RootTypes, NumberTypes, SampleTypes, HistoryTypes
<1>4. ASSUME NEW p \in Stage, ReadNumber(p) PROVE CountType'
  <2> DEFINE r == Append(random[p], Head(rng[p]))
  <2>1. NumberTypes'
    <3>1. Len(Tail(rng[p])) <= RngDepth
      <4>1. Len(rng[p]) <= RngDepth
        BY DEF CountType, NumberTypes
      <4>2. QED
        BY <4>1, ReadNumberFacts, EndFacts, <1>4
    <3>2. QED
      BY <3>1, <1>4, ReadNumberFacts DEF CountType, NumberTypes
  <2>2. Len(r) <= 2 /\ (Len(r) = 2 <=> (IF Len(random[p]) + 1 = 2 THEN "poll" ELSE "read") # "read")
    BY <1>4, ReadNumberFacts
  <2>3. /\ random' = [random EXCEPT ![p] = r] /\ r \in Seq(Nat)
        /\ apc' = [apc EXCEPT ![p] = IF Len(random[p]) + 1 = 2 THEN "poll" ELSE "read"]
    BY <1>4, ReadNumberFacts
  <2> HIDE DEF r
  <2>4. SampleTypes'
    BY <2>2, <2>3 DEF CountType, SampleTypes
  <2>5. QED
    BY <1>4, <2>1, <2>4 DEF ReadNumber, CountType, RootTypes, PacketTypes, HistoryTypes
<1>5. ASSUME NEW p \in Stage, PollHit(p) PROVE CountType'
  <2>1. Head(o[p]) \in Packets /\ Tail(o[p]) \in Seq(Packets)
    BY <1>5, StageFacts, TailFacts DEF PollHit, CountType, PacketTypes
  <2>2. One(Hit(p, random[p][2])) \in Nat
    BY DEF One
  <2>3. Packet(Head(o[p]).data + One(Hit(p, random[p][2])), Head(o[p]).samples + 1) \in Packets
    BY <2>1, <2>2 DEF Packet, Packets
  <2>4. PacketTypes'
    BY <1>5, <2>1, <2>3, StageFacts DEF PollHit, CountType, PacketTypes
  <2>5. SampleTypes'
    BY <1>5 DEF PollHit, CountType, SampleTypes
  <2>6. QED
    BY <1>5, <2>4, <2>5 DEF PollHit, CountType, RootTypes, NumberTypes, HistoryTypes
<1>6. ASSUME NEW p \in Stage, PollMiss(p) PROVE CountType'
  <2>1. PacketTypes'
    BY <1>6 DEF PollMiss, CountType, PacketTypes, Packet, Packets
  <2>2. SampleTypes'
    BY <1>6 DEF PollMiss, CountType, SampleTypes
  <2>3. HistoryTypes'
    BY <1>6 DEF PollMiss, CountType, HistoryTypes
  <2>4. QED
    BY <1>6, <2>1, <2>2, <2>3 DEF PollMiss, CountType, RootTypes, NumberTypes
<1>7. ASSUME NEW p \in Stage, WritePacket(p) PROVE CountType'
  <2>1. Append(o[p + 1], v[p]) \in Seq(Packets)
    BY StageFacts, AppendFacts DEF CountType, PacketTypes
  <2>2. PacketTypes'
    BY <1>7, <2>1, StageFacts DEF WritePacket, CountType, PacketTypes
  <2>3. <<>> \in Seq(Nat) /\ Len(<<>>) = 0
    OBVIOUS
  <2>4. SampleTypes'
    BY <1>7, <2>3 DEF WritePacket, CountType, SampleTypes
  <2>5. HistoryTypes'
    BY <1>7 DEF WritePacket, CountType, HistoryTypes
  <2>6. QED
    BY <1>7, <2>2, <2>4, <2>5 DEF WritePacket, CountType, RootTypes, NumberTypes
<1>8. QED
  BY <1>1, <1>2, <1>3, <1>4, <1>5, <1>6, <1>7 DEF Application

(* So every step keeps them.                                               *)
LEMMA StepTypes == CountType /\ [Next]_vars => CountType'
<1> SUFFICES ASSUME CountType, [Next]_vars PROVE CountType'
  OBVIOUS
<1>1. CASE UNCHANGED vars
  BY <1>1 DEF vars, instances, stages, memory, CountType, RootTypes, NumberTypes,
              PacketTypes, SampleTypes, HistoryTypes
<1>2. CASE RootIn \/ SinkRoot \/ \E p \in Stage : Instance(p)
  BY <1>2, RootSide
<1>3. CASE StartPacket \/ Launch \/ Sum \/ Return \/ \E p \in Stage : Application(p)
  BY <1>3, PacketSide
<1>4. QED
  BY <1>1, <1>2, <1>3 DEF Next

-----------------------------------------------------------------------------
(* What a step does to the numbers a stage has made: one more when its     *)
(* instance hands the root state on, and else nothing.                     *)
Forwards(q) == ipc[q] = "forward" /\ ipc'[q] = "emit"

(* The places of a stage and of the one in front of it.                    *)
LEMMA PredecessorFacts ==
    ASSUME NEW q \in Stage \ {0}
    PROVE  /\ q \in Stage /\ q - 1 \in Stage /\ q \in 0 .. N /\ q - 1 \in 0 .. N
           /\ (q - 1) + 1 = q /\ q # 0 /\ q # N
           /\ \A p \in Stage : p + 1 = q <=> p = q - 1
  BY SizeAssumption DEF Stage

(* The lengths and counters that balance are numbers.                      *)
LEMMA CountFacts ==
    ASSUME CountType, NEW q \in Stage
    PROVE  /\ written[q] \in Nat /\ misses[q] \in Nat
           /\ Len(random[q]) \in Nat /\ Len(rng[q]) \in Nat
           /\ Len(s[q]) \in Nat /\ Len(o[q]) \in Nat
<1>1. q \in 0 .. N
  BY StageFacts
<1>2. random[q] \in Seq(Nat) /\ rng[q] \in Seq(Nat) /\ s[q] \in Seq(Nat) /\ o[q] \in Seq(Packets)
  BY <1>1 DEF CountType, RootTypes, NumberTypes, PacketTypes, SampleTypes
<1>3. /\ Len(random[q]) \in Nat /\ Len(rng[q]) \in Nat
      /\ Len(s[q]) \in Nat /\ Len(o[q]) \in Nat
  BY <1>2, LenProperties
<1>4. QED
  BY <1>3 DEF CountType, HistoryTypes

(* Only what a stage itself does changes the numbers it has made.          *)
LEMMA SameNumbers ==
    ASSUME CountType, NEW q \in Stage,
           written'[q] = written[q], random'[q] = random[q],
           rng'[q] = rng[q], ipc'[q] = ipc[q]
    PROVE  Numbers(q)' = Numbers(q) /\ ~Forwards(q)
  BY DEF Numbers, One, Forwards

LEMMA NumbersStep ==
    ASSUME CountType, [Next]_vars, NEW q \in Stage
    PROVE  Numbers(q) \in Nat /\ Numbers(q)' = Numbers(q) + One(Forwards(q))
<1> USE DEF memory, stages, instances
<1>1. /\ Numbers(q) \in Nat /\ One(ipc[q] = "emit") \in Nat
      /\ written[q] \in Nat /\ Len(random[q]) \in Nat /\ Len(rng[q]) \in Nat
  <2>1. One(ipc[q] = "emit") \in Nat
    BY DEF One
  <2>2. written[q] \in Nat /\ Len(random[q]) \in Nat /\ Len(rng[q]) \in Nat
    BY CountFacts
  <2>3. Numbers(q) \in Nat
    <3> DEFINE w == written[q]
               l == Len(random[q])
               r == Len(rng[q])
               e == One(ipc[q] = "emit")
    <3>1. w \in Nat /\ l \in Nat /\ r \in Nat /\ e \in Nat /\ Numbers(q) = 2 * w + l + r + e
      BY <2>1, <2>2 DEF Numbers
    <3> HIDE DEF w, l, r, e
    <3>2. QED
      BY <3>1
  <2>4. QED
    BY <2>1, <2>2, <2>3
<1>2. ASSUME Numbers(q)' = Numbers(q), ~Forwards(q)
      PROVE  Numbers(q)' = Numbers(q) + One(Forwards(q))
  BY <1>1, <1>2 DEF One
<1>3. CASE UNCHANGED <<written, random, rng, ipc>>
  <2>1. Numbers(q)' = Numbers(q) /\ ~Forwards(q)
    BY <1>3, SameNumbers
  <2>2. QED
    BY <1>1, <1>2, <2>1
<1>4. ASSUME NEW p \in Stage, p # q, Instance(p) \/ Application(p)
      PROVE  Numbers(q)' = Numbers(q) + One(Forwards(q))
  <2>1. /\ written'[q] = written[q] /\ random'[q] = random[q]
        /\ rng'[q] = rng[q] /\ ipc'[q] = ipc[q]
    BY <1>4 DEF Instance, Application, ReadRoot, ForwardRoot, EmitNumber, ReadNumber,
                PollHit, PollMiss, WritePacket, CountType, RootTypes, NumberTypes,
                SampleTypes, HistoryTypes
  <2>2. QED
    BY <1>1, <1>2, <2>1, SameNumbers
<1>5. CASE ReadRoot(q)
  <2>1. /\ UNCHANGED <<written, random, rng>>
        /\ ipc[q] = "read" /\ ipc'[q] = "forward"
    BY <1>5 DEF ReadRoot, CountType, RootTypes
  <2>2. QED
    BY <1>1, <1>2, <2>1 DEF Numbers, One, Forwards
<1>6. CASE ForwardRoot(q)
  <2>1. /\ UNCHANGED <<written, random, rng>>
        /\ ipc[q] = "forward" /\ ipc'[q] = "emit"
    BY <1>6 DEF ForwardRoot, CountType, RootTypes
  <2>2. One(Forwards(q)) = 1 /\ One(ipc[q] = "emit") = 0 /\ One(ipc'[q] = "emit") = 1
    BY <2>1 DEF One, Forwards
  <2> DEFINE n == 2 * written[q] + Len(random[q]) + Len(rng[q])
  <2>3. n \in Nat
    <3> DEFINE w == written[q]
               l == Len(random[q])
               r == Len(rng[q])
    <3>1. w \in Nat /\ l \in Nat /\ r \in Nat /\ n = 2 * w + l + r
      BY <1>1
    <3> HIDE DEF w, l, r, n
    <3>2. QED
      BY <3>1
  <2>4. Numbers(q) = n + One(ipc[q] = "emit") /\ Numbers(q)' = n + One(ipc'[q] = "emit")
    BY <2>1 DEF Numbers, One
  <2> HIDE DEF n
  <2>5. QED
    BY <2>2, <2>3, <2>4
<1>7. CASE EmitNumber(q)
  <2>1. /\ UNCHANGED <<written, random>>
        /\ rng'[q] = Append(rng[q], s_pkt[q])
        /\ ipc[q] = "emit" /\ ipc'[q] = "read"
    BY <1>7 DEF EmitNumber, CountType, RootTypes, NumberTypes
  <2>2. Len(rng'[q]) = Len(rng[q]) + 1
    BY <2>1, AppendFacts DEF CountType, RootTypes, NumberTypes
  <2>3. ~Forwards(q) /\ One(ipc[q] = "emit") = 1 /\ One(ipc'[q] = "emit") = 0
    BY <2>1 DEF One, Forwards
  <2> DEFINE n == 2 * written[q] + Len(random[q])
  <2>4. n \in Nat /\ Len(rng[q]) \in Nat
    BY CountFacts
  <2>5. /\ Numbers(q) = n + Len(rng[q]) + One(ipc[q] = "emit")
        /\ Numbers(q)' = n + Len(rng'[q]) + One(ipc'[q] = "emit")
    BY <2>1 DEF Numbers, One
  <2> HIDE DEF n
  <2>6. Numbers(q)' = Numbers(q)
    BY <2>2, <2>3, <2>4, <2>5
  <2>7. QED
    BY <1>1, <1>2, <2>3, <2>6
<1>8. CASE ReadNumber(q)
  <2>1. Len(rng'[q]) = Len(rng[q]) - 1 /\ Len(random'[q]) = Len(random[q]) + 1
    BY <1>8, ReadNumberFacts DEF CountType, NumberTypes, SampleTypes
  <2>2. UNCHANGED <<written, ipc>>
    BY <1>8 DEF ReadNumber
  <2>3. ~Forwards(q)
    BY <2>2 DEF Forwards
  <2> DEFINE n == 2 * written[q]
             e == One(ipc[q] = "emit")
             a == Len(random[q])
             b == Len(rng[q])
             a2 == Len(random'[q])
             b2 == Len(rng'[q])
  <2>4. n \in Nat /\ e \in Nat /\ a \in Nat /\ b \in Nat /\ a2 = a + 1 /\ b2 = b - 1
    BY <1>1, <2>1
  <2>5. Numbers(q) = n + a + b + e /\ Numbers(q)' = n + a2 + b2 + e
    BY <2>2 DEF Numbers, One
  <2> HIDE DEF n, e, a, b, a2, b2
  <2>6. Numbers(q)' = Numbers(q)
    BY <2>4, <2>5
  <2>7. QED
    BY <1>1, <1>2, <2>3, <2>6
<1>9. CASE WritePacket(q)
  <2>1. /\ UNCHANGED <<rng, ipc>>
        /\ written'[q] = written[q] + 1
        /\ random'[q] = <<>> /\ Len(random[q]) = 2
    BY <1>9 DEF WritePacket, CountType, SampleTypes, HistoryTypes
  <2>2. Len(random'[q]) = 0
    BY <2>1
  <2>3. ~Forwards(q)
    BY <2>1 DEF Forwards
  <2> DEFINE b == Len(rng[q])
             e == One(ipc[q] = "emit")
             w == written[q]
  <2>4. b \in Nat /\ e \in Nat /\ w \in Nat
    BY <1>1
  <2>5. Numbers(q) = 2 * w + 2 + b + e
    BY <2>1 DEF Numbers
  <2>6. Numbers(q)' = 2 * (w + 1) + 0 + b + e
    BY <2>1, <2>2 DEF Numbers, One
  <2> HIDE DEF b, e, w
  <2>7. Numbers(q)' = Numbers(q)
    BY <2>4, <2>5, <2>6
  <2>8. QED
    BY <1>1, <1>2, <2>3, <2>7
<1>10. CASE PollHit(q) \/ PollMiss(q) \/ RootIn \/ SinkRoot \/ StartPacket
            \/ Launch \/ Sum \/ Return \/ UNCHANGED vars
  <2>1. UNCHANGED <<written, random, rng, ipc>>
    BY <1>10 DEF PollHit, PollMiss, RootIn, SinkRoot, StartPacket, Launch, Sum, Return, vars
  <2>2. QED
    BY <1>3, <2>1
<1>11. QED
  BY <1>1, <1>4, <1>5, <1>6, <1>7, <1>8, <1>9, <1>10 DEF Next, Instance, Application

(* What it does to the root states between two stages: the one in front    *)
(* adds those it hands on, the one behind takes those it hands on.         *)
Between(q) == One(ipc[q] = "forward") + Len(s[q])

LEMMA BetweenStep ==
    ASSUME CountType, [Next]_vars, NEW q \in Stage \ {0}
    PROVE  /\ Between(q) \in Nat
           /\ Between(q)' + One(Forwards(q)) = Between(q) + One(Forwards(q - 1))
<1> USE DEF memory, stages, instances
<1>1. q \in Stage /\ q - 1 \in Stage /\ q \in 0 .. N /\ q # 0 /\ q # N
  BY PredecessorFacts
<1>2. Len(s[q]) \in Nat /\ One(ipc[q] = "forward") \in Nat /\ Between(q) \in Nat
  <2>1. Len(s[q]) \in Nat /\ One(ipc[q] = "forward") \in Nat
    BY <1>1, CountFacts DEF One
  <2>2. QED
    BY <2>1 DEF Between
<1>3. ASSUME Between(q)' = Between(q), ~Forwards(q), ~Forwards(q - 1)
      PROVE  Between(q)' + One(Forwards(q)) = Between(q) + One(Forwards(q - 1))
  BY <1>3 DEF One
<1>4. CASE UNCHANGED <<s, ipc>>
  <2>1. Between(q)' = Between(q) /\ ~Forwards(q) /\ ~Forwards(q - 1)
    BY <1>4 DEF Between, Forwards, One
  <2>2. QED
    BY <1>2, <1>3, <2>1
<1>5. CASE RootIn \/ SinkRoot
  <2>1. s'[q] = s[q] /\ ipc' = ipc
    BY <1>1, <1>5 DEF RootIn, SinkRoot, CountType, RootTypes
  <2>2. Between(q)' = Between(q) /\ ~Forwards(q) /\ ~Forwards(q - 1)
    BY <2>1 DEF Between, Forwards, One
  <2>3. QED
    BY <1>2, <1>3, <2>2
<1>6. ASSUME NEW p \in Stage, ReadRoot(p)
      PROVE  Between(q)' + One(Forwards(q)) = Between(q) + One(Forwards(q - 1))
  <2>1. ~Forwards(q) /\ ~Forwards(q - 1)
    BY <1>1, <1>6 DEF ReadRoot, Forwards, CountType, RootTypes
  <2>2. CASE p = q
    <3>1. /\ ipc[q] = "read" /\ ipc'[q] = "forward"
          /\ s[q] # <<>> /\ s'[q] = Tail(s[q]) /\ s[q] \in Seq(Nat)
      BY <1>1, <1>6, <2>2 DEF ReadRoot, CanRead, CountType, RootTypes
    <3>2. Len(s'[q]) = Len(s[q]) - 1
      BY <3>1, TailFacts
    <3>3. One(ipc[q] = "forward") = 0 /\ One(ipc'[q] = "forward") = 1
      BY <3>1 DEF One
    <3> DEFINE a == Len(s[q])
               a2 == Len(s'[q])
    <3>4. Between(q) = 0 + a /\ Between(q)' = 1 + a2 /\ a \in Nat /\ a2 = a - 1
      BY <1>2, <3>2, <3>3 DEF Between, One
    <3> HIDE DEF a, a2
    <3>5. Between(q)' = Between(q)
      BY <3>4
    <3>6. QED
      BY <1>3, <2>1, <3>5
  <2>3. CASE p # q
    <3>1. s'[q] = s[q] /\ ipc'[q] = ipc[q]
      BY <1>1, <1>6, <2>3 DEF ReadRoot, CountType, RootTypes
    <3>2. QED
      BY <1>3, <2>1, <3>1 DEF Between, One
  <2>4. QED
    BY <2>2, <2>3
<1>7. ASSUME NEW p \in Stage, EmitNumber(p)
      PROVE  Between(q)' + One(Forwards(q)) = Between(q) + One(Forwards(q - 1))
  <2>1. ~Forwards(q) /\ ~Forwards(q - 1)
    BY <1>1, <1>7 DEF EmitNumber, Forwards, CountType, RootTypes
  <2>2. s'[q] = s[q] /\ (ipc'[q] = "forward" <=> ipc[q] = "forward")
    BY <1>1, <1>7 DEF EmitNumber, CountType, RootTypes
  <2>3. QED
    BY <1>3, <2>1, <2>2 DEF Between, One
<1>8. ASSUME NEW p \in Stage, ForwardRoot(p)
      PROVE  Between(q)' + One(Forwards(q)) = Between(q) + One(Forwards(q - 1))
  <2>1. /\ ipc[p] = "forward" /\ ipc' = [ipc EXCEPT ![p] = "emit"]
        /\ s' = [s EXCEPT ![p + 1] = Append(s[p + 1], s_pkt[p])]
        /\ s_pkt[p] \in Nat /\ s[q] \in Seq(Nat)
    BY <1>1, <1>8 DEF ForwardRoot, CountType, RootTypes
  <2> DEFINE a == Len(s[q])
             a2 == Len(s'[q])
  <2>2. CASE p = q
    <3>1. ipc'[q] = "emit" /\ s'[q] = s[q] /\ ipc'[q - 1] = ipc[q - 1]
      BY <1>1, <2>1, <2>2, StageFacts DEF CountType, RootTypes
    <3>2. /\ One(ipc[q] = "forward") = 1 /\ One(ipc'[q] = "forward") = 0
          /\ One(Forwards(q)) = 1 /\ One(Forwards(q - 1)) = 0
      BY <2>1, <2>2, <3>1 DEF One, Forwards
    <3>3. Between(q) = 1 + a /\ Between(q)' = 0 + a /\ a \in Nat
      BY <1>2, <3>1, <3>2 DEF Between, One
    <3> HIDE DEF a
    <3>4. QED
      BY <3>2, <3>3
  <2>3. CASE p = q - 1
    <3>1. p + 1 = q /\ p # q
      BY <2>3, PredecessorFacts
    <3>2. ipc'[q] = ipc[q] /\ ipc'[p] = "emit" /\ s'[q] = Append(s[q], s_pkt[p])
      BY <1>1, <2>1, <3>1 DEF CountType, RootTypes
    <3>3. One(Forwards(q)) = 0 /\ One(Forwards(q - 1)) = 1
      BY <2>1, <2>3, <3>2 DEF One, Forwards
    <3>4. a2 = a + 1 /\ a \in Nat
      BY <2>1, <3>2, AppendFacts
    <3> DEFINE e == One(ipc[q] = "forward")
    <3>5. Between(q) = e + a /\ Between(q)' = e + a2 /\ e \in Nat
      BY <1>2, <3>2 DEF Between, One
    <3> HIDE DEF a, a2, e
    <3>6. QED
      BY <3>3, <3>4, <3>5
  <2>4. CASE p # q /\ p # q - 1
    <3>1. p + 1 # q
      BY <2>4, PredecessorFacts
    <3>2. s'[q] = s[q] /\ ipc'[q] = ipc[q] /\ ipc'[q - 1] = ipc[q - 1]
      BY <1>1, <2>1, <2>4, <3>1 DEF CountType, RootTypes
    <3>3. Between(q)' = Between(q) /\ ~Forwards(q) /\ ~Forwards(q - 1)
      BY <3>2 DEF Between, Forwards, One
    <3>4. QED
      BY <1>3, <3>3
  <2>5. QED
    BY <2>2, <2>3, <2>4
<1>9. CASE StartPacket \/ Launch \/ Sum \/ Return \/ (\E p \in Stage : Application(p))
            \/ UNCHANGED vars
  <2>1. UNCHANGED <<s, ipc>>
    BY <1>9 DEF StartPacket, Launch, Sum, Return, Application, ReadNumber, PollHit,
                PollMiss, WritePacket, vars
  <2>2. QED
    BY <1>4, <2>1
<1>10. QED
  BY <1>2, <1>5, <1>6, <1>7, <1>8, <1>9 DEF Next, Instance

-----------------------------------------------------------------------------
(* What a step does to the packets a stage has written.                    *)
Writes(q) == apc[q] = "write" /\ apc'[q] = "read"

LEMMA WrittenStep ==
    ASSUME CountType, [Next]_vars, NEW q \in Stage
    PROVE  written[q] \in Nat /\ written'[q] = written[q] + One(Writes(q))
<1> USE DEF memory, stages, instances
<1>1. written[q] \in Nat
  BY CountFacts
<1>2. ASSUME written'[q] = written[q], ~Writes(q)
      PROVE  written'[q] = written[q] + One(Writes(q))
  BY <1>1, <1>2 DEF One
<1>3. ASSUME NEW p \in Stage, WritePacket(p)
      PROVE  written'[q] = written[q] + One(Writes(q))
  <2>1. CASE p = q
    <3>1. written'[q] = written[q] + 1 /\ Writes(q)
      BY <1>3, <2>1 DEF WritePacket, Writes, CountType, SampleTypes, HistoryTypes
    <3>2. QED
      BY <3>1 DEF One
  <2>2. CASE p # q
    <3>1. written'[q] = written[q] /\ ~Writes(q)
      BY <1>3, <2>2 DEF WritePacket, Writes, CountType, SampleTypes, HistoryTypes
    <3>2. QED
      BY <1>2, <3>1
  <2>3. QED
    BY <2>1, <2>2
<1>4. ASSUME NEW p \in Stage, ReadNumber(p) \/ PollHit(p) \/ PollMiss(p)
      PROVE  written'[q] = written[q] + One(Writes(q))
  <2>1. written' = written /\ ~Writes(q)
    BY <1>4 DEF ReadNumber, PollHit, PollMiss, Writes, CountType, SampleTypes
  <2>2. QED
    BY <1>2, <2>1
<1>5. CASE RootIn \/ SinkRoot \/ StartPacket \/ Launch \/ Sum \/ Return
            \/ (\E p \in Stage : Instance(p)) \/ UNCHANGED vars
  <2>1. UNCHANGED <<written, apc>>
    BY <1>5 DEF RootIn, SinkRoot, StartPacket, Launch, Sum, Return, Instance, ReadRoot,
                ForwardRoot, EmitNumber, vars
  <2>2. ~Writes(q)
    BY <2>1 DEF Writes
  <2>3. QED
    BY <1>1, <1>2, <2>1, <2>2
<1>6. QED
  BY <1>1, <1>3, <1>4, <1>5 DEF Next, Application

(* And to the packets on their way to a stage, the one it is about to      *)
(* write among them: a miss makes one more than the stage in front wrote.  *)
Waiting(q) == One(apc[q] = "write") + Len(o[q])

LEMMA WaitingStep ==
    ASSUME CountType, [Next]_vars, NEW q \in Stage \ {0}
    PROVE  /\ Waiting(q) \in Nat /\ misses[q] \in Nat /\ misses'[q] \in Nat
           /\ Waiting(q)' + misses[q] + One(Writes(q))
                  = Waiting(q) + misses'[q] + One(Writes(q - 1))
<1> USE DEF memory, stages, instances
<1> DEFINE Goal == Waiting(q)' + misses[q] + One(Writes(q))
                       = Waiting(q) + misses'[q] + One(Writes(q - 1))
           a == Len(o[q])
           a2 == Len(o'[q])
           e == One(apc[q] = "write")
           m == misses[q]
<1>1. q \in Stage /\ q - 1 \in Stage /\ q \in 0 .. N /\ q # 0 /\ q # N
  BY PredecessorFacts
<1>2. misses'[q] \in Nat
  BY <1>1, StepTypes DEF CountType, HistoryTypes
<1>3. a \in Nat /\ e \in Nat /\ m \in Nat /\ Waiting(q) \in Nat
  <2>1. a \in Nat /\ e \in Nat /\ m \in Nat
    BY <1>1, CountFacts DEF One
  <2>2. Waiting(q) = e + a
    BY DEF Waiting
  <2> HIDE DEF a, e, m
  <2>3. QED
    BY <2>1, <2>2
<1>4. ASSUME Waiting(q)' = Waiting(q), misses'[q] = m, ~Writes(q), ~Writes(q - 1)
      PROVE  Goal
  BY <1>4 DEF One
<1>5. CASE RootIn \/ SinkRoot \/ StartPacket \/ Launch \/ Sum \/ Return
            \/ (\E p \in Stage : Instance(p)) \/ UNCHANGED vars
  <2>1. apc' = apc /\ o'[q] = o[q] /\ misses'[q] = m
    BY <1>1, <1>5 DEF RootIn, SinkRoot, StartPacket, Launch, Sum, Return, Instance,
                      ReadRoot, ForwardRoot, EmitNumber, vars, CountType, PacketTypes
  <2>2. Waiting(q)' = Waiting(q) /\ ~Writes(q) /\ ~Writes(q - 1)
    BY <2>1 DEF Waiting, Writes, One
  <2>3. QED
    BY <1>2, <1>3, <1>4, <2>1, <2>2
<1>6. ASSUME NEW p \in Stage, ReadNumber(p) PROVE Goal
  <2>1. /\ o' = o /\ misses' = misses /\ ~Writes(q) /\ ~Writes(q - 1)
        /\ (apc'[q] = "write" <=> apc[q] = "write")
    BY <1>1, <1>6 DEF ReadNumber, Writes, CountType, SampleTypes
  <2>2. Waiting(q)' = Waiting(q)
    BY <2>1 DEF Waiting, One
  <2>3. QED
    BY <1>2, <1>3, <1>4, <2>1, <2>2
<1>7. ASSUME NEW p \in Stage, p # q, PollHit(p) \/ PollMiss(p) PROVE Goal
  <2>1. /\ o'[q] = o[q] /\ misses'[q] = m /\ ~Writes(q) /\ ~Writes(q - 1)
        /\ apc'[q] = apc[q]
    BY <1>1, <1>7 DEF PollHit, PollMiss, Writes, CountType, SampleTypes, PacketTypes,
                      HistoryTypes
  <2>2. Waiting(q)' = Waiting(q)
    BY <2>1 DEF Waiting, One
  <2>3. QED
    BY <1>2, <1>3, <1>4, <2>1, <2>2
<1>8. CASE PollHit(q)
  <2>1. /\ o[q] \in Seq(Packets) /\ o[q] # <<>> /\ o'[q] = Tail(o[q])
        /\ apc[q] = "poll" /\ apc'[q] = "write" /\ misses'[q] = m
        /\ ~Writes(q - 1)
    BY <1>1, <1>8 DEF PollHit, CanRead, Writes, CountType, SampleTypes, PacketTypes
  <2>2. a2 = a - 1
    BY <2>1, TailFacts
  <2>3. One(apc'[q] = "write") = 1 /\ e = 0 /\ ~Writes(q)
    BY <2>1 DEF One, Writes
  <2>4. Waiting(q) = e + a /\ Waiting(q)' = 1 + a2
    BY <2>3 DEF Waiting, One
  <2> HIDE DEF a, a2, e, m
  <2>5. Waiting(q)' = Waiting(q)
    BY <1>3, <2>2, <2>3, <2>4
  <2>6. QED
    BY <1>2, <1>3, <1>4, <2>1, <2>3, <2>5 DEF m
<1>9. CASE PollMiss(q)
  <2>1. /\ o' = o /\ misses'[q] = m + 1
        /\ apc[q] = "poll" /\ apc'[q] = "write" /\ ~Writes(q - 1)
    BY <1>1, <1>9 DEF PollMiss, Writes, CountType, SampleTypes, HistoryTypes
  <2>2. One(apc'[q] = "write") = 1 /\ e = 0 /\ One(Writes(q)) = 0 /\ One(Writes(q - 1)) = 0
    BY <2>1 DEF One, Writes
  <2>3. Waiting(q) = e + a /\ Waiting(q)' = 1 + a
    BY <2>1, <2>2 DEF Waiting, One
  <2> HIDE DEF a, e, m
  <2>4. Waiting(q)' + m + 0 = Waiting(q) + (m + 1) + 0
    BY <1>3, <2>2, <2>3
  <2>5. QED
    BY <1>2, <1>3, <2>1, <2>2, <2>4 DEF m
<1>10. ASSUME NEW p \in Stage, WritePacket(p) PROVE Goal
  <2>1. /\ apc[p] = "write" /\ apc' = [apc EXCEPT ![p] = "read"] /\ misses' = misses
        /\ o' = [o EXCEPT ![p + 1] = Append(o[p + 1], v[p])]
        /\ v[p] \in Packets /\ o[q] \in Seq(Packets)
    BY <1>1, <1>10 DEF WritePacket, CountType, PacketTypes
  <2>2. CASE p = q
    <3>1. apc'[q] = "read" /\ o'[q] = o[q] /\ apc'[q - 1] = apc[q - 1]
      BY <1>1, <2>1, <2>2, StageFacts DEF CountType, SampleTypes, PacketTypes
    <3>2. /\ e = 1 /\ One(apc'[q] = "write") = 0
          /\ One(Writes(q)) = 1 /\ One(Writes(q - 1)) = 0
      BY <2>1, <2>2, <3>1 DEF One, Writes
    <3>3. Waiting(q) = 1 + a /\ Waiting(q)' = 0 + a
      BY <3>1, <3>2 DEF Waiting, One
    <3> HIDE DEF a, e, m
    <3>4. Waiting(q)' + m + 1 = Waiting(q) + m + 0
      BY <1>3, <3>3
    <3>5. QED
      BY <2>1, <3>2, <3>4 DEF m
  <2>3. CASE p = q - 1
    <3>1. p + 1 = q /\ p # q
      BY <2>3, PredecessorFacts
    <3>2. apc'[q] = apc[q] /\ apc'[p] = "read" /\ o'[q] = Append(o[q], v[p])
      BY <1>1, <2>1, <3>1 DEF CountType, SampleTypes, PacketTypes
    <3>3. One(Writes(q)) = 0 /\ One(Writes(q - 1)) = 1
      BY <2>1, <2>3, <3>2 DEF One, Writes
    <3>4. a2 = a + 1
      BY <2>1, <3>2, AppendFacts
    <3>5. Waiting(q) = e + a /\ Waiting(q)' = e + a2
      BY <3>2 DEF Waiting, One
    <3> HIDE DEF a, a2, e, m
    <3>6. Waiting(q)' + m + 0 = Waiting(q) + m + 1
      BY <1>3, <3>4, <3>5
    <3>7. QED
      BY <2>1, <3>3, <3>6 DEF m
  <2>4. CASE p # q /\ p # q - 1
    <3>1. p + 1 # q
      BY <2>4, PredecessorFacts
    <3>2. o'[q] = o[q] /\ apc'[q] = apc[q] /\ apc'[q - 1] = apc[q - 1]
      BY <1>1, <2>1, <2>4, <3>1 DEF CountType, SampleTypes, PacketTypes
    <3>3. Waiting(q)' = Waiting(q) /\ ~Writes(q) /\ ~Writes(q - 1)
      BY <3>2 DEF Waiting, Writes, One
    <3>4. QED
      BY <1>4, <2>1, <3>3
  <2>5. QED
    BY <2>2, <2>3, <2>4
<1>11. Goal
  BY <1>5, <1>6, <1>7, <1>8, <1>9, <1>10 DEF Next, Application
<1>12. QED
  BY <1>2, <1>3, <1>11

-----------------------------------------------------------------------------
(* In the beginning everything balances, and nothing was missed.           *)
LEMMA InitBalance == Init => Balance /\ MissesLimited
<1> SUFFICES ASSUME Init PROVE Balance /\ MissesLimited
  OBVIOUS
<1>1. ASSUME NEW p \in Stage
      PROVE  /\ ipc[p] = "read" /\ apc[p] = "read" /\ s[p] = <<>> /\ o[p] = <<>>
             /\ rng[p] = <<>> /\ random[p] = <<>> /\ misses[p] = 0 /\ written[p] = 0
  BY <1>1, StageFacts DEF Init
<1>2. ASSUME NEW p \in Stage PROVE Numbers(p) = 0
  <2>1. Len(random[p]) = 0 /\ Len(rng[p]) = 0 /\ One(ipc[p] = "emit") = 0 /\ written[p] = 0
    BY <1>1 DEF One
  <2>2. QED
    BY <2>1 DEF Numbers
<1>3. ASSUME NEW p \in Stage \ {0}
      PROVE  /\ Numbers(p - 1) = Numbers(p) + One(ipc[p] = "forward") + Len(s[p])
             /\ written[p - 1] + misses[p] = written[p] + One(apc[p] = "write") + Len(o[p])
  <2>1. p \in Stage /\ p - 1 \in Stage
    BY PredecessorFacts
  <2>2. /\ One(ipc[p] = "forward") = 0 /\ One(apc[p] = "write") = 0
        /\ Len(s[p]) = 0 /\ Len(o[p]) = 0
    BY <1>1, <2>1 DEF One
  <2>3. QED
    BY <1>1, <1>2, <2>1, <2>2
<1>4. \A p \in Stage : misses[p] <= MissLimit
  BY <1>1, SizeAssumption DEF MissLimit
<1>5. QED
  BY <1>3, <1>4 DEF Balance, MissesLimited

(* Every step keeps the balance.                                           *)
LEMMA StepBalance ==
    ASSUME CountType, Balance, [Next]_vars
    PROVE  Balance'
<1> SUFFICES ASSUME NEW q \in Stage \ {0}
             PROVE  /\ Numbers(q - 1)' = Numbers(q)' + One(ipc'[q] = "forward") + Len(s'[q])
                    /\ written'[q - 1] + misses'[q]
                           = written'[q] + One(apc'[q] = "write") + Len(o'[q])
  BY DEF Balance, One
<1>1. q \in Stage /\ q - 1 \in Stage /\ q \in 0 .. N
  BY PredecessorFacts
<1>2. /\ Numbers(q) \in Nat /\ Numbers(q)' = Numbers(q) + One(Forwards(q))
      /\ Numbers(q - 1) \in Nat /\ Numbers(q - 1)' = Numbers(q - 1) + One(Forwards(q - 1))
      /\ written[q] \in Nat /\ written'[q] = written[q] + One(Writes(q))
      /\ written[q - 1] \in Nat /\ written'[q - 1] = written[q - 1] + One(Writes(q - 1))
  BY <1>1, NumbersStep, WrittenStep
<1>3. One(Forwards(q)) \in Nat /\ One(Forwards(q - 1)) \in Nat
      /\ One(Writes(q)) \in Nat /\ One(Writes(q - 1)) \in Nat
  BY DEF One
<1>4. CountType'
  BY StepTypes
<1>5. /\ One(ipc'[q] = "forward") \in Nat /\ Len(s'[q]) \in Nat
      /\ One(apc'[q] = "write") \in Nat /\ Len(o'[q]) \in Nat
  <2>1. s'[q] \in Seq(Nat) /\ o'[q] \in Seq(Packets)
    BY <1>1, <1>4 DEF CountType, RootTypes, PacketTypes
  <2>2. QED
    BY <2>1, LenProperties DEF One
<1>6. /\ One(ipc[q] = "forward") \in Nat /\ Len(s[q]) \in Nat
      /\ One(apc[q] = "write") \in Nat /\ Len(o[q]) \in Nat
  BY <1>1, CountFacts DEF One
<1>7. /\ Between(q) = One(ipc[q] = "forward") + Len(s[q])
      /\ Between(q)' = One(ipc'[q] = "forward") + Len(s'[q])
      /\ Waiting(q) = One(apc[q] = "write") + Len(o[q])
      /\ Waiting(q)' = One(apc'[q] = "write") + Len(o'[q])
  BY DEF Between, Waiting, One
<1>8. /\ Numbers(q - 1) = Numbers(q) + One(ipc[q] = "forward") + Len(s[q])
      /\ written[q - 1] + misses[q] = written[q] + One(apc[q] = "write") + Len(o[q])
  BY DEF Balance
<1>9. Numbers(q - 1)' = Numbers(q)' + One(ipc'[q] = "forward") + Len(s'[q])
  <2>1. Numbers(q - 1) = Numbers(q) + Between(q) /\ Between(q) \in Nat
    <3> DEFINE e == One(ipc[q] = "forward")
               l == Len(s[q])
    <3>1. e \in Nat /\ l \in Nat /\ Numbers(q - 1) = Numbers(q) + e + l /\ Between(q) = e + l
      BY <1>6, <1>7, <1>8
    <3> HIDE DEF e, l
    <3>2. QED
      BY <1>2, <3>1
  <2>2. Between(q)' + One(Forwards(q)) = Between(q) + One(Forwards(q - 1))
    BY BetweenStep
  <2>3. Between(q)' \in Nat
    BY <1>5, <1>7
  <2>4. Numbers(q - 1)' = Numbers(q)' + Between(q)'
    BY <1>2, <1>3, <2>1, <2>2, <2>3
  <2> DEFINE e2 == One(ipc'[q] = "forward")
             l2 == Len(s'[q])
  <2>5. /\ e2 \in Nat /\ l2 \in Nat /\ Between(q)' = e2 + l2
        /\ Numbers(q)' \in Nat
    <3>1. Numbers(q)' \in Nat
      BY <1>2, <1>3
    <3>2. QED
      BY <1>5, <1>7, <3>1
  <2>6. Numbers(q - 1)' = Numbers(q)' + e2 + l2
    <3> HIDE DEF e2, l2
    <3>1. QED
      BY <2>4, <2>5
  <2>7. QED
    BY <2>6
<1>10. written'[q - 1] + misses'[q] = written'[q] + One(apc'[q] = "write") + Len(o'[q])
  <2>1. /\ Waiting(q) \in Nat /\ misses[q] \in Nat /\ misses'[q] \in Nat
        /\ Waiting(q)' + misses[q] + One(Writes(q))
               = Waiting(q) + misses'[q] + One(Writes(q - 1))
    BY WaitingStep
  <2>2. written[q - 1] + misses[q] = written[q] + Waiting(q)
    <3> DEFINE e == One(apc[q] = "write")
               l == Len(o[q])
    <3>1. /\ e \in Nat /\ l \in Nat /\ Waiting(q) = e + l
          /\ written[q - 1] + misses[q] = written[q] + e + l
      BY <1>6, <1>7, <1>8
    <3> HIDE DEF e, l
    <3>2. QED
      BY <1>2, <3>1
  <2>3. Waiting(q)' \in Nat
    BY <1>5, <1>7
  <2>4. written'[q - 1] + misses'[q] = written'[q] + Waiting(q)'
    BY <1>2, <1>3, <2>1, <2>2, <2>3
  <2> DEFINE e2 == One(apc'[q] = "write")
             a2 == Len(o'[q])
             w2 == written'[q]
  <2>5. e2 \in Nat /\ a2 \in Nat /\ Waiting(q)' = e2 + a2 /\ w2 \in Nat
    <3>1. w2 \in Nat
      BY <1>2, <1>3
    <3>2. QED
      BY <1>5, <1>7, <3>1
  <2>6. written'[q - 1] + misses'[q] = w2 + Waiting(q)'
    BY <2>4
  <2>7. written'[q - 1] + misses'[q] = w2 + e2 + a2
    <3> HIDE DEF e2, a2, w2
    <3>1. QED
      BY <2>5, <2>6
  <2>8. QED
    BY <2>7
<1>11. QED
  BY <1>9, <1>10

(* Twice a number is within a bound: the number is within half of it.      *)
LEMMA HalfFacts ==
    ASSUME NEW m \in Nat, NEW d \in Nat, 2 * m <= d
    PROVE  m <= d \div 2
  OBVIOUS

(* The stage that misses has two numbers in hand, made from root states    *)
(* that the stage in front has been given too, and that stage keeps at     *)
(* most two numbers of its own, a full stream of them, and one about to be *)
(* written.  So it has written almost as many packets, all of them read.   *)
LEMMA MissFacts ==
    ASSUME CountType, Balance, NEW q \in Stage \ {0}, PollMiss(q)
    PROVE  misses[q] + 1 <= MissLimit
<1>1. q \in Stage /\ q - 1 \in Stage /\ q \in 0 .. N
  BY PredecessorFacts
<1> DEFINE m == misses[q]
           w == written[q]
           w1 == written[q - 1]
           g == Len(rng[q])
           g1 == Len(rng[q - 1])
           r1 == Len(random[q - 1])
           e == One(ipc[q] = "emit")
           e1 == One(ipc[q - 1] = "emit")
           f == One(ipc[q] = "forward")
           l == Len(s[q])
<1>2. m \in Nat /\ w \in Nat /\ w1 \in Nat /\ g \in Nat /\ g1 \in Nat /\ r1 \in Nat /\ l \in Nat
  BY <1>1, CountFacts
<1>3. e \in Nat /\ e1 \in Nat /\ e1 <= 1 /\ f \in Nat
  BY DEF One
<1>4. g1 <= RngDepth /\ RngDepth \in Nat
  BY <1>1, EndFacts DEF CountType, NumberTypes
<1>5. r1 <= 2 /\ Len(random[q]) = 2
  BY <1>1 DEF PollMiss, CountType, SampleTypes
<1>6. Len(o[q]) = 0 /\ One(apc[q] = "write") = 0
  BY DEF PollMiss, CanRead, One
<1>7. w1 + m = w
  <2>1. w1 + m = w + One(apc[q] = "write") + Len(o[q])
    BY DEF Balance
  <2> HIDE DEF m, w, w1
  <2>2. QED
    BY <1>2, <1>6, <2>1
<1>8. 2 * w1 + r1 + g1 + e1 = 2 * w + 2 + g + e + f + l
  <2>1. Numbers(q - 1) = Numbers(q) + f + l
    BY DEF Balance
  <2>2. Numbers(q - 1) = 2 * w1 + r1 + g1 + e1
    BY DEF Numbers
  <2>3. Numbers(q) = 2 * w + 2 + g + e
    BY <1>5 DEF Numbers
  <2>4. QED
    BY <2>1, <2>2, <2>3
<1> HIDE DEF m, w, w1, g, g1, r1, e, e1, f, l
<1>9. 2 * (m + 1) <= RngDepth + 3 /\ m + 1 \in Nat /\ RngDepth + 3 \in Nat
  BY <1>2, <1>3, <1>4, <1>5, <1>7, <1>8
<1>10. m + 1 <= (RngDepth + 3) \div 2
  BY <1>9, HalfFacts
<1>11. QED
  BY <1>10 DEF m, MissLimit

(* Every step keeps the limit.                                             *)
LEMMA StepMisses ==
    ASSUME CountType, Balance, MissesLimited, [Next]_vars
    PROVE  MissesLimited'
<1> USE DEF memory, stages, instances
<1>1. ASSUME NEW p \in Stage, PollMiss(p) PROVE MissesLimited'
  <2> SUFFICES ASSUME NEW q \in Stage \ {0} PROVE misses'[q] <= MissLimit
    BY DEF MissesLimited, MissLimit
  <2>1. CASE p = q
    <3>1. misses'[q] = misses[q] + 1
      BY <1>1, <2>1 DEF PollMiss, CountType, HistoryTypes
    <3>2. QED
      BY <1>1, <2>1, <3>1, MissFacts
  <2>2. CASE p # q
    <3>1. misses'[q] = misses[q]
      BY <1>1, <2>2 DEF PollMiss, CountType, HistoryTypes
    <3>2. QED
      BY <3>1 DEF MissesLimited
  <2>3. QED
    BY <2>1, <2>2
<1>2. ASSUME misses' = misses PROVE MissesLimited'
  BY <1>2 DEF MissesLimited, MissLimit
<1>3. ASSUME NEW p \in Stage,
             Instance(p) \/ ReadNumber(p) \/ PollHit(p) \/ WritePacket(p)
      PROVE  misses' = misses
  BY <1>3 DEF Instance, ReadRoot, ForwardRoot, EmitNumber, ReadNumber, PollHit, WritePacket
<1>4. ASSUME RootIn \/ SinkRoot \/ StartPacket \/ Launch \/ Sum \/ Return \/ UNCHANGED vars
      PROVE  misses' = misses
  BY <1>4 DEF RootIn, SinkRoot, StartPacket, Launch, Sum, Return, vars
<1>5. QED
  BY <1>1, <1>2, <1>3, <1>4 DEF Next, Application

-----------------------------------------------------------------------------
(* The invariant: the types that counting needs, the balance between       *)
(* neighbours, and the limit.  The limit alone is not inductive: that a    *)
(* stage cannot miss again is in what the two stages hold between them.    *)
CountInv == CountType /\ Balance /\ MissesLimited

(* Every reachable state satisfies it.                                     *)
THEOREM CountInvariant == Spec => []CountInv
<1>1. Init => CountInv
  BY InitTypes, InitBalance DEF CountInv
<1>2. CountInv /\ [Next]_vars => CountInv'
  BY StepTypes, StepBalance, StepMisses DEF CountInv
<1>3. QED
  BY <1>1, <1>2, PTL DEF Spec

(* Root states, numbers and packets balance between neighbours, for every  *)
(* number of stages and all capacities (rng_instance and application).     *)
THEOREM AlwaysBalanced == Spec => []Balance
<1>1. CountInv => Balance
  BY DEF CountInv
<1>2. QED
  BY <1>1, CountInvariant, PTL

(* A stage behind the first misses at most MissLimit packets in an endless *)
(* run, whatever the capacities of the streams and the hits are: the limit *)
(* depends on the capacity of rng alone (application, the poll of o_in).   *)
THEOREM MissesBounded == Spec => []MissesLimited
<1>1. CountInv => MissesLimited
  BY DEF CountInv
<1>2. QED
  BY <1>1, CountInvariant, PTL

-----------------------------------------------------------------------------
(* A stream whose numbers count up from a.                                 *)
Run(q, a) == \A k \in 1 .. Len(q) : q[k] = a + k - 1

LEMMA RunFacts ==
    ASSUME NEW q \in Seq(Nat), NEW a \in Nat, Run(q, a)
    PROVE  /\ Run(Append(q, a + Len(q)), a)
           /\ q # <<>> => Head(q) = a /\ Run(Tail(q), a + 1)
<1>1. Run(Append(q, a + Len(q)), a)
  <2>1. Len(q) \in Nat
    OBVIOUS
  <2> DEFINE e == a + Len(q)
  <2>2. e \in Nat
    BY <2>1
  <2> HIDE DEF e
  <2>3. /\ Len(Append(q, e)) = Len(q) + 1 /\ Append(q, e)[Len(q) + 1] = e
        /\ \A k \in 1 .. Len(q) : Append(q, e)[k] = q[k]
    BY <2>2, AppendFacts
  <2> SUFFICES ASSUME NEW k \in 1 .. Len(q) + 1 PROVE Append(q, e)[k] = a + k - 1
    BY <2>3 DEF Run, e
  <2>4. CASE k \in 1 .. Len(q)
    BY <2>3, <2>4 DEF Run
  <2>5. CASE k = Len(q) + 1
    BY <2>1, <2>3, <2>5 DEF e
  <2> QED
    BY <2>1, <2>4, <2>5
<1>2. ASSUME q # <<>> PROVE Head(q) = a /\ Run(Tail(q), a + 1)
  <2>1. /\ Head(q) = q[1] /\ Len(q) \in Nat \ {0} /\ Len(Tail(q)) = Len(q) - 1
        /\ \A k \in 1 .. Len(q) - 1 : Tail(q)[k] = q[k + 1]
    BY <1>2, TailFacts
  <2>2. q[1] = a + 1 - 1
    BY <2>1 DEF Run
  <2>3. ASSUME NEW k \in 1 .. Len(q) - 1 PROVE Tail(q)[k] = a + 1 + k - 1
    <3>1. q[k + 1] = a + (k + 1) - 1
      BY <2>1 DEF Run
    <3> QED
      BY <2>1, <3>1
  <2> QED
    BY <2>1, <2>2, <2>3 DEF Run
<1> QED
  BY <1>1, <1>2

LEMMA RunOfNone == ASSUME NEW a \in Nat PROVE Run(<<>>, a)
  BY DEF Run

(* As a root state is its position and nothing is lost on the way, what a  *)
(* stage has in hand and what waits for it count on from the samples it    *)
(* has written.                                                            *)
Made(p) == 2 * written[p] + Len(random[p]) + Len(rng[p])
Taken(p) == Made(p) + One(ipc[p] # "read")

Placed(p) ==
    /\ Run(random[p], 2 * written[p])
    /\ Run(rng[p], 2 * written[p] + Len(random[p]))
    /\ ipc[p] # "read" => s_pkt[p] = Made(p)
    /\ Run(s[p], Taken(p))

InPlace ==
    /\ \A p \in Stage : Placed(p)
    /\ Taken(0) + Len(s[0]) = root

LEMMA MadeFacts ==
    ASSUME CountType, NEW p \in Stage
    PROVE  /\ 2 * written[p] \in Nat /\ 2 * written[p] + Len(random[p]) \in Nat
           /\ Made(p) \in Nat /\ Taken(p) \in Nat
           /\ Taken(p) = Numbers(p) + One(ipc[p] = "forward")
<1> DEFINE w == written[p]
           a == Len(random[p])
           b == Len(rng[p])
           e == One(ipc[p] = "emit")
           f == One(ipc[p] = "forward")
           h == One(ipc[p] # "read")
<1>1. w \in Nat /\ a \in Nat /\ b \in Nat
  BY CountFacts
<1>2. e \in Nat /\ f \in Nat /\ h \in Nat /\ h = e + f
  BY DEF One, CountType, RootTypes
<1>3. Made(p) = 2 * w + a + b /\ Taken(p) = Made(p) + h /\ Numbers(p) = 2 * w + a + b + e
  BY DEF Made, Taken, Numbers
<1> HIDE DEF w, a, b, e, f, h
<1>4. Made(p) \in Nat
  BY <1>1, <1>3
<1>5. Taken(p) \in Nat /\ Taken(p) = Numbers(p) + f
  BY <1>1, <1>2, <1>3
<1>6. 2 * w \in Nat /\ 2 * w + a \in Nat
  BY <1>1
<1> QED
  BY <1>4, <1>5, <1>6 DEF w, a, f

(* The root states up to a stage are those the one in front has handed on. *)
LEMMA HandedOn ==
    ASSUME CountType, Balance, NEW q \in Stage \ {0}
    PROVE  Taken(q) + Len(s[q]) = Numbers(q - 1)
<1>1. q \in Stage
  OBVIOUS
<1>2. Numbers(q - 1) = Numbers(q) + One(ipc[q] = "forward") + Len(s[q])
  BY DEF Balance
<1>3. Taken(q) = Numbers(q) + One(ipc[q] = "forward")
  BY <1>1, MadeFacts
<1> QED
  BY <1>2, <1>3

LEMMA InitPlace == Init => InPlace
<1> SUFFICES ASSUME Init PROVE InPlace
  OBVIOUS
<1>0. 0 \in Stage /\ \A p \in Stage : p \in 0 .. N
  BY SizeAssumption DEF Stage
<1>1. ASSUME NEW p \in Stage
      PROVE  /\ written[p] = 0 /\ random[p] = <<>> /\ rng[p] = <<>>
             /\ ipc[p] = "read" /\ s[p] = <<>>
  BY <1>0 DEF Init
<1>2. ASSUME NEW p \in Stage PROVE Made(p) = 0 /\ Taken(p) = 0
  BY <1>1 DEF Made, Taken, One
<1>3. ASSUME NEW p \in Stage PROVE Placed(p)
  BY <1>1 DEF Placed, Run
<1> QED
  BY <1>0, <1>1, <1>2, <1>3 DEF InPlace, Init

(* A step that leaves the numbers of a stage alone leaves them in place.   *)
LEMMA PlacedSame ==
    ASSUME NEW q \in Stage, Placed(q),
           written'[q] = written[q], random'[q] = random[q], rng'[q] = rng[q],
           ipc'[q] = ipc[q], s_pkt'[q] = s_pkt[q]
    PROVE  /\ Taken(q)' = Taken(q)
           /\ s'[q] = s[q] => Placed(q)'
           /\ Run(s'[q], Taken(q)) => Placed(q)'
  BY DEF Placed, Made, Taken

(* The steps of the root chain.                                            *)
LEMMA RootPlace ==
    ASSUME CountType, Balance, InPlace,
           RootIn \/ SinkRoot \/ \E p \in Stage : ReadRoot(p) \/ ForwardRoot(p)
    PROVE  InPlace'
<1> USE DEF stages, memory
<1>0. 0 \in Stage /\ \A p \in Stage : p # N
  BY SizeAssumption DEF Stage
<1>1. ASSUME NEW p \in Stage
      PROVE  Placed(p) /\ s[p] \in Seq(Nat) /\ Len(s[p]) \in Nat /\ Taken(p) \in Nat
  BY StageFacts, CountFacts, MadeFacts DEF InPlace, CountType, RootTypes
<1>2. CASE RootIn
  <2>1. /\ s' = [s EXCEPT ![0] = Append(s[0], root)] /\ root' = root + 1
        /\ UNCHANGED <<written, random, rng, ipc, s_pkt>>
    BY <1>2 DEF RootIn
  <2>2. \A q \in Stage : s'[q] = IF q = 0 THEN Append(s[0], root) ELSE s[q]
    BY <2>1, StageFacts DEF CountType, RootTypes
  <2>3. Taken(0) + Len(s[0]) = root
    BY DEF InPlace
  <2>4. Run(Append(s[0], root), Taken(0))
    BY <1>0, <1>1, <2>3, RunFacts DEF Placed
  <2>5. \A q \in Stage : Placed(q)' /\ Taken(q)' = Taken(q)
    BY <1>1, <2>1, <2>2, <2>4, PlacedSame
  <2>6. Len(Append(s[0], root)) = Len(s[0]) + 1
    BY <1>0, <1>1, AppendFacts DEF CountType, RootTypes
  <2>7. Taken(0) + (Len(s[0]) + 1) = root + 1
    BY <1>0, <1>1, <2>3
  <2> QED
    BY <1>0, <2>1, <2>2, <2>5, <2>6, <2>7 DEF InPlace
<1>3. CASE SinkRoot
  <2>1. \A q \in Stage : s'[q] = s[q]
    BY <1>0, <1>3, StageFacts DEF SinkRoot, CountType, RootTypes
  <2>2. UNCHANGED <<root, written, random, rng, ipc, s_pkt>>
    BY <1>3 DEF SinkRoot
  <2>3. \A q \in Stage : Placed(q)' /\ Taken(q)' = Taken(q)
    BY <1>1, <2>1, <2>2, PlacedSame
  <2> QED
    BY <1>0, <2>1, <2>2, <2>3 DEF InPlace
<1>4. ASSUME NEW p \in Stage, ReadRoot(p) PROVE InPlace'
  <2>1. /\ ipc[p] = "read" /\ s[p] # <<>> /\ s' = [s EXCEPT ![p] = Tail(s[p])]
        /\ s_pkt' = [s_pkt EXCEPT ![p] = Head(s[p])] /\ ipc' = [ipc EXCEPT ![p] = "forward"]
        /\ UNCHANGED <<root, written, random, rng>>
    BY <1>4 DEF ReadRoot, CanRead
  <2>2. /\ s'[p] = Tail(s[p]) /\ s_pkt'[p] = Head(s[p]) /\ ipc'[p] = "forward"
        /\ \A q \in Stage : q # p => s'[q] = s[q] /\ s_pkt'[q] = s_pkt[q] /\ ipc'[q] = ipc[q]
    BY <2>1, StageFacts DEF CountType, RootTypes
  <2>3. /\ Head(s[p]) = Taken(p) /\ Run(Tail(s[p]), Taken(p) + 1)
        /\ Len(Tail(s[p])) = Len(s[p]) - 1
    BY <1>1, <2>1, RunFacts, TailFacts DEF Placed
  <2>4. Made(p)' = Made(p) /\ Taken(p) = Made(p) /\ Taken(p)' = Taken(p) + 1
    <3>1. Made(p)' = Made(p) /\ One(ipc[p] # "read") = 0 /\ One(ipc'[p] # "read") = 1
      BY <2>1, <2>2 DEF Made, One
    <3>2. Made(p) \in Nat
      BY MadeFacts
    <3> QED
      BY <3>1, <3>2 DEF Taken
  <2>5. Placed(p)'
    BY <1>1, <2>1, <2>2, <2>3, <2>4 DEF Placed
  <2>6. \A q \in Stage : q # p => Placed(q)' /\ Taken(q)' = Taken(q)
    BY <1>1, <2>1, <2>2, PlacedSame
  <2>7. Taken(0)' + Len(s'[0]) = Taken(0) + Len(s[0])
    <3>1. CASE p = 0
      <4>1. Taken(p)' + Len(s'[p]) = Taken(p) + 1 + (Len(s[p]) - 1)
        BY <2>2, <2>3, <2>4
      <4> QED
        BY <1>1, <3>1, <4>1
    <3>2. CASE p # 0
      BY <1>0, <2>2, <2>6, <3>2
    <3> QED
      BY <3>1, <3>2
  <2> QED
    BY <2>1, <2>5, <2>6, <2>7 DEF InPlace
<1>5. ASSUME NEW p \in Stage, ForwardRoot(p) PROVE InPlace'
  <2>1. /\ ipc[p] = "forward" /\ s' = [s EXCEPT ![p + 1] = Append(s[p + 1], s_pkt[p])]
        /\ ipc' = [ipc EXCEPT ![p] = "emit"]
        /\ UNCHANGED <<root, written, random, rng, s_pkt>>
    BY <1>5 DEF ForwardRoot
  <2>2. /\ ipc'[p] = "emit" /\ \A q \in Stage : q # p => ipc'[q] = ipc[q]
        /\ \A q \in Stage : s'[q] = IF q = p + 1 THEN Append(s[p + 1], s_pkt[p]) ELSE s[q]
    BY <2>1, StageFacts DEF CountType, RootTypes
  <2>3. ASSUME NEW q \in Stage
        PROVE  /\ Made(q)' = Made(q) /\ Taken(q)' = Taken(q)
               /\ ipc'[q] # "read" <=> ipc[q] # "read"
    BY <2>1, <2>2 DEF Made, Taken, One
  <2>4. ASSUME p + 1 \in Stage PROVE Run(Append(s[p + 1], s_pkt[p]), Taken(p + 1))
    <3>1. p + 1 \in Stage \ {0} /\ (p + 1) - 1 = p
      BY <2>4, StageFacts
    <3>2. Taken(p + 1) + Len(s[p + 1]) = Numbers(p)
      BY <3>1, HandedOn
    <3>3. s_pkt[p] = Numbers(p)
      <4>1. s_pkt[p] = Made(p) /\ One(ipc[p] = "emit") = 0
        BY <1>1, <2>1 DEF Placed, One
      <4>2. Made(p) \in Nat /\ Numbers(p) = Made(p) + One(ipc[p] = "emit")
        BY MadeFacts DEF Made, Numbers
      <4> QED
        BY <4>1, <4>2
    <3> QED
      BY <1>1, <2>4, <3>2, <3>3, RunFacts DEF Placed
  <2>5. ASSUME NEW q \in Stage PROVE Run(s'[q], Taken(q))
    BY <1>1, <2>2, <2>4 DEF Placed
  <2>6. \A q \in Stage : Placed(q)'
    BY <1>1, <2>1, <2>3, <2>5 DEF Placed
  <2>7. s'[0] = s[0]
    BY <1>0, <2>2, StageFacts
  <2> QED
    BY <1>0, <2>1, <2>3, <2>6, <2>7 DEF InPlace
<1> QED
  BY <1>2, <1>3, <1>4, <1>5

(* The steps that move numbers, and those that move none.                  *)
LEMMA NumberPlace ==
    ASSUME CountType, InPlace, NEW p \in Stage,
           EmitNumber(p) \/ ReadNumber(p) \/ WritePacket(p)
    PROVE  InPlace'
<1> USE DEF CanRead
<1>0. 0 \in Stage
  BY SizeAssumption DEF Stage
<1>1. /\ Placed(p) /\ rng[p] \in Seq(Nat) /\ random[p] \in Seq(Nat)
      /\ Len(rng[p]) \in Nat /\ Len(random[p]) \in Nat /\ written[p] \in Nat
  BY CountFacts DEF InPlace, CountType, NumberTypes, SampleTypes
<1>2. UNCHANGED <<s, root, s_pkt>>
  BY DEF EmitNumber, ReadNumber, WritePacket, stages, instances
<1>3. ASSUME NEW q \in Stage, q # p PROVE Placed(q)' /\ Taken(q)' = Taken(q)
  <2>1. /\ written'[q] = written[q] /\ random'[q] = random[q]
        /\ rng'[q] = rng[q] /\ ipc'[q] = ipc[q]
    BY <1>3 DEF EmitNumber, ReadNumber, WritePacket, stages, instances, CountType, RootTypes,
                NumberTypes, SampleTypes, HistoryTypes
  <2> QED
    BY <1>2, <1>3, <2>1, PlacedSame DEF InPlace
<1> DEFINE w == 2 * written[p]
           a == Len(random[p])
           b == Len(rng[p])
<1>4. w \in Nat /\ a \in Nat /\ b \in Nat /\ w + a \in Nat /\ Made(p) = w + a + b
  BY <1>1 DEF Made
<1>5. CASE EmitNumber(p)
  <2>1. /\ ipc[p] = "emit" /\ ipc'[p] = "read" /\ rng'[p] = Append(rng[p], s_pkt[p])
        /\ written' = written /\ random' = random
    BY <1>5 DEF EmitNumber, stages, CountType, RootTypes, NumberTypes
  <2>2. s_pkt[p] = w + a + b
    BY <1>1, <1>4, <2>1 DEF Placed
  <2>3. Run(rng'[p], w + a)
    BY <1>1, <1>4, <2>1, <2>2, RunFacts DEF Placed
  <2>4. Len(rng'[p]) = b + 1
    BY <1>1, <2>1, AppendFacts DEF CountType, RootTypes
  <2>5. Made(p)' = Made(p) + 1
    <3>1. Made(p)' = w + a + (b + 1)
      BY <2>1, <2>4 DEF Made
    <3> HIDE DEF w, a, b
    <3> QED
      BY <1>4, <3>1
  <2>6. One(ipc[p] # "read") = 1 /\ One(ipc'[p] # "read") = 0
    BY <2>1 DEF One
  <2>7. Taken(p)' = Taken(p)
    BY <1>4, <2>5, <2>6, MadeFacts DEF Taken
  <2>8. Placed(p)'
    BY <1>1, <1>2, <2>1, <2>3, <2>7 DEF Placed
  <2> QED
    BY <1>0, <1>2, <1>3, <2>7, <2>8 DEF InPlace
<1>6. CASE ReadNumber(p)
  <2>1. /\ rng[p] # <<>> /\ rng'[p] = Tail(rng[p]) /\ random'[p] = Append(random[p], Head(rng[p]))
        /\ Len(Tail(rng[p])) = b - 1 /\ Len(Append(random[p], Head(rng[p]))) = a + 1
        /\ written' = written /\ ipc' = ipc
    BY <1>6, ReadNumberFacts DEF ReadNumber, CountType, NumberTypes, SampleTypes
  <2>2. Head(rng[p]) = w + a /\ Run(Tail(rng[p]), w + a + 1)
    BY <1>1, <1>4, <2>1, RunFacts DEF Placed
  <2>3. Run(Append(random[p], w + a), w)
    BY <1>1, <1>4, RunFacts DEF Placed
  <2>4. w + a + 1 = w + (a + 1) /\ w + (a + 1) + (b - 1) = w + a + b
    <3> HIDE DEF w, a, b
    <3> QED
      BY <1>4
  <2>5. Made(p)' = Made(p) /\ Taken(p)' = Taken(p)
    BY <1>4, <2>1, <2>4 DEF Made, Taken
  <2>6. Run(random'[p], 2 * written'[p]) /\ Run(rng'[p], 2 * written'[p] + Len(random'[p]))
    BY <2>1, <2>2, <2>3, <2>4
  <2>7. Placed(p)'
    BY <1>1, <1>2, <2>1, <2>5, <2>6 DEF Placed
  <2> QED
    BY <1>0, <1>2, <1>3, <2>5, <2>7 DEF InPlace
<1>7. CASE WritePacket(p)
  <2>1. /\ random'[p] = <<>> /\ written'[p] = written[p] + 1 /\ a = 2
        /\ rng' = rng /\ ipc' = ipc
    BY <1>7 DEF WritePacket, instances, CountType, SampleTypes, HistoryTypes
  <2>2. Len(random'[p]) = 0 /\ 2 * written'[p] = w + 2 /\ w + 2 \in Nat
    BY <1>1, <2>1
  <2>3. Made(p)' = Made(p) /\ Taken(p)' = Taken(p)
    <3>1. Made(p)' = w + 2 + 0 + b
      BY <2>1, <2>2 DEF Made
    <3>2. Made(p) = w + 2 + b
      BY <1>4, <2>1
    <3>3. Made(p)' = Made(p)
      <4> HIDE DEF w, b
      <4> QED
        BY <1>4, <3>1, <3>2
    <3> QED
      BY <2>1, <3>3 DEF Taken
  <2>4. w + a = w + 2 /\ w + 2 + 0 = w + 2
    BY <2>1, <2>2
  <2>5. Run(random'[p], 2 * written'[p]) /\ Run(rng'[p], 2 * written'[p] + Len(random'[p]))
    BY <1>1, <2>1, <2>2, <2>4, RunOfNone DEF Placed
  <2>6. Placed(p)'
    BY <1>1, <1>2, <2>1, <2>3, <2>5 DEF Placed
  <2> QED
    BY <1>0, <1>2, <1>3, <2>3, <2>6 DEF InPlace
<1> QED
  BY <1>5, <1>6, <1>7

LEMMA StepPlace == ASSUME CountType, Balance, InPlace, [Next]_vars PROVE InPlace'
<1>1. ASSUME UNCHANGED <<s, rng, root, ipc, s_pkt, random, written>> PROVE InPlace'
  BY <1>1 DEF InPlace, Placed, Taken, Made
<1>2. ASSUME NEW p \in Stage, PollHit(p) \/ PollMiss(p) PROVE InPlace'
  BY <1>1, <1>2 DEF PollHit, PollMiss, instances, memory
<1>3. ASSUME StartPacket \/ Launch \/ Sum \/ Return \/ UNCHANGED vars PROVE InPlace'
  BY <1>1, <1>3 DEF StartPacket, Launch, Sum, Return, vars, instances, stages
<1> QED
  BY <1>2, <1>3, RootPlace, NumberPlace DEF Next, Instance, Application

LEMMA InOrder == ASSUME CountType, InPlace PROVE SamplesInOrder
<1> SUFFICES ASSUME NEW p \in Stage
             PROVE  LET line == random[p] \o rng[p] \o InHand(p)
                    IN /\ \A k \in 1 .. Len(line) - 1 : line[k + 1] = line[k] + 1
                       /\ random[p] # <<>> => random[p][1] % 2 = 0
  BY DEF SamplesInOrder
<1> DEFINE q == random[p]
           r == rng[p]
           h == InHand(p)
           w == 2 * written[p]
<1>1. /\ Placed(p) /\ q \in Seq(Nat) /\ r \in Seq(Nat) /\ h \in Seq(Nat) /\ written[p] \in Nat
      /\ Len(h) \in {0, 1}
  BY DEF InPlace, CountType, RootTypes, NumberTypes, SampleTypes, HistoryTypes, InHand
<1>2. /\ Run(q, w) /\ Run(r, w + Len(q)) /\ Run(h, w + Len(q) + Len(r))
  <2>1. Run(q, w) /\ Run(r, w + Len(q))
    BY <1>1 DEF Placed
  <2>2. w + Len(q) + Len(r) \in Nat
    BY <1>1
  <2>3. CASE ipc[p] = "emit"
    <3>1. s_pkt[p] = w + Len(q) + Len(r) /\ h = <<s_pkt[p]>>
      BY <1>1, <2>3 DEF Placed, Made, InHand
    <3> QED
      BY <2>1, <2>2, <3>1 DEF Run
  <2>4. CASE ipc[p] # "emit"
    BY <2>1, <2>2, <2>4, RunOfNone DEF InHand
  <2> QED
    BY <2>3, <2>4
<1>3. w \in Nat /\ w % 2 = 0
  BY <1>1
<1> HIDE DEF q, r, h, w
<1>4. Run((q \o r) \o h, w)
  <2>1. /\ q \o r \in Seq(Nat) /\ Len(q \o r) = Len(q) + Len(r) /\ Len(q) \in Nat /\ Len(r) \in Nat
        /\ \A k \in 1 .. Len(q) + Len(r) : (q \o r)[k] = IF k <= Len(q) THEN q[k] ELSE r[k - Len(q)]
    BY <1>1, ConcatProperties, LenProperties
  <2> DEFINE t == q \o r
             m == Len(q)
             n == Len(r)
  <2>2. ASSUME NEW k \in 1 .. m + n PROVE t[k] = w + k - 1
    <3>1. CASE k <= m
      BY <1>2, <2>1, <3>1 DEF Run
    <3>2. CASE ~(k <= m)
      <4>1. k - m \in 1 .. n
        BY <2>1, <3>2
      <4>2. r[k - m] = w + m + (k - m) - 1
        BY <1>2, <4>1 DEF Run
      <4> QED
        BY <1>3, <2>1, <3>2, <4>2
    <3> QED
      BY <3>1, <3>2
  <2>3. t \in Seq(Nat) /\ Len(t) = m + n /\ m \in Nat /\ n \in Nat
    BY <2>1
  <2> HIDE DEF t
  <2>4. /\ Len(t \o h) = m + n + Len(h) /\ Len(h) \in Nat
        /\ \A k \in 1 .. m + n + Len(h) : (t \o h)[k] = IF k <= m + n THEN t[k] ELSE h[k - (m + n)]
    <3>1. /\ Len(t \o h) = Len(t) + Len(h) /\ Len(h) \in Nat
          /\ \A k \in 1 .. Len(t) + Len(h) :
                 (t \o h)[k] = IF k <= Len(t) THEN t[k] ELSE h[k - Len(t)]
      <4>1. t \in Seq(Nat) /\ h \in Seq(Nat)
        BY <1>1, <2>3
      <4> QED
        BY <4>1, ConcatProperties, LenProperties
    <3> QED
      BY <2>3, <3>1, Zenon
  <2> SUFFICES ASSUME NEW k \in 1 .. m + n + Len(h) PROVE (t \o h)[k] = w + k - 1
    BY <2>4 DEF Run, t
  <2>5. CASE k <= m + n
    BY <2>2, <2>3, <2>4, <2>5
  <2>6. CASE ~(k <= m + n)
    <3>1. k - (m + n) \in 1 .. Len(h)
      BY <2>3, <2>4, <2>6
    <3>2. h[k - (m + n)] = w + m + n + (k - (m + n)) - 1
      BY <1>2, <3>1 DEF Run
    <3> QED
      BY <1>3, <2>3, <2>4, <2>6, <3>2
  <2> QED
    BY <2>5, <2>6
<1>5. (q \o r) \o h \in Seq(Nat)
  BY <1>1, ConcatProperties
<1> DEFINE line == (q \o r) \o h
<1>6. Len(line) \in Nat /\ \A k \in 1 .. Len(line) : line[k] = w + k - 1
  BY <1>4, <1>5, LenProperties DEF Run
<1>7. ASSUME NEW k \in 1 .. Len(line) - 1 PROVE line[k + 1] = line[k] + 1
  <2> HIDE DEF line
  <2>1. k \in 1 .. Len(line) /\ k + 1 \in 1 .. Len(line)
    BY <1>6
  <2>2. line[k + 1] = w + (k + 1) - 1 /\ line[k] = w + k - 1
    BY <1>6, <2>1
  <2> QED
    BY <1>3, <1>6, <2>2
<1>8. q # <<>> => q[1] = w
  <2>1. q # <<>> => 1 \in 1 .. Len(q)
    BY <1>1, LenProperties, EmptySeq
  <2> QED
    BY <1>2, <1>3, <2>1 DEF Run
<1> QED
  BY <1>3, <1>7, <1>8 DEF q, r, h

(* Every sample is made of two numbers in a row, starting at an even       *)
(* position, for every number of stages and all capacities (application,   *)
(* the reads of rng).  What a stage holds follows from how many samples it *)
(* has written; the balance tells what it is handed next.                  *)
THEOREM SamplesCorrect == Spec => []SamplesInOrder
<1>1. Init => InPlace
  BY InitPlace
<1>2. CountType /\ Balance /\ InPlace /\ [Next]_vars => InPlace'
  BY StepPlace
<1>3. CountInv => CountType /\ Balance
  BY DEF CountInv
<1>4. CountType /\ InPlace => SamplesInOrder
  BY InOrder
<1> QED
  BY <1>1, <1>2, <1>3, <1>4, CountInvariant, PTL DEF Spec

-----------------------------------------------------------------------------
(* The types in full.  TypeOK is not inductive: what an instance writes is *)
(* a root state only because it has read one, and the sum is bounded when  *)
(* the loop has ended because it was before.                               *)
RootBounds ==
    /\ \A l \in 0 .. N : s[l] \in Seq(0 .. root - 1) /\ Len(s[l]) <= SDepth[l]
    /\ \A p \in Stage : rng[p] \in Seq(0 .. root - 1)
    /\ s_pkt \in [Stage -> (0 .. root)]
    /\ \A p \in Stage : ipc[p] # "read" => s_pkt[p] \in 0 .. root - 1

PacketBounds ==
    /\ \A l \in 0 .. N : o[l] \in Seq(PacketUpTo(l)) /\ Len(o[l]) <= ODepth[l]
    /\ \A p \in Stage : v[p] \in PacketUpTo(p + 1)

SumBounds ==
    /\ wpc \in {"idle", "running", "done"} /\ i \in 0 .. Size
    /\ counter \in PacketUpTo(N * i)
    /\ wpc = "done" => i = Size /\ mem = <<counter.data \div Word, counter.data % Word>>

Bounds == RootBounds /\ PacketBounds /\ SumBounds

LEMMA BoundsType == ASSUME CountType, Bounds PROVE TypeOK
  BY DEF CountType, RootTypes, NumberTypes, SampleTypes, Bounds, RootBounds, PacketBounds,
         SumBounds, TypeOK

LEMMA UpToFacts ==
    ASSUME NEW n \in Nat
    PROVE  /\ Packet(0, 0) \in PacketUpTo(n)
           /\ \A m \in Nat, a \in PacketUpTo(n) : \A b \in PacketUpTo(m) :
                  [data |-> a.data + b.data, samples |-> a.samples + b.samples]
                      \in PacketUpTo(n + m)
           /\ \A a \in PacketUpTo(n), c \in BOOLEAN :
                  Packet(a.data + One(c), a.samples + 1) \in PacketUpTo(n + 1)
<1>1. Packet(0, 0) \in PacketUpTo(n)
  BY DEF Packet, PacketUpTo
<1>2. ASSUME NEW m \in Nat, NEW a \in PacketUpTo(n), NEW b \in PacketUpTo(m)
      PROVE  [data |-> a.data + b.data, samples |-> a.samples + b.samples] \in PacketUpTo(n + m)
  BY DEF PacketUpTo
<1>3. ASSUME NEW a \in PacketUpTo(n), NEW c \in BOOLEAN
      PROVE  Packet(a.data + One(c), a.samples + 1) \in PacketUpTo(n + 1)
  BY DEF PacketUpTo, Packet, One
<1> QED
  BY <1>1, <1>2, <1>3

LEMMA InitBounds == Init => Bounds
<1> SUFFICES ASSUME Init PROVE Bounds
  OBVIOUS
<1> USE SizeAssumption DEF Init
<1>1. RootBounds
  BY DEF RootBounds, Stage
<1>2. PacketBounds
  <2>1. \A p \in Stage : p + 1 \in Nat
    BY DEF Stage
  <2> QED
    BY <2>1, UpToFacts DEF PacketBounds
<1>3. SumBounds
  <2>1. N * 0 \in Nat
    BY SizeAssumption
  <2> QED
    BY <2>1, UpToFacts DEF SumBounds
<1> QED
  BY <1>1, <1>2, <1>3 DEF Bounds

(* A stream of root states stays one when the next root state is used.     *)
LEMMA Widen ==
    ASSUME NEW n \in Nat, NEW q \in Seq(0 .. n - 1)
    PROVE  q \in Seq(0 .. (n + 1) - 1)
  OBVIOUS

LEMMA StepRootBounds ==
    ASSUME CountType, RootBounds, [Next]_vars
    PROVE  RootBounds'
<1> USE DEF CanRead, CanWrite, memory, stages, instances
<1>0. /\ root \in Nat /\ (\A l \in 0 .. N : SDepth[l] \in Nat)
      /\ s \in [0 .. N -> Seq(Nat)] /\ rng \in [Stage -> Seq(Nat)]
      /\ s_pkt \in [Stage -> (0 .. root)] /\ ipc \in [Stage -> {"read", "forward", "emit"}]
  BY SizeAssumption DEF CountType, RootTypes, NumberTypes, RootBounds
<1>1. ASSUME NEW l \in 0 .. N, NEW e \in 0 .. root - 1, Len(s[l]) < SDepth[l]
      PROVE  /\ Append(s[l], e) \in Seq(0 .. root - 1) /\ Len(Append(s[l], e)) <= SDepth[l]
  <2>1. s[l] \in Seq(0 .. root - 1)
    BY DEF RootBounds
  <2>2. /\ Append(s[l], e) \in Seq(0 .. root - 1) /\ Len(s[l]) \in Nat
        /\ Len(Append(s[l], e)) = Len(s[l]) + 1
    BY <2>1, AppendFacts
  <2> QED
    BY <1>0, <1>1, <2>2
<1>2. ASSUME NEW l \in 0 .. N, s[l] # <<>>
      PROVE  /\ Head(s[l]) \in 0 .. root - 1 /\ Tail(s[l]) \in Seq(0 .. root - 1)
             /\ Len(Tail(s[l])) <= SDepth[l]
  <2>1. s[l] \in Seq(0 .. root - 1) /\ Len(s[l]) <= SDepth[l]
    BY DEF RootBounds
  <2>2. /\ Head(s[l]) \in 0 .. root - 1 /\ Tail(s[l]) \in Seq(0 .. root - 1)
        /\ Len(s[l]) \in Nat /\ Len(Tail(s[l])) = Len(s[l]) - 1
    BY <1>2, <2>1, TailFacts
  <2> QED
    BY <1>0, <2>1, <2>2
<1>3. CASE RootIn
  <2>1. /\ Len(s[0]) < SDepth[0] /\ s' = [s EXCEPT ![0] = Append(s[0], root)] /\ root' = root + 1
        /\ UNCHANGED <<rng, s_pkt, ipc>>
    BY <1>3 DEF RootIn
  <2>2. /\ \A l \in 0 .. N : s[l] \in Seq(0 .. root' - 1)
        /\ \A p \in Stage : rng[p] \in Seq(0 .. root' - 1)
    BY <1>0, <2>1, Widen DEF RootBounds
  <2>3. root \in 0 .. root' - 1 /\ 0 .. root \subseteq 0 .. root'
        /\ 0 .. root - 1 \subseteq 0 .. root' - 1
    BY <1>0, <2>1
  <2>4. Append(s[0], root) \in Seq(0 .. root' - 1) /\ Len(Append(s[0], root)) <= SDepth[0]
    <3>1. s[0] \in Seq(0 .. root' - 1)
      BY <2>2, EndFacts
    <3>2. /\ Append(s[0], root) \in Seq(0 .. root' - 1) /\ Len(s[0]) \in Nat
          /\ Len(Append(s[0], root)) = Len(s[0]) + 1
      BY <2>3, <3>1, AppendFacts
    <3> QED
      BY <1>0, <2>1, <3>2, EndFacts
  <2>5. \A l \in 0 .. N : s'[l] = IF l = 0 THEN Append(s[0], root) ELSE s[l]
    BY <1>0, <2>1
  <2>6. \A l \in 0 .. N : s'[l] \in Seq(0 .. root' - 1) /\ Len(s'[l]) <= SDepth[l]
    BY <2>2, <2>4, <2>5 DEF RootBounds
  <2>7. s_pkt' \in [Stage -> (0 .. root')]
    BY <1>0, <2>1, <2>3
  <2>8. \A p \in Stage : ipc'[p] # "read" => s_pkt'[p] \in 0 .. root' - 1
    BY <2>1, <2>3 DEF RootBounds
  <2> QED
    BY <2>1, <2>2, <2>6, <2>7, <2>8 DEF RootBounds
<1>4. CASE SinkRoot
  <2>1. /\ s[N] # <<>> /\ s' = [s EXCEPT ![N] = Tail(s[N])]
        /\ UNCHANGED <<rng, s_pkt, ipc, root>>
    BY <1>4 DEF SinkRoot
  <2>2. \A l \in 0 .. N : s'[l] \in Seq(0 .. root - 1) /\ Len(s'[l]) <= SDepth[l]
    BY <1>0, <1>2, <2>1, EndFacts DEF RootBounds
  <2> QED
    BY <2>1, <2>2 DEF RootBounds
<1>5. ASSUME NEW p \in Stage, ReadRoot(p) PROVE RootBounds'
  <2>1. /\ s[p] # <<>> /\ s' = [s EXCEPT ![p] = Tail(s[p])]
        /\ s_pkt' = [s_pkt EXCEPT ![p] = Head(s[p])] /\ ipc' = [ipc EXCEPT ![p] = "forward"]
        /\ UNCHANGED <<rng, root>>
    BY <1>5 DEF ReadRoot
  <2>2. /\ Head(s[p]) \in 0 .. root - 1 /\ Tail(s[p]) \in Seq(0 .. root - 1)
        /\ Len(Tail(s[p])) <= SDepth[p]
    BY <1>2, <2>1, StageFacts
  <2>3. \A l \in 0 .. N : s'[l] \in Seq(0 .. root - 1) /\ Len(s'[l]) <= SDepth[l]
    BY <1>0, <2>1, <2>2 DEF RootBounds
  <2>4. Head(s[p]) \in 0 .. root
    BY <1>0, <2>2
  <2>5. s_pkt' \in [Stage -> (0 .. root)]
    BY <1>0, <2>1, <2>4
  <2>6. \A q \in Stage : ipc'[q] # "read" => s_pkt'[q] \in 0 .. root - 1
    BY <1>0, <2>1, <2>2 DEF RootBounds
  <2> QED
    BY <2>1, <2>3, <2>5, <2>6 DEF RootBounds
<1>6. ASSUME NEW p \in Stage, ForwardRoot(p) PROVE RootBounds'
  <2>1. /\ ipc[p] = "forward" /\ Len(s[p + 1]) < SDepth[p + 1]
        /\ s' = [s EXCEPT ![p + 1] = Append(s[p + 1], s_pkt[p])]
        /\ ipc' = [ipc EXCEPT ![p] = "emit"]
        /\ UNCHANGED <<rng, root, s_pkt>>
    BY <1>6 DEF ForwardRoot
  <2>2. s_pkt[p] \in 0 .. root - 1
    BY <2>1 DEF RootBounds
  <2>3. /\ Append(s[p + 1], s_pkt[p]) \in Seq(0 .. root - 1)
        /\ Len(Append(s[p + 1], s_pkt[p])) <= SDepth[p + 1]
    BY <1>1, <2>1, <2>2, StageFacts
  <2>4. \A l \in 0 .. N : s'[l] \in Seq(0 .. root - 1) /\ Len(s'[l]) <= SDepth[l]
    BY <1>0, <2>1, <2>3 DEF RootBounds
  <2>5. \A q \in Stage : ipc'[q] # "read" => s_pkt'[q] \in 0 .. root - 1
    BY <1>0, <2>1, <2>2 DEF RootBounds
  <2> QED
    BY <2>1, <2>4, <2>5 DEF RootBounds
<1>7. ASSUME NEW p \in Stage, EmitNumber(p) PROVE RootBounds'
  <2>1. /\ ipc[p] = "emit" /\ rng' = [rng EXCEPT ![p] = Append(rng[p], s_pkt[p])]
        /\ ipc' = [ipc EXCEPT ![p] = "read"]
        /\ UNCHANGED <<s, root, s_pkt>>
    BY <1>7 DEF EmitNumber
  <2>2. Append(rng[p], s_pkt[p]) \in Seq(0 .. root - 1)
    <3>1. rng[p] \in Seq(0 .. root - 1) /\ s_pkt[p] \in 0 .. root - 1
      BY <2>1 DEF RootBounds
    <3> QED
      BY <3>1, AppendFacts
  <2>3. \A q \in Stage : rng'[q] \in Seq(0 .. root - 1)
    BY <1>0, <2>1, <2>2 DEF RootBounds
  <2>4. \A q \in Stage : ipc'[q] # "read" => s_pkt'[q] \in 0 .. root - 1
    BY <1>0, <2>1 DEF RootBounds
  <2> QED
    BY <2>1, <2>3, <2>4 DEF RootBounds
<1>8. ASSUME NEW p \in Stage, ReadNumber(p) PROVE RootBounds'
  <2>1. /\ rng[p] # <<>> /\ rng' = [rng EXCEPT ![p] = Tail(rng[p])]
        /\ UNCHANGED <<s, root, s_pkt, ipc>>
    BY <1>8 DEF ReadNumber
  <2>2. Tail(rng[p]) \in Seq(0 .. root - 1)
    <3>1. rng[p] \in Seq(0 .. root - 1)
      BY DEF RootBounds
    <3> QED
      BY <2>1, <3>1, TailFacts
  <2>3. \A q \in Stage : rng'[q] \in Seq(0 .. root - 1)
    BY <1>0, <2>1, <2>2 DEF RootBounds
  <2> QED
    BY <2>1, <2>3 DEF RootBounds
<1>9. ASSUME UNCHANGED <<s, rng, root, ipc, s_pkt>> PROVE RootBounds'
  BY <1>9 DEF RootBounds
<1>10. ASSUME NEW p \in Stage, PollHit(p) \/ PollMiss(p) \/ WritePacket(p) PROVE RootBounds'
  BY <1>9, <1>10 DEF PollHit, PollMiss, WritePacket
<1>11. ASSUME StartPacket \/ Launch \/ Sum \/ Return \/ UNCHANGED vars PROVE RootBounds'
  BY <1>9, <1>11 DEF StartPacket, Launch, Sum, Return, vars
<1> QED
  BY <1>3, <1>4, <1>5, <1>6, <1>7, <1>8, <1>10, <1>11 DEF Next, Instance, Application

LEMMA StepPacketBounds ==
    ASSUME CountType, PacketBounds, [Next]_vars
    PROVE  PacketBounds'
<1> USE DEF CanRead, CanWrite, memory, stages, instances
<1>0. /\ (\A l \in 0 .. N : ODepth[l] \in Nat)
      /\ o \in [0 .. N -> Seq(Packets)] /\ v \in [Stage -> Packets]
  BY SizeAssumption DEF CountType, PacketTypes
<1>1. ASSUME NEW l \in 0 .. N, NEW e \in PacketUpTo(l), Len(o[l]) < ODepth[l]
      PROVE  Append(o[l], e) \in Seq(PacketUpTo(l)) /\ Len(Append(o[l], e)) <= ODepth[l]
  <2>1. o[l] \in Seq(PacketUpTo(l))
    BY DEF PacketBounds
  <2>2. /\ Append(o[l], e) \in Seq(PacketUpTo(l)) /\ Len(o[l]) \in Nat
        /\ Len(Append(o[l], e)) = Len(o[l]) + 1
    BY <2>1, AppendFacts
  <2> QED
    BY <1>0, <1>1, <2>2
<1>2. ASSUME NEW l \in 0 .. N, o[l] # <<>>
      PROVE  /\ Head(o[l]) \in PacketUpTo(l) /\ Tail(o[l]) \in Seq(PacketUpTo(l))
             /\ Len(Tail(o[l])) <= ODepth[l]
  <2>1. o[l] \in Seq(PacketUpTo(l)) /\ Len(o[l]) <= ODepth[l]
    BY DEF PacketBounds
  <2>2. /\ Head(o[l]) \in PacketUpTo(l) /\ Tail(o[l]) \in Seq(PacketUpTo(l))
        /\ Len(o[l]) \in Nat /\ Len(Tail(o[l])) = Len(o[l]) - 1
    BY <1>2, <2>1, TailFacts
  <2> QED
    BY <1>0, <2>1, <2>2
<1>3. CASE StartPacket
  <2>1. /\ Len(o[0]) < ODepth[0] /\ o' = [o EXCEPT ![0] = Append(o[0], Packet(0, 0))] /\ v' = v
    BY <1>3 DEF StartPacket
  <2>2. Packet(0, 0) \in PacketUpTo(0)
    BY UpToFacts
  <2>3. \A l \in 0 .. N : o'[l] \in Seq(PacketUpTo(l)) /\ Len(o'[l]) <= ODepth[l]
    BY <1>0, <1>1, <2>1, <2>2, EndFacts DEF PacketBounds
  <2> QED
    BY <2>1, <2>3 DEF PacketBounds
<1>4. CASE Sum
  <2>1. o[N] # <<>> /\ o' = [o EXCEPT ![N] = Tail(o[N])] /\ v' = v
    BY <1>4 DEF Sum
  <2>2. \A l \in 0 .. N : o'[l] \in Seq(PacketUpTo(l)) /\ Len(o'[l]) <= ODepth[l]
    BY <1>0, <1>2, <2>1, EndFacts DEF PacketBounds
  <2> QED
    BY <2>1, <2>2 DEF PacketBounds
<1>5. ASSUME NEW p \in Stage, PollHit(p) PROVE PacketBounds'
  <2>1. PICK c \in BOOLEAN : One(Hit(p, random[p][2])) = One(c)
    BY DEF One
  <2>2. /\ o[p] # <<>> /\ o' = [o EXCEPT ![p] = Tail(o[p])]
        /\ v' = [v EXCEPT ![p] = Packet(Head(o[p]).data + One(c), Head(o[p]).samples + 1)]
    BY <1>5, <2>1 DEF PollHit
  <2>3. p \in 0 .. N /\ p \in Nat
    BY StageFacts
  <2>4. Packet(Head(o[p]).data + One(c), Head(o[p]).samples + 1) \in PacketUpTo(p + 1)
    BY <1>2, <2>2, <2>3, UpToFacts
  <2>5. \A l \in 0 .. N : o'[l] \in Seq(PacketUpTo(l)) /\ Len(o'[l]) <= ODepth[l]
    BY <1>0, <1>2, <2>2, <2>3 DEF PacketBounds
  <2>6. \A q \in Stage : v'[q] \in PacketUpTo(q + 1)
    BY <1>0, <2>2, <2>4 DEF PacketBounds
  <2> QED
    BY <2>5, <2>6 DEF PacketBounds
<1>6. ASSUME NEW p \in Stage, PollMiss(p) PROVE PacketBounds'
  <2>1. o' = o /\ v' = [v EXCEPT ![p] = Packet(0, 0)]
    BY <1>6 DEF PollMiss
  <2>2. Packet(0, 0) \in PacketUpTo(p + 1)
    BY StageFacts, UpToFacts
  <2>3. \A q \in Stage : v'[q] \in PacketUpTo(q + 1)
    BY <1>0, <2>1, <2>2 DEF PacketBounds
  <2> QED
    BY <2>1, <2>3 DEF PacketBounds
<1>7. ASSUME NEW p \in Stage, WritePacket(p) PROVE PacketBounds'
  <2>1. /\ Len(o[p + 1]) < ODepth[p + 1] /\ o' = [o EXCEPT ![p + 1] = Append(o[p + 1], v[p])] /\ v' = v
    BY <1>7 DEF WritePacket
  <2>2. v[p] \in PacketUpTo(p + 1) /\ p + 1 \in 0 .. N
    BY StageFacts DEF PacketBounds
  <2>3. \A l \in 0 .. N : o'[l] \in Seq(PacketUpTo(l)) /\ Len(o'[l]) <= ODepth[l]
    BY <1>0, <1>1, <2>1, <2>2 DEF PacketBounds
  <2> QED
    BY <2>1, <2>3 DEF PacketBounds
<1>8. ASSUME UNCHANGED <<o, v>> PROVE PacketBounds'
  BY <1>8 DEF PacketBounds
<1>9. ASSUME NEW p \in Stage, Instance(p) \/ ReadNumber(p) PROVE PacketBounds'
  BY <1>8, <1>9 DEF Instance, ReadRoot, ForwardRoot, EmitNumber, ReadNumber
<1>10. ASSUME RootIn \/ SinkRoot \/ Launch \/ Return \/ UNCHANGED vars PROVE PacketBounds'
  BY <1>8, <1>10 DEF RootIn, SinkRoot, Launch, Return, vars
<1> QED
  BY <1>3, <1>4, <1>5, <1>6, <1>7, <1>9, <1>10 DEF Next, Application

LEMMA StepSumBounds ==
    ASSUME CountType, PacketBounds, SumBounds, [Next]_vars
    PROVE  SumBounds'
<1> USE DEF memory, stages, instances
<1>0. N \in Nat /\ Size \in Nat /\ N \in 0 .. N
  BY SizeAssumption
<1>1. CASE Launch
  BY <1>1 DEF Launch, SumBounds
<1>2. CASE Sum
  <2>1. /\ wpc = "running" /\ i < Size /\ o[N] # <<>> /\ i' = i + 1 /\ wpc' = wpc
        /\ counter' = [data |-> counter.data + Head(o[N]).data,
                       samples |-> counter.samples + Head(o[N]).samples]
    BY <1>2 DEF Sum, CanRead
  <2>2. Head(o[N]) \in PacketUpTo(N)
    BY <1>0, <2>1, TailFacts DEF PacketBounds
  <2>3. i \in 0 .. Size /\ i' \in 0 .. Size
    BY <1>0, <2>1 DEF SumBounds
  <2>4. N * i \in Nat /\ N * i + N = N * (i + 1)
    BY <1>0, <2>3
  <2>5. counter' \in PacketUpTo(N * i + N)
    BY <1>0, <2>1, <2>2, <2>4, UpToFacts DEF SumBounds
  <2> QED
    BY <2>1, <2>3, <2>4, <2>5 DEF SumBounds
<1>3. CASE Return
  BY <1>3 DEF Return, SumBounds
<1>4. ASSUME UNCHANGED memory PROVE SumBounds'
  BY <1>4 DEF SumBounds
<1>5. ASSUME NEW p \in Stage, Instance(p) \/ Application(p) PROVE SumBounds'
  BY <1>4, <1>5 DEF Instance, ReadRoot, ForwardRoot, EmitNumber, Application, ReadNumber,
                    PollHit, PollMiss, WritePacket
<1>6. ASSUME RootIn \/ StartPacket \/ SinkRoot \/ UNCHANGED vars PROVE SumBounds'
  BY <1>4, <1>6 DEF RootIn, StartPacket, SinkRoot, vars
<1> QED
  BY <1>1, <1>2, <1>3, <1>5, <1>6 DEF Next

(* No stream overflows, an instance writes only root states it has read,   *)
(* and a packet has at most one sample of each stage it has passed, for    *)
(* every number of stages and all capacities (the whole of ssrng.cpp and   *)
(* mem_write).                                                             *)
THEOREM TypeCorrect == Spec => []TypeOK
<1>1. Init => Bounds
  BY InitBounds
<1>2. CountType /\ Bounds /\ [Next]_vars => Bounds'
  BY StepRootBounds, StepPacketBounds, StepSumBounds DEF Bounds
<1>3. CountInv => CountType
  BY DEF CountInv
<1>4. CountType /\ Bounds => TypeOK
  BY BoundsType
<1> QED
  BY <1>1, <1>2, <1>3, <1>4, CountInvariant, PTL DEF Spec

-----------------------------------------------------------------------------
(* Where the samples are that the result is short of: a packet on link l   *)
(* should have l of them.  Adds(a, q, l) says that a adds up what the      *)
(* packets of q are short of, from what those before them were.            *)
Adds(a, q, l) ==
    /\ a \in Seq(Nat) /\ Len(a) = Len(q) + 1
    /\ \A k \in 1 .. Len(q) : a[k + 1] = a[k] + (l - q[k].samples)

Whole(a, q) == a[Len(q) + 1]

LEMMA AddsNone ==
    ASSUME NEW l
    PROVE  Adds(<<0>>, <<>>, l) /\ <<0>>[1] = 0 /\ Whole(<<0>>, <<>>) = 0
  BY DEF Adds, Whole

LEMMA AddsFacts ==
    ASSUME NEW l \in Nat, NEW q \in Seq(Packets), NEW a, Adds(a, q, l)
    PROVE  Len(q) \in Nat /\ a[1] \in Nat /\ Whole(a, q) \in Nat
<1>1. Len(q) \in Nat
  OBVIOUS
<1>2. a \in Seq(Nat) /\ 1 \in 1 .. Len(a) /\ Len(q) + 1 \in 1 .. Len(a)
  BY <1>1 DEF Adds
<1> QED
  BY <1>1, <1>2 DEF Whole

LEMMA AddsTail ==
    ASSUME NEW l \in Nat, NEW q \in Seq(Packets), NEW a, Adds(a, q, l), q # <<>>
    PROVE  /\ Adds(Tail(a), Tail(q), l)
           /\ Tail(a)[1] = a[1] + (l - Head(q).samples)
           /\ Whole(Tail(a), Tail(q)) = Whole(a, q)
<1>1. /\ Tail(q) \in Seq(Packets) /\ Len(Tail(q)) = Len(q) - 1 /\ Len(q) \in Nat \ {0}
      /\ Head(q) = q[1] /\ \A k \in 1 .. Len(q) - 1 : Tail(q)[k] = q[k + 1]
  BY TailFacts
<1>2. a \in Seq(Nat) /\ Len(a) = Len(q) + 1 /\ a # <<>>
  BY <1>1 DEF Adds
<1>3. /\ Tail(a) \in Seq(Nat) /\ Len(Tail(a)) = Len(a) - 1
      /\ \A k \in 1 .. Len(a) - 1 : Tail(a)[k] = a[k + 1]
  BY <1>2, TailFacts
<1> DEFINE n == Len(q)
<1> HIDE DEF n
<1>4. n \in Nat \ {0} /\ Len(Tail(a)) = Len(Tail(q)) + 1 /\ Len(a) = n + 1
  BY <1>1, <1>2, <1>3 DEF n
<1>5. ASSUME NEW k \in 1 .. n - 1
      PROVE  Tail(a)[k + 1] = Tail(a)[k] + (l - Tail(q)[k].samples)
  <2>1. k + 1 \in 1 .. n /\ k \in 1 .. n /\ k + 1 \in Nat
    BY <1>4
  <2>2. Tail(a)[k + 1] = a[(k + 1) + 1] /\ Tail(a)[k] = a[k + 1] /\ Tail(q)[k] = q[k + 1]
    <3>1. k + 1 \in 1 .. Len(a) - 1 /\ k \in 1 .. Len(a) - 1
      BY <1>4, <2>1
    <3>2. Tail(a)[k + 1] = a[(k + 1) + 1] /\ Tail(a)[k] = a[k + 1]
      BY <1>3, <3>1, Zenon
    <3>3. Tail(q)[k] = q[k + 1]
      BY <1>1 DEF n
    <3> QED
      BY <3>2, <3>3
  <2>3. a[(k + 1) + 1] = a[k + 1] + (l - q[k + 1].samples)
    BY <2>1 DEF Adds, n
  <2> QED
    BY <2>2, <2>3
<1>6. Adds(Tail(a), Tail(q), l)
  BY <1>1, <1>3, <1>4, <1>5 DEF Adds, n
<1>7. Tail(a)[1] = a[2] /\ a[2] = a[1] + (l - q[1].samples)
  <2>1. 1 \in 1 .. n /\ 1 \in 1 .. Len(a) - 1
    BY <1>4
  <2> QED
    BY <1>3, <2>1 DEF Adds, n
<1>8. Tail(a)[Len(Tail(q)) + 1] = a[n + 1]
  <2>1. Len(Tail(q)) + 1 = n /\ n \in 1 .. Len(a) - 1
    BY <1>1, <1>4 DEF n
  <2> QED
    BY <1>3, <2>1
<1> QED
  BY <1>1, <1>6, <1>7, <1>8 DEF n, Whole

LEMMA AddsAppend ==
    ASSUME NEW l \in Nat, NEW q \in Seq(Packets), NEW a, Adds(a, q, l),
           NEW e \in Packets, NEW d \in Nat, d = Whole(a, q) + (l - e.samples)
    PROVE  /\ Adds(Append(a, d), Append(q, e), l)
           /\ Append(a, d)[1] = a[1]
           /\ Whole(Append(a, d), Append(q, e)) = d
<1>1. /\ Append(q, e) \in Seq(Packets) /\ Len(Append(q, e)) = Len(q) + 1 /\ Len(q) \in Nat
      /\ Append(q, e)[Len(q) + 1] = e /\ \A k \in 1 .. Len(q) : Append(q, e)[k] = q[k]
  BY AppendFacts
<1>2. a \in Seq(Nat) /\ Len(a) = Len(q) + 1
  BY DEF Adds
<1>3. /\ Append(a, d) \in Seq(Nat) /\ Len(Append(a, d)) = Len(a) + 1
      /\ Append(a, d)[Len(a) + 1] = d /\ \A k \in 1 .. Len(a) : Append(a, d)[k] = a[k]
  BY <1>2, AppendFacts
<1> DEFINE n == Len(q)
           b == Append(a, d)
           r == Append(q, e)
<1>4. /\ n \in Nat /\ Len(a) = n + 1 /\ Len(b) = n + 1 + 1 /\ Len(r) = n + 1
      /\ b[n + 1 + 1] = d /\ \A k \in 1 .. n + 1 : b[k] = a[k]
      /\ r[n + 1] = e /\ \A k \in 1 .. n : r[k] = q[k]
      /\ d = a[n + 1] + (l - e.samples)
      /\ \A k \in 1 .. n : a[k + 1] = a[k] + (l - q[k].samples)
  BY <1>1, <1>2, <1>3 DEF Adds, Whole
<1>5. b \in Seq(Nat)
  BY <1>3
<1> HIDE DEF n, b, r
<1>6. ASSUME NEW k \in 1 .. n + 1 PROVE b[k + 1] = b[k] + (l - r[k].samples)
  <2>1. CASE k = n + 1
    BY <1>4, <2>1
  <2>2. CASE k # n + 1
    <3>1. k \in 1 .. n /\ k + 1 \in 1 .. n + 1
      BY <1>4, <2>2
    <3> QED
      BY <1>4, <3>1
  <2> QED
    BY <2>1, <2>2
<1>7. Adds(b, r, l)
  BY <1>4, <1>5, <1>6 DEF Adds
<1>8. b[1] = a[1] /\ b[Len(r) + 1] = d
  BY <1>4
<1> QED
  BY <1>7, <1>8 DEF b, r, Whole

(* Packets are never over, so the sums only grow.                          *)
LEMMA AddsUp ==
    ASSUME NEW l \in Nat, NEW q \in Seq(PacketUpTo(l)), NEW a, Adds(a, q, l)
    PROVE  a[1] <= Whole(a, q)
<1> DEFINE n == Len(q)
           T == {k \in Nat : k \in 1 .. n + 1 /\ ~(a[1] <= a[k])}
<1>1. n \in Nat /\ \A k \in 1 .. n : q[k] \in PacketUpTo(l)
  OBVIOUS
<1>2. \A k \in 1 .. n + 1 : a[k] \in Nat
  BY <1>1 DEF Adds
<1>3. ASSUME NEW m \in T, \A k \in T : m <= k PROVE FALSE
  <2>1. m # 1
    BY <1>1, <1>2
  <2>2. m - 1 \in 1 .. n /\ m - 1 \in Nat /\ (m - 1) + 1 = m
    BY <1>1, <2>1
  <2>3. a[m] = a[m - 1] + (l - q[m - 1].samples)
    BY <2>2 DEF Adds
  <2>4. l - q[m - 1].samples \in Nat
    BY <1>1, <2>2 DEF PacketUpTo
  <2>5. a[1] <= a[m - 1]
    <3>1. m - 1 \in 1 .. n + 1 /\ ~(m <= m - 1)
      BY <1>1, <2>2
    <3> QED
      BY <1>3, <2>2, <3>1
  <2>6. a[1] \in Nat /\ a[m - 1] \in Nat
    BY <1>1, <1>2, <2>2
  <2> QED
    BY <2>3, <2>4, <2>5, <2>6
<1>4. T = {}
  <2>1. T \in SUBSET Nat
    OBVIOUS
  <2> HIDE DEF T
  <2> QED
    BY <1>3, <2>1, LeastNatural
<1> QED
  BY <1>1, <1>4 DEF Whole

(* The samples that are missing so far, link by link: what passes a stage  *)
(* is what it was given, and the cost of its misses.                       *)
Short(p) == IF apc[p] = "write" THEN p + 1 - v[p].samples ELSE 0

Debts(a) ==
    /\ \A l \in 0 .. N : Adds(a[l], o[l], l)
    /\ Whole(a[0], o[0]) = 0
    /\ \A p \in Stage : Whole(a[p + 1], o[p + 1]) + Short(p) = a[p][1] + (p + 1) * misses[p]
    /\ a[N][1] = N * i - counter.samples

Accounted == \E a : Debts(a)

LEMMA InitAccounted == Init => Accounted
<1> SUFFICES ASSUME Init PROVE Accounted
  OBVIOUS
<1> DEFINE a == [l \in 0 .. N |-> <<0>>]
<1>1. ASSUME NEW l \in 0 .. N
      PROVE  o[l] = <<>> /\ Adds(a[l], o[l], l) /\ Whole(a[l], o[l]) = 0 /\ a[l][1] = 0
  BY AddsNone DEF Init
<1>2. ASSUME NEW p \in Stage PROVE Short(p) = 0 /\ (p + 1) * misses[p] = 0
  BY StageFacts DEF Short, Init
<1>3. N * i - counter.samples = 0
  BY SizeAssumption DEF Init, Packet
<1>4. Debts(a)
  BY <1>1, <1>2, <1>3, StageFacts, EndFacts DEF Debts
<1> QED
  BY <1>4 DEF Accounted

LEMMA StepAccounted ==
    ASSUME CountType, PacketBounds, SumBounds, Accounted, [Next]_vars
    PROVE  Accounted'
<1> USE DEF CanRead, CanWrite, memory, stages, instances
<1>1. PICK a : Debts(a)
  BY DEF Accounted
<1>2. ASSUME NEW b,
             \A l \in 0 .. N : Adds(b[l], o'[l], l),
             Whole(b[0], o'[0]) = 0,
             \A p \in Stage :
                 Whole(b[p + 1], o'[p + 1]) + Short(p)' = b[p][1] + (p + 1) * misses'[p],
             b[N][1] = N * i' - counter'.samples
      PROVE  Accounted'
  <2>1. Debts(b)'
    BY <1>2 DEF Debts
  <2> QED
    BY <2>1 DEF Accounted
<1>3. o \in [0 .. N -> Seq(Packets)] /\ v \in [Stage -> Packets]
  BY DEF CountType, PacketTypes
<1>4. ASSUME NEW l \in 0 .. N
      PROVE  /\ l \in Nat /\ Adds(a[l], o[l], l) /\ o[l] \in Seq(Packets)
             /\ a[l][1] \in Nat /\ Whole(a[l], o[l]) \in Nat
  <2>1. l \in Nat
    BY SizeAssumption
  <2> QED
    BY <1>1, <1>3, <2>1, AddsFacts DEF Debts
<1>5. ASSUME NEW p \in Stage
      PROVE  /\ Short(p) \in Nat /\ (p + 1) * misses[p] \in Nat
             /\ Whole(a[p + 1], o[p + 1]) + Short(p) = a[p][1] + (p + 1) * misses[p]
  <2>1. v[p] \in PacketUpTo(p + 1) /\ p \in Nat /\ misses[p] \in Nat
    BY StageFacts, CountFacts DEF PacketBounds
  <2>2. Short(p) \in Nat
    BY <2>1 DEF Short, PacketUpTo
  <2>3. (p + 1) * misses[p] \in Nat
    BY <2>1
  <2> QED
    BY <1>1, <2>2, <2>3 DEF Debts
<1>6. ASSUME UNCHANGED <<o, i, counter, misses>>, \A p \in Stage : Short(p)' = Short(p)
      PROVE  Accounted'
  BY <1>1, <1>2, <1>6 DEF Debts
<1>7. ASSUME UNCHANGED <<o, apc, v, misses, i, counter>> PROVE Accounted'
  BY <1>6, <1>7 DEF Short
<1>8. ASSUME NEW p \in Stage, Instance(p) PROVE Accounted'
  BY <1>7, <1>8 DEF Instance, ReadRoot, ForwardRoot, EmitNumber
<1>9. ASSUME RootIn \/ SinkRoot \/ Launch \/ Return \/ UNCHANGED vars PROVE Accounted'
  BY <1>7, <1>9 DEF RootIn, SinkRoot, Launch, Return, vars
<1>10. ASSUME NEW p \in Stage, ReadNumber(p) PROVE Accounted'
  <2>1. /\ UNCHANGED <<o, i, counter, misses, v>> /\ apc[p] = "read"
        /\ apc' = [apc EXCEPT ![p] = IF Len(random[p]) + 1 = 2 THEN "poll" ELSE "read"]
    BY <1>10, ReadNumberFacts DEF ReadNumber
  <2>2. \A q \in Stage : Short(q)' = Short(q)
    BY <2>1 DEF Short, CountType, SampleTypes
  <2> QED
    BY <1>6, <2>1, <2>2
<1>11. CASE StartPacket
  <2>1. /\ o' = [o EXCEPT ![0] = Append(o[0], Packet(0, 0))]
        /\ UNCHANGED <<apc, v, misses, i, counter>>
    BY <1>11 DEF StartPacket
  <2>2. PICK b : b = [l \in 0 .. N |-> IF l = 0 THEN Append(a[0], 0) ELSE a[l]]
    OBVIOUS
  <2>3. Packet(0, 0) \in Packets /\ Packet(0, 0).samples = 0
    BY DEF Packet, Packets
  <2>4. Whole(a[0], o[0]) = 0 /\ 0 = Whole(a[0], o[0]) + (0 - Packet(0, 0).samples)
    BY <1>1, <2>3 DEF Debts
  <2>5. /\ Adds(Append(a[0], 0), o'[0], 0)
        /\ Append(a[0], 0)[1] = a[0][1] /\ Whole(Append(a[0], 0), o'[0]) = 0
    <3>1. o'[0] = Append(o[0], Packet(0, 0))
      BY <1>3, <2>1, EndFacts
    <3> DEFINE q == o[0]
               c == a[0]
               e == Packet(0, 0)
    <3>2. q \in Seq(Packets) /\ Adds(c, q, 0) /\ e \in Packets
          /\ 0 = Whole(c, q) + (0 - e.samples)
      BY <1>4, <2>3, <2>4, EndFacts
    <3> HIDE DEF q, c, e
    <3>3. /\ Adds(Append(c, 0), Append(q, e), 0)
          /\ Append(c, 0)[1] = c[1] /\ Whole(Append(c, 0), Append(q, e)) = 0
      BY <3>2, AddsAppend
    <3> QED
      BY <3>1, <3>3 DEF q, c, e
  <2>6. \A l \in 0 .. N : l # 0 => o'[l] = o[l] /\ b[l] = a[l]
    BY <1>3, <2>1, <2>2
  <2>7. b[0] = Append(a[0], 0)
    BY <2>2, EndFacts
  <2>8. \A l \in 0 .. N : Adds(b[l], o'[l], l) /\ b[l][1] = a[l][1]
    BY <1>4, <2>5, <2>6, <2>7
  <2>9. ASSUME NEW p \in Stage
        PROVE  Whole(b[p + 1], o'[p + 1]) + Short(p)' = b[p][1] + (p + 1) * misses'[p]
    <3>1. p \in 0 .. N /\ p + 1 \in 0 .. N /\ p + 1 # 0
      BY StageFacts, SizeAssumption DEF Stage
    <3>2. Short(p)' = Short(p) /\ misses'[p] = misses[p]
      BY <2>1 DEF Short
    <3> QED
      BY <1>5, <2>6, <2>8, <3>1, <3>2
  <2>10. b[N][1] = N * i' - counter'.samples
    BY <1>1, <2>1, <2>8, EndFacts DEF Debts
  <2> QED
    BY <1>2, <2>5, <2>7, <2>8, <2>9, <2>10
<1>12. CASE Sum
  <2>1. /\ o[N] # <<>> /\ o' = [o EXCEPT ![N] = Tail(o[N])] /\ i' = i + 1
        /\ counter' = [data |-> counter.data + Head(o[N]).data,
                       samples |-> counter.samples + Head(o[N]).samples]
        /\ UNCHANGED <<apc, v, misses>>
    BY <1>12 DEF Sum
  <2>2. PICK b : b = [l \in 0 .. N |-> IF l = N THEN Tail(a[N]) ELSE a[l]]
    OBVIOUS
  <2>3. o'[N] = Tail(o[N]) /\ b[N] = Tail(a[N])
    BY <1>3, <2>1, <2>2, EndFacts
  <2>4. /\ Adds(b[N], o'[N], N)
        /\ b[N][1] = a[N][1] + (N - Head(o[N]).samples)
        /\ Whole(b[N], o'[N]) = Whole(a[N], o[N])
    <3> DEFINE q == o[N]
               c == a[N]
    <3>1. N \in Nat /\ q \in Seq(Packets) /\ Adds(c, q, N) /\ q # <<>>
      BY <1>4, <2>1, EndFacts
    <3> HIDE DEF q, c
    <3>2. /\ Adds(Tail(c), Tail(q), N)
          /\ Tail(c)[1] = c[1] + (N - Head(q).samples)
          /\ Whole(Tail(c), Tail(q)) = Whole(c, q)
      BY <3>1, AddsTail
    <3> QED
      BY <2>3, <3>2 DEF q, c
  <2>5. \A l \in 0 .. N : l # N => o'[l] = o[l] /\ b[l] = a[l]
    BY <1>3, <2>1, <2>2
  <2>6. \A l \in 0 .. N : Adds(b[l], o'[l], l) /\ Whole(b[l], o'[l]) = Whole(a[l], o[l])
    BY <1>4, <2>4, <2>5
  <2>7. ASSUME NEW p \in Stage
        PROVE  Whole(b[p + 1], o'[p + 1]) + Short(p)' = b[p][1] + (p + 1) * misses'[p]
    <3>1. p \in 0 .. N /\ p + 1 \in 0 .. N /\ p # N
      BY StageFacts, SizeAssumption DEF Stage
    <3>2. Short(p)' = Short(p) /\ misses'[p] = misses[p]
      BY <2>1 DEF Short
    <3> QED
      BY <1>5, <2>5, <2>6, <3>1, <3>2
  <2>8. b[N][1] = N * i' - counter'.samples
    <3>1. Head(o[N]) \in Packets
      BY <1>3, <2>1, EndFacts, TailFacts
    <3> DEFINE h == Head(o[N]).samples
               c == counter.samples
    <3>2. h \in Nat /\ c \in Nat /\ i \in Nat /\ N \in Nat
      BY <3>1, SizeAssumption DEF Packets, SumBounds, PacketUpTo
    <3>3. a[N][1] = N * i - c /\ counter'.samples = c + h
      BY <1>1, <2>1 DEF Debts
    <3> DEFINE m == N * i
    <3>4. m \in Nat /\ N * (i + 1) = m + N
      BY <3>2
    <3>5. b[N][1] = (m - c) + (N - h)
      BY <2>4, <3>3
    <3> HIDE DEF h, c, m
    <3>6. (m - c) + (N - h) = (m + N) - (c + h)
      BY <3>2, <3>4
    <3> QED
      BY <2>1, <3>3, <3>4, <3>5, <3>6
  <2>9. Whole(b[0], o'[0]) = 0
    BY <1>1, <2>6, EndFacts DEF Debts
  <2> QED
    BY <1>2, <2>6, <2>7, <2>8, <2>9
<1>13. ASSUME NEW p \in Stage, PollHit(p) PROVE Accounted'
  <2>0. p \in 0 .. N /\ p + 1 \in 0 .. N /\ p # N /\ p + 1 # p /\ p \in Nat
    BY StageFacts, SizeAssumption DEF Stage
  <2>1. /\ o[p] # <<>> /\ o' = [o EXCEPT ![p] = Tail(o[p])]
        /\ apc[p] = "poll" /\ apc' = [apc EXCEPT ![p] = "write"]
        /\ v' = [v EXCEPT ![p] = Packet(Head(o[p]).data + One(Hit(p, random[p][2])),
                                        Head(o[p]).samples + 1)]
        /\ UNCHANGED <<misses, i, counter>>
    BY <1>13 DEF PollHit
  <2>2. PICK b : b = [l \in 0 .. N |-> IF l = p THEN Tail(a[p]) ELSE a[l]]
    OBVIOUS
  <2>3. o'[p] = Tail(o[p]) /\ b[p] = Tail(a[p])
    BY <1>3, <2>0, <2>1, <2>2
  <2>4. /\ Adds(b[p], o'[p], p)
        /\ b[p][1] = a[p][1] + (p - Head(o[p]).samples)
        /\ Whole(b[p], o'[p]) = Whole(a[p], o[p])
    <3> DEFINE q == o[p]
               c == a[p]
    <3>1. p \in Nat /\ q \in Seq(Packets) /\ Adds(c, q, p) /\ q # <<>>
      BY <1>4, <2>1, <2>0
    <3> HIDE DEF q, c
    <3>2. /\ Adds(Tail(c), Tail(q), p)
          /\ Tail(c)[1] = c[1] + (p - Head(q).samples)
          /\ Whole(Tail(c), Tail(q)) = Whole(c, q)
      BY <3>1, AddsTail
    <3> QED
      BY <2>3, <3>2 DEF q, c
  <2>5. \A l \in 0 .. N : l # p => o'[l] = o[l] /\ b[l] = a[l]
    BY <1>3, <2>1, <2>2
  <2>6. \A l \in 0 .. N : Adds(b[l], o'[l], l) /\ Whole(b[l], o'[l]) = Whole(a[l], o[l])
    BY <1>4, <2>4, <2>5
  <2>7. ASSUME NEW q \in Stage
        PROVE  Whole(b[q + 1], o'[q + 1]) + Short(q)' = b[q][1] + (q + 1) * misses'[q]
    <3>1. q \in 0 .. N /\ q + 1 \in 0 .. N
      BY StageFacts
    <3>2. CASE q = p
      <4>1. Short(p) = 0
        BY <2>1 DEF Short
      <4>2. Short(p)' = p + 1 - (Head(o[p]).samples + 1)
        BY <1>3, <2>1 DEF Short, CountType, SampleTypes, Packet
      <4>3. Head(o[p]).samples \in Nat
        <5>1. Head(o[p]) \in Packets
          BY <1>3, <2>0, <2>1, TailFacts
        <5> QED
          BY <5>1 DEF Packets
      <4> DEFINE h == Head(o[p]).samples
                 x == Whole(a[p + 1], o[p + 1])
                 y == a[p][1]
                 z == (p + 1) * misses[p]
      <4>4. h \in Nat /\ x \in Nat /\ y \in Nat /\ z \in Nat /\ x + 0 = y + z
        BY <1>4, <1>5, <2>0, <4>1, <4>3
      <4> HIDE DEF h, x, y, z
      <4>5. x + (p + 1 - (h + 1)) = y + (p - h) + z
        BY <2>0, <4>4
      <4>6. Whole(b[p + 1], o'[p + 1]) = x /\ b[p][1] = y + (p - h) /\ misses' = misses
        BY <2>0, <2>1, <2>4, <2>6 DEF h, x, y
      <4> QED
        BY <3>2, <4>2, <4>5, <4>6 DEF h, z
    <3>3. CASE q # p
      <4>1. Short(q)' = Short(q) /\ misses'[q] = misses[q]
        BY <2>1, <3>3 DEF Short, CountType, SampleTypes
      <4> QED
        BY <1>5, <2>5, <2>6, <3>1, <3>3, <4>1
    <3> QED
      BY <3>2, <3>3
  <2>8. b[N][1] = N * i' - counter'.samples
    BY <1>1, <2>0, <2>1, <2>5, EndFacts DEF Debts
  <2>9. Whole(b[0], o'[0]) = 0
    BY <1>1, <2>6, EndFacts DEF Debts
  <2> QED
    BY <1>2, <2>6, <2>7, <2>8, <2>9
<1>14. ASSUME NEW p \in Stage, PollMiss(p) PROVE Accounted'
  <2>0. p \in Nat /\ p \in 0 .. N /\ p + 1 \in 0 .. N
    BY StageFacts
  <2>1. /\ apc[p] = "poll" /\ apc' = [apc EXCEPT ![p] = "write"]
        /\ v' = [v EXCEPT ![p] = Packet(0, 0)]
        /\ misses' = [misses EXCEPT ![p] = misses[p] + 1]
        /\ UNCHANGED <<o, i, counter>>
    BY <1>14 DEF PollMiss
  <2>2. ASSUME NEW q \in Stage
        PROVE  Whole(a[q + 1], o'[q + 1]) + Short(q)' = a[q][1] + (q + 1) * misses'[q]
    <3>1. CASE q = p
      <4>1. Short(p) = 0 /\ Short(p)' = p + 1 - 0 /\ misses'[p] = misses[p] + 1
        BY <1>3, <2>1 DEF Short, CountType, SampleTypes, HistoryTypes, Packet
      <4>2. misses[p] \in Nat
        BY CountFacts
      <4>3. (p + 1) * (misses[p] + 1) = (p + 1) * misses[p] + (p + 1)
        BY <2>0, <4>2
      <4> DEFINE x == Whole(a[p + 1], o[p + 1])
                 y == a[p][1]
                 z == (p + 1) * misses[p]
      <4>4. x \in Nat /\ y \in Nat /\ z \in Nat /\ x + 0 = y + z
        BY <1>4, <1>5, <2>0, <4>1
      <4> HIDE DEF x, y, z
      <4>5. x + (p + 1 - 0) = y + (z + (p + 1))
        BY <2>0, <4>4
      <4> QED
        BY <2>1, <3>1, <4>1, <4>3, <4>5 DEF x, y, z
    <3>2. CASE q # p
      <4>1. Short(q)' = Short(q) /\ misses'[q] = misses[q]
        BY <2>1, <3>2 DEF Short, CountType, SampleTypes
      <4> QED
        BY <1>5, <2>1, <4>1
    <3> QED
      BY <3>1, <3>2
  <2> QED
    BY <1>1, <1>2, <2>1, <2>2 DEF Debts
<1>15. ASSUME NEW p \in Stage, WritePacket(p) PROVE Accounted'
  <2>0. p \in 0 .. N /\ p + 1 \in 0 .. N /\ p + 1 # 0 /\ p + 1 # p /\ p \in Nat
    BY StageFacts, SizeAssumption DEF Stage
  <2>1. /\ o' = [o EXCEPT ![p + 1] = Append(o[p + 1], v[p])]
        /\ apc[p] = "write" /\ apc' = [apc EXCEPT ![p] = "read"]
        /\ UNCHANGED <<v, misses, i, counter>>
    BY <1>15 DEF WritePacket
  <2>2. PICK d : d = Whole(a[p + 1], o[p + 1]) + Short(p)
    OBVIOUS
  <2>3. PICK b : b = [l \in 0 .. N |-> IF l = p + 1 THEN Append(a[p + 1], d) ELSE a[l]]
    OBVIOUS
  <2>4. o'[p + 1] = Append(o[p + 1], v[p]) /\ b[p + 1] = Append(a[p + 1], d)
    BY <1>3, <2>0, <2>1, <2>3
  <2>5. d \in Nat /\ d = Whole(a[p + 1], o[p + 1]) + (p + 1 - v[p].samples)
    BY <1>4, <1>5, <2>0, <2>1, <2>2 DEF Short
  <2>6. /\ Adds(b[p + 1], o'[p + 1], p + 1)
        /\ b[p + 1][1] = a[p + 1][1] /\ Whole(b[p + 1], o'[p + 1]) = d
    <3> DEFINE q == o[p + 1]
               c == a[p + 1]
               e == v[p]
               l == p + 1
    <3>0. l \in Nat /\ q \in Seq(Packets) /\ Adds(c, q, l)
      BY <1>4, <2>0
    <3>1. e \in Packets
      BY <1>3
    <3>3. d \in Nat /\ d = Whole(c, q) + (l - e.samples)
      <4> DEFINE n == e.samples
                 w == Whole(c, q)
      <4>1. n \in Nat /\ w \in Nat /\ l = p + 1
        BY <1>4, <2>0, <3>1 DEF Packets
      <4>2. d \in Nat /\ d = w + (p + 1 - n)
        BY <2>5
      <4> HIDE DEF n, w, l
      <4>3. d = w + (l - n)
        BY <2>0, <4>1, <4>2
      <4> QED
        BY <4>2, <4>3 DEF n, w
    <3> HIDE DEF q, c, e, l
    <3>2. /\ Adds(Append(c, d), Append(q, e), l)
          /\ Append(c, d)[1] = c[1] /\ Whole(Append(c, d), Append(q, e)) = d
      BY <3>0, <3>1, <3>3, AddsAppend
    <3> QED
      BY <2>4, <3>2 DEF q, c, e, l
  <2>7. \A l \in 0 .. N : l # p + 1 => o'[l] = o[l] /\ b[l] = a[l]
    BY <1>3, <2>1, <2>3
  <2>8. \A l \in 0 .. N : Adds(b[l], o'[l], l) /\ b[l][1] = a[l][1]
    BY <1>4, <2>6, <2>7
  <2>9. ASSUME NEW q \in Stage
        PROVE  Whole(b[q + 1], o'[q + 1]) + Short(q)' = b[q][1] + (q + 1) * misses'[q]
    <3>1. q \in 0 .. N /\ q + 1 \in 0 .. N
      BY StageFacts
    <3>2. CASE q = p
      <4>1. Short(p)' = 0
        BY <2>1 DEF Short, CountType, SampleTypes
      <4>2. d = a[p][1] + (p + 1) * misses[p] /\ d + 0 = d
        BY <1>5, <2>2, <2>5
      <4> QED
        BY <2>0, <2>1, <2>6, <2>8, <3>2, <4>1, <4>2
    <3>3. CASE q # p
      <4>1. Short(q)' = Short(q) /\ misses'[q] = misses[q] /\ q + 1 # p + 1
        BY <2>0, <2>1, <3>1, <3>3, StageFacts DEF Short, CountType, SampleTypes
      <4> QED
        BY <1>5, <2>7, <2>8, <3>1, <4>1
    <3> QED
      BY <3>2, <3>3
  <2>10. b[N][1] = N * i' - counter'.samples
    BY <1>1, <2>1, <2>8, EndFacts DEF Debts
  <2>11. Whole(b[0], o'[0]) = 0
    BY <1>1, <2>0, <2>7, EndFacts DEF Debts
  <2> QED
    BY <1>2, <2>8, <2>9, <2>10, <2>11
<1> QED
  BY <1>8, <1>9, <1>10, <1>11, <1>12, <1>13, <1>14, <1>15 DEF Next, Application

(* Cost is a sum over the stages, so each stage adds its own.              *)
LEMMA CostIs ==
    ASSUME CountType
    PROVE  \E g : /\ Cost = g[Stage] /\ g[{}] = 0
                  /\ \A m \in Stage : /\ g[0 .. m - 1] \in Nat
                                      /\ g[0 .. m] = (m + 1) * misses[m] + g[0 .. m - 1]
<1> DEFINE F == [p \in Stage |-> (p + 1) * misses[p]]
<1>1. F \in [Stage -> Nat]
  <2>1. ASSUME NEW p \in Stage PROVE (p + 1) * misses[p] \in Nat
    <3>1. p \in Nat /\ misses[p] \in Nat
      BY StageFacts, CountFacts
    <3> QED
      BY <3>1
  <2> QED
    BY <2>1
<1>2. IsFiniteSet(Stage)
  BY SizeAssumption, FS_Interval DEF Stage
<1>3. ASSUME NEW g
      PROVE  Sums(g, F, Stage) <=>
                 g = [u \in SUBSET Stage |->
                        IF u = {} THEN 0
                        ELSE LET x == CHOOSE x \in u : TRUE
                             IN  (x + 1) * misses[x] + g[u \ {x}]]
  BY DEF Sums
<1> DEFINE g == CHOOSE g : g = [u \in SUBSET Stage |->
                        IF u = {} THEN 0
                        ELSE LET x == CHOOSE x \in u : TRUE
                             IN  (x + 1) * misses[x] + g[u \ {x}]]
<1>4. Cost = g[Stage]
  BY DEF Cost, MapThenSumSet, MapThenFoldSet
<1>5. Sums(g, F, Stage)
  <2>1. \E h : Sums(h, F, Stage)
    <3> HIDE DEF F
    <3> QED
      BY <1>2, SumsExist
  <2>2. \E h : h = [u \in SUBSET Stage |->
                        IF u = {} THEN 0
                        ELSE LET x == CHOOSE x \in u : TRUE
                             IN  (x + 1) * misses[x] + h[u \ {x}]]
    <3> HIDE DEF F
    <3>1. PICK h : Sums(h, F, Stage)
      BY <2>1
    <3>2. h = [u \in SUBSET Stage |->
                 IF u = {} THEN 0
                 ELSE LET x == CHOOSE x \in u : TRUE
                      IN  (x + 1) * misses[x] + h[u \ {x}]]
      BY <1>3, <3>1
    <3> QED
      BY <3>2
  <2>3. g = [u \in SUBSET Stage |->
                IF u = {} THEN 0
                ELSE LET x == CHOOSE x \in u : TRUE
                     IN  (x + 1) * misses[x] + g[u \ {x}]]
    BY <2>2
  <2> HIDE DEF g, F
  <2> QED
    BY <1>3, <2>3
<1> HIDE DEF g
<1>6. /\ g[{}] = 0
      /\ \A u \in SUBSET Stage : g[u] \in Nat
      /\ \A u \in SUBSET Stage : \A p \in u : g[u] = F[p] + g[u \ {p}]
  <2> HIDE DEF F
  <2> QED
    BY <1>1, <1>2, <1>5, SumsAny
<1>7. ASSUME NEW m \in Stage
      PROVE  g[0 .. m - 1] \in Nat /\ g[0 .. m] = (m + 1) * misses[m] + g[0 .. m - 1]
  <2>1. 0 .. m \in SUBSET Stage /\ 0 .. m - 1 \in SUBSET Stage /\ m \in 0 .. m
        /\ (0 .. m) \ {m} = 0 .. m - 1
    BY SizeAssumption DEF Stage
  <2>2. F[m] = (m + 1) * misses[m]
    OBVIOUS
  <2> HIDE DEF F
  <2>3. g[0 .. m - 1] \in Nat /\ g[0 .. m] = F[m] + g[(0 .. m) \ {m}]
    BY <1>6, <2>1
  <2> QED
    BY <2>1, <2>2, <2>3
<1> QED
  BY <1>4, <1>6, <1>7

(* The result is put together from its words without loss, and what it is  *)
(* short of, the cost of the misses covers.                                *)
LEMMA ShortOfCost ==
    ASSUME CountType, PacketBounds, SumBounds, Accounted
    PROVE  N * i - counter.samples <= Cost
<1>1. PICK a : Debts(a)
  BY DEF Accounted
<1>2. PICK g : /\ Cost = g[Stage] /\ g[{}] = 0
               /\ \A m \in Stage : /\ g[0 .. m - 1] \in Nat
                                   /\ g[0 .. m] = (m + 1) * misses[m] + g[0 .. m - 1]
  BY CostIs
<1> DEFINE T == {l \in 0 .. N : ~(a[l][1] <= g[0 .. l - 1])}
<1>3. ASSUME NEW l \in 0 .. N
      PROVE  /\ l \in Nat /\ a[l][1] \in Nat /\ Whole(a[l], o[l]) \in Nat
             /\ a[l][1] <= Whole(a[l], o[l])
  <2>1. l \in Nat
    BY SizeAssumption
  <2>2. Adds(a[l], o[l], l) /\ o[l] \in Seq(Packets) /\ o[l] \in Seq(PacketUpTo(l))
    BY <1>1 DEF Debts, CountType, PacketTypes, PacketBounds
  <2> QED
    BY <2>1, <2>2, AddsFacts, AddsUp
<1>4. ASSUME NEW l \in T, \A k \in T : l <= k PROVE FALSE
  <2>1. l # 0
    <3>1. a[0][1] <= 0
      <4>1. Whole(a[0], o[0]) = 0
        BY <1>1 DEF Debts
      <4> QED
        BY <1>3, <4>1, EndFacts
    <3>2. 0 .. 0 - 1 = {}
      OBVIOUS
    <3> QED
      BY <1>2, <3>1, <3>2
  <2>2. PICK p \in Stage : p = l - 1
    BY <2>1, SizeAssumption DEF Stage
  <2>3. p \in 0 .. N /\ p + 1 \in 0 .. N /\ p \in Nat /\ l = p + 1 /\ ~(l <= p)
    BY <2>2, StageFacts, SizeAssumption
  <2>4. a[p][1] <= g[0 .. p - 1]
    BY <1>4, <2>3
  <2>5. Whole(a[p + 1], o[p + 1]) + Short(p) = a[p][1] + (p + 1) * misses[p]
    BY <1>1 DEF Debts
  <2>6. Short(p) \in Nat
    <3>1. v[p] \in PacketUpTo(p + 1)
      BY DEF PacketBounds
    <3> QED
      BY <2>3, <3>1 DEF Short, PacketUpTo
  <2>7. (p + 1) * misses[p] \in Nat
    BY <2>3, CountFacts
  <2> DEFINE x == a[p + 1][1]
             w == Whole(a[p + 1], o[p + 1])
             y == a[p][1]
             z == (p + 1) * misses[p]
             c == g[0 .. p - 1]
  <2>8. /\ x \in Nat /\ w \in Nat /\ y \in Nat /\ z \in Nat /\ c \in Nat
        /\ x <= w /\ w + Short(p) = y + z /\ y <= c
    BY <1>2, <1>3, <2>3, <2>4, <2>5, <2>7
  <2>9. g[0 .. p] = z + c
    BY <1>2
  <2> HIDE DEF x, w, y, z, c
  <2>10. x <= g[0 .. p]
    BY <2>6, <2>8, <2>9
  <2>11. a[l][1] <= g[0 .. l - 1]
    <3>1. 0 .. l - 1 = 0 .. p /\ a[l][1] = x
      BY <2>2, <2>3 DEF x
    <3> QED
      BY <2>10, <3>1
  <2> QED
    BY <2>11
<1>5. T = {}
  <2>1. T \in SUBSET Nat
    BY <1>3
  <2> HIDE DEF T
  <2> QED
    BY <1>4, <2>1, LeastNatural
<1>6. a[N][1] <= g[0 .. N - 1]
  BY <1>5, EndFacts
<1> QED
  BY <1>1, <1>2, <1>6 DEF Debts, Stage

LEMMA ResultIs ==
    ASSUME CountType, PacketBounds, SumBounds, Accounted
    PROVE  ResultNearlyComplete
<1> SUFFICES ASSUME wpc = "done"
             PROVE  /\ mem[2] < Word /\ mem[1] * Word + mem[2] = counter.data
                    /\ counter.samples <= N * Size
                    /\ counter.samples >= N * Size - Cost
  BY DEF ResultNearlyComplete
<1>1. /\ i = Size /\ mem = <<counter.data \div Word, counter.data % Word>>
      /\ counter \in PacketUpTo(N * Size)
  BY DEF SumBounds
<1>2. N * Size \in Nat /\ Word \in Nat \ {0}
  BY SizeAssumption
<1>3. counter.data \in Nat /\ counter.samples \in Nat /\ counter.samples <= N * Size
  BY <1>1, <1>2 DEF PacketUpTo
<1>4. mem[2] < Word /\ mem[1] * Word + mem[2] = counter.data
  <2> DEFINE d == counter.data
  <2>1. d \in Int
    BY <1>3
  <2> HIDE DEF d
  <2>2. d % Word \in 0 .. Word - 1 /\ d \div Word \in Int /\ d = Word * (d \div Word) + (d % Word)
    BY <1>2, <2>1, ModFacts
  <2>3. Word * (d \div Word) = (d \div Word) * Word
    BY <1>2, <2>2
  <2> QED
    BY <1>1, <1>2, <2>2, <2>3 DEF d
<1>5. N * Size - counter.samples <= Cost
  BY <1>1, ShortOfCost
<1>6. Cost \in Int
  <2>1. PICK g : /\ Cost = g[Stage]
                 /\ \A m \in Stage : /\ g[0 .. m - 1] \in Nat
                                     /\ g[0 .. m] = (m + 1) * misses[m] + g[0 .. m - 1]
    BY CostIs
  <2>2. N - 1 \in Stage /\ N \in Nat /\ 0 .. N - 1 = Stage
    BY SizeAssumption DEF Stage
  <2>3. ((N - 1) + 1) * misses[N - 1] \in Nat
    BY <2>2, CountFacts
  <2> QED
    BY <2>1, <2>2, <2>3
<1>7. counter.samples >= N * Size - Cost
  <2> DEFINE n == N * Size
             c == counter.samples
  <2>1. n \in Nat /\ c \in Nat /\ n - c <= Cost
    BY <1>2, <1>3, <1>5
  <2> HIDE DEF n, c
  <2>2. c >= n - Cost
    BY <1>6, <2>1
  <2> QED
    BY <2>2 DEF n, c
<1> QED
  BY <1>3, <1>4, <1>7

(* The result that the host gets is a sum of samples put together without  *)
(* loss from its two words, it has no sample too many, and it is short of  *)
(* what the misses cost at most, for every number of stages and packets,   *)
(* all capacities and any hits (mem_write; application, the poll of o_in). *)
(* In between, the samples that are missing are spread over the packets in *)
(* flight: Accounted adds them up link by link.                            *)
THEOREM ResultCorrect == Spec => []ResultNearlyComplete
<1> DEFINE Inv == CountInv /\ Bounds /\ Accounted
<1>1. Init => Inv
  BY InitTypes, InitBalance, InitBounds, InitAccounted DEF CountInv
<1>2. Inv /\ [Next]_vars => Inv'
  <2> SUFFICES ASSUME Inv, [Next]_vars PROVE Inv'
    OBVIOUS
  <2>1. CountInv'
    BY StepTypes, StepBalance, StepMisses DEF CountInv
  <2>2. Bounds'
    BY StepRootBounds, StepPacketBounds, StepSumBounds DEF Bounds, CountInv
  <2>3. Accounted'
    BY StepAccounted DEF Bounds, CountInv
  <2> QED
    BY <2>1, <2>2, <2>3
<1>3. Inv => ResultNearlyComplete
  BY ResultIs DEF CountInv, Bounds
<1> QED
  BY <1>1, <1>2, <1>3, PTL DEF Spec

=============================================================================
