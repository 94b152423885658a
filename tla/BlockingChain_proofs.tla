------------------------ MODULE BlockingChain_proofs ------------------------
(***************************************************************************)
(* For any number of instances, all capacities and every period, root      *)
(* states and packets, which travel on separate streams, meet in step at   *)
(* every instance of the blocking unit.  Its border streams are one FIFO   *)
(* each: the theorems of StreamAdapter at the end.                         *)
(***************************************************************************)
EXTENDS BlockingChain, StreamAdapter, StreamFacts

-----------------------------------------------------------------------------
(* Types.                                                                  *)
RootStreams ==
    /\ DOMAIN s = Link
    /\ \A l \in Link : s[l] \in Seq(Root) /\ Len(s[l]) <= Capacity(l)

PacketStreams ==
    /\ DOMAIN o = Link
    /\ \A l \in Link : o[l] \in Seq(SUBSET Term) /\ Len(o[l]) <= Capacity(l)

Registers ==
    /\ pc \in [Instance -> {"readRoot", "writeRoot", "readPacket", "writePacket"}]
    /\ DOMAIN s_pkt = Instance
    /\ \A p \in Instance : s_pkt[p] \in IF pc[p] = "readRoot" THEN {NoVal} ELSE Root
    /\ v \in [Instance -> SUBSET Term]
    /\ sg \in [Instance -> 0 .. Period - 1]
    /\ root \in Root

Shape == RootStreams /\ PacketStreams /\ Registers

LEMMA ShapeTypeOK == Shape => TypeOK
  BY DEF Shape, RootStreams, PacketStreams, Registers, TypeOK

LEMMA ChainFacts ==
    /\ NRNG \in Nat \ {0} /\ Period \in Nat \ {0}
    /\ 0 \in Link /\ 0 \in Instance /\ NRNG \in Link /\ NRNG # 0
    /\ \A p \in Instance : p \in Link /\ p + 1 \in Link /\ p + 1 # p /\ p + 1 # 0 /\ p # NRNG
    /\ \A p \in Instance : (p + 1) - 1 = p
    /\ \A p \in Instance \ {0} : p - 1 \in Instance /\ p - 1 # p /\ (p - 1) + 1 = p
    /\ \A p, u \in Instance : u - 1 = p <=> u = p + 1
    /\ \A p \in Instance, u \in Instance \ {0} : u # p + 1 => u - 1 # p
    /\ \A l \in Link : Capacity(l) \in Nat
  BY SizeAssumption DEF Link, Instance, Capacity

LEMMA PutFits ==
    ASSUME NEW S, NEW q \in Seq(S), NEW e \in S, NEW c \in Nat, CanWrite(q, c)
    PROVE  Append(q, e) \in Seq(S) /\ Len(Append(q, e)) <= c
<1>1. Append(q, e) \in Seq(S) /\ Len(Append(q, e)) = Len(q) + 1 /\ Len(q) \in Nat
  BY AppendFacts
<1>2. Len(q) < c
  BY DEF CanWrite
<1> QED
  BY <1>1, <1>2

LEMMA TakeFits ==
    ASSUME NEW S, NEW q \in Seq(S), NEW c \in Nat, CanRead(q), Len(q) <= c
    PROVE  Head(q) \in S /\ Tail(q) \in Seq(S) /\ Len(Tail(q)) <= c
<1>1. q # <<>>
  BY DEF CanRead
<1>2. /\ Head(q) \in S /\ Tail(q) \in Seq(S)
      /\ Len(q) \in Nat \ {0} /\ Len(Tail(q)) = Len(q) - 1
  BY <1>1, TailFacts
<1> QED
  BY <1>2

LEMMA PutRoot ==
    ASSUME RootStreams, NEW l \in Link, NEW e \in Root, CanWrite(s[l], Capacity(l)),
           s' = [s EXCEPT ![l] = Append(@, e)]
    PROVE  RootStreams' /\ \A m \in Link : s'[m] = IF m = l THEN Append(s[l], e) ELSE s[m]
<1>1. \A m \in Link : s'[m] = IF m = l THEN Append(s[l], e) ELSE s[m]
  BY DEF RootStreams
<1>2. Append(s[l], e) \in Seq(Root) /\ Len(Append(s[l], e)) <= Capacity(l)
  BY ChainFacts, PutFits DEF RootStreams
<1> QED
  BY <1>1, <1>2 DEF RootStreams, Capacity

LEMMA TakeRoot ==
    ASSUME RootStreams, NEW l \in Link, CanRead(s[l]), s' = [s EXCEPT ![l] = Tail(@)]
    PROVE  /\ RootStreams' /\ Head(s[l]) \in Root
           /\ \A m \in Link : s'[m] = IF m = l THEN Tail(s[l]) ELSE s[m]
<1>1. \A m \in Link : s'[m] = IF m = l THEN Tail(s[l]) ELSE s[m]
  BY DEF RootStreams
<1>2. Head(s[l]) \in Root /\ Tail(s[l]) \in Seq(Root) /\ Len(Tail(s[l])) <= Capacity(l)
  BY ChainFacts, TakeFits DEF RootStreams
<1> QED
  BY <1>1, <1>2 DEF RootStreams, Capacity

LEMMA PutPacket ==
    ASSUME PacketStreams, NEW l \in Link, NEW e \in SUBSET Term, CanWrite(o[l], Capacity(l)),
           o' = [o EXCEPT ![l] = Append(@, e)]
    PROVE  PacketStreams' /\ \A m \in Link : o'[m] = IF m = l THEN Append(o[l], e) ELSE o[m]
<1>1. \A m \in Link : o'[m] = IF m = l THEN Append(o[l], e) ELSE o[m]
  BY DEF PacketStreams
<1>2. Append(o[l], e) \in Seq(SUBSET Term) /\ Len(Append(o[l], e)) <= Capacity(l)
  BY ChainFacts, PutFits DEF PacketStreams
<1> QED
  BY <1>1, <1>2 DEF PacketStreams, Capacity

LEMMA TakePacket ==
    ASSUME PacketStreams, NEW l \in Link, CanRead(o[l]), o' = [o EXCEPT ![l] = Tail(@)]
    PROVE  /\ PacketStreams' /\ Head(o[l]) \in SUBSET Term
           /\ \A m \in Link : o'[m] = IF m = l THEN Tail(o[l]) ELSE o[m]
<1>1. \A m \in Link : o'[m] = IF m = l THEN Tail(o[l]) ELSE o[m]
  BY DEF PacketStreams
<1>2. /\ Head(o[l]) \in SUBSET Term /\ Tail(o[l]) \in Seq(SUBSET Term)
      /\ Len(Tail(o[l])) <= Capacity(l)
  BY ChainFacts, TakeFits DEF PacketStreams
<1> QED
  BY <1>1, <1>2 DEF PacketStreams, Capacity

LEMMA OutputTerm ==
    ASSUME NEW p \in Instance, NEW r \in Root, NEW n \in 0 .. Period - 1
    PROVE  Output(p, r, n) \subseteq Term
<1> DEFINE Outputs == {Output(u, x, m) : u \in Instance, x \in Root, m \in 0 .. Period - 1}
<1>1. Output(p, r, n) \in Outputs
  OBVIOUS
<1>2. Term = UNION Outputs
  BY DEF Term
<1> HIDE DEF Outputs
<1> QED
  BY <1>1, <1>2

-----------------------------------------------------------------------------
(* The inductive invariant.  Between an instance and the one before it:    *)
(* how many root states and packets there are, which root state the one    *)
(* before has yet to use, and what the packets were combined with.         *)
Combined(packet, r, n) ==
    \A t \in packet : IF t.src = "leaf" THEN t.at = r ELSE t.at = n

(* The instance has passed a root state on, but not yet the packet.        *)
Owing(u) == IF pc[u] \in {"readPacket", "writePacket"} THEN 1 ELSE 0
Jumped(u) == IF pc[u] = "writePacket" THEN 1 ELSE 0

Empty == \A j \in DOMAIN o[0] : o[0][j] = {}
InHand(u) == pc[u] = "writePacket" => Combined(v[u], s_pkt[u], sg[u])
Level(p) == Len(RootsAhead(p)) = Len(o[p]) + Owing(p - 1)
LastRoot(p) == Owing(p - 1) = 1 => RootsAhead(p)[Len(o[p]) + 1] = s_pkt[p - 1]
Ahead(p) == sg[p - 1] = (sg[p] + Len(o[p]) + Jumped(p - 1)) % Period
Aligned(p) == \A j \in 1 .. Len(o[p]) :
                  Combined(o[p][j], RootsAhead(p)[j], (sg[p] + j) % Period)

Meeting(p) == Level(p) /\ LastRoot(p) /\ Ahead(p) /\ Aligned(p)

IInv ==
    /\ Shape /\ Empty
    /\ \A u \in Instance : InHand(u)
    /\ \A p \in Instance \ {0} : Meeting(p)

LEMMA RootsFacts ==
    ASSUME Shape, NEW p \in Instance
    PROVE  /\ RootsAhead(p) \in Seq(Root) /\ Len(RootsAhead(p)) \in Nat
           /\ DOMAIN RootsAhead(p) = 1 .. Len(RootsAhead(p))
           /\ pc[p] \in {"readRoot", "writePacket"} => RootsAhead(p) = s[p]
           /\ pc[p] \in {"writeRoot", "readPacket"} => RootsAhead(p) = <<s_pkt[p]>> \o s[p]
<1>1. s[p] \in Seq(Root)
  BY ChainFacts DEF Shape, RootStreams
<1>2. <<>> \o s[p] = s[p] /\ <<>> \in Seq(Root)
  BY <1>1, ConcatEmptySeq
<1>3. pc[p] \in {"writeRoot", "readPacket"} => <<s_pkt[p]>> \in Seq(Root)
  BY DEF Shape, Registers
<1>4. pc[p] \in {"readRoot", "writePacket"} => RootsAhead(p) = s[p]
  BY <1>2 DEF RootsAhead
<1>5. pc[p] \in {"writeRoot", "readPacket"} => RootsAhead(p) = <<s_pkt[p]>> \o s[p]
  BY DEF RootsAhead
<1>6. pc[p] \in {"readRoot", "writePacket"} \/ pc[p] \in {"writeRoot", "readPacket"}
  BY DEF Shape, Registers
<1>7. RootsAhead(p) \in Seq(Root)
  BY <1>1, <1>3, <1>4, <1>5, <1>6, ConcatProperties
<1> QED
  BY <1>4, <1>5, <1>7, LenProperties

LEMMA PacketFacts ==
    ASSUME Shape, NEW p \in Instance
    PROVE  /\ o[p] \in Seq(SUBSET Term) /\ Len(o[p]) \in Nat /\ DOMAIN o[p] = 1 .. Len(o[p])
           /\ sg[p] \in Int /\ Owing(p) \in {0, 1} /\ Jumped(p) \in {0, 1}
<1>1. o[p] \in Seq(SUBSET Term)
  BY ChainFacts DEF Shape, PacketStreams
<1>2. sg[p] \in Int
  BY SizeAssumption DEF Shape, Registers
<1> QED
  BY <1>1, <1>2, LenProperties DEF Owing, Jumped

LEMMA LockStepHolds == IInv => LockStep
<1> SUFFICES ASSUME IInv, NEW p \in Instance \ {0}, NEW j \in DOMAIN o[p]
             PROVE  /\ j \in DOMAIN RootsAhead(p)
                    /\ \A t \in o[p][j] : IF t.src = "leaf" THEN t.at = RootsAhead(p)[j]
                                          ELSE t.at = (sg[p] + j) % Period
  BY DEF LockStep
<1>1. Shape /\ Meeting(p) /\ p - 1 \in Instance
  BY ChainFacts DEF IInv
<1>2. j \in 1 .. Len(o[p]) /\ Len(o[p]) \in Nat
  BY <1>1, PacketFacts
<1>3. Len(RootsAhead(p)) = Len(o[p]) + Owing(p - 1) /\ Owing(p - 1) \in {0, 1}
  BY <1>1, PacketFacts DEF Meeting, Level
<1>4. j \in DOMAIN RootsAhead(p)
  BY <1>1, <1>2, <1>3, RootsFacts
<1> QED
  BY <1>1, <1>2, <1>4 DEF Meeting, Aligned, Combined

LEMMA AppendBehind ==
    ASSUME NEW S, NEW a \in Seq(S), NEW b \in Seq(S), NEW e \in S
    PROVE  a \o Append(b, e) = Append(a \o b, e)
<1>1. /\ Append(b, e) = b \o <<e>> /\ <<e>> \in Seq(S)
      /\ a \o b \in Seq(S)
  BY AppendIsConcat, ConcatProperties
<1>2. Append(a \o b, e) = (a \o b) \o <<e>>
  BY <1>1, AppendIsConcat
<1> QED
  BY <1>1, <1>2, ConcatAssociative

(* What does not change for a pair of neighbours.                          *)
LEMMA MeetingSame ==
    ASSUME NEW p, Meeting(p), RootsAhead(p)' = RootsAhead(p), o'[p] = o[p],
           sg'[p] = sg[p], sg'[p - 1] = sg[p - 1], s_pkt'[p - 1] = s_pkt[p - 1],
           Owing(p - 1)' = Owing(p - 1), Jumped(p - 1)' = Jumped(p - 1)
    PROVE  Meeting(p)'
  BY DEF Meeting, Level, LastRoot, Ahead, Aligned, Combined

(* A step of one instance leaves all other instances alone, and all pairs  *)
(* of neighbours but the two it belongs to.                                *)
Only(p) ==
    /\ \A u \in Instance \ {p} : /\ pc'[u] = pc[u] /\ s_pkt'[u] = s_pkt[u]
                                 /\ sg'[u] = sg[u] /\ v'[u] = v[u]
    /\ \A l \in Link \ {p, p + 1} : s'[l] = s[l] /\ o'[l] = o[l]

LEMMA Elsewhere ==
    ASSUME IInv, NEW p \in Instance, Only(p)
    PROVE  /\ \A u \in Instance \ {p} : InHand(u)'
           /\ \A u \in Instance \ {0, p, p + 1} : Meeting(u)'
           /\ \A u \in Instance \ {p} : Owing(u)' = Owing(u) /\ Jumped(u)' = Jumped(u)
<1>1. ASSUME NEW u \in Instance \ {p} PROVE InHand(u)'
  BY DEF IInv, Only, InHand, Combined
<1>2. ASSUME NEW u \in Instance \ {p}
      PROVE  Owing(u)' = Owing(u) /\ Jumped(u)' = Jumped(u)
  BY DEF Only, Owing, Jumped
<1>3. ASSUME NEW u \in Instance \ {0, p, p + 1} PROVE Meeting(u)'
  <2>1. u \in Link \ {p, p + 1} /\ u - 1 \in Instance \ {p}
    BY ChainFacts
  <2>2. RootsAhead(u)' = RootsAhead(u) /\ o'[u] = o[u]
    BY <2>1 DEF Only, RootsAhead
  <2>3. sg'[u] = sg[u] /\ sg'[u - 1] = sg[u - 1] /\ s_pkt'[u - 1] = s_pkt[u - 1]
    BY <2>1 DEF Only
  <2> QED
    BY <1>2, <2>1, <2>2, <2>3, MeetingSame DEF IInv
<1> QED
  BY <1>1, <1>2, <1>3

(* Reading a root state: it stays among those ahead.                       *)
LEMMA ReadRootStep ==
    ASSUME IInv, NEW p \in Instance, ReadRoot(p)
    PROVE  IInv'
<1>1. Shape /\ Empty /\ RootStreams /\ PacketStreams /\ Registers
  BY DEF IInv, Shape
<1>2. /\ pc[p] = "readRoot" /\ CanRead(s[p])
      /\ s_pkt' = [s_pkt EXCEPT ![p] = Head(s[p])]
      /\ s' = [s EXCEPT ![p] = Tail(@)]
      /\ pc' = [pc EXCEPT ![p] = "writeRoot"]
      /\ o' = o /\ v' = v /\ sg' = sg /\ root' = root
  BY DEF ReadRoot
<1>3. p \in Link /\ p + 1 \in Link /\ p + 1 # p
  BY ChainFacts
<1>4. /\ RootStreams' /\ Head(s[p]) \in Root
      /\ \A m \in Link : s'[m] = IF m = p THEN Tail(s[p]) ELSE s[m]
  BY <1>1, <1>2, <1>3, TakeRoot
<1>5. /\ pc' \in [Instance -> {"readRoot", "writeRoot", "readPacket", "writePacket"}]
      /\ \A u \in Instance : pc'[u] = IF u = p THEN "writeRoot" ELSE pc[u]
      /\ \A u \in Instance : s_pkt'[u] = IF u = p THEN Head(s[p]) ELSE s_pkt[u]
  BY <1>1, <1>2 DEF Registers
<1>6. Shape'
  <2>1. PacketStreams'
    BY <1>1, <1>2 DEF PacketStreams
  <2>2. Registers'
    BY <1>1, <1>2, <1>4, <1>5 DEF Registers
  <2> QED
    BY <1>4, <2>1, <2>2 DEF Shape
<1>7. Only(p)
  BY <1>2, <1>4, <1>5 DEF Only
<1>8. InHand(p)'
  BY <1>5 DEF InHand
<1>9. Owing(p)' = Owing(p) /\ Jumped(p)' = Jumped(p) /\ Owing(p) = 0
  BY <1>2, <1>5 DEF Owing, Jumped
<1>10. RootsAhead(p)' = RootsAhead(p)
  <2>1. RootsAhead(p) = s[p] /\ s[p] \in Seq(Root) /\ s[p] # <<>>
    BY <1>1, <1>2, <1>3, RootsFacts DEF RootStreams, CanRead
  <2>2. RootsAhead(p)' = <<Head(s[p])>> \o Tail(s[p])
    BY <1>3, <1>4, <1>5 DEF RootsAhead
  <2> QED
    BY <2>1, <2>2, MoveFacts
<1>11. ASSUME NEW u \in Instance \ {0}, u = p \/ u = p + 1 PROVE Meeting(u)'
  <2>1. u - 1 \in Instance /\ (u = p => u - 1 # p) /\ (u = p + 1 => u - 1 = p)
    BY <1>11, ChainFacts
  <2>2. Owing(u - 1)' = Owing(u - 1) /\ Jumped(u - 1)' = Jumped(u - 1)
    BY <1>7, <1>9, <2>1, Elsewhere
  <2>3. RootsAhead(u)' = RootsAhead(u)
    <3>1. CASE u = p
      BY <1>10, <3>1
    <3>2. CASE u = p + 1
      BY <1>3, <1>4, <1>5, <3>2 DEF RootsAhead
    <3> QED
      BY <1>11, <3>1, <3>2
  <2>4. CASE u = p
    <3>1. s_pkt'[u - 1] = s_pkt[u - 1]
      BY <1>5, <2>1, <2>4
    <3> QED
      BY <1>2, <2>2, <2>3, <3>1, MeetingSame DEF IInv
  <2>5. CASE u = p + 1
    BY <1>2, <1>9, <2>1, <2>2, <2>3, <2>5
       DEF IInv, Meeting, Level, LastRoot, Ahead, Aligned, Combined
  <2> QED
    BY <1>11, <2>4, <2>5
<1>12. Empty'
  BY <1>1, <1>2 DEF Empty
<1> QED
  BY <1>6, <1>7, <1>8, <1>11, <1>12, Elsewhere DEF IInv

(* Passing it on: the next instance has one more ahead, for which this one *)
(* owes a packet.                                                          *)
LEMMA WriteRootStep ==
    ASSUME IInv, NEW p \in Instance, WriteRoot(p)
    PROVE  IInv'
<1> DEFINE l == p + 1
<1>1. Shape /\ Empty /\ RootStreams /\ PacketStreams /\ Registers
  BY DEF IInv, Shape
<1>2. /\ pc[p] = "writeRoot" /\ CanWrite(s[l], Capacity(l))
      /\ s' = [s EXCEPT ![l] = Append(@, s_pkt[p])]
      /\ pc' = [pc EXCEPT ![p] = "readPacket"]
      /\ o' = o /\ s_pkt' = s_pkt /\ v' = v /\ sg' = sg /\ root' = root
  BY DEF WriteRoot
<1>3. p \in Link /\ l \in Link /\ l # p /\ l # 0 /\ l - 1 = p
  BY ChainFacts
<1>4. \A u \in Instance \ {0} : u - 1 \in Instance /\ (u = p => u - 1 # p)
  BY ChainFacts
<1>5. Only(p) <=> /\ \A u \in Instance \ {p} : /\ pc'[u] = pc[u] /\ s_pkt'[u] = s_pkt[u]
                                               /\ sg'[u] = sg[u] /\ v'[u] = v[u]
                  /\ \A m \in Link \ {p, l} : s'[m] = s[m] /\ o'[m] = o[m]
  BY DEF Only
<1>6. Only(p) => /\ \A u \in Instance \ {p} : InHand(u)'
                 /\ \A u \in Instance \ {0, p, l} : Meeting(u)'
                 /\ \A u \in Instance \ {p} : Owing(u)' = Owing(u) /\ Jumped(u)' = Jumped(u)
  BY Elsewhere
<1> HIDE DEF l
<1>7. s_pkt[p] \in Root
  BY <1>1, <1>2 DEF Registers
<1>8. /\ RootStreams'
      /\ \A m \in Link : s'[m] = IF m = l THEN Append(s[l], s_pkt[p]) ELSE s[m]
  BY <1>1, <1>2, <1>3, <1>7, PutRoot
<1>9. /\ pc' \in [Instance -> {"readRoot", "writeRoot", "readPacket", "writePacket"}]
      /\ \A u \in Instance : pc'[u] = IF u = p THEN "readPacket" ELSE pc[u]
  BY <1>1, <1>2 DEF Registers
<1>10. Shape'
  <2>1. PacketStreams'
    BY <1>1, <1>2 DEF PacketStreams
  <2>2. Registers'
    BY <1>1, <1>2, <1>7, <1>9 DEF Registers
  <2> QED
    BY <1>8, <2>1, <2>2 DEF Shape
<1>11. Only(p)
  BY <1>2, <1>5, <1>8, <1>9
<1>12. InHand(p)'
  BY <1>9 DEF InHand
<1>13. Owing(p)' = 1 /\ Owing(p) = 0 /\ Jumped(p)' = 0 /\ Jumped(p) = 0
  BY <1>2, <1>9 DEF Owing, Jumped
<1>14. ASSUME p # 0 PROVE Meeting(p)'
  <2>1. RootsAhead(p)' = RootsAhead(p)
    BY <1>2, <1>3, <1>8, <1>9 DEF RootsAhead
  <2>2. Owing(p - 1)' = Owing(p - 1) /\ Jumped(p - 1)' = Jumped(p - 1)
    BY <1>4, <1>6, <1>11, <1>14
  <2> QED
    BY <1>2, <1>14, <2>1, <2>2, MeetingSame DEF IInv
<1>15. ASSUME l \in Instance PROVE Meeting(l)'
  <2>1. Meeting(l)
    BY <1>3, <1>15 DEF IInv
  <2>2. RootsAhead(l) \in Seq(Root) /\ Len(RootsAhead(l)) \in Nat
    BY <1>1, <1>15, RootsFacts
  <2>3. RootsAhead(l)' = Append(RootsAhead(l), s_pkt[p])
    <3> DEFINE pre == IF pc[l] \in {"writeRoot", "readPacket"} THEN <<s_pkt[l]>> ELSE <<>>
    <3>1. pre \in Seq(Root) /\ s[l] \in Seq(Root)
      BY <1>1, <1>3, <1>15 DEF Registers, RootStreams
    <3>2. RootsAhead(l) = pre \o s[l] /\ RootsAhead(l)' = pre \o Append(s[l], s_pkt[p])
      BY <1>2, <1>3, <1>8, <1>9, <1>15 DEF RootsAhead
    <3> HIDE DEF pre
    <3>3. pre \o Append(s[l], s_pkt[p]) = Append(pre \o s[l], s_pkt[p])
      BY <1>7, <3>1, AppendBehind
    <3> QED
      BY <3>2, <3>3
  <2>4. /\ Len(RootsAhead(l)') = Len(RootsAhead(l)) + 1
        /\ \A j \in 1 .. Len(RootsAhead(l)) : RootsAhead(l)'[j] = RootsAhead(l)[j]
        /\ RootsAhead(l)'[Len(RootsAhead(l)) + 1] = s_pkt[p]
    BY <1>7, <2>2, <2>3, AppendFacts
  <2>5. Len(RootsAhead(l)) = Len(o[l]) /\ Len(o[l]) \in Nat
    BY <1>1, <1>3, <1>13, <1>15, <2>1, PacketFacts DEF Meeting, Level
  <2>6. Level(l)' /\ LastRoot(l)'
    BY <1>2, <1>3, <1>13, <2>4, <2>5 DEF Level, LastRoot
  <2>7. Ahead(l)'
    BY <1>2, <1>3, <1>13, <2>1 DEF Meeting, Ahead
  <2>8. Aligned(l)'
    BY <1>2, <2>1, <2>4, <2>5 DEF Meeting, Aligned, Combined
  <2> QED
    BY <2>6, <2>7, <2>8 DEF Meeting
<1>16. Empty'
  BY <1>1, <1>2 DEF Empty
<1> QED
  BY <1>3, <1>6, <1>10, <1>11, <1>12, <1>14, <1>15, <1>16 DEF IInv

LEMMA JumpFacts ==
    ASSUME Shape, NEW p \in Instance
    PROVE  /\ (sg[p] + 1) % Period \in 0 .. Period - 1
           /\ \A n \in Int : (((sg[p] + 1) % Period) + n) % Period = (sg[p] + 1 + n) % Period
<1>1. sg[p] + 1 \in Int /\ Period \in Nat \ {0}
  BY PacketFacts, ChainFacts
<1> QED
  BY <1>1, ModFacts, ModPlus

LEMMA CombinedXOR ==
    ASSUME NEW packet, NEW p, NEW r, NEW n, Combined(packet, r, n)
    PROVE  Combined(XOR(packet, Output(p, r, n)), r, n)
<1> DEFINE a == [src |-> "leaf", id |-> InstanceId(p), at |-> r]
           b == [src |-> "xorshift", id |-> InstanceId(p), at |-> n]
<1>1. a.src = "leaf" /\ a.at = r /\ b.src = "xorshift" /\ b.at = n
  OBVIOUS
<1>2. Output(p, r, n) = {a, b}
  BY DEF Output
<1> HIDE DEF a, b
<1> QED
  BY <1>1, <1>2 DEF Combined, XOR

(* Combining: root state and packet leave together.                        *)
LEMMA ReadPacketStep ==
    ASSUME IInv, NEW p \in Instance, ReadPacket(p)
    PROVE  IInv'
<1> DEFINE n == (sg[p] + 1) % Period
           e == XOR(Head(o[p]), Output(p, s_pkt[p], n))
<1>1. Shape /\ Empty /\ RootStreams /\ PacketStreams /\ Registers
  BY DEF IInv, Shape
<1>2. /\ pc[p] = "readPacket" /\ CanRead(o[p])
      /\ v' = [v EXCEPT ![p] = e]
      /\ sg' = [sg EXCEPT ![p] = n]
      /\ o' = [o EXCEPT ![p] = Tail(@)]
      /\ pc' = [pc EXCEPT ![p] = "writePacket"]
      /\ s' = s /\ s_pkt' = s_pkt /\ root' = root
  BY DEF ReadPacket
<1>3. p \in Link /\ p + 1 \in Link /\ p + 1 # p /\ p + 1 # 0
  BY ChainFacts
<1>4. /\ PacketStreams' /\ Head(o[p]) \in SUBSET Term
      /\ \A m \in Link : o'[m] = IF m = p THEN Tail(o[p]) ELSE o[m]
  BY <1>1, <1>2, <1>3, TakePacket
<1>5. /\ n \in 0 .. Period - 1 /\ sg[p] \in Int
      /\ \A k \in Int : (n + k) % Period = (sg[p] + 1 + k) % Period
  BY <1>1, JumpFacts, PacketFacts
<1>6. s_pkt[p] \in Root
  BY <1>1, <1>2 DEF Registers
<1>7. e \in SUBSET Term
  BY <1>4, <1>5, <1>6, OutputTerm DEF XOR
<1>8. Combined(Head(o[p]), s_pkt[p], n) => Combined(e, s_pkt[p], n)
  BY CombinedXOR
<1>9. Period \in Nat \ {0}
  BY ChainFacts
<1>10. \A m, k \in Int : ((m % Period) + k) % Period = (m + k) % Period
  BY <1>9, ModPlus
<1>11. n = (sg[p] + 1) % Period
  OBVIOUS
<1> HIDE DEF n, e
<1>12. /\ pc' \in [Instance -> {"readRoot", "writeRoot", "readPacket", "writePacket"}]
       /\ \A u \in Instance : pc'[u] = IF u = p THEN "writePacket" ELSE pc[u]
       /\ \A u \in Instance : sg'[u] = IF u = p THEN n ELSE sg[u]
       /\ \A u \in Instance : v'[u] = IF u = p THEN e ELSE v[u]
  BY <1>1, <1>2 DEF Registers
<1>13. Shape'
  <2>1. RootStreams'
    BY <1>1, <1>2 DEF RootStreams
  <2>2. sg' \in [Instance -> 0 .. Period - 1] /\ v' \in [Instance -> SUBSET Term]
    BY <1>1, <1>2, <1>5, <1>7 DEF Registers
  <2>3. Registers'
    BY <1>1, <1>2, <1>6, <1>12, <2>2 DEF Registers
  <2> QED
    BY <1>4, <2>1, <2>3 DEF Shape
<1>14. Only(p)
  BY <1>2, <1>4, <1>12 DEF Only
<1>15. Owing(p)' = 1 /\ Owing(p) = 1 /\ Jumped(p)' = 1 /\ Jumped(p) = 0
  BY <1>2, <1>12 DEF Owing, Jumped
<1>16. /\ Tail(o[p]) \in Seq(SUBSET Term) /\ Len(o[p]) \in Nat \ {0}
       /\ Len(Tail(o[p])) = Len(o[p]) - 1
       /\ \A j \in 1 .. Len(o[p]) - 1 : Tail(o[p])[j] = o[p][j + 1]
       /\ Head(o[p]) = o[p][1] /\ DOMAIN o[p] = 1 .. Len(o[p])
       /\ DOMAIN Tail(o[p]) = 1 .. Len(o[p]) - 1
  <2>1. o[p] \in Seq(SUBSET Term) /\ o[p] # <<>>
    BY <1>1, <1>2, <1>3 DEF PacketStreams, CanRead
  <2>2. /\ Tail(o[p]) \in Seq(SUBSET Term) /\ Len(o[p]) \in Nat \ {0}
        /\ Len(Tail(o[p])) = Len(o[p]) - 1
        /\ \A j \in 1 .. Len(o[p]) - 1 : Tail(o[p])[j] = o[p][j + 1]
        /\ Head(o[p]) = o[p][1]
    BY <2>1, TailFacts
  <2>3. DOMAIN o[p] = 1 .. Len(o[p]) /\ DOMAIN Tail(o[p]) = 1 .. Len(Tail(o[p]))
    BY <2>1, <2>2, LenProperties
  <2> QED
    BY <2>2, <2>3
<1>17. /\ RootsAhead(p) \in Seq(Root) /\ RootsAhead(p) = <<s_pkt[p]>> \o s[p]
       /\ RootsAhead(p)' = s[p] /\ s[p] \in Seq(Root)
       /\ RootsAhead(p)[1] = s_pkt[p]
       /\ Len(RootsAhead(p)) = Len(s[p]) + 1 /\ Len(s[p]) \in Nat
       /\ \A j \in 1 .. Len(s[p]) : s[p][j] = RootsAhead(p)[j + 1]
  <2>1. /\ RootsAhead(p) \in Seq(Root) /\ RootsAhead(p) = <<s_pkt[p]>> \o s[p]
        /\ s[p] \in Seq(Root)
    BY <1>1, <1>2, <1>3, RootsFacts DEF RootStreams
  <2>2. RootsAhead(p)' = s[p]
    <3>1. <<>> \o s[p] = s[p]
      BY <2>1, ConcatEmptySeq
    <3> QED
      BY <1>2, <1>12, <3>1 DEF RootsAhead
  <2>3. <<s_pkt[p]>> \in Seq(Root) /\ Len(<<s_pkt[p]>>) = 1 /\ <<s_pkt[p]>>[1] = s_pkt[p]
    BY <1>6
  <2>4. /\ Len(<<s_pkt[p]>> \o s[p]) = 1 + Len(s[p])
        /\ \A j \in 1 .. 1 + Len(s[p]) :
              (<<s_pkt[p]>> \o s[p])[j] = IF j <= 1 THEN <<s_pkt[p]>>[j] ELSE s[p][j - 1]
    BY <2>1, <2>3, ConcatProperties
  <2>5. Len(s[p]) \in Nat
    BY <2>1, LenProperties
  <2>6. RootsAhead(p)[1] = s_pkt[p] /\ Len(RootsAhead(p)) = Len(s[p]) + 1
    BY <2>1, <2>3, <2>4, <2>5
  <2>7. ASSUME NEW j \in 1 .. Len(s[p]) PROVE s[p][j] = RootsAhead(p)[j + 1]
    <3>1. j + 1 \in 1 .. 1 + Len(s[p]) /\ ~(j + 1 <= 1) /\ (j + 1) - 1 = j
      BY <2>5
    <3> QED
      BY <2>1, <2>4, <3>1
  <2> QED
    BY <2>1, <2>2, <2>5, <2>6, <2>7
<1>18. InHand(p)'
  <2>1. Combined(Head(o[p]), s_pkt[p], n)
    <3>1. CASE p = 0
      BY <1>1, <1>16, <3>1 DEF Empty, Combined
    <3>2. CASE p # 0
      <4>1. Combined(o[p][1], RootsAhead(p)[1], (sg[p] + 1) % Period)
        BY <1>16, <3>2 DEF IInv, Meeting, Aligned
      <4> QED
        BY <1>11, <1>16, <1>17, <4>1
    <3> QED
      BY <3>1, <3>2
  <2>2. Combined(e, s_pkt[p], n)
    BY <1>8, <2>1
  <2> QED
    BY <1>2, <1>12, <2>2 DEF InHand, Combined
<1>19. ASSUME p # 0 PROVE Meeting(p)'
  <2>1. Meeting(p) /\ p - 1 \in Instance /\ p - 1 # p
    BY <1>19, ChainFacts DEF IInv
  <2>2. /\ Owing(p - 1)' = Owing(p - 1) /\ Jumped(p - 1)' = Jumped(p - 1)
        /\ s_pkt'[p - 1] = s_pkt[p - 1] /\ sg'[p - 1] = sg[p - 1]
    BY <1>2, <1>12, <1>14, <2>1, Elsewhere
  <2>3. Owing(p - 1) \in {0, 1} /\ Jumped(p - 1) \in {0, 1}
    BY <1>1, <2>1, PacketFacts
  <2>4. o'[p] = Tail(o[p]) /\ sg'[p] = n
    BY <1>3, <1>4, <1>12
  <2>5. Len(RootsAhead(p)) = Len(o[p]) + Owing(p - 1)
    BY <2>1 DEF Meeting, Level
  <2>6. Level(p)'
    <3>1. Len(s[p]) = Len(o[p]) - 1 + Owing(p - 1)
      BY <1>16, <1>17, <2>3, <2>5
    <3> QED
      BY <1>16, <1>17, <2>2, <2>4, <3>1 DEF Level
  <2>7. LastRoot(p)'
    <3> SUFFICES ASSUME Owing(p - 1) = 1
                 PROVE  s[p][Len(o[p]) - 1 + 1] = s_pkt[p - 1]
      BY <1>16, <1>17, <2>2, <2>4 DEF LastRoot
    <3>1. Len(o[p]) \in 1 .. Len(s[p]) /\ Len(o[p]) - 1 + 1 = Len(o[p])
      BY <1>16, <1>17, <2>5
    <3>2. s[p][Len(o[p])] = RootsAhead(p)[Len(o[p]) + 1]
      BY <1>17, <3>1
    <3> QED
      BY <2>1, <3>1, <3>2 DEF Meeting, LastRoot
  <2>8. Ahead(p)'
    <3>1. sg[p - 1] = (sg[p] + Len(o[p]) + Jumped(p - 1)) % Period
      BY <2>1 DEF Meeting, Ahead
    <3>2. Len(o[p]) - 1 + Jumped(p - 1) \in Int /\ n \in Int
      <4>1. n \in Int
        BY <1>5, <1>9
      <4>2. Len(o[p]) \in Int /\ Jumped(p - 1) \in Int
        BY <1>16, <2>3
      <4> QED
        BY <4>1, <4>2
    <3>3. (n + (Len(o[p]) - 1 + Jumped(p - 1))) % Period
            = (sg[p] + 1 + (Len(o[p]) - 1 + Jumped(p - 1))) % Period
      BY <1>5, <3>2
    <3>4. /\ sg[p] + 1 + (Len(o[p]) - 1 + Jumped(p - 1)) = sg[p] + Len(o[p]) + Jumped(p - 1)
          /\ n + (Len(o[p]) - 1 + Jumped(p - 1)) = n + (Len(o[p]) - 1) + Jumped(p - 1)
      <4>1. sg[p] \in Int /\ Len(o[p]) \in Int /\ Jumped(p - 1) \in Int /\ n \in Int
        BY <1>5, <1>16, <2>3, <3>2
      <4> QED
        BY <4>1
    <3> QED
      BY <1>16, <2>2, <2>4, <3>1, <3>3, <3>4 DEF Ahead
  <2>9. Aligned(p)'
    <3>1. ASSUME NEW j \in 1 .. Len(o[p]) - 1
          PROVE  Combined(Tail(o[p])[j], s[p][j], (n + j) % Period)
      <4>1. j + 1 \in 1 .. Len(o[p]) /\ j \in Int
        BY <1>16
      <4>2. Combined(o[p][j + 1], RootsAhead(p)[j + 1], (sg[p] + (j + 1)) % Period)
        BY <2>1, <4>1 DEF Meeting, Aligned
      <4>3. j \in 1 .. Len(s[p])
        BY <1>16, <1>17, <2>3, <2>5
      <4>4. (n + j) % Period = (sg[p] + 1 + j) % Period
        BY <1>5, <4>1
      <4>5. sg[p] + 1 + j = sg[p] + (j + 1)
        <5>1. sg[p] \in Int /\ j \in Int
          BY <1>5, <4>1
        <5> QED
          BY <5>1
      <4> QED
        BY <1>16, <1>17, <4>2, <4>3, <4>4, <4>5
    <3> QED
      BY <1>16, <1>17, <2>4, <3>1 DEF Aligned, Combined
  <2> QED
    BY <2>6, <2>7, <2>8, <2>9 DEF Meeting
<1>20. ASSUME NEW l \in Instance, l = p + 1 PROVE Meeting(l)'
  <2>1. Meeting(l) /\ l - 1 = p /\ l # p /\ l \in Link
    BY <1>3, <1>20, ChainFacts DEF IInv
  <2>2. RootsAhead(l)' = RootsAhead(l) /\ o'[l] = o[l] /\ sg'[l] = sg[l]
    BY <1>2, <1>4, <1>12, <2>1 DEF RootsAhead
  <2>3. Level(l)' /\ LastRoot(l)' /\ Aligned(l)'
    <3>1. Level(l)'
      BY <1>15, <2>1, <2>2 DEF Meeting, Level
    <3>2. LastRoot(l)'
      BY <1>2, <1>15, <2>1, <2>2 DEF Meeting, LastRoot
    <3>3. Aligned(l)'
      BY <2>1, <2>2 DEF Meeting, Aligned, Combined
    <3> QED
      BY <3>1, <3>2, <3>3
  <2>4. Ahead(l)'
    <3>1. sg[l] \in Int /\ Len(o[l]) \in Nat
      BY <1>1, PacketFacts
    <3>2. sg[p] = (sg[l] + Len(o[l]) + 0) % Period
      BY <1>15, <2>1 DEF Meeting, Ahead
    <3>3. sg[l] + Len(o[l]) + 0 \in Int
          /\ (sg[l] + Len(o[l]) + 0) + 1 = sg[l] + Len(o[l]) + 1
      BY <3>1
    <3>4. n = (sg[l] + Len(o[l]) + 1) % Period
      BY <1>10, <1>11, <3>2, <3>3
    <3> QED
      BY <1>12, <1>15, <2>1, <2>2, <3>4 DEF Ahead
  <2> QED
    BY <2>3, <2>4 DEF Meeting
<1>21. Empty'
  <2>1. CASE p = 0
    <3>1. ASSUME NEW j \in 1 .. Len(o[p]) - 1 PROVE Tail(o[p])[j] = {}
      <4>1. j + 1 \in 1 .. Len(o[p])
        BY <1>16
      <4> QED
        BY <1>1, <1>16, <2>1, <4>1 DEF Empty
    <3>2. o'[0] = Tail(o[p])
      BY <1>3, <1>4, <2>1
    <3> QED
      BY <1>16, <3>1, <3>2 DEF Empty
  <2>2. CASE p # 0
    BY <1>1, <1>4, <2>2, ChainFacts DEF Empty
  <2> QED
    BY <2>1, <2>2
<1> QED
  BY <1>13, <1>14, <1>18, <1>19, <1>20, <1>21, Elsewhere DEF IInv

(* Passing the packet on settles what the instance owed.                   *)
LEMMA WritePacketStep ==
    ASSUME IInv, NEW p \in Instance, WritePacket(p)
    PROVE  IInv'
<1> DEFINE l == p + 1
<1>1. Shape /\ Empty /\ RootStreams /\ PacketStreams /\ Registers
  BY DEF IInv, Shape
<1>2. /\ pc[p] = "writePacket" /\ CanWrite(o[l], Capacity(l))
      /\ o' = [o EXCEPT ![l] = Append(@, v[p])]
      /\ pc' = [pc EXCEPT ![p] = "readRoot"]
      /\ s_pkt' = [s_pkt EXCEPT ![p] = NoVal]
      /\ v' = [v EXCEPT ![p] = {}]
      /\ s' = s /\ sg' = sg /\ root' = root
  BY DEF WritePacket
<1>3. p \in Link /\ l \in Link /\ l # p /\ l # 0 /\ l - 1 = p
  BY ChainFacts
<1>4. Only(p) <=> /\ \A u \in Instance \ {p} : /\ pc'[u] = pc[u] /\ s_pkt'[u] = s_pkt[u]
                                               /\ sg'[u] = sg[u] /\ v'[u] = v[u]
                  /\ \A m \in Link \ {p, l} : s'[m] = s[m] /\ o'[m] = o[m]
  BY DEF Only
<1>5. Only(p) => /\ \A u \in Instance \ {p} : InHand(u)'
                 /\ \A u \in Instance \ {0, p, l} : Meeting(u)'
                 /\ \A u \in Instance \ {p} : Owing(u)' = Owing(u) /\ Jumped(u)' = Jumped(u)
  BY Elsewhere
<1> HIDE DEF l
<1>6. v[p] \in SUBSET Term
  BY <1>1 DEF Registers
<1>7. /\ PacketStreams'
      /\ \A m \in Link : o'[m] = IF m = l THEN Append(o[l], v[p]) ELSE o[m]
  BY <1>1, <1>2, <1>3, <1>6, PutPacket
<1>8. /\ pc' \in [Instance -> {"readRoot", "writeRoot", "readPacket", "writePacket"}]
      /\ \A u \in Instance : pc'[u] = IF u = p THEN "readRoot" ELSE pc[u]
      /\ \A u \in Instance : s_pkt'[u] = IF u = p THEN NoVal ELSE s_pkt[u]
      /\ \A u \in Instance : v'[u] = IF u = p THEN {} ELSE v[u]
  BY <1>1, <1>2 DEF Registers
<1>9. Shape'
  <2>1. RootStreams'
    BY <1>1, <1>2 DEF RootStreams
  <2>2. v' \in [Instance -> SUBSET Term]
    BY <1>1, <1>2 DEF Registers
  <2>3. Registers'
    BY <1>1, <1>2, <1>8, <2>2 DEF Registers
  <2> QED
    BY <1>7, <2>1, <2>3 DEF Shape
<1>10. Only(p)
  BY <1>2, <1>4, <1>7, <1>8
<1>11. InHand(p)'
  BY <1>8 DEF InHand
<1>12. Owing(p)' = 0 /\ Owing(p) = 1 /\ Jumped(p)' = 0 /\ Jumped(p) = 1
  BY <1>2, <1>8 DEF Owing, Jumped
<1>13. ASSUME p # 0 PROVE Meeting(p)'
  <2>1. p - 1 \in Instance /\ p - 1 # p
    BY <1>13, ChainFacts
  <2>2. RootsAhead(p)' = RootsAhead(p) /\ o'[p] = o[p]
    BY <1>2, <1>3, <1>7, <1>8 DEF RootsAhead
  <2>3. /\ Owing(p - 1)' = Owing(p - 1) /\ Jumped(p - 1)' = Jumped(p - 1)
        /\ s_pkt'[p - 1] = s_pkt[p - 1]
    BY <1>5, <1>8, <1>10, <2>1
  <2> QED
    BY <1>2, <1>13, <2>2, <2>3, MeetingSame DEF IInv
<1>14. ASSUME l \in Instance PROVE Meeting(l)'
  <2>1. Meeting(l)
    BY <1>3, <1>14 DEF IInv
  <2>2. RootsAhead(l)' = RootsAhead(l) /\ sg'[l] = sg[l]
    <3>1. pc'[l] = pc[l] /\ s_pkt'[l] = s_pkt[l] /\ s' = s /\ sg' = sg
      BY <1>2, <1>3, <1>8, <1>14
    <3> QED
      BY <3>1 DEF RootsAhead
  <2>3. o[l] \in Seq(SUBSET Term) /\ Len(o[l]) \in Nat /\ sg[l] \in Int
    BY <1>1, <1>14, PacketFacts
  <2>4. /\ Len(Append(o[l], v[p])) = Len(o[l]) + 1
        /\ \A j \in 1 .. Len(o[l]) : Append(o[l], v[p])[j] = o[l][j]
        /\ Append(o[l], v[p])[Len(o[l]) + 1] = v[p]
    BY <1>6, <2>3, AppendFacts
  <2>5. o'[l] = Append(o[l], v[p])
    BY <1>3, <1>7
  <2>6. /\ Len(RootsAhead(l)) = Len(o[l]) + 1
        /\ RootsAhead(l)[Len(o[l]) + 1] = s_pkt[p]
        /\ sg[p] = (sg[l] + Len(o[l]) + 1) % Period
    BY <1>3, <1>12, <2>1 DEF Meeting, Level, LastRoot, Ahead
  <2>7. Level(l)' /\ LastRoot(l)'
    BY <1>3, <1>12, <2>2, <2>3, <2>4, <2>5, <2>6 DEF Level, LastRoot
  <2>8. sg[l] + Len(o[l]) + 1 = sg[l] + (Len(o[l]) + 1)
        /\ sg[l] + (Len(o[l]) + 1) + 0 = sg[l] + (Len(o[l]) + 1)
    BY <2>3
  <2>9. sg[p] = (sg[l] + (Len(o[l]) + 1)) % Period
    BY <2>6, <2>8
  <2>10. Ahead(l)'
    BY <1>2, <1>3, <1>12, <2>2, <2>4, <2>5, <2>8, <2>9 DEF Ahead
  <2>11. Aligned(l)'
    <3>1. ASSUME NEW j \in 1 .. Len(o[l]) + 1
          PROVE  Combined(Append(o[l], v[p])[j], RootsAhead(l)[j], (sg[l] + j) % Period)
      <4>1. CASE j \in 1 .. Len(o[l])
        BY <2>1, <2>4, <4>1 DEF Meeting, Aligned
      <4>2. CASE j = Len(o[l]) + 1
        <5>1. Combined(v[p], s_pkt[p], sg[p])
          BY <1>2 DEF IInv, InHand
        <5> QED
          BY <2>4, <2>6, <2>9, <4>2, <5>1
      <4> QED
        BY <2>3, <4>1, <4>2
    <3> QED
      BY <2>2, <2>4, <2>5, <3>1 DEF Aligned, Combined
  <2> QED
    BY <2>7, <2>10, <2>11 DEF Meeting
<1>15. Empty'
  BY <1>1, <1>3, <1>7, ChainFacts DEF Empty
<1> QED
  BY <1>3, <1>5, <1>9, <1>10, <1>11, <1>13, <1>14, <1>15 DEF IInv

(* The ends of the two chains.                                             *)
LEMMA Inner ==
    ASSUME IInv, \A u \in Instance \ {0} : s'[u] = s[u] /\ o'[u] = o[u],
           pc' = pc, s_pkt' = s_pkt, v' = v, sg' = sg
    PROVE  /\ \A u \in Instance : InHand(u)'
           /\ \A u \in Instance \ {0} : Meeting(u)'
<1>1. ASSUME NEW u \in Instance PROVE InHand(u)'
  BY DEF IInv, InHand, Combined
<1>2. ASSUME NEW u \in Instance \ {0} PROVE Meeting(u)'
  <2>1. RootsAhead(u)' = RootsAhead(u)
    BY DEF RootsAhead
  <2>2. Owing(u - 1)' = Owing(u - 1) /\ Jumped(u - 1)' = Jumped(u - 1)
    BY DEF Owing, Jumped
  <2> QED
    BY <2>1, <2>2, MeetingSame DEF IInv
<1> QED
  BY <1>1, <1>2

LEMMA RootEndsStep ==
    ASSUME IInv, RootIn \/ SinkRoot
    PROVE  IInv'
<1>1. Shape /\ Empty /\ RootStreams /\ PacketStreams /\ Registers
  BY DEF IInv, Shape
<1>2. o' = o /\ pc' = pc /\ s_pkt' = s_pkt /\ v' = v /\ sg' = sg
  BY DEF RootIn, SinkRoot
<1>3. /\ RootStreams' /\ root' \in Root
      /\ \A u \in Instance \ {0} : s'[u] = s[u]
  <2>1. CASE RootIn
    <3>1. root \in Root /\ root' = RootStep[root] /\ root' \in Root
      BY <1>1, <2>1, RootAssumption DEF Registers, RootIn
    <3>2. /\ CanWrite(s[0], Capacity(0)) /\ s' = [s EXCEPT ![0] = Append(@, root)]
          /\ 0 \in Link
      BY <2>1, ChainFacts DEF RootIn
    <3>3. /\ RootStreams'
          /\ \A m \in Link : s'[m] = IF m = 0 THEN Append(s[0], root) ELSE s[m]
      BY <1>1, <3>1, <3>2, PutRoot
    <3> QED
      BY <3>1, <3>3, ChainFacts
  <2>2. CASE SinkRoot
    <3>1. /\ CanRead(s[NRNG]) /\ s' = [s EXCEPT ![NRNG] = Tail(@)]
          /\ NRNG \in Link /\ root' = root
      BY <2>2, ChainFacts DEF SinkRoot
    <3>2. /\ RootStreams'
          /\ \A m \in Link : s'[m] = IF m = NRNG THEN Tail(s[NRNG]) ELSE s[m]
      BY <1>1, <3>1, TakeRoot
    <3> QED
      BY <1>1, <3>1, <3>2, ChainFacts DEF Registers
  <2> QED
    BY <2>1, <2>2
<1>4. Shape'
  BY <1>1, <1>2, <1>3 DEF Shape, PacketStreams, Registers
<1> QED
  BY <1>1, <1>2, <1>3, <1>4, Inner DEF IInv, Empty

LEMMA PacketEndsStep ==
    ASSUME IInv, StartPacket \/ Draw
    PROVE  IInv'
<1>1. Shape /\ Empty /\ RootStreams /\ PacketStreams /\ Registers
  BY DEF IInv, Shape
<1>2. s' = s /\ pc' = pc /\ s_pkt' = s_pkt /\ v' = v /\ sg' = sg /\ root' = root
  BY DEF StartPacket, Draw
<1>3. PacketStreams' /\ Empty' /\ \A u \in Instance \ {0} : o'[u] = o[u]
  <2>1. CASE StartPacket
    <3>1. /\ PacketStreams'
          /\ \A m \in Link : o'[m] = IF m = 0 THEN Append(o[0], {}) ELSE o[m]
      <4>1. /\ CanWrite(o[0], Capacity(0)) /\ o' = [o EXCEPT ![0] = Append(@, {})]
            /\ 0 \in Link /\ {} \in SUBSET Term
        BY <2>1, ChainFacts DEF StartPacket
      <4> QED
        BY <1>1, <4>1, PutPacket
    <3>2. o[0] \in Seq(SUBSET Term) /\ {} \in SUBSET Term
      BY <1>1, ChainFacts DEF PacketStreams
    <3>3. /\ Append(o[0], {}) \in Seq(SUBSET Term)
          /\ Len(Append(o[0], {})) = Len(o[0]) + 1 /\ Len(o[0]) \in Nat
          /\ \A j \in 1 .. Len(o[0]) : Append(o[0], {})[j] = o[0][j]
          /\ Append(o[0], {})[Len(o[0]) + 1] = {}
      BY <3>2, AppendFacts
    <3>4. DOMAIN o[0] = 1 .. Len(o[0]) /\ DOMAIN Append(o[0], {}) = 1 .. Len(o[0]) + 1
      BY <3>2, <3>3, LenProperties
    <3>5. ASSUME NEW j \in 1 .. Len(o[0]) + 1 PROVE Append(o[0], {})[j] = {}
      <4>1. j \in 1 .. Len(o[0]) \/ j = Len(o[0]) + 1
        BY <3>3
      <4> QED
        BY <1>1, <3>3, <3>4, <4>1 DEF Empty
    <3>6. Empty'
      BY <3>1, <3>4, <3>5, ChainFacts DEF Empty
    <3> QED
      BY <3>1, <3>6, ChainFacts
  <2>2. CASE Draw
    <3>1. /\ PacketStreams'
          /\ \A m \in Link : o'[m] = IF m = NRNG THEN Tail(o[NRNG]) ELSE o[m]
      BY <1>1, <2>2, TakePacket, ChainFacts DEF Draw
    <3> QED
      BY <1>1, <3>1, ChainFacts DEF Empty
  <2> QED
    BY <2>1, <2>2
<1>4. Shape'
  BY <1>1, <1>2, <1>3 DEF Shape, RootStreams, Registers
<1> QED
  BY <1>1, <1>2, <1>3, <1>4, Inner DEF IInv

LEMMA InitIInv == Init => IInv
<1> SUFFICES ASSUME Init PROVE IInv
  OBVIOUS
<1>1. /\ s = [l \in Link |-> <<>>] /\ o = [l \in Link |-> <<>>]
      /\ pc = [p \in Instance |-> "readRoot"] /\ s_pkt = [p \in Instance |-> NoVal]
      /\ v = [p \in Instance |-> {}] /\ sg = [p \in Instance |-> 0] /\ root = FirstRoot
  BY DEF Init
<1>2. 0 \in 0 .. Period - 1 /\ 0 % Period = 0 /\ 0 + 0 + 0 = 0
  BY ChainFacts
<1>3. RootStreams /\ PacketStreams
  <2>1. \A l \in Link : Capacity(l) \in Nat /\ Len(<<>>) <= Capacity(l)
    BY ChainFacts
  <2> QED
    BY <1>1, <2>1 DEF RootStreams, PacketStreams
<1>4. Registers
  BY <1>1, <1>2, RootAssumption DEF Registers
<1>5. Empty /\ \A u \in Instance : InHand(u)
  BY <1>1, ChainFacts DEF Empty, InHand
<1>6. ASSUME NEW u \in Instance \ {0} PROVE Meeting(u)
  <2>1. u \in Link /\ u - 1 \in Instance
    BY ChainFacts
  <2>2. RootsAhead(u) = <<>> \o <<>>
    BY <1>1, <2>1 DEF RootsAhead
  <2>3. RootsAhead(u) = <<>>
    BY <2>2
  <2>4. Len(RootsAhead(u)) = 0 /\ Len(o[u]) = 0
    BY <1>1, <2>1, <2>3
  <2>5. Owing(u - 1) = 0 /\ Jumped(u - 1) = 0 /\ sg[u] = 0 /\ sg[u - 1] = 0
    BY <1>1, <2>1 DEF Owing, Jumped
  <2> QED
    BY <1>2, <2>4, <2>5 DEF Meeting, Level, LastRoot, Ahead, Aligned
<1> QED
  BY <1>3, <1>4, <1>5, <1>6 DEF IInv, Shape

LEMMA NextIInv == IInv /\ [Next]_vars => IInv'
<1> SUFFICES ASSUME IInv, [Next]_vars PROVE IInv'
  OBVIOUS
<1>1. CASE UNCHANGED vars
  <2>1. /\ s' = s /\ o' = o /\ pc' = pc /\ s_pkt' = s_pkt /\ v' = v /\ sg' = sg
        /\ root' = root
    BY <1>1 DEF vars
  <2> QED
    BY <2>1, Inner DEF IInv, Shape, RootStreams, PacketStreams, Registers, Empty
<1>2. CASE \E p \in Instance : Process(p)
  BY <1>2, ReadRootStep, WriteRootStep, ReadPacketStep, WritePacketStep DEF Process
<1> QED
  BY <1>1, <1>2, RootEndsStep, PacketEndsStep DEF Next

LEMMA Invariance == Spec => []IInv
  BY InitIInv, NextIInv, PTL DEF Spec

(* Streams never overflow, and an instance uses a root state only when it  *)
(* has read one (soum_instance).                                           *)
THEOREM TypeCorrect == Spec => []TypeOK
<1>1. IInv => TypeOK
  BY ShapeTypeOK DEF IInv
<1> QED
  BY <1>1, Invariance, PTL

(* Every packet meets, at every instance, the root state and the position  *)
(* of the decorrelator that the instances before it combined it with       *)
(* (soum_instance, order of the four accesses).                            *)
THEOREM LockStepCorrect == Spec => []LockStep
  BY Invariance, LockStepHolds, PTL

-----------------------------------------------------------------------------
(* The borders.  The chain takes an AXI link, the adapter behind it and an *)
(* inner stream for one stream; for any capacities they are one.           *)

(* The streams and the register of an adapter stay within their bounds.    *)
THEOREM AdapterTypeCorrect == AdapterSpec => []AdapterTypeOK
<1> USE DepthAssumption DEF CanRead, CanWrite
<1>1. AdapterInit => AdapterTypeOK
  BY DEF AdapterInit, AdapterTypeOK
<1>2. AdapterTypeOK /\ [AdapterNext]_adapterVars => AdapterTypeOK'
  <2> SUFFICES ASSUME AdapterTypeOK, [AdapterNext]_adapterVars PROVE AdapterTypeOK'
    OBVIOUS
  <2>1. ASSUME NEW d \in Data, Produce(d) PROVE AdapterTypeOK'
    BY <2>1, AppendFacts DEF Produce, AdapterTypeOK
  <2>2. CASE Take
    <3>1. Head(in) \in Data /\ Tail(in) \in Seq(Data) /\ Len(Tail(in)) = Len(in) - 1
      BY <2>2, TailFacts DEF Take, AdapterTypeOK
    <3>2. QED
      BY <2>2, <3>1 DEF Take, AdapterTypeOK
  <2>3. CASE Give
    <3>1. out \o held \in Seq(Data) /\ Len(out \o held) = Len(out) + Len(held)
      BY ConcatProperties DEF AdapterTypeOK
    <3>2. QED
      BY <2>3, <3>1 DEF Give, AdapterTypeOK
  <2>4. CASE Deliver
    BY <2>4, TailFacts DEF Deliver, AdapterTypeOK
  <2>5. CASE UNCHANGED adapterVars
    BY <2>5 DEF adapterVars, AdapterTypeOK
  <2>6. QED
    BY <2>1, <2>2, <2>3, <2>4, <2>5 DEF AdapterNext
<1>3. QED
  BY <1>1, <1>2, PTL DEF AdapterSpec

(* The three parts of the FIFO can be grouped either way, ...              *)
LEMMA Regrouped ==
    ASSUME NEW a \in Seq(Data), NEW b \in Seq(Data), NEW c \in Seq(Data)
    PROVE  (a \o b) \o c = a \o (b \o c)
  BY ConcatAssociative

(* ... and its head is that of the part in front.                          *)
LEMMA HeadOfParts ==
    ASSUME AdapterTypeOK, out # <<>>
    PROVE  /\ (out \o held) \o in # <<>>
           /\ Head((out \o held) \o in) = Head(out)
           /\ Tail((out \o held) \o in) = (Tail(out) \o held) \o in
<1> DEFINE r == held \o in
           t == Tail(out)
<1>1. out \in Seq(Data) /\ held \in Seq(Data) /\ in \in Seq(Data)
  BY DEF AdapterTypeOK
<1>2. r \in Seq(Data) /\ t \in Seq(Data)
  BY <1>1, ConcatProperties, TailFacts
<1>3. (out \o held) \o in = out \o r
  BY <1>1, Regrouped
<1> HIDE DEF t
<1>4. (t \o held) \o in = t \o r
  BY <1>1, <1>2, Regrouped, SMTT(30)
<1> HIDE DEF r
<1>5. out \o r # <<>> /\ Head(out \o r) = Head(out) /\ Tail(out \o r) = t \o r
  BY <1>1, <1>2, TailOfConcat DEF t
<1>6. QED
  BY <1>3, <1>4, <1>5, Zenon DEF t

(* An adapter and the streams around it are one FIFO: every value comes    *)
(* out exactly once and in order, and as many fit as into the two streams  *)
(* and the register.  (Safety; that they do come out is checked by TLC.)   *)
THEOREM ImplementsFifo == AdapterSpec => Fifo!Init /\ [][Fifo!Next]_(out \o held \o in)
<1> DEFINE fifo == out \o held \o in
<1>1. AdapterInit => Fifo!Init
  <2>1. <<>> \o <<>> \o <<>> = <<>>
    BY ConcatEmptySeq, EmptySeq
  <2>2. QED
    BY <2>1 DEF AdapterInit, Fifo!Init
<1>2. AdapterTypeOK /\ [AdapterNext]_adapterVars => [Fifo!Next]_fifo
  <2> SUFFICES ASSUME AdapterTypeOK, [AdapterNext]_adapterVars PROVE Fifo!Next \/ fifo' = fifo
    OBVIOUS
  <2> USE DEF AdapterTypeOK
  <2>1. ASSUME NEW d \in Data, Produce(d) PROVE Fifo!Next
    <3>1. /\ in' = Append(in, d) /\ held' = held /\ out' = out
          /\ Len(in) < InDepth
      BY <2>1 DEF Produce, CanWrite
    <3>2. /\ out \o held \in Seq(Data) /\ fifo \in Seq(Data)
          /\ Len(fifo) = Len(out) + Len(held) + Len(in)
          /\ Len(out) \in Nat /\ Len(held) \in Nat /\ Len(in) \in Nat
      BY ConcatProperties, LenProperties
    <3>3. Len(fifo) < InDepth + 1 + OutDepth
      BY <3>1, <3>2, DepthAssumption
    <3>4. fifo' = Append(fifo, d)
      <4>1. Append(in, d) = in \o <<d>> /\ Append(fifo, d) = fifo \o <<d>>
        BY <3>2, AppendIsConcat
      <4>2. (out \o held) \o (in \o <<d>>) = ((out \o held) \o in) \o <<d>>
        BY <3>2, ConcatAssociative
      <4>3. QED
        BY <3>1, <4>1, <4>2
    <3>5. QED
      BY <3>3, <3>4 DEF Fifo!Next, Fifo!Write
  <2>2. CASE Take
    <3>1. /\ held = <<>> /\ in # <<>> /\ out' = out
          /\ held' = <<Head(in)>> /\ in' = Tail(in)
      BY <2>2 DEF Take, CanRead
    <3>2. /\ <<Head(in)>> \in Seq(Data) /\ Tail(in) \in Seq(Data)
          /\ <<Head(in)>> \o Tail(in) = in
      BY <3>1, TailFacts, MoveFacts
    <3>3. (out \o <<Head(in)>>) \o Tail(in) = out \o (<<Head(in)>> \o Tail(in))
      BY <3>2, Regrouped
    <3>4. out \o <<>> = out
      BY ConcatEmptySeq
    <3>5. QED
      BY <3>1, <3>2, <3>3, <3>4
  <2>3. CASE Give
    <3>1. held' = <<>> /\ out' = out \o held /\ in' = in
      BY <2>3 DEF Give
    <3>2. (out \o held) \o <<>> = out \o held
      BY ConcatProperties, ConcatEmptySeq
    <3>3. QED
      BY <3>1, <3>2
  <2>4. CASE Deliver
    <3>1. /\ out # <<>> /\ out' = Tail(out) /\ held' = held /\ in' = in
          /\ Head(out) \in Data /\ Tail(out) \in Seq(Data)
      BY <2>4, TailFacts DEF Deliver, CanRead
    <3>2. fifo # <<>> /\ Head(fifo) = Head(out) /\ Tail(fifo) = Tail(out) \o held \o in
      BY <3>1, HeadOfParts
    <3>3. fifo' = Tail(fifo)
      BY <3>1, <3>2
    <3>4. QED
      BY <3>2, <3>3 DEF Fifo!Next, Fifo!Read
  <2>5. CASE UNCHANGED adapterVars
    BY <2>5 DEF adapterVars
  <2>6. QED
    BY <2>1, <2>2, <2>3, <2>4, <2>5 DEF AdapterNext
<1>3. QED
  BY <1>1, <1>2, AdapterTypeCorrect, PTL DEF AdapterSpec

=============================================================================
