------------------------- MODULE OutputChain_proofs -------------------------
(***************************************************************************)
(* The connections and the chain of units, for any number of units and     *)
(* instances, all capacities and every period: the types of the state,     *)
(* decorrelators that count packets in step, packets that have seen every  *)
(* unit before them, no root state skipped and no number used twice.       *)
(***************************************************************************)
EXTENDS OutputChain, StreamFacts

-----------------------------------------------------------------------------
(* The connections of gen_link.c are a chain of units for the root states  *)
(* and the reverse chain for the packets, for every number of units.       *)

(* No stream has two writers or two readers: every port is in at most one  *)
(* connection (gen_link.c, main).                                          *)
THEOREM OneToOne ==
    ASSUME NEW CUs \in Nat \ {0},
           NEW c \in Connections(CUs), NEW d \in Connections(CUs),
           c.from = d.from \/ c.to = d.to
    PROVE  c = d
<1> USE DEF Port, SIn, SOut, OIn, OOut, Merge, RngStart, RngEnd, RngMain, Connection
<1> DEFINE R == RootConnections(CUs)
           P == PacketConnections(CUs)
<1>1. c \in Fixed /\ d \in Fixed => c = d
  BY DEF Fixed
<1>2. c \in R /\ d \in R => c = d
  BY DEF RootConnections
<1>3. c \in P /\ d \in P => c = d
  BY DEF PacketConnections
<1>4. ~(c \in Fixed /\ d \in R) /\ ~(c \in R /\ d \in Fixed)
  BY DEF Fixed, RootConnections
<1>5. ~(c \in Fixed /\ d \in P) /\ ~(c \in P /\ d \in Fixed)
  BY DEF Fixed, PacketConnections
<1>6. ~(c \in R /\ d \in P) /\ ~(c \in P /\ d \in R)
  BY DEF RootConnections, PacketConnections
<1> QED
  BY <1>1, <1>2, <1>3, <1>4, <1>5, <1>6 DEF Connections

(* A unit that one of its inputs names is the unit behind what writes it.  *)
LEMMA BehindIs ==
    ASSUME NEW CUs \in Nat \ {0}, NEW u \in 1 .. CUs, NEW out,
           NEW x \in {SIn(u), OIn(u)}, Connection(out, x) \in Connections(CUs)
    PROVE  Behind(CUs, out) = u
<1> USE DEF Port, SIn, SOut, OIn, OOut, Merge, RngStart, RngEnd, RngMain, Connection
<1> DEFINE Fits(v) == \E y \in {SIn(v), OIn(v)} : Connection(out, y) \in Connections(CUs)
<1>1. Fits(u)
  OBVIOUS
<1>2. ASSUME NEW v \in 1 .. CUs, Fits(v) PROVE v = u
  <2>1. PICK y \in {SIn(v), OIn(v)} : Connection(out, y) \in Connections(CUs)
    BY <1>2
  <2>2. Connection(out, y) = Connection(out, x)
    BY <2>1, OneToOne
  <2> QED
    BY <2>1, <2>2
<1> QED
  BY <1>1, <1>2 DEF Behind

(* Root states reach unit 1 first and then unit after unit; packets reach  *)
(* the last unit first and then the one before: the orders that            *)
(* RootOrder and PacketOrder follow (gen_link.c, main).                    *)
THEOREM Opposite ==
    ASSUME NEW CUs \in Nat \ {0}
    PROVE  /\ Behind(CUs, Merge) = 1
           /\ \A u \in 1 .. CUs - 1 : Behind(CUs, SOut(u)) = u + 1
           /\ Behind(CUs, RngStart) = CUs
           /\ \A u \in 1 .. CUs - 1 : Behind(CUs, OOut(u + 1)) = u
<1> USE DEF Port, SIn, SOut, OIn, OOut, Merge, RngStart, RngEnd, RngMain, Connection
<1>1. Behind(CUs, Merge) = 1
  <2>1. Connection(Merge, SIn(1)) \in Connections(CUs) /\ 1 \in 1 .. CUs
    BY DEF Connections, RootConnections
  <2> QED
    BY <2>1, BehindIs
<1>2. ASSUME NEW u \in 1 .. CUs - 1 PROVE Behind(CUs, SOut(u)) = u + 1
  <2>1. Connection(SOut(u), SIn(u + 1)) \in Connections(CUs) /\ u + 1 \in 1 .. CUs
    BY DEF Connections, RootConnections
  <2> QED
    BY <2>1, BehindIs
<1>3. Behind(CUs, RngStart) = CUs
  <2>1. Connection(RngStart, OIn(CUs)) \in Connections(CUs) /\ CUs \in 1 .. CUs
    BY DEF Connections, PacketConnections
  <2> QED
    BY <2>1, BehindIs
<1>4. ASSUME NEW u \in 1 .. CUs - 1 PROVE Behind(CUs, OOut(u + 1)) = u
  <2>1. Connection(OOut(u + 1), OIn(u)) \in Connections(CUs) /\ u \in 1 .. CUs
    BY DEF Connections, PacketConnections
  <2> QED
    BY <2>1, BehindIs
<1> QED
  BY <1>1, <1>2, <1>3, <1>4

(* The n-th unit that root states reach is unit n.                         *)
LEMMA RootOrderIs ==
    ASSUME NEW CUs \in Nat \ {0}
    PROVE  \A n \in 1 .. CUs : RootOrder(CUs)[n] = n
<1> DEFINE Eq(f) == f = [n \in 1 .. CUs |-> Behind(CUs, IF n = 1 THEN Merge ELSE SOut(f[n - 1]))]
           order == RootOrder(CUs)
           T == {n \in 1 .. CUs : order[n] # n}
<1>1. \E f : Eq(f)
  <2>1. ASSUME NEW n \in 1 .. CUs
        PROVE  n = Behind(CUs, IF n = 1 THEN Merge ELSE SOut([m \in 1 .. CUs |-> m][n - 1]))
    <3>1. CASE n = 1
      BY <3>1, Opposite
    <3>2. CASE n # 1
      <4>1. n - 1 \in 1 .. CUs - 1 /\ n - 1 \in 1 .. CUs /\ n - 1 + 1 = n
        BY <3>2
      <4>2. Behind(CUs, SOut(n - 1)) = n
        BY <4>1, Opposite
      <4> QED
        BY <3>2, <4>1, <4>2
    <3> QED
      BY <3>1, <3>2
  <2>2. Eq([m \in 1 .. CUs |-> m])
    BY <2>1
  <2> QED
    BY <2>2
<1>2. order = CHOOSE f : Eq(f)
  BY DEF RootOrder
<1>3. Eq(order)
  BY <1>1, <1>2
<1>4. \A n \in 1 .. CUs :
          order[n] = Behind(CUs, IF n = 1 THEN Merge ELSE SOut(order[n - 1]))
  BY <1>3
<1> HIDE DEF order, Eq
<1>5. ASSUME T # {} PROVE FALSE
  <2>0. T \in SUBSET Nat
    OBVIOUS
  <2>1. PICK n \in T : \A m \in T : n <= m
    <3> HIDE DEF T
    <3> QED
      BY <1>5, <2>0, LeastNatural
  <2>2. n \in 1 .. CUs /\ order[n] # n
    BY <2>1
  <2>3. CASE n = 1
    BY <1>4, <2>2, <2>3, Opposite
  <2>4. CASE n # 1
    <3>1. n - 1 \in 1 .. CUs - 1 /\ n - 1 \in 1 .. CUs /\ n - 1 + 1 = n /\ ~(n <= n - 1)
      BY <2>2, <2>4
    <3>2. order[n - 1] = n - 1
      BY <2>1, <3>1
    <3>3. Behind(CUs, SOut(n - 1)) = n
      BY <3>1, Opposite
    <3> QED
      BY <1>4, <2>2, <2>4, <3>2, <3>3
  <2> QED
    BY <2>3, <2>4
<1> QED
  BY <1>5 DEF order

(* The n-th unit that packets reach is unit CUs + 1 - n.                   *)
LEMMA PacketOrderIs ==
    ASSUME NEW CUs \in Nat \ {0}
    PROVE  \A n \in 1 .. CUs : PacketOrder(CUs)[n] = CUs + 1 - n
<1> DEFINE Eq(f) == f = [n \in 1 .. CUs |-> Behind(CUs, IF n = 1 THEN RngStart ELSE OOut(f[n - 1]))]
           order == PacketOrder(CUs)
           T == {n \in 1 .. CUs : order[n] # CUs + 1 - n}
<1>0. ASSUME NEW n \in 1 .. CUs, n # 1
      PROVE  /\ n - 1 \in 1 .. CUs /\ CUs + 1 - (n - 1) \in 1 .. CUs
             /\ Behind(CUs, OOut(CUs + 1 - (n - 1))) = CUs + 1 - n
  <2>1. CUs + 1 - n \in 1 .. CUs - 1 /\ CUs + 1 - (n - 1) = CUs + 1 - n + 1
    BY <1>0
  <2>2. Behind(CUs, OOut(CUs + 1 - n + 1)) = CUs + 1 - n
    BY <2>1, Opposite
  <2> QED
    BY <1>0, <2>1, <2>2
<1>1. \E f : Eq(f)
  <2> DEFINE down == [m \in 1 .. CUs |-> CUs + 1 - m]
  <2>1. ASSUME NEW n \in 1 .. CUs
        PROVE  down[n] = Behind(CUs, IF n = 1 THEN RngStart ELSE OOut(down[n - 1]))
    <3>1. CASE n = 1
      BY <3>1, Opposite
    <3>2. CASE n # 1
      BY <1>0, <3>2
    <3> QED
      BY <3>1, <3>2
  <2>2. Eq(down)
    BY <2>1
  <2> QED
    BY <2>2
<1>2. order = CHOOSE f : Eq(f)
  BY DEF PacketOrder
<1>3. Eq(order)
  BY <1>1, <1>2
<1>4. \A n \in 1 .. CUs :
          order[n] = Behind(CUs, IF n = 1 THEN RngStart ELSE OOut(order[n - 1]))
  BY <1>3
<1> HIDE DEF order, Eq
<1>5. ASSUME T # {} PROVE FALSE
  <2>0. T \in SUBSET Nat
    OBVIOUS
  <2>1. PICK n \in T : \A m \in T : n <= m
    <3> HIDE DEF T
    <3> QED
      BY <1>5, <2>0, LeastNatural
  <2>2. n \in 1 .. CUs /\ order[n] # CUs + 1 - n
    BY <2>1
  <2>3. CASE n = 1
    BY <1>4, <2>2, <2>3, Opposite
  <2>4. CASE n # 1
    <3>1. n - 1 \in 1 .. CUs /\ ~(n <= n - 1)
      BY <2>2, <2>4
    <3>2. order[n - 1] = CUs + 1 - (n - 1)
      BY <2>1, <3>1
    <3> QED
      BY <1>0, <1>4, <2>2, <2>4, <3>2
  <2> QED
    BY <2>3, <2>4
<1> QED
  BY <1>5 DEF order

-----------------------------------------------------------------------------
(* Counting the leaf generators and the instances through all units.       *)
LEMMA Divided ==
    ASSUME NEW a \in Nat, NEW N \in Nat \ {0}, NEW q \in Nat, NEW m \in 0 .. N - 1,
           a = q * N + m
    PROVE  a \div N = q /\ a % N = m
<1>1. a % N \in 0 .. N - 1 /\ a \div N \in Int /\ a = N * (a \div N) + (a % N)
  BY ModFacts
<1>2. N * (a \div N) + (a % N) = N * q + m
  BY <1>1
<1>3. a % N = m
  <2> DEFINE x == a \div N
             r == a % N
  <2>1. x \in Int /\ r \in 0 .. N - 1 /\ N * x + r = N * q + m /\ q \in Int
    BY <1>1, <1>2
  <2> HIDE DEF x, r
  <2>2. r = m
    BY <2>1, SameRemainder
  <2> QED
    BY <2>2 DEF r
<1>4. N * (a \div N) = N * q
  BY <1>1, <1>2, <1>3
<1>5. \A x, y \in Int : N * x = N * y => x = y
  <2>1. \A z \in Int : N * z = 0 => z = 0
    OBVIOUS
  <2>2. ASSUME NEW x \in Int, NEW y \in Int, N * x = N * y PROVE x = y
    <3>1. N * (x - y) = 0
      BY <2>2
    <3> QED
      BY <2>1, <3>1
  <2> QED
    BY <2>2
<1> QED
  BY <1>1, <1>3, <1>4, <1>5

(* The unit that a place in a chain belongs to, and its place in there.    *)
LEMMA PlaceFacts ==
    ASSUME NEW g \in Position
    PROVE  \E q \in 0 .. Units - 1, m \in 0 .. NRNG - 1 :
               /\ g = q * NRNG + m /\ g \div NRNG = q /\ g % NRNG = m
               /\ UnitOfLeaf(g) = q + 1 /\ UnitOfInstance(g) = Units - q
<1> DEFINE q == g \div NRNG
           m == g % NRNG
<1>1. Units \in Nat \ {0} /\ NRNG \in Nat \ {0} /\ g \in Nat /\ g < Units * NRNG
  <2>1. Units \in Nat \ {0} /\ NRNG \in Nat \ {0}
    BY SizeAssumption
  <2>2. Units * NRNG \in Nat
    BY <2>1
  <2> QED
    BY <2>1, <2>2 DEF Position, Total
<1>2. q \in Int /\ m \in 0 .. NRNG - 1 /\ g = NRNG * q + m
  BY <1>1, ModFacts
<1> HIDE DEF q, m
<1>3. q \in 0 .. Units - 1
  <2>1. q >= 0
    <3>1. ASSUME q < 0 PROVE NRNG * q <= -NRNG
      <4>1. q + 1 <= 0 /\ NRNG * (q + 1) <= 0
        BY <1>1, <1>2, <3>1
      <4> QED
        BY <1>1, <1>2, <4>1
    <3> QED
      BY <1>1, <1>2, <3>1
  <2>2. q < Units
    <3>1. ASSUME q >= Units PROVE NRNG * q >= NRNG * Units
      <4>1. NRNG * (q - Units) >= 0
        BY <1>1, <1>2, <3>1
      <4> QED
        BY <1>1, <1>2, <4>1
    <3>2. NRNG * Units = Units * NRNG
      BY <1>1
    <3> QED
      BY <1>1, <1>2, <3>1, <3>2
  <2> QED
    BY <1>1, <1>2, <2>1, <2>2
<1>4. NRNG * q = q * NRNG
  BY <1>1, <1>2
<1>5. UnitOfLeaf(g) = q + 1
  <2>1. q + 1 \in 1 .. Units
    BY <1>1, <1>3
  <2>2. RootUnits[q + 1] = q + 1
    BY <1>1, <2>1, RootOrderIs DEF RootUnits
  <2> QED
    BY <2>2 DEF UnitOfLeaf, q
<1>6. UnitOfInstance(g) = Units - q
  <2>1. q + 1 \in 1 .. Units
    BY <1>1, <1>3
  <2>2. PacketUnits[q + 1] = Units + 1 - (q + 1)
    BY <1>1, <2>1, PacketOrderIs DEF PacketUnits
  <2>3. Units + 1 - (q + 1) = Units - q
    BY <1>1, <1>2
  <2>4. UnitOfInstance(g) = PacketUnits[q + 1]
    BY DEF UnitOfInstance, q
  <2> QED
    BY <2>2, <2>3, <2>4
<1> QED
  BY <1>2, <1>3, <1>4, <1>5, <1>6 DEF q, m

(* The pairing within the units runs the whole chain backwards.            *)
LEMMA PairingIs ==
    ASSUME NEW p \in Position
    PROVE  /\ LeafOf(p) = Total - 1 - p /\ LeafOf(p) \in Position
           /\ UnitOfLeaf(LeafOf(p)) = UnitOfInstance(p)
<1> DEFINE Fits(g) == UnitOfLeaf(g) = UnitOfInstance(p) /\ g % NRNG = NRNG - (p % NRNG) - 1
           c == Total - 1 - p
<1>0. Units \in Nat \ {0} /\ NRNG \in Nat \ {0} /\ Total \in Nat
  BY SizeAssumption DEF Total
<1>1. PICK q \in 0 .. Units - 1, m \in 0 .. NRNG - 1 :
        /\ p = q * NRNG + m /\ p \div NRNG = q /\ p % NRNG = m
        /\ UnitOfLeaf(p) = q + 1 /\ UnitOfInstance(p) = Units - q
  BY PlaceFacts
<1>2. c = (Units - 1 - q) * NRNG + (NRNG - 1 - m) /\ c \in Position
  <2>1. c = Units * NRNG - 1 - (q * NRNG + m)
    BY <1>1 DEF Total
  <2>2. Units * NRNG - 1 - (q * NRNG + m) = (Units - 1 - q) * NRNG + (NRNG - 1 - m)
    BY <1>0
  <2>3. c \in Position
    BY <1>0 DEF Position
  <2> QED
    BY <2>1, <2>2, <2>3
<1>3. ASSUME NEW g \in Position
      PROVE  Fits(g) <=> g = c
  <2>1. PICK k \in 0 .. Units - 1, n \in 0 .. NRNG - 1 :
          /\ g = k * NRNG + n /\ g \div NRNG = k /\ g % NRNG = n
          /\ UnitOfLeaf(g) = k + 1 /\ UnitOfInstance(g) = Units - k
    BY PlaceFacts
  <2>2. Fits(g) <=> k = Units - 1 - q /\ n = NRNG - 1 - m
    BY <1>0, <1>1, <2>1
  <2>3. g = c => k = Units - 1 - q /\ n = NRNG - 1 - m
    <3>1. g \in Nat /\ Units - 1 - q \in Nat /\ NRNG - 1 - m \in 0 .. NRNG - 1
      BY <1>0 DEF Position
    <3>2. ASSUME NEW i \in Nat, NEW j \in 0 .. NRNG - 1, g = i * NRNG + j
          PROVE  k = i /\ n = j
      <4>1. g \div NRNG = i /\ g % NRNG = j
        BY <1>0, <3>1, <3>2, Divided
      <4> QED
        BY <2>1, <4>1
    <3> HIDE DEF c
    <3> QED
      BY <1>2, <3>1, <3>2
  <2> HIDE DEF c, Fits
  <2> QED
    BY <1>2, <2>1, <2>2, <2>3
<1>4. LeafOf(p) = CHOOSE g \in Position : Fits(g)
  BY DEF LeafOf, Pairing
<1> HIDE DEF c, Fits
<1>5. LeafOf(p) = c
  BY <1>2, <1>3, <1>4
<1>6. Fits(c)
  BY <1>2, <1>3
<1> QED
  BY <1>2, <1>5, <1>6 DEF c, Fits

(* Ids tell instances, and leaf generators, apart.                         *)
LEMMA IdFacts ==
    ASSUME NEW p \in Position, NEW u \in Position
    PROVE  /\ InstanceId(p) = InstanceId(u) => p = u
           /\ LeafId(p) = LeafId(u) => p = u
<1>0. Units \in Nat \ {0} /\ NRNG \in Nat \ {0}
  BY SizeAssumption
<1>1. PICK q \in 0 .. Units - 1, m \in 0 .. NRNG - 1 :
        /\ p = q * NRNG + m /\ p \div NRNG = q /\ p % NRNG = m
        /\ UnitOfLeaf(p) = q + 1 /\ UnitOfInstance(p) = Units - q
  BY PlaceFacts
<1>2. PICK k \in 0 .. Units - 1, n \in 0 .. NRNG - 1 :
        /\ u = k * NRNG + n /\ u \div NRNG = k /\ u % NRNG = n
        /\ UnitOfLeaf(u) = k + 1 /\ UnitOfInstance(u) = Units - k
  BY PlaceFacts
<1>3. ASSUME NEW a \in Nat, NEW b \in Nat, a * NRNG + m = b * NRNG + n
      PROVE  a = b /\ m = n
  <2>1. a * NRNG + m \in Nat /\ b * NRNG + n \in Nat
    BY <1>0
  <2>2. (a * NRNG + m) \div NRNG = a /\ (a * NRNG + m) % NRNG = m
    BY <1>0, <2>1, Divided
  <2>3. (b * NRNG + n) \div NRNG = b /\ (b * NRNG + n) % NRNG = n
    BY <1>0, <2>1, Divided
  <2> QED
    BY <1>3, <2>2, <2>3
<1>4. ASSUME InstanceId(p) = InstanceId(u) PROVE p = u
  <2>1. (Units - q) * NRNG - 1 + m = (Units - k) * NRNG - 1 + n
    BY <1>1, <1>2, <1>4 DEF InstanceId, KernelId
  <2>2. Units - q \in Nat /\ Units - k \in Nat
    BY <1>0
  <2>3. (Units - q) * NRNG \in Int /\ (Units - k) * NRNG \in Int
    BY <1>0, <2>2
  <2>4. (Units - q) * NRNG + m = (Units - k) * NRNG + n
    BY <2>1, <2>3
  <2>5. Units - q = Units - k /\ m = n
    BY <1>3, <2>2, <2>4
  <2>6. q = k
    BY <1>0, <2>5
  <2> QED
    BY <1>1, <1>2, <2>5, <2>6
<1>5. ASSUME LeafId(p) = LeafId(u) PROVE p = u
  <2>1. 54 + ((q + 1) * NRNG - 1) + m = 54 + ((k + 1) * NRNG - 1) + n
    BY <1>1, <1>2, <1>5 DEF LeafId, KernelId
  <2>2. q + 1 \in Nat /\ k + 1 \in Nat
    BY <1>0
  <2>3. (q + 1) * NRNG \in Int /\ (k + 1) * NRNG \in Int
    BY <1>0, <2>2
  <2>4. (q + 1) * NRNG + m = (k + 1) * NRNG + n
    BY <2>1, <2>3
  <2>5. q + 1 = k + 1 /\ m = n
    BY <1>3, <2>2, <2>4
  <2>6. q = k
    BY <1>0, <2>5
  <2> QED
    BY <1>1, <1>2, <2>5, <2>6
<1> QED
  BY <1>4, <1>5

(* Every leaf generator serves one instance, in its own unit, and no two   *)
(* generators and no two instances share their parameters, for any number  *)
(* of units and instances (leaf_state[NRNG - i - 1], the ids of the        *)
(* template, gen_link.c).                                                  *)
THEOREM PairingOneToOne ==
    /\ \A p \in Position : LeafOf(p) \in Position /\ UnitOfLeaf(LeafOf(p)) = UnitOfInstance(p)
    /\ \A g \in Position : \E p \in Position : LeafOf(p) = g
    /\ \A p, u \in Position : p # u =>
           /\ LeafOf(p) # LeafOf(u)
           /\ InstanceId(p) # InstanceId(u)
           /\ LeafId(LeafOf(p)) # LeafId(LeafOf(u))
<1>1. Total \in Nat
  BY SizeAssumption DEF Total
<1>2. ASSUME NEW g \in Position PROVE \E p \in Position : LeafOf(p) = g
  <2>1. Total - 1 - g \in Position /\ Total - 1 - (Total - 1 - g) = g
    BY <1>1 DEF Position
  <2> QED
    BY <2>1, PairingIs
<1>3. ASSUME NEW p \in Position, NEW u \in Position, p # u PROVE LeafOf(p) # LeafOf(u)
  <2>1. Total - 1 - p # Total - 1 - u
    BY <1>1, <1>3 DEF Position
  <2> QED
    BY <2>1, PairingIs
<1> QED
  BY <1>2, <1>3, PairingIs, IdFacts

-----------------------------------------------------------------------------
(* The inductive invariant: the terms of the packets in front of an        *)
(* instance, and of the one in its hands, and how far the decorrelator of  *)
(* the instance before it is ahead, by the packets between the two.        *)
At(packet, j) == \A t \in packet : t.src = "xorshift" => t.at = j

IsSequence(q) == \E S : q \in Seq(S)

Shape ==
    /\ DOMAIN o = Link /\ \A l \in Link : IsSequence(o[l])
    /\ DOMAIN ireg = Position
    /\ ipc \in [Position -> {"read", "write"}]
    /\ sg \in [Position -> 0 .. Period - 1]

InHand(p) == IF ipc[p] = "write" THEN 1 ELSE 0

Empty == \A j \in DOMAIN o[0] : o[0][j] = {}
Aligned(p) == \A j \in DOMAIN o[p] : At(o[p][j], (sg[p] + j) % Period)
HandAligned(p) == ipc[p] = "write" => At(ireg[p], sg[p])
Ahead(p) == sg[p - 1] = (sg[p] + Len(o[p]) + InHand(p - 1)) % Period

IInv ==
    /\ Shape /\ Empty
    /\ \A p \in Position : HandAligned(p)
    /\ \A p \in Position \ {0} : Aligned(p) /\ Ahead(p)

LEMMA Inside == IInv => DecorrelatorsInStep
  BY DEF IInv, Aligned, At, DecorrelatorsInStep

LEMMA ChainFacts ==
    /\ Total \in Nat \ {0} /\ Period \in Nat \ {0}
    /\ 0 \in Link /\ 0 \in Position /\ Total \in Link
    /\ \A p \in Position : p \in Link /\ p + 1 \in Link /\ p \in Nat
    /\ \A p \in Position \ {0} : p - 1 \in Position /\ p - 1 # p
    /\ \A p, u \in Position : u = p + 1 <=> u - 1 = p
    /\ \A p \in Position \ {0}, u \in Position : u # p => u - 1 # p - 1
<1>1. Units \in Nat \ {0} /\ NRNG \in Nat \ {0} /\ Period \in Nat \ {0}
  BY SizeAssumption
<1>2. Units * NRNG \in Nat \ {0}
  BY <1>1
<1> QED
  BY <1>1, <1>2 DEF Total, Link, Position

LEMMA SequenceFacts ==
    ASSUME NEW q, IsSequence(q)
    PROVE  Len(q) \in Nat /\ DOMAIN q = 1 .. Len(q)
  BY LenProperties DEF IsSequence

LEMMA AppendSequence ==
    ASSUME NEW q, NEW e, IsSequence(q)
    PROVE  /\ IsSequence(Append(q, e)) /\ Len(Append(q, e)) = Len(q) + 1
           /\ \A j \in 1 .. Len(q) : Append(q, e)[j] = q[j]
           /\ Append(q, e)[Len(q) + 1] = e
<1>1. PICK S : q \in Seq(S)
  BY DEF IsSequence
<1>2. Len(q) \in Nat /\ q \in [1 .. Len(q) -> S]
  BY <1>1, LenProperties
<1>3. q \in [1 .. Len(q) -> S \cup {e}]
  BY <1>2
<1>4. q \in Seq(S \cup {e})
  BY <1>2, <1>3
<1> QED
  BY <1>4, AppendFacts DEF IsSequence

LEMMA TailSequence ==
    ASSUME NEW q, IsSequence(q), CanRead(q)
    PROVE  /\ IsSequence(Tail(q)) /\ Len(Tail(q)) = Len(q) - 1 /\ Len(q) \in Nat \ {0}
           /\ \A j \in 1 .. Len(q) - 1 : Tail(q)[j] = q[j + 1]
           /\ Head(q) = q[1]
<1>1. PICK S : q \in Seq(S)
  BY DEF IsSequence
<1>2. q # <<>>
  BY DEF CanRead
<1> QED
  BY <1>1, <1>2, TailFacts DEF IsSequence

LEMMA XorAt ==
    ASSUME NEW a, NEW b, NEW j, At(a, j), At(b, j)
    PROVE  At(XOR(a, b), j)
  BY DEF At, XOR

(* What an instance adds belongs to the position it has jumped to.         *)
LEMMA OutputAt ==
    ASSUME NEW p
    PROVE  At(Output(p), Jumped(p))
<1> DEFINE a == JumpTerm(p, Jumped(p))
           b == LeafTerm(LeafOf(p), Head(leaf[LeafOf(p)]))
<1>1. a.src = "xorshift" /\ a.at = Jumped(p) /\ b.src = "leaf"
  BY DEF JumpTerm, LeafTerm
<1> HIDE DEF a, b
<1>2. At({a}, Jumped(p)) /\ At({b}, Jumped(p))
  BY <1>1 DEF At
<1> QED
  BY <1>2, XorAt DEF Output, a, b

LEMMA JumpedFacts ==
    ASSUME Shape, NEW p \in Position
    PROVE  /\ sg[p] \in Int /\ Jumped(p) \in 0 .. Period - 1 /\ Jumped(p) = (sg[p] + 1) % Period
           /\ \A n \in Int : (Jumped(p) + n) % Period = (sg[p] + 1 + n) % Period
<1>1. sg[p] \in Int /\ Period \in Nat \ {0}
  BY SizeAssumption DEF Shape
<1>2. sg[p] + 1 \in Int
  BY <1>1
<1> QED
  BY <1>1, <1>2, ModFacts, ModPlus DEF Jumped

(* An instance takes a packet.                                             *)
LEMMA CombineStep ==
    ASSUME IInv, NEW p \in Position, Combine(p)
    PROVE  IInv'
<1>1. Shape /\ Empty /\ (\A u \in Position : HandAligned(u))
      /\ (\A u \in Position \ {0} : Aligned(u) /\ Ahead(u))
  BY DEF IInv
<1>2. PICK e \in {Head(o[p]), XOR(Head(o[p]), Output(p))} :
        /\ ipc[p] = "read" /\ CanRead(o[p])
        /\ ireg' = [ireg EXCEPT ![p] = e]
        /\ sg' = [sg EXCEPT ![p] = Jumped(p)]
        /\ o' = [o EXCEPT ![p] = Tail(@)]
        /\ ipc' = [ipc EXCEPT ![p] = "write"]
  BY DEF Combine
<1>3. p \in Link /\ IsSequence(o[p])
  BY <1>1, ChainFacts DEF Shape
<1>4. /\ IsSequence(Tail(o[p])) /\ Len(Tail(o[p])) = Len(o[p]) - 1 /\ Len(o[p]) \in Nat \ {0}
      /\ \A j \in 1 .. Len(o[p]) - 1 : Tail(o[p])[j] = o[p][j + 1]
      /\ Head(o[p]) = o[p][1]
  BY <1>2, <1>3, TailSequence
<1>5. DOMAIN o[p] = 1 .. Len(o[p]) /\ DOMAIN Tail(o[p]) = 1 .. Len(o[p]) - 1
  BY <1>3, <1>4, SequenceFacts
<1>6. \A l \in Link : o'[l] = IF l = p THEN Tail(o[p]) ELSE o[l]
  BY <1>1, <1>2 DEF Shape
<1>7. /\ \A u \in Position : sg'[u] = IF u = p THEN Jumped(p) ELSE sg[u]
      /\ \A u \in Position : ipc'[u] = IF u = p THEN "write" ELSE ipc[u]
      /\ \A u \in Position : ireg'[u] = IF u = p THEN e ELSE ireg[u]
  BY <1>1, <1>2 DEF Shape
<1>8. sg[p] \in Int /\ Jumped(p) \in Int
  BY <1>1, JumpedFacts
<1>9. Shape'
  <2>1. sg' \in [Position -> 0 .. Period - 1] /\ ipc' \in [Position -> {"read", "write"}]
    BY <1>1, <1>2, JumpedFacts DEF Shape
  <2> QED
    BY <1>1, <1>2, <1>4, <1>6, <2>1 DEF Shape
<1>10. Empty'
  <2>1. CASE p = 0
    <3>1. ASSUME NEW j \in 1 .. Len(o[p]) - 1 PROVE Tail(o[p])[j] = {}
      <4>1. j + 1 \in 1 .. Len(o[p])
        BY <1>4
      <4> QED
        BY <1>1, <1>4, <1>5, <2>1, <4>1 DEF Empty
    <3>2. o'[0] = Tail(o[p])
      BY <1>6, <2>1, ChainFacts
    <3> QED
      BY <1>5, <3>1, <3>2 DEF Empty
  <2>2. CASE p # 0
    BY <1>1, <1>6, <2>2, ChainFacts DEF Empty
  <2> QED
    BY <2>1, <2>2
<1>11. ASSUME NEW u \in Position PROVE HandAligned(u)'
  <2>1. At(Head(o[p]), Jumped(p))
    <3>1. CASE p = 0
      BY <1>1, <1>4, <1>5, <3>1 DEF Empty, At
    <3>2. CASE p # 0
      <4>1. At(o[p][1], (sg[p] + 1) % Period)
        BY <1>1, <1>4, <1>5, <3>2 DEF Aligned
      <4> QED
        BY <1>1, <1>4, <4>1, JumpedFacts
    <3> QED
      BY <3>1, <3>2
  <2>2. At(e, Jumped(p))
    BY <1>2, <2>1, OutputAt, XorAt
  <2>3. CASE u = p
    BY <1>7, <2>2, <2>3 DEF HandAligned, At
  <2>4. CASE u # p
    BY <1>1, <1>7, <2>4 DEF HandAligned, At
  <2> QED
    BY <2>3, <2>4
<1>12. ASSUME NEW u \in Position \ {0} PROVE Aligned(u)'
  <2>1. CASE u = p
    <3>1. ASSUME NEW j \in 1 .. Len(o[p]) - 1
          PROVE  At(Tail(o[p])[j], (Jumped(p) + j) % Period)
      <4>1. At(o[p][j + 1], (sg[p] + (j + 1)) % Period)
        BY <1>1, <1>4, <1>5, <2>1 DEF Aligned
      <4>2. (Jumped(p) + j) % Period = (sg[p] + 1 + j) % Period
        BY <1>1, JumpedFacts
      <4>3. sg[p] + 1 + j = sg[p] + (j + 1)
        BY <1>8
      <4> QED
        BY <1>4, <4>1, <4>2, <4>3
    <3> QED
      BY <1>3, <1>5, <1>6, <1>7, <2>1, <3>1 DEF Aligned, At
  <2>2. CASE u # p
    BY <1>1, <1>6, <1>7, <2>2, ChainFacts DEF Aligned, At
  <2> QED
    BY <2>1, <2>2
<1>13. ASSUME NEW u \in Position \ {0} PROVE Ahead(u)'
  <2>0. /\ u - 1 \in Position /\ u - 1 # u /\ u \in Link
        /\ sg[u] \in Int /\ sg[u - 1] \in Int
    BY <1>1, ChainFacts, JumpedFacts
  <2>1. sg[u - 1] = (sg[u] + Len(o[u]) + InHand(u - 1)) % Period
    BY <1>1 DEF Ahead
  <2>2. CASE u = p
    <3>1. sg'[u - 1] = sg[u - 1] /\ InHand(u - 1)' = InHand(u - 1) /\ sg'[u] = Jumped(p)
      BY <1>7, <2>0, <2>2 DEF InHand
    <3>2. Len(o[p]) - 1 + InHand(u - 1) \in Int
      BY <1>4 DEF InHand
    <3>3. (Jumped(p) + (Len(o[p]) - 1 + InHand(u - 1))) % Period
            = (sg[p] + 1 + (Len(o[p]) - 1 + InHand(u - 1))) % Period
      BY <1>1, <3>2, JumpedFacts
    <3>4. /\ sg[p] + 1 + (Len(o[p]) - 1 + InHand(u - 1)) = sg[p] + Len(o[p]) + InHand(u - 1)
          /\ Jumped(p) + (Len(o[p]) - 1 + InHand(u - 1))
               = Jumped(p) + (Len(o[p]) - 1) + InHand(u - 1)
      <4> DEFINE len == Len(o[p])
                 hand == InHand(u - 1)
                 jump == Jumped(p)
                 now == sg[p]
      <4>1. len \in Int /\ hand \in Int /\ jump \in Int /\ now \in Int
        BY <1>1, <1>4, <1>8 DEF InHand
      <4> HIDE DEF len, hand, jump, now
      <4>2. /\ now + 1 + (len - 1 + hand) = now + len + hand
            /\ jump + (len - 1 + hand) = jump + (len - 1) + hand
        BY <4>1
      <4> QED
        BY <4>2 DEF len, hand, jump, now
    <3>5. Len(o'[u]) = Len(o[p]) - 1
      BY <1>4, <1>6, <2>0, <2>2
    <3> QED
      BY <2>1, <2>2, <3>1, <3>3, <3>4, <3>5 DEF Ahead
  <2>3. CASE u - 1 = p
    <3>1. /\ sg'[u - 1] = Jumped(p) /\ InHand(u - 1) = 0 /\ InHand(u - 1)' = 1
          /\ sg'[u] = sg[u] /\ o'[u] = o[u]
      BY <1>2, <1>6, <1>7, <2>0, <2>3 DEF InHand
    <3>2. Len(o[u]) \in Nat /\ Period \in Nat \ {0}
      BY <1>1, <2>0, SequenceFacts, ChainFacts DEF Shape
    <3>3. sg[p] = (sg[u] + Len(o[u])) % Period
      <4>1. sg[u] + Len(o[u]) + 0 = sg[u] + Len(o[u])
        BY <2>0, <3>2
      <4> QED
        BY <2>1, <2>3, <3>1, <4>1
    <3>4. Jumped(p) = (sg[u] + Len(o[u]) + 1) % Period
      <4> DEFINE a == sg[u] + Len(o[u])
      <4>1. a \in Int /\ sg[p] = a % Period
        BY <2>0, <3>2, <3>3
      <4> HIDE DEF a
      <4>2. \A m \in Int : ((a % Period) + m) % Period = (a + m) % Period
        BY <3>2, <4>1, ModPlus
      <4>3. Jumped(p) = (a + 1) % Period
        BY <4>1, <4>2 DEF Jumped
      <4> QED
        BY <4>3 DEF a
    <3> QED
      BY <3>1, <3>4 DEF Ahead
  <2>4. CASE u # p /\ u - 1 # p
    <3>1. /\ sg'[u - 1] = sg[u - 1] /\ InHand(u - 1)' = InHand(u - 1)
          /\ sg'[u] = sg[u] /\ o'[u] = o[u]
      BY <1>6, <1>7, <2>0, <2>4 DEF InHand
    <3> QED
      BY <2>1, <3>1 DEF Ahead
  <2> QED
    BY <2>2, <2>3, <2>4
<1> QED
  BY <1>9, <1>10, <1>11, <1>12, <1>13 DEF IInv

(* An instance passes a packet on.                                         *)
LEMMA PutPacketStep ==
    ASSUME IInv, NEW p \in Position, PutPacket(p)
    PROVE  IInv'
<1> DEFINE l == p + 1
<1>1. Shape /\ Empty /\ (\A u \in Position : HandAligned(u))
      /\ (\A u \in Position \ {0} : Aligned(u) /\ Ahead(u))
  BY DEF IInv
<1>2. /\ l \in Link /\ l # 0 /\ l # p /\ l - 1 = p
      /\ \A u \in Position \ {0} : u # l => u - 1 # p
      /\ \A u \in Position \ {0} : u \in Link /\ u - 1 \in Position
  BY ChainFacts
<1>3. /\ ipc[p] = "write"
      /\ o' = [o EXCEPT ![l] = Append(@, ireg[p])]
      /\ ipc' = [ipc EXCEPT ![p] = "read"]
      /\ ireg' = [ireg EXCEPT ![p] = {}]
      /\ sg' = sg
  BY DEF PutPacket, rootVars
<1> HIDE DEF l
<1>4. IsSequence(o[l])
  BY <1>1, <1>2 DEF Shape
<1>5. /\ IsSequence(Append(o[l], ireg[p])) /\ Len(Append(o[l], ireg[p])) = Len(o[l]) + 1
      /\ \A j \in 1 .. Len(o[l]) : Append(o[l], ireg[p])[j] = o[l][j]
      /\ Append(o[l], ireg[p])[Len(o[l]) + 1] = ireg[p]
  BY <1>4, AppendSequence
<1>6. /\ Len(o[l]) \in Nat /\ DOMAIN o[l] = 1 .. Len(o[l])
      /\ DOMAIN Append(o[l], ireg[p]) = 1 .. Len(o[l]) + 1
  BY <1>4, <1>5, SequenceFacts
<1>7. \A k \in Link : o'[k] = IF k = l THEN Append(o[l], ireg[p]) ELSE o[k]
  BY <1>1, <1>3 DEF Shape
<1>8. /\ \A u \in Position : ipc'[u] = IF u = p THEN "read" ELSE ipc[u]
      /\ \A u \in Position : ireg'[u] = IF u = p THEN {} ELSE ireg[u]
  BY <1>1, <1>3 DEF Shape
<1>9. Shape'
  BY <1>1, <1>3, <1>5, <1>7 DEF Shape
<1>10. Empty'
  BY <1>1, <1>2, <1>7, ChainFacts DEF Empty
<1>11. ASSUME NEW u \in Position PROVE HandAligned(u)'
  BY <1>1, <1>3, <1>8 DEF HandAligned, At
<1>12. ASSUME NEW u \in Position \ {0} PROVE Aligned(u)'
  <2>1. CASE u = l
    <3>1. ASSUME NEW j \in 1 .. Len(o[l]) + 1
          PROVE  At(Append(o[l], ireg[p])[j], (sg[u] + j) % Period)
      <4>1. CASE j \in 1 .. Len(o[l])
        BY <1>1, <1>5, <1>6, <2>1, <4>1 DEF Aligned
      <4>2. CASE j = Len(o[l]) + 1
        <5>1. At(ireg[p], sg[p])
          BY <1>1, <1>3 DEF HandAligned
        <5>2. sg[p] = (sg[u] + Len(o[l]) + 1) % Period
          BY <1>1, <1>2, <1>3, <2>1 DEF Ahead, InHand
        <5>3. sg[u] + Len(o[l]) + 1 = sg[u] + j
          <6>1. sg[u] \in Int
            BY <1>1, JumpedFacts
          <6> QED
            BY <1>6, <4>2, <6>1
        <5> QED
          BY <1>5, <4>2, <5>1, <5>2, <5>3
      <4> QED
        BY <1>6, <4>1, <4>2
    <3> QED
      BY <1>2, <1>3, <1>6, <1>7, <2>1, <3>1 DEF Aligned, At
  <2>2. CASE u # l
    BY <1>1, <1>2, <1>3, <1>7, <2>2 DEF Aligned, At
  <2> QED
    BY <2>1, <2>2
<1>13. ASSUME NEW u \in Position \ {0} PROVE Ahead(u)'
  <2>1. sg[u - 1] = (sg[u] + Len(o[u]) + InHand(u - 1)) % Period
    BY <1>1 DEF Ahead
  <2>2. CASE u = l
    <3>1. InHand(p) = 1 /\ InHand(p)' = 0 /\ Len(o'[u]) = Len(o[u]) + 1
      <4>1. InHand(p) = 1 /\ InHand(p)' = 0
        BY <1>3, <1>8 DEF InHand
      <4>2. o'[u] = Append(o[l], ireg[p])
        BY <1>2, <1>7, <2>2
      <4> QED
        BY <1>5, <2>2, <4>1, <4>2
    <3>2. sg[u] + Len(o[u]) + 1 = sg[u] + (Len(o[u]) + 1) + 0
      <4>1. sg[u] \in Int /\ Len(o[u]) \in Int
        BY <1>1, <1>6, <2>2, JumpedFacts
      <4> QED
        BY <4>1
    <3>3. sg[p] = (sg[u] + (Len(o[u]) + 1) + 0) % Period
      BY <1>2, <2>1, <2>2, <3>1, <3>2
    <3>4. sg'[u - 1] = (sg'[u] + Len(o'[u]) + InHand(p)') % Period
      BY <1>2, <1>3, <2>2, <3>1, <3>3
    <3>5. InHand(u - 1)' = InHand(p)'
      BY <1>2, <2>2
    <3> QED
      BY <3>4, <3>5 DEF Ahead
  <2>3. CASE u # l
    <3>1. InHand(u - 1)' = InHand(u - 1) /\ o'[u] = o[u]
      BY <1>2, <1>7, <1>8, <2>3 DEF InHand
    <3> QED
      BY <1>3, <2>1, <3>1 DEF Ahead
  <2> QED
    BY <2>2, <2>3
<1> QED
  BY <1>9, <1>10, <1>11, <1>12, <1>13 DEF IInv

(* The ends of the chain: the first stream gets empty packets, the last is *)
(* in front of no instance.                                                *)
LEMMA EndsStep ==
    ASSUME IInv, StartPacket \/ Draw
    PROVE  IInv'
<1>1. Shape /\ Empty /\ (\A u \in Position : HandAligned(u))
      /\ (\A u \in Position \ {0} : Aligned(u) /\ Ahead(u))
  BY DEF IInv
<1> DEFINE Written(l, q) ==
             /\ IsSequence(q) /\ o' = [o EXCEPT ![l] = q]
             /\ ipc' = ipc /\ ireg' = ireg /\ sg' = sg
             /\ l = 0 => \A j \in DOMAIN q : q[j] = {}
<1>e. \E l \in {0, Total} : \E q : Written(l, q)
  <2>1. CASE StartPacket
    <3>1. IsSequence(o[0])
      BY <1>1, ChainFacts DEF Shape
    <3>2. /\ IsSequence(Append(o[0], {})) /\ Len(Append(o[0], {})) = Len(o[0]) + 1
          /\ \A j \in 1 .. Len(o[0]) : Append(o[0], {})[j] = o[0][j]
          /\ Append(o[0], {})[Len(o[0]) + 1] = {}
      BY <3>1, AppendSequence
    <3>3. /\ Len(o[0]) \in Nat /\ DOMAIN o[0] = 1 .. Len(o[0])
          /\ DOMAIN Append(o[0], {}) = 1 .. Len(o[0]) + 1
      BY <3>1, <3>2, SequenceFacts
    <3>4. \A j \in DOMAIN Append(o[0], {}) : Append(o[0], {})[j] = {}
      <4> TAKE j \in DOMAIN Append(o[0], {})
      <4>1. j \in 1 .. Len(o[0]) \/ j = Len(o[0]) + 1
        BY <3>3
      <4> QED
        BY <1>1, <3>2, <3>3, <4>1 DEF Empty
    <3>5. Written(0, Append(o[0], {}))
      BY <2>1, <3>2, <3>4 DEF StartPacket
    <3> QED
      BY <3>5
  <2>2. CASE Draw
    <3>1. IsSequence(o[Total]) /\ CanRead(o[Total])
      BY <1>1, <2>2, ChainFacts DEF Shape, Draw
    <3>2. IsSequence(Tail(o[Total])) /\ Total # 0
      BY <3>1, TailSequence, ChainFacts
    <3>3. Written(Total, Tail(o[Total]))
      BY <2>2, <3>2 DEF Draw
    <3> QED
      BY <3>3
  <2> QED
    BY <2>1, <2>2
<1>f. PICK l \in {0, Total} : \E q : Written(l, q)
  BY <1>e
<1>g. PICK q : Written(l, q)
  BY <1>f
<1>2. /\ l \in {0, Total} /\ IsSequence(q) /\ o' = [o EXCEPT ![l] = q]
      /\ ipc' = ipc /\ ireg' = ireg /\ sg' = sg
      /\ l = 0 => \A j \in DOMAIN q : q[j] = {}
  BY <1>g
<1> HIDE DEF Written
<1>3. \A k \in Link : o'[k] = IF k = l THEN q ELSE o[k]
  BY <1>1, <1>2 DEF Shape
<1>4. \A u \in Position \ {0} : u \in Link /\ u # l
  BY ChainFacts DEF Position, Link
<1>5. Shape'
  BY <1>1, <1>2, <1>3 DEF Shape
<1>6. Empty'
  BY <1>1, <1>2, <1>3, ChainFacts DEF Empty
<1>7. \A u \in Position : HandAligned(u)'
  BY <1>1, <1>2 DEF HandAligned, At
<1>8. \A u \in Position \ {0} : Aligned(u)' /\ Ahead(u)'
  BY <1>1, <1>2, <1>3, <1>4 DEF Aligned, At, Ahead, InHand
<1> QED
  BY <1>5, <1>6, <1>7, <1>8 DEF IInv

LEMMA SameStep ==
    ASSUME IInv, UNCHANGED packetVars
    PROVE  IInv'
<1>1. o' = o /\ ipc' = ipc /\ ireg' = ireg /\ sg' = sg
  BY DEF packetVars
<1> QED
  BY <1>1 DEF IInv, Shape, Empty, HandAligned, Aligned, At, Ahead, InHand

LEMMA InitIInv == Init => IInv
<1> SUFFICES ASSUME Init PROVE IInv
  OBVIOUS
<1>1. o = [l \in Link |-> <<>>] /\ sg = [p \in Position |-> 0]
      /\ ipc = [p \in Position |-> "read"] /\ ireg = [p \in Position |-> {}]
  BY DEF Init
<1>2. 0 \in 0 .. Period - 1 /\ 0 % Period = 0
  BY ChainFacts
<1>3. IsSequence(<<>>)
  BY DEF IsSequence
<1>4. Shape
  BY <1>1, <1>2, <1>3 DEF Shape
<1>5. Empty /\ \A u \in Position : HandAligned(u)
  BY <1>1, ChainFacts DEF Empty, HandAligned
<1>6. ASSUME NEW u \in Position \ {0} PROVE Aligned(u) /\ Ahead(u)
  <2>1. u \in Link /\ u - 1 \in Position
    BY ChainFacts
  <2>2. Aligned(u)
    BY <1>1, <2>1 DEF Aligned
  <2>3. Len(o[u]) = 0 /\ InHand(u - 1) = 0 /\ sg[u] = 0 /\ sg[u - 1] = 0
    BY <1>1, <2>1 DEF InHand
  <2> QED
    BY <1>2, <2>2, <2>3 DEF Ahead
<1> QED
  BY <1>4, <1>5, <1>6 DEF IInv

LEMMA NextIInv == IInv /\ [Next]_vars => IInv'
<1> SUFFICES ASSUME IInv, [Next]_vars PROVE IInv'
  OBVIOUS
<1>1. CASE \E g \in Position : LeafRead(g) \/ LeafForward(g) \/ LeafWrite(g)
  BY <1>1, SameStep DEF LeafRead, LeafForward, LeafWrite
<1>2. CASE RootIn \/ SinkRoot
  BY <1>2, SameStep DEF RootIn, SinkRoot
<1>3. CASE UNCHANGED vars
  BY <1>3, SameStep DEF vars, packetVars
<1> QED
  BY <1>1, <1>2, <1>3, CombineStep, PutPacketStep, EndsStep DEF Next

(* The numbers that are XORed into one packet come from the same position  *)
(* of all xorshift generators, whichever instances missed their leaf       *)
(* number, for any number of units and instances and any capacities        *)
(* (instance: sg_state is updated before read_nb).                         *)
THEOREM DecorrelatorsCorrect == Spec => []DecorrelatorsInStep
<1>1. Init => IInv
  BY InitIInv
<1>2. IInv /\ [Next]_vars => IInv'
  BY NextIInv
<1>3. IInv => DecorrelatorsInStep
  BY Inside
<1> QED
  BY <1>1, <1>2, <1>3, PTL DEF Spec

-----------------------------------------------------------------------------
(* The type invariant, with the domains of the functions it speaks about.  *)
LinkQueues(q, S) ==
    DOMAIN q = Link /\ \A l \in Link : q[l] \in Seq(S) /\ Len(q[l]) <= Capacity(l)

LeafQueues == DOMAIN leaf = Position
    /\ \A g \in Position : leaf[g] \in Seq(Root) /\ Len(leaf[g]) <= Depth

LeafRegisters ==
    /\ DOMAIN lreg = Position /\ lpc \in [Position -> {"read", "forward", "leaf"}]
    /\ \A g \in Position : lreg[g] \in IF lpc[g] = "read" THEN {NoVal} ELSE Root
    /\ root \in Root

InstanceRegisters ==
    /\ ipc \in [Position -> {"read", "write"}]
    /\ ireg \in [Position -> SUBSET Term]
    /\ sg \in [Position -> 0 .. Period - 1]

TInv ==
    /\ LinkQueues(s, Root) /\ LinkQueues(o, SUBSET Term) /\ LeafQueues
    /\ LeafRegisters /\ InstanceRegisters

LEMMA CapacityFacts == Depth \in Nat \ {0} /\ \A l \in Link : Capacity(l) \in Nat \ {0}
  BY SizeAssumption DEF Capacity

LEMMA LinkAppend ==
    ASSUME NEW q, NEW S, LinkQueues(q, S), NEW l \in Link, NEW e \in S,
           CanWrite(q[l], Capacity(l))
    PROVE  LinkQueues([q EXCEPT ![l] = Append(@, e)], S)
<1>1. /\ Append(q[l], e) \in Seq(S) /\ Len(Append(q[l], e)) = Len(q[l]) + 1
      /\ Len(q[l]) \in Nat /\ Capacity(l) \in Nat
  BY AppendFacts, CapacityFacts DEF LinkQueues
<1>2. Len(Append(q[l], e)) <= Capacity(l)
  BY <1>1 DEF CanWrite
<1> QED
  BY <1>1, <1>2 DEF LinkQueues

LEMMA LinkTail ==
    ASSUME NEW q, NEW S, LinkQueues(q, S), NEW l \in Link, CanRead(q[l])
    PROVE  Head(q[l]) \in S /\ LinkQueues([q EXCEPT ![l] = Tail(@)], S)
<1>1. /\ q[l] \in Seq(S) /\ Len(q[l]) <= Capacity(l) /\ q[l] # <<>> /\ Capacity(l) \in Nat
  BY CapacityFacts DEF LinkQueues, CanRead
<1>2. /\ Head(q[l]) \in S /\ Tail(q[l]) \in Seq(S) /\ Len(q[l]) \in Nat
      /\ Len(Tail(q[l])) = Len(q[l]) - 1
  BY <1>1, TailFacts
<1>3. Len(Tail(q[l])) <= Capacity(l)
  BY <1>1, <1>2
<1> QED
  BY <1>2, <1>3 DEF LinkQueues

LEMMA RootInType == ASSUME TInv, RootIn PROVE TInv'
<1>1. /\ CanWrite(s[0], Capacity(0)) /\ s' = [s EXCEPT ![0] = Append(@, root)]
      /\ root' = RootStep[root] /\ 0 \in Link
      /\ leaf' = leaf /\ lpc' = lpc /\ lreg' = lreg
      /\ o' = o /\ ipc' = ipc /\ ireg' = ireg /\ sg' = sg
  BY ChainFacts DEF RootIn, packetVars
<1>2. root \in Root /\ root' \in Root
  BY <1>1, RootAssumption DEF TInv, LeafRegisters
<1>3. LinkQueues(s', Root)
  BY <1>1, <1>2, LinkAppend DEF TInv
<1>4. LeafQueues' /\ LeafRegisters' /\ InstanceRegisters'
  BY <1>1, <1>2 DEF TInv, LeafQueues, LeafRegisters, InstanceRegisters
<1> QED
  BY <1>1, <1>3, <1>4 DEF TInv

LEMMA LeafType ==
    ASSUME TInv, NEW g \in Position, LeafRead(g) \/ LeafForward(g) \/ LeafWrite(g)
    PROVE  TInv'
<1>1. /\ root' = root /\ o' = o /\ ipc' = ipc /\ ireg' = ireg /\ sg' = sg
      /\ g \in Link /\ g + 1 \in Link
  BY ChainFacts DEF LeafRead, LeafForward, LeafWrite, packetVars
<1>2. InstanceRegisters' /\ LinkQueues(o', SUBSET Term)
  BY <1>1 DEF TInv, InstanceRegisters
<1>3. CASE LeafRead(g)
  <2>1. /\ lpc[g] = "read" /\ CanRead(s[g]) /\ lreg' = [lreg EXCEPT ![g] = Head(s[g])]
        /\ s' = [s EXCEPT ![g] = Tail(@)] /\ lpc' = [lpc EXCEPT ![g] = "forward"]
        /\ leaf' = leaf
    BY <1>3 DEF LeafRead
  <2>2. Head(s[g]) \in Root /\ LinkQueues(s', Root)
    BY <1>1, <2>1, LinkTail DEF TInv
  <2>3. LeafRegisters' /\ LeafQueues'
    BY <1>1, <2>1, <2>2 DEF TInv, LeafRegisters, LeafQueues
  <2> QED
    BY <1>2, <2>2, <2>3 DEF TInv
<1>4. CASE LeafForward(g)
  <2>1. /\ lpc[g] = "forward" /\ CanWrite(s[g + 1], Capacity(g + 1)) /\ lreg' = lreg
        /\ s' = [s EXCEPT ![g + 1] = Append(@, lreg[g])]
        /\ lpc' = [lpc EXCEPT ![g] = "leaf"] /\ leaf' = leaf
    BY <1>4 DEF LeafForward
  <2>2. lreg[g] \in Root
    BY <2>1 DEF TInv, LeafRegisters
  <2>3. LinkQueues(s', Root)
    BY <1>1, <2>1, <2>2, LinkAppend DEF TInv
  <2>4. LeafRegisters' /\ LeafQueues'
    BY <1>1, <2>1, <2>2 DEF TInv, LeafRegisters, LeafQueues
  <2> QED
    BY <1>2, <2>3, <2>4 DEF TInv
<1>5. CASE LeafWrite(g)
  <2>1. /\ lpc[g] = "leaf" /\ Len(leaf[g]) < Depth
        /\ lreg' = [lreg EXCEPT ![g] = NoVal] /\ s' = s
        /\ lpc' = [lpc EXCEPT ![g] = "read"]
        /\ leaf' = [leaf EXCEPT ![g] = Append(@, lreg[g])]
    BY <1>5 DEF LeafWrite, CanWrite
  <2>2. lreg[g] \in Root /\ leaf[g] \in Seq(Root) /\ Depth \in Nat
    BY <2>1, CapacityFacts DEF TInv, LeafRegisters, LeafQueues
  <2>3. /\ Append(leaf[g], lreg[g]) \in Seq(Root) /\ Len(leaf[g]) \in Nat
        /\ Len(Append(leaf[g], lreg[g])) = Len(leaf[g]) + 1
    BY <2>2, AppendFacts
  <2>4. Len(Append(leaf[g], lreg[g])) <= Depth
    BY <2>1, <2>2, <2>3
  <2>5. LeafQueues'
    BY <2>1, <2>3, <2>4 DEF TInv, LeafQueues
  <2>6. LeafRegisters' /\ LinkQueues(s', Root)
    BY <1>1, <2>1 DEF TInv, LeafRegisters
  <2> QED
    BY <1>2, <2>5, <2>6 DEF TInv
<1> QED
  BY <1>3, <1>4, <1>5

(* What an instance adds to a packet, when its leaf stream holds a number. *)
LEMMA OutputTerms ==
    ASSUME TInv, NEW p \in Position, CanRead(leaf[LeafOf(p)])
    PROVE  /\ Head(leaf[LeafOf(p)]) \in Root /\ Jumped(p) \in 0 .. Period - 1
           /\ Output(p) = {JumpTerm(p, Jumped(p)), LeafTerm(LeafOf(p), Head(leaf[LeafOf(p)]))}
           /\ Output(p) \subseteq Term
<1> DEFINE h == Head(leaf[LeafOf(p)])
           n == Jumped(p)
<1>1. LeafOf(p) \in Position
  BY PairingIs
<1>2. h \in Root
  <2>1. leaf[LeafOf(p)] \in Seq(Root) /\ leaf[LeafOf(p)] # <<>>
    BY <1>1 DEF TInv, LeafQueues, CanRead
  <2> QED
    BY <2>1, TailFacts
<1>3. n \in 0 .. Period - 1
  <2>1. sg[p] + 1 \in Int /\ Period \in Nat \ {0}
    BY ChainFacts DEF TInv, InstanceRegisters
  <2> QED
    BY <2>1, ModFacts DEF Jumped
<1>4. Output(p) = XOR({JumpTerm(p, n)}, {LeafTerm(LeafOf(p), h)})
  BY DEF Output
<1> HIDE DEF h, n
<1>5. JumpTerm(p, n) # LeafTerm(LeafOf(p), h)
  <2>1. JumpTerm(p, n).src = "xorshift" /\ LeafTerm(LeafOf(p), h).src = "leaf"
    BY DEF JumpTerm, LeafTerm
  <2> QED
    BY <2>1
<1>6. Output(p) = {JumpTerm(p, n), LeafTerm(LeafOf(p), h)}
  BY <1>4, <1>5 DEF XOR
<1>7. JumpTerm(p, n) \in Term /\ LeafTerm(LeafOf(p), h) \in Term
  BY <1>1, <1>2, <1>3 DEF Term
<1> QED
  BY <1>2, <1>3, <1>6, <1>7 DEF h, n

LEMMA CombineType == ASSUME TInv, NEW p \in Position, Combine(p) PROVE TInv'
<1> DEFINE g == LeafOf(p)
<1>1. /\ CanRead(o[p]) /\ sg' = [sg EXCEPT ![p] = Jumped(p)]
      /\ o' = [o EXCEPT ![p] = Tail(@)] /\ ipc' = [ipc EXCEPT ![p] = "write"]
      /\ s' = s /\ lpc' = lpc /\ lreg' = lreg /\ root' = root
      /\ \/ CanRead(leaf[g]) /\ ireg' = [ireg EXCEPT ![p] = XOR(Head(o[p]), Output(p))]
            /\ leaf' = [leaf EXCEPT ![g] = Tail(@)]
         \/ ireg' = [ireg EXCEPT ![p] = Head(o[p])] /\ leaf' = leaf
  BY DEF Combine
<1>2. p \in Link /\ g \in Position
  BY ChainFacts, PairingIs
<1>3. Head(o[p]) \in SUBSET Term /\ LinkQueues(o', SUBSET Term)
  BY <1>1, <1>2, LinkTail DEF TInv
<1>4. Jumped(p) \in 0 .. Period - 1
  <2>1. sg[p] + 1 \in Int /\ Period \in Nat \ {0}
    BY ChainFacts DEF TInv, InstanceRegisters
  <2> QED
    BY <2>1, ModFacts DEF Jumped
<1>5. CASE CanRead(leaf[g]) /\ ireg' = [ireg EXCEPT ![p] = XOR(Head(o[p]), Output(p))]
           /\ leaf' = [leaf EXCEPT ![g] = Tail(@)]
  <2>1. XOR(Head(o[p]), Output(p)) \in SUBSET Term
    BY <1>3, <1>5, OutputTerms DEF XOR
  <2>2. InstanceRegisters'
    BY <1>1, <1>4, <1>5, <2>1 DEF TInv, InstanceRegisters
  <2>3. leaf[g] \in Seq(Root) /\ Len(leaf[g]) <= Depth /\ leaf[g] # <<>> /\ Depth \in Nat
    BY <1>2, <1>5, CapacityFacts DEF TInv, LeafQueues, CanRead
  <2>4. Tail(leaf[g]) \in Seq(Root) /\ Len(Tail(leaf[g])) = Len(leaf[g]) - 1 /\ Len(leaf[g]) \in Nat
    BY <2>3, TailFacts
  <2>5. Len(Tail(leaf[g])) <= Depth
    BY <2>3, <2>4
  <2>6. LeafQueues'
    BY <1>2, <1>5, <2>4, <2>5 DEF TInv, LeafQueues
  <2>7. LeafRegisters' /\ LinkQueues(s', Root)
    BY <1>1 DEF TInv, LeafRegisters
  <2> QED
    BY <1>3, <2>2, <2>6, <2>7 DEF TInv
<1>6. CASE ireg' = [ireg EXCEPT ![p] = Head(o[p])] /\ leaf' = leaf
  <2>1. InstanceRegisters'
    BY <1>1, <1>3, <1>4, <1>6 DEF TInv, InstanceRegisters
  <2>2. LeafRegisters' /\ LeafQueues' /\ LinkQueues(s', Root)
    BY <1>1, <1>6 DEF TInv, LeafRegisters, LeafQueues
  <2> QED
    BY <1>3, <2>1, <2>2 DEF TInv
<1> QED
  BY <1>1, <1>5, <1>6

LEMMA PutPacketType == ASSUME TInv, NEW p \in Position, PutPacket(p) PROVE TInv'
<1>1. /\ CanWrite(o[p + 1], Capacity(p + 1)) /\ o' = [o EXCEPT ![p + 1] = Append(@, ireg[p])]
      /\ ipc' = [ipc EXCEPT ![p] = "read"] /\ ireg' = [ireg EXCEPT ![p] = {}] /\ sg' = sg
      /\ s' = s /\ leaf' = leaf /\ lpc' = lpc /\ lreg' = lreg /\ root' = root
  BY DEF PutPacket, rootVars
<1>2. p + 1 \in Link /\ ireg[p] \in SUBSET Term
  BY ChainFacts DEF TInv, InstanceRegisters
<1>3. LinkQueues(o', SUBSET Term)
  BY <1>1, <1>2, LinkAppend DEF TInv
<1>4. InstanceRegisters'
  BY <1>1 DEF TInv, InstanceRegisters
<1>5. LeafRegisters' /\ LeafQueues' /\ LinkQueues(s', Root)
  BY <1>1 DEF TInv, LeafRegisters, LeafQueues
<1> QED
  BY <1>3, <1>4, <1>5 DEF TInv

LEMMA EndsType == ASSUME TInv, SinkRoot \/ StartPacket \/ Draw PROVE TInv'
<1>1. 0 \in Link /\ Total \in Link
  BY ChainFacts
<1>2. leaf' = leaf /\ lpc' = lpc /\ lreg' = lreg /\ root' = root
      /\ ipc' = ipc /\ ireg' = ireg /\ sg' = sg
  BY DEF SinkRoot, StartPacket, Draw, packetVars, rootVars
<1>3. LeafRegisters' /\ LeafQueues' /\ InstanceRegisters'
  BY <1>2 DEF TInv, LeafRegisters, LeafQueues, InstanceRegisters
<1>4. CASE SinkRoot
  <2>1. LinkQueues(s', Root) /\ o' = o
    BY <1>1, <1>4, LinkTail DEF TInv, SinkRoot, packetVars
  <2> QED
    BY <1>3, <2>1 DEF TInv
<1>5. CASE StartPacket
  <2>1. {} \in SUBSET Term
    OBVIOUS
  <2>2. LinkQueues(o', SUBSET Term) /\ s' = s
    BY <1>1, <1>5, <2>1, LinkAppend DEF TInv, StartPacket, rootVars
  <2> QED
    BY <1>3, <2>2 DEF TInv
<1>6. CASE Draw
  <2>1. LinkQueues(o', SUBSET Term) /\ s' = s
    BY <1>1, <1>6, LinkTail DEF TInv, Draw, rootVars
  <2> QED
    BY <1>3, <2>1 DEF TInv
<1> QED
  BY <1>4, <1>5, <1>6

LEMMA InitType == Init => TInv
<1> SUFFICES ASSUME Init PROVE TInv
  OBVIOUS
<1>1. \A S : <<>> \in Seq(S) /\ Len(<<>>) = 0
  OBVIOUS
<1>2. \A l \in Link : Len(<<>>) <= Capacity(l)
  BY CapacityFacts
<1>3. ASSUME NEW S PROVE LinkQueues([l \in Link |-> <<>>], S)
  BY <1>1, <1>2 DEF LinkQueues
<1>4. LinkQueues(s, Root) /\ LinkQueues(o, SUBSET Term)
  BY <1>3 DEF Init
<1>5. LeafQueues
  <2>1. Len(<<>>) <= Depth
    BY CapacityFacts
  <2> QED
    BY <1>1, <2>1 DEF Init, LeafQueues
<1>6. LeafRegisters
  BY RootAssumption DEF Init, LeafRegisters
<1>7. InstanceRegisters
  <2>1. 0 \in 0 .. Period - 1
    BY ChainFacts
  <2> QED
    BY <2>1 DEF Init, InstanceRegisters
<1> QED
  BY <1>4, <1>5, <1>6, <1>7 DEF TInv

LEMMA NextType == TInv /\ [Next]_vars => TInv'
<1> SUFFICES ASSUME TInv, [Next]_vars PROVE TInv'
  OBVIOUS
<1>1. CASE UNCHANGED vars
  BY <1>1 DEF vars, TInv, LeafQueues, LeafRegisters, InstanceRegisters
<1> QED
  BY <1>1, RootInType, LeafType, CombineType, PutPacketType, EndsType DEF Next

LEMMA TypeInvariance == Spec => []TInv
  BY InitType, NextType, PTL DEF Spec

(* No stream of the two chains overflows, and whatever they carry is a     *)
(* root state or a packet of terms, for any number of units and instances  *)
(* and any capacities (rng_instance_1: the streams and their depths).      *)
THEOREM TypeCorrect == Spec => []TypeOK
<1>1. TInv => TypeOK
  BY DEF TInv, LinkQueues, LeafQueues, LeafRegisters, InstanceRegisters, TypeOK
<1> QED
  BY <1>1, TypeInvariance, PTL

-----------------------------------------------------------------------------
(* What a packet may hold in front of instance l: for each instance before *)
(* it the two halves of a number, or neither; for the others nothing.      *)
Own(packet, p) == Of(packet, "xorshift", InstanceId(p))
Leafs(packet, p) == Of(packet, "leaf", LeafId(LeafOf(p)))
Nothing(packet, p) == Own(packet, p) = {} /\ Leafs(packet, p) = {}
Both(packet, p) == \E a, b : Own(packet, p) = {a} /\ Leafs(packet, p) = {b}

Whole(l) == {packet \in SUBSET Term :
                \A p \in Position : Nothing(packet, p) \/ (p < l /\ Both(packet, p))}

WInv ==
    /\ \A l \in Link : o[l] \in Seq(Whole(l))
    /\ \A p \in Position : ipc[p] = "write" => ireg[p] \in Whole(p + 1)

LEMMA WholeEmpty == {} \in Whole(0)
  BY DEF Whole, Nothing, Own, Leafs, Of

LEMMA WholeAfter ==
    ASSUME NEW p \in Position, NEW packet \in Whole(p)
    PROVE  packet \in Whole(p + 1)
<1>1. \A u \in Position : u < p => u < p + 1
  BY DEF Position
<1> QED
  BY <1>1 DEF Whole

(* An instance adds its own number to a packet and changes no other.       *)
LEMMA WholeCombined ==
    ASSUME TInv, NEW p \in Position, CanRead(leaf[LeafOf(p)]), NEW packet \in Whole(p)
    PROVE  XOR(packet, Output(p)) \in Whole(p + 1)
<1> DEFINE a == JumpTerm(p, Jumped(p))
           b == LeafTerm(LeafOf(p), Head(leaf[LeafOf(p)]))
           sum == XOR(packet, Output(p))
<1>1. Output(p) = {a, b} /\ a \in Term /\ b \in Term
  BY OutputTerms
<1>2. /\ a.src = "xorshift" /\ a.id = InstanceId(p)
      /\ b.src = "leaf" /\ b.id = LeafId(LeafOf(p))
  BY DEF JumpTerm, LeafTerm
<1>3. Nothing(packet, p) /\ p < p + 1 /\ packet \subseteq Term
  <2>1. ~(p < p) /\ p < p + 1
    BY DEF Position
  <2> QED
    BY <2>1 DEF Whole
<1> HIDE DEF a, b
<1>4. a \notin packet /\ b \notin packet
  BY <1>2, <1>3 DEF Nothing, Own, Leafs, Of
<1>5. sum = packet \cup {a, b}
  BY <1>1, <1>4 DEF XOR
<1> HIDE DEF sum
<1>6. Own(sum, p) = {a} /\ Leafs(sum, p) = {b}
  BY <1>2, <1>3, <1>5 DEF Nothing, Own, Leafs, Of
<1>7. ASSUME NEW u \in Position, u # p
      PROVE  Own(sum, u) = Own(packet, u) /\ Leafs(sum, u) = Leafs(packet, u)
  <2>1. InstanceId(u) # InstanceId(p) /\ LeafId(LeafOf(u)) # LeafId(LeafOf(p))
    BY <1>7, PairingOneToOne
  <2> QED
    BY <1>2, <1>5, <2>1 DEF Own, Leafs, Of
<1>8. ASSUME NEW u \in Position PROVE Nothing(sum, u) \/ (u < p + 1 /\ Both(sum, u))
  <2>1. CASE u = p
    BY <1>3, <1>6, <2>1 DEF Both
  <2>2. CASE u # p
    <3>1. u < p => u < p + 1
      BY DEF Position
    <3>2. Nothing(packet, u) \/ (u < p /\ Both(packet, u))
      BY DEF Whole
    <3> QED
      BY <1>7, <2>2, <3>1, <3>2 DEF Nothing, Both
  <2> QED
    BY <2>1, <2>2
<1>9. sum \in SUBSET Term
  BY <1>1, <1>3, <1>5
<1> QED
  BY <1>8, <1>9 DEF Whole, sum

LEMMA WholeStep == ASSUME TInv, WInv, [Next]_vars PROVE WInv'
<1>1. DOMAIN o = Link /\ ipc \in [Position -> {"read", "write"}] /\ DOMAIN ireg = Position
  BY DEF TInv, LinkQueues, InstanceRegisters
<1>2. \A l : Whole(l)' = Whole(l)
  BY DEF Whole, Both, Nothing, Own, Leafs, Of, Term, LeafTerm, JumpTerm
<1>3. CASE UNCHANGED <<o, ipc, ireg>>
  BY <1>2, <1>3 DEF WInv
<1>4. ASSUME NEW p \in Position, Combine(p) PROVE WInv'
  <2>1. /\ CanRead(o[p]) /\ o' = [o EXCEPT ![p] = Tail(@)]
        /\ ipc' = [ipc EXCEPT ![p] = "write"]
        /\ \/ CanRead(leaf[LeafOf(p)]) /\ ireg' = [ireg EXCEPT ![p] = XOR(Head(o[p]), Output(p))]
           \/ ireg' = [ireg EXCEPT ![p] = Head(o[p])]
    BY <1>4 DEF Combine
  <2>2. p \in Link /\ o[p] \in Seq(Whole(p)) /\ o[p] # <<>>
    BY <2>1, ChainFacts DEF WInv, CanRead
  <2>3. Head(o[p]) \in Whole(p) /\ Tail(o[p]) \in Seq(Whole(p))
    BY <2>2, TailFacts
  <2>4. ireg'[p] \in Whole(p + 1)
    BY <1>1, <2>1, <2>3, WholeCombined, WholeAfter
  <2>5. \A u \in Position \ {p} : ipc'[u] = ipc[u] /\ ireg'[u] = ireg[u]
    BY <1>1, <2>1
  <2>6. \A l \in Link : o'[l] \in Seq(Whole(l))
    BY <1>1, <2>1, <2>2, <2>3 DEF WInv
  <2> QED
    BY <1>2, <2>4, <2>5, <2>6 DEF WInv
<1>5. ASSUME NEW p \in Position, PutPacket(p) PROVE WInv'
  <2>1. /\ ipc[p] = "write" /\ o' = [o EXCEPT ![p + 1] = Append(@, ireg[p])]
        /\ ipc' = [ipc EXCEPT ![p] = "read"] /\ ireg' = [ireg EXCEPT ![p] = {}]
    BY <1>5 DEF PutPacket
  <2>2. p + 1 \in Link /\ ireg[p] \in Whole(p + 1) /\ o[p + 1] \in Seq(Whole(p + 1))
    BY <2>1, ChainFacts DEF WInv
  <2>3. Append(o[p + 1], ireg[p]) \in Seq(Whole(p + 1))
    BY <2>2, AppendFacts
  <2>4. \A l \in Link : o'[l] \in Seq(Whole(l))
    BY <1>1, <2>1, <2>2, <2>3 DEF WInv
  <2>5. \A u \in Position : ipc'[u] = "write" => ipc[u] = "write" /\ ireg'[u] = ireg[u]
    BY <1>1, <2>1
  <2> QED
    BY <1>2, <2>4, <2>5 DEF WInv
<1>6. CASE StartPacket
  <2>1. o' = [o EXCEPT ![0] = Append(@, {})] /\ ipc' = ipc /\ ireg' = ireg
    BY <1>6 DEF StartPacket
  <2>2. 0 \in Link /\ Append(o[0], {}) \in Seq(Whole(0))
    BY ChainFacts, WholeEmpty, AppendFacts DEF WInv
  <2> QED
    BY <1>1, <1>2, <2>1, <2>2 DEF WInv
<1>7. CASE Draw
  <2>1. o' = [o EXCEPT ![Total] = Tail(@)] /\ ipc' = ipc /\ ireg' = ireg /\ o[Total] # <<>>
    BY <1>7 DEF Draw, CanRead
  <2>2. Total \in Link /\ Tail(o[Total]) \in Seq(Whole(Total))
    BY <2>1, ChainFacts, TailFacts DEF WInv
  <2> QED
    BY <1>1, <1>2, <2>1, <2>2 DEF WInv
<1>8. CASE RootIn \/ SinkRoot
  BY <1>3, <1>8 DEF RootIn, SinkRoot, packetVars
<1>9. CASE \E g \in Position : LeafRead(g) \/ LeafForward(g) \/ LeafWrite(g)
  BY <1>3, <1>9 DEF LeafRead, LeafForward, LeafWrite, packetVars
<1>10. CASE UNCHANGED vars
  BY <1>3, <1>10 DEF vars
<1> QED
  BY <1>4, <1>5, <1>6, <1>7, <1>8, <1>9, <1>10 DEF Next

LEMMA WholeInit == Init => WInv
<1> SUFFICES ASSUME Init PROVE WInv
  OBVIOUS
<1>1. \A S : <<>> \in Seq(S)
  OBVIOUS
<1> QED
  BY <1>1 DEF Init, WInv

LEMMA WholeInside == TInv /\ WInv => WholeNumbers
<1> SUFFICES ASSUME TInv, WInv, NEW x \in Places, NEW p \in Position
             PROVE  LET own == Own(PacketAt(x), p)
                        leafs == Leafs(PacketAt(x), p)
                    IN  /\ Cardinality(own) = Cardinality(leafs) /\ Cardinality(own) <= 1
                        /\ own # {} => p < x[1] \/ x = <<p, 0>>
  BY DEF WholeNumbers, Own, Leafs
<1> DEFINE packet == PacketAt(x)
<1>1. \/ \E l \in Link : \E i \in DOMAIN o[l] : x = <<l, i>>
      \/ \E u \in Position : ipc[u] = "write" /\ x = <<u, 0>>
  <2>1. CASE x \in UNION {{l} \X DOMAIN o[l] : l \in Link}
    <3>1. PICK l \in Link : x \in {l} \X DOMAIN o[l]
      BY <2>1
    <3>2. PICK i \in DOMAIN o[l] : x = <<l, i>>
      BY <3>1
    <3> QED
      BY <3>2
  <2>2. CASE x \in {u \in Position : ipc[u] = "write"} \X {0}
    BY <2>2
  <2> QED
    BY <2>1, <2>2 DEF Places
<1>2. \E l : /\ packet \in Whole(l)
             /\ \A q \in Position : q < l => q < x[1] \/ x = <<q, 0>>
  <2>1. ASSUME NEW l \in Link, NEW i \in DOMAIN o[l], x = <<l, i>>
        PROVE  packet \in Whole(l) /\ \A q \in Position : q < l => q < x[1]
    <3>1. o[l] \in Seq(Whole(l))
      BY DEF WInv
    <3>2. i \in 1 .. Len(o[l]) /\ i # 0
      BY <3>1, LenProperties
    <3>3. o[l][i] \in Whole(l)
      BY <3>1, <3>2, ElementOfSeq
    <3> QED
      BY <2>1, <3>2, <3>3 DEF PacketAt
  <2>2. ASSUME NEW u \in Position, ipc[u] = "write", x = <<u, 0>>
        PROVE  packet \in Whole(u + 1) /\ \A q \in Position : q < u + 1 => q < x[1] \/ x = <<q, 0>>
    <3>1. \A q \in Position : q < u + 1 => q < u \/ q = u
      BY DEF Position
    <3> QED
      BY <2>2, <3>1 DEF WInv, PacketAt
  <2> QED
    BY <1>1, <2>1, <2>2
<1> HIDE DEF packet
<1>3. Nothing(packet, p) \/ Both(packet, p)
  BY <1>2 DEF Whole
<1>4. Own(packet, p) # {} => p < x[1] \/ x = <<p, 0>>
  BY <1>2 DEF Whole, Nothing
<1>5. /\ Cardinality(Own(packet, p)) = Cardinality(Leafs(packet, p))
      /\ Cardinality(Own(packet, p)) <= 1
  <2>1. CASE Nothing(packet, p)
    <3>1. Cardinality({}) = 0
      BY FS_EmptySet
    <3> QED
      BY <2>1, <3>1 DEF Nothing
  <2>2. CASE Both(packet, p)
    <3>1. \A y : Cardinality({y}) = 1
      BY FS_Singleton
    <3> QED
      BY <2>2, <3>1 DEF Both
  <2> QED
    BY <1>3, <2>1, <2>2
<1> QED
  BY <1>4, <1>5 DEF packet

(* A packet never carries half a number: of each instance it has passed it *)
(* holds one term of the decorrelator and one of the leaf generator that   *)
(* is paired with it, or neither, for any number of units and instances    *)
(* (instance: the XOR under read_nb; leaf_state[NRNG - i - 1]).            *)
THEOREM NumbersWhole == Spec => []WholeNumbers
<1>1. Init => WInv
  BY WholeInit
<1>2. TInv /\ WInv /\ [Next]_vars => WInv'
  BY WholeStep
<1>3. TInv /\ WInv => WholeNumbers
  BY WholeInside
<1> QED
  BY <1>1, <1>2, <1>3, TypeInvariance, PTL DEF Spec

-----------------------------------------------------------------------------
(* Sequences of root states.                                               *)
EndsIn(q, e) == Len(q) \in Nat \ {0} /\ q[Len(q)] = e

LEMMA EndsAppend ==
    ASSUME NEW q \in Seq(Root), NEW e \in Root
    PROVE  EndsIn(Append(q, e), e)
  BY AppendFacts DEF EndsIn

LEMMA EndsConcat ==
    ASSUME NEW a \in Seq(Root), NEW b \in Seq(Root), NEW e, EndsIn(b, e)
    PROVE  EndsIn(a \o b, e)
<1> DEFINE c == a \o b
<1>1. /\ Len(c) = Len(a) + Len(b) /\ Len(a) \in Nat /\ Len(b) \in Nat \ {0}
      /\ \A i \in 1 .. Len(a) + Len(b) : c[i] = IF i <= Len(a) THEN a[i] ELSE b[i - Len(a)]
  BY ConcatProperties, LenProperties DEF EndsIn
<1> HIDE DEF c
<1>2. c[Len(a) + Len(b)] = b[Len(a) + Len(b) - Len(a)]
  BY <1>1
<1>3. Len(a) + Len(b) - Len(a) = Len(b)
  BY <1>1
<1> QED
  BY <1>1, <1>2, <1>3 DEF EndsIn, c

LEMMA ConsecutiveAppend ==
    ASSUME NEW q \in Seq(Root), NEW e \in Root, EndsIn(q, e), Consecutive(q)
    PROVE  Consecutive(Append(q, RootStep[e]))
<1> DEFINE n == RootStep[e]
           t == Append(q, n)
<1>1. /\ n \in Root /\ Len(q) \in Nat \ {0} /\ q[Len(q)] = e
  BY RootAssumption DEF EndsIn
<1>2. /\ Len(t) = Len(q) + 1 /\ t[Len(q) + 1] = n
      /\ \A i \in 1 .. Len(q) : t[i] = q[i]
  BY <1>1, AppendFacts
<1> HIDE DEF t
<1>3. ASSUME NEW i \in 1 .. Len(q) PROVE t[i + 1] = RootStep[t[i]]
  <2>1. CASE i = Len(q)
    BY <1>1, <1>2, <2>1
  <2>2. CASE i # Len(q)
    <3>1. i \in 1 .. Len(q) - 1 /\ i + 1 \in 1 .. Len(q)
      BY <1>1, <2>2
    <3> QED
      BY <1>2, <3>1 DEF Consecutive
  <2> QED
    BY <2>1, <2>2
<1>4. Len(t) - 1 = Len(q)
  BY <1>1, <1>2
<1> QED
  BY <1>3, <1>4 DEF Consecutive, t

LEMMA ConsecutiveTail ==
    ASSUME NEW q \in Seq(Root), q # <<>>, Consecutive(q)
    PROVE  Consecutive(Tail(q))
<1> DEFINE t == Tail(q)
<1>1. /\ Len(q) \in Nat \ {0} /\ Len(t) = Len(q) - 1
      /\ \A i \in 1 .. Len(q) - 1 : t[i] = q[i + 1]
  BY TailFacts
<1> HIDE DEF t
<1>2. ASSUME NEW i \in 1 .. Len(t) - 1 PROVE t[i + 1] = RootStep[t[i]]
  <2>1. i \in 1 .. Len(q) - 1 /\ i + 1 \in 1 .. Len(q) - 1
    BY <1>1
  <2>2. t[i] = q[i + 1] /\ t[i + 1] = q[i + 1 + 1]
    BY <1>1, <2>1
  <2>3. q[i + 1 + 1] = RootStep[q[i + 1]]
    BY <2>1 DEF Consecutive
  <2> QED
    BY <2>2, <2>3
<1> QED
  BY <1>2 DEF Consecutive, t

(* Three sequences in one.                                                 *)
Three(a, b, c) == a \o b \o c

LEMMA ThreeFacts ==
    ASSUME NEW a \in Seq(Root), NEW b \in Seq(Root), NEW c \in Seq(Root)
    PROVE  Three(a, b, c) \in Seq(Root) /\ \A e : EndsIn(c, e) => EndsIn(Three(a, b, c), e)
<1> DEFINE d == a \o b
<1>1. d \in Seq(Root) /\ Three(a, b, c) = d \o c
  BY ConcatProperties DEF Three
<1> HIDE DEF d
<1> QED
  BY <1>1, ConcatProperties, EndsConcat

(* A root state moves from the third of three sequences to the second, or  *)
(* from the second to the first.                                           *)
LEMMA MoveForward ==
    ASSUME NEW a \in Seq(Root), NEW q \in Seq(Root), q # <<>>
    PROVE  Three(a, <<>>, q) = Three(a, <<Head(q)>>, Tail(q))
<1>1. Head(q) \in Root /\ Tail(q) \in Seq(Root)
  BY TailFacts
<1>2. <<Head(q)>> \in Seq(Root) /\ <<Head(q)>> \o Tail(q) = q
  BY <1>1, MoveFacts
<1>3. (a \o <<Head(q)>>) \o Tail(q) = a \o q
  BY <1>1, <1>2, ConcatAssociative
<1>4. a \o <<>> = a
  BY ConcatEmptySeq
<1> QED
  BY <1>3, <1>4 DEF Three

LEMMA MoveAppend ==
    ASSUME NEW a \in Seq(Root), NEW x \in Root, NEW q \in Seq(Root)
    PROVE  Three(a, <<x>>, q) = Three(Append(a, x), <<>>, q)
<1>1. Append(a, x) = a \o <<x>> /\ Append(a, x) \in Seq(Root)
  BY AppendIsConcat, AppendFacts
<1>2. Append(a, x) \o <<>> = Append(a, x)
  BY <1>1, ConcatEmptySeq
<1> QED
  BY <1>1, <1>2 DEF Three

(* Reading the first, and writing to the last, of three sequences.         *)
LEMMA ReadFirst ==
    ASSUME NEW a \in Seq(Root), NEW b \in Seq(Root), NEW c \in Seq(Root), a # <<>>
    PROVE  /\ Three(a, b, c) # <<>>
           /\ Head(Three(a, b, c)) = Head(a)
           /\ Tail(Three(a, b, c)) = Three(Tail(a), b, c)
<1>1. /\ a \o b \in Seq(Root) /\ a \o b # <<>> /\ Head(a \o b) = Head(a)
      /\ Tail(a \o b) = Tail(a) \o b
  BY TailOfConcat, ConcatProperties
<1> DEFINE d == a \o b
<1>2. d \in Seq(Root) /\ d # <<>>
  BY <1>1
<1> HIDE DEF d
<1>3. d \o c # <<>> /\ Head(d \o c) = Head(d) /\ Tail(d \o c) = Tail(d) \o c
  BY <1>2, TailOfConcat
<1> QED
  BY <1>1, <1>3 DEF Three, d

LEMMA WriteLast ==
    ASSUME NEW a \in Seq(Root), NEW b \in Seq(Root), NEW c \in Seq(Root), NEW e \in Root
    PROVE  Three(a, b, Append(c, e)) = Append(Three(a, b, c), e)
<1> DEFINE d == a \o b
<1>0. d \in Seq(Root)
  BY ConcatProperties
<1> HIDE DEF d
<1>1. <<e>> \in Seq(Root) /\ Append(c, e) = c \o <<e>> /\ d \o c \in Seq(Root)
  BY <1>0, AppendIsConcat, ConcatProperties
<1>2. Append(d \o c, e) = (d \o c) \o <<e>>
  BY <1>1, AppendIsConcat
<1>3. (d \o c) \o <<e>> = d \o (c \o <<e>>)
  BY <1>0, <1>1, ConcatAssociative, SMTT(30)
<1>4. d \o Append(c, e) = Append(d \o c, e)
  BY <1>1, <1>2, <1>3
<1> QED
  BY <1>4 DEF Three, d

-----------------------------------------------------------------------------
(* The invariant behind EveryRootSeen speaks of some function that obeys   *)
(* the equation of Upstream; UpstreamIs shows that Upstream is the one.    *)
Reg(g) == IF lpc[g] = "read" THEN <<>> ELSE <<lreg[g]>>

Lines(up) ==
    up = [l \in Link |-> IF l = 0 THEN s[0] \o <<root>>
                                  ELSE Three(s[l], Held(l - 1), up[l - 1])]

LineOf(up, g) == Three(leaf[g], Reg(g), up[g])

Good(up) ==
    /\ Lines(up)
    /\ \A l \in Link : up[l] \in Seq(Root) /\ EndsIn(up[l], root)
    /\ \A g \in Position : Consecutive(LineOf(up, g))
    /\ Consecutive(up[Total])

RInv == \E up : Good(up)

LEMMA LinesOne ==
    ASSUME NEW f, NEW h, Lines(f), Lines(h), NEW l \in Link
    PROVE  f[l] = h[l]
<1> DEFINE T == {k \in Link : f[k] # h[k]}
<1>1. ASSUME NEW k \in Link
      PROVE  /\ f[k] = IF k = 0 THEN s[0] \o <<root>> ELSE Three(s[k], Held(k - 1), f[k - 1])
             /\ h[k] = IF k = 0 THEN s[0] \o <<root>> ELSE Three(s[k], Held(k - 1), h[k - 1])
  BY DEF Lines
<1>2. ASSUME T # {} PROVE FALSE
  <2>1. T \in SUBSET Nat
    BY DEF Link
  <2>2. PICK k \in T : \A m \in T : k <= m
    <3> HIDE DEF T
    <3> QED
      BY <1>2, <2>1, LeastNatural
  <2>3. k \in Link /\ f[k] # h[k]
    BY <2>2
  <2>4. CASE k = 0
    BY <1>1, <2>3, <2>4
  <2>5. CASE k # 0
    <3>1. k - 1 \in Link /\ ~(k <= k - 1)
      BY <2>3, <2>5, ChainFacts DEF Link
    <3>2. f[k - 1] = h[k - 1]
      BY <2>2, <3>1
    <3> QED
      BY <1>1, <2>3, <2>5, <3>2
  <2> QED
    BY <2>4, <2>5
<1> QED
  BY <1>2

LEMMA UpstreamIs ==
    ASSUME NEW up, Lines(up), NEW l \in Link
    PROVE  Upstream[l] = up[l]
<1>1. Upstream = CHOOSE f : Lines(f)
  BY DEF Upstream, Lines, Three
<1>2. Lines(Upstream)
  BY <1>1
<1> QED
  BY <1>2, LinesOne

LEMMA SeenInside == RInv => EveryRootSeen
<1> SUFFICES ASSUME RInv PROVE EveryRootSeen
  OBVIOUS
<1>1. PICK up : Good(up)
  BY DEF RInv
<1>2. \A g \in Position : LeafLine(g) = LineOf(up, g)
  BY <1>1, UpstreamIs, ChainFacts DEF Good, LeafLine, LineOf, Reg, Three
<1>3. Upstream[Total] = up[Total]
  BY <1>1, UpstreamIs, ChainFacts DEF Good
<1> QED
  BY <1>1, <1>2, <1>3 DEF Good, EveryRootSeen

(* What the type invariant says of the parts of a line.                    *)
LEMMA PartFacts ==
    ASSUME TInv, NEW g \in Position
    PROVE  leaf[g] \in Seq(Root) /\ Reg(g) \in Seq(Root) /\ Held(g) \in Seq(Root)
<1>1. leaf[g] \in Seq(Root)
  BY DEF TInv, LeafQueues
<1>2. lpc[g] # "read" => lreg[g] \in Root
  BY DEF TInv, LeafRegisters
<1>3. <<>> \in Seq(Root) /\ (lreg[g] \in Root => <<lreg[g]>> \in Seq(Root))
  OBVIOUS
<1>4. Reg(g) \in Seq(Root) /\ Held(g) \in Seq(Root)
  BY <1>2, <1>3 DEF Reg, Held
<1> QED
  BY <1>1, <1>4

LEMMA LinkFacts ==
    ASSUME TInv
    PROVE  /\ DOMAIN s = Link /\ \A l \in Link : s[l] \in Seq(Root)
           /\ \A l \in Link \ {0} : l - 1 \in Link /\ Held(l - 1) \in Seq(Root)
<1>1. \A l \in Link \ {0} : l - 1 \in Link /\ l - 1 \in Position
  BY ChainFacts DEF Link, Position
<1> QED
  BY <1>1, PartFacts DEF TInv, LinkQueues

(* A function that obeys the equation place by place after a step.         *)
LEMMA GoodNext ==
    ASSUME NEW w, w = [l \in Link |-> w[l]], w[0] = s'[0] \o <<root'>>,
           \A l \in Link \ {0} : w[l] = Three(s'[l], Held(l - 1)', w[l - 1]),
           \A l \in Link : w[l] \in Seq(Root) /\ EndsIn(w[l], root'),
           \A g \in Position : Consecutive(LineOf(w, g)'), Consecutive(w[Total])
    PROVE  RInv'
<1>1. \A l \in Link : w[l] = IF l = 0 THEN s'[0] \o <<root'>>
                                      ELSE Three(s'[l], Held(l - 1)', w[l - 1])
  OBVIOUS
<1> DEFINE f == [l \in Link |-> IF l = 0 THEN s'[0] \o <<root'>>
                                         ELSE Three(s'[l], Held(l - 1)', w[l - 1])]
<1>2. f = [l \in Link |-> w[l]]
  BY <1>1
<1>3. Lines(w)'
  BY <1>2 DEF Lines
<1>4. Good(w)'
  BY <1>3 DEF Good
<1> QED
  BY <1>4 DEF RInv

LEMMA GoodFacts ==
    ASSUME NEW w, Good(w)
    PROVE  /\ w = [l \in Link |-> w[l]] /\ w[0] = s[0] \o <<root>>
           /\ \A l \in Link \ {0} : w[l] = Three(s[l], Held(l - 1), w[l - 1])
           /\ \A l \in Link : w[l] \in Seq(Root) /\ EndsIn(w[l], root)
           /\ \A g \in Position : Consecutive(LineOf(w, g))
           /\ Consecutive(w[Total])
  BY ChainFacts DEF Good, Lines

(* The merge kernel adds a root state to all lines.                        *)
LEMMA RootInSeen == ASSUME TInv, RInv, RootIn PROVE RInv'
<1>1. PICK up : Good(up)
  BY DEF RInv
<1>2. /\ up[0] = s[0] \o <<root>>
      /\ \A l \in Link \ {0} : up[l] = Three(s[l], Held(l - 1), up[l - 1])
      /\ \A l \in Link : up[l] \in Seq(Root) /\ EndsIn(up[l], root)
      /\ \A g \in Position : Consecutive(LineOf(up, g))
      /\ Consecutive(up[Total])
  BY <1>1, GoodFacts
<1>3. /\ s' = [s EXCEPT ![0] = Append(@, root)] /\ root' = RootStep[root]
      /\ leaf' = leaf /\ lpc' = lpc /\ lreg' = lreg
  BY DEF RootIn
<1>4. root \in Root /\ RootStep[root] \in Root /\ 0 \in Link /\ Total \in Link
  BY RootAssumption, ChainFacts DEF TInv, LeafRegisters
<1>5. PICK n \in Root : n = RootStep[root]
  BY <1>4
<1>6. PICK w : w = [l \in Link |-> Append(up[l], n)]
  OBVIOUS
<1>7. s'[0] = Append(s[0], root) /\ \A l \in Link \ {0} : s'[l] = s[l]
  BY <1>3, LinkFacts, <1>4
<1>8. w[0] = s'[0] \o <<root'>>
  <2>1. s[0] \in Seq(Root)
    BY <1>4, LinkFacts
  <2>2. Append(s[0], root) = s[0] \o <<root>> /\ Append(s[0], root) \in Seq(Root)
    BY <1>4, <2>1, AppendIsConcat, AppendFacts
  <2>3. Append(Append(s[0], root), n) = Append(s[0], root) \o <<n>>
    BY <2>2, AppendIsConcat
  <2> QED
    BY <1>2, <1>3, <1>4, <1>5, <1>6, <1>7, <2>2, <2>3
<1>9. ASSUME NEW l \in Link \ {0} PROVE w[l] = Three(s'[l], Held(l - 1)', w[l - 1])
  <2>1. l - 1 \in Link
    BY ChainFacts DEF Link
  <2>2. Three(s[l], Held(l - 1), Append(up[l - 1], n))
          = Append(Three(s[l], Held(l - 1), up[l - 1]), n)
    <3> DEFINE a == s[l]
               b == Held(l - 1)
               c == up[l - 1]
    <3>1. a \in Seq(Root) /\ b \in Seq(Root) /\ c \in Seq(Root)
      BY <1>2, <2>1, LinkFacts
    <3> HIDE DEF a, b, c
    <3>2. Three(a, b, Append(c, n)) = Append(Three(a, b, c), n)
      BY <3>1, WriteLast
    <3> QED
      BY <3>2 DEF a, b, c
  <2>3. Held(l - 1)' = Held(l - 1)
    BY <1>3 DEF Held
  <2> QED
    BY <1>2, <1>6, <1>7, <2>1, <2>2, <2>3
<1>10. ASSUME NEW l \in Link PROVE w[l] \in Seq(Root) /\ EndsIn(w[l], root')
  BY <1>2, <1>3, <1>5, <1>6, AppendFacts, EndsAppend
<1>11. ASSUME NEW g \in Position PROVE Consecutive(LineOf(w, g)')
  <2> DEFINE line == LineOf(up, g)
  <2>1. leaf[g] \in Seq(Root) /\ Reg(g) \in Seq(Root) /\ up[g] \in Seq(Root) /\ g \in Link
    BY <1>2, PartFacts, ChainFacts
  <2>2. LineOf(w, g)' = Three(leaf[g], Reg(g), Append(up[g], n))
    <3>1. Reg(g)' = Reg(g)
      BY <1>3 DEF Reg
    <3> QED
      BY <1>3, <1>6, <2>1, <3>1 DEF LineOf
  <2>3. LineOf(w, g)' = Append(line, n)
    BY <2>1, <2>2, WriteLast DEF LineOf
  <2>4. line \in Seq(Root) /\ EndsIn(line, root) /\ Consecutive(line)
    BY <1>2, <2>1, ThreeFacts DEF LineOf
  <2> HIDE DEF line
  <2> QED
    BY <1>4, <1>5, <2>3, <2>4, ConsecutiveAppend
<1>12. Consecutive(w[Total])
  BY <1>2, <1>4, <1>5, <1>6, ConsecutiveAppend
<1>13. w = [l \in Link |-> w[l]]
  BY <1>6
<1> QED
  BY <1>8, <1>9, <1>10, <1>11, <1>12, <1>13, GoodNext

(* A leaf generator takes the first root state of its line into its hands. *)
LEMMA LeafReadSeen == ASSUME TInv, RInv, NEW g \in Position, LeafRead(g) PROVE RInv'
<1>1. PICK up : Good(up)
  BY DEF RInv
<1>2. /\ up[0] = s[0] \o <<root>>
      /\ \A l \in Link \ {0} : up[l] = Three(s[l], Held(l - 1), up[l - 1])
      /\ \A l \in Link : up[l] \in Seq(Root) /\ EndsIn(up[l], root)
      /\ \A u \in Position : Consecutive(LineOf(up, u))
      /\ Consecutive(up[Total])
  BY <1>1, GoodFacts
<1>3. /\ lpc[g] = "read" /\ s[g] # <<>> /\ lreg' = [lreg EXCEPT ![g] = Head(s[g])]
      /\ s' = [s EXCEPT ![g] = Tail(@)] /\ lpc' = [lpc EXCEPT ![g] = "forward"]
      /\ leaf' = leaf /\ root' = root
  BY DEF LeafRead, CanRead
<1>4. g \in Link /\ g + 1 \in Link /\ 0 \in Link /\ g # Total /\ Total \in Link
  BY ChainFacts DEF Position, Link
<1>5. PICK w : w = [l \in Link |-> IF l = g THEN Tail(up[g]) ELSE up[l]]
  OBVIOUS
<1>6. \A l \in Link : s'[l] = IF l = g THEN Tail(s[g]) ELSE s[l]
  BY <1>3, LinkFacts
<1>7. \A u \in Position : u # g => Held(u)' = Held(u) /\ Reg(u)' = Reg(u)
  BY <1>3 DEF TInv, LeafRegisters, Held, Reg
<1>8. /\ Held(g) = <<>> /\ Reg(g) = <<>> /\ Held(g)' = <<Head(s[g])>>
      /\ Reg(g)' = <<Head(s[g])>>
  BY <1>3 DEF TInv, LeafRegisters, Held, Reg
<1>9. root \in Root /\ <<root>> \in Seq(Root) /\ Len(<<root>>) = 1 /\ EndsIn(<<root>>, root)
  BY DEF TInv, LeafRegisters, EndsIn
<1>10. /\ up[g] # <<>> /\ Head(up[g]) = Head(s[g]) /\ Tail(up[g]) \in Seq(Root)
       /\ EndsIn(Tail(up[g]), root)
       /\ g = 0 => Tail(up[g]) = Tail(s[0]) \o <<root>>
       /\ g # 0 => Tail(up[g]) = Three(Tail(s[g]), Held(g - 1), up[g - 1])
  <2>1. s[g] \in Seq(Root) /\ Tail(s[g]) \in Seq(Root)
    BY <1>3, <1>4, LinkFacts, TailFacts
  <2>2. CASE g = 0
    <3>1. /\ s[0] \o <<root>> # <<>> /\ Head(s[0] \o <<root>>) = Head(s[0])
          /\ Tail(s[0] \o <<root>>) = Tail(s[0]) \o <<root>>
      <4> DEFINE q == s[0]
                 last == <<root>>
      <4>1. q \in Seq(Root) /\ q # <<>> /\ last \in Seq(Root)
        BY <1>3, <1>9, <2>1, <2>2
      <4> HIDE DEF q, last
      <4>2. q \o last # <<>> /\ Head(q \o last) = Head(q) /\ Tail(q \o last) = Tail(q) \o last
        BY <4>1, TailOfConcat
      <4> QED
        BY <4>2 DEF q, last
    <3>2. Tail(s[0]) \o <<root>> \in Seq(Root) /\ EndsIn(Tail(s[0]) \o <<root>>, root)
      BY <1>9, <2>1, <2>2, EndsConcat, ConcatProperties
    <3> QED
      BY <1>2, <2>2, <3>1, <3>2
  <2>3. CASE g # 0
    <3>1. g - 1 \in Position /\ g - 1 \in Link /\ g \in Link \ {0}
      BY <1>4, <2>3, ChainFacts
    <3>2. /\ Held(g - 1) \in Seq(Root) /\ up[g - 1] \in Seq(Root) /\ EndsIn(up[g - 1], root)
          /\ up[g] = Three(s[g], Held(g - 1), up[g - 1])
      BY <1>2, <3>1, PartFacts
    <3>3. /\ Three(s[g], Held(g - 1), up[g - 1]) # <<>>
          /\ Head(Three(s[g], Held(g - 1), up[g - 1])) = Head(s[g])
          /\ Tail(Three(s[g], Held(g - 1), up[g - 1])) = Three(Tail(s[g]), Held(g - 1), up[g - 1])
      <4>1. s[g] # <<>>
        BY <1>3
      <4> QED
        BY <2>1, <3>2, <4>1, ReadFirst, SMTT(30)
    <3>5. /\ Three(Tail(s[g]), Held(g - 1), up[g - 1]) \in Seq(Root)
          /\ EndsIn(Three(Tail(s[g]), Held(g - 1), up[g - 1]), root)
      BY <2>1, <3>2, ThreeFacts
    <3> QED
      BY <2>3, <3>2, <3>3, <3>5
  <2> QED
    BY <2>2, <2>3
<1>11. w[0] = s'[0] \o <<root'>>
  BY <1>2, <1>3, <1>4, <1>5, <1>6, <1>10
<1>12. ASSUME NEW l \in Link \ {0} PROVE w[l] = Three(s'[l], Held(l - 1)', w[l - 1])
  <2>1. l - 1 \in Position /\ l - 1 \in Link /\ (l - 1 = g <=> l = g + 1) /\ g # g + 1 /\ l # l - 1
    BY ChainFacts DEF Link, Position
  <2>2. CASE l = g
    BY <1>5, <1>6, <1>7, <1>10, <2>1, <2>2
  <2>3. CASE l = g + 1
    <3>1. Three(s[l], <<>>, up[g]) = Three(s[l], <<Head(up[g])>>, Tail(up[g]))
      BY <1>2, <1>4, <1>10, LinkFacts, MoveForward
    <3>2. l - 1 = g /\ l # g
      BY <2>1, <2>3
    <3>3. w[l] = Three(s[l], <<>>, up[g])
      BY <1>2, <1>5, <1>8, <3>2
    <3>4. s'[l] = s[l] /\ Held(l - 1)' = <<Head(up[g])>> /\ w[l - 1] = Tail(up[g])
      BY <1>4, <1>5, <1>6, <1>8, <1>10, <3>2
    <3> QED
      BY <3>1, <3>3, <3>4
  <2>4. CASE l # g /\ l # g + 1
    BY <1>2, <1>5, <1>6, <1>7, <2>1, <2>4
  <2> QED
    BY <2>2, <2>3, <2>4
<1>13. ASSUME NEW l \in Link PROVE w[l] \in Seq(Root) /\ EndsIn(w[l], root')
  BY <1>2, <1>3, <1>5, <1>10
<1>14. ASSUME NEW u \in Position PROVE Consecutive(LineOf(w, u)')
  <2>1. u \in Link
    BY ChainFacts
  <2>2. CASE u = g
    <3>1. Three(leaf[g], <<>>, up[g]) = Three(leaf[g], <<Head(up[g])>>, Tail(up[g]))
      BY <1>2, <1>4, <1>10, PartFacts, MoveForward
    <3>2. LineOf(w, g)' = LineOf(up, g)
      BY <1>3, <1>4, <1>5, <1>8, <1>10, <3>1 DEF LineOf
    <3> QED
      BY <1>2, <2>2, <3>2
  <2>3. CASE u # g
    <3>1. LineOf(w, u)' = LineOf(up, u)
      BY <1>3, <1>5, <1>7, <2>1, <2>3 DEF LineOf
    <3> QED
      BY <1>2, <3>1
  <2> QED
    BY <2>2, <2>3
<1>15. Consecutive(w[Total])
  BY <1>2, <1>4, <1>5
<1>16. w = [l \in Link |-> w[l]]
  BY <1>5
<1> QED
  BY <1>11, <1>12, <1>13, <1>14, <1>15, <1>16, GoodNext

(* It passes the root state on, or hands the leaf number over: each line   *)
(* stays what it is.                                                       *)
LEMMA LeafPassSeen ==
    ASSUME TInv, RInv, NEW g \in Position, LeafForward(g) \/ LeafWrite(g)
    PROVE  RInv'
<1>1. PICK w : Good(w)
  BY DEF RInv
<1>2. /\ w = [l \in Link |-> w[l]] /\ w[0] = s[0] \o <<root>>
      /\ \A l \in Link \ {0} : w[l] = Three(s[l], Held(l - 1), w[l - 1])
      /\ \A l \in Link : w[l] \in Seq(Root) /\ EndsIn(w[l], root)
      /\ \A u \in Position : Consecutive(LineOf(w, u))
      /\ Consecutive(w[Total])
  BY <1>1, GoodFacts
<1>3. /\ g \in Link /\ g + 1 \in Link /\ g + 1 # 0 /\ g \in Nat /\ root' = root
      /\ \A l \in Link \ {0} : l - 1 \in Position /\ l - 1 \in Link /\ (l - 1 = g <=> l = g + 1)
  BY ChainFacts DEF Position, Link, LeafForward, LeafWrite
<1>4. CASE LeafForward(g)
  <2>1. /\ lpc[g] = "forward" /\ s' = [s EXCEPT ![g + 1] = Append(@, lreg[g])]
        /\ lpc' = [lpc EXCEPT ![g] = "leaf"] /\ leaf' = leaf /\ lreg' = lreg
    BY <1>4 DEF LeafForward
  <2>2. \A l \in Link : s'[l] = IF l = g + 1 THEN Append(s[l], lreg[g]) ELSE s[l]
    BY <2>1, LinkFacts
  <2>3. /\ \A u \in Position : Reg(u)' = Reg(u)
        /\ \A u \in Position : u # g => Held(u)' = Held(u)
        /\ Held(g) = <<lreg[g]>> /\ Held(g)' = <<>> /\ lreg[g] \in Root
    BY <2>1 DEF TInv, LeafRegisters, Reg, Held
  <2>4. ASSUME NEW l \in Link \ {0} PROVE w[l] = Three(s'[l], Held(l - 1)', w[l - 1])
    <3>1. CASE l = g + 1
      <4>1. Three(s[l], <<lreg[g]>>, w[g]) = Three(Append(s[l], lreg[g]), <<>>, w[g])
        BY <1>2, <1>3, <2>3, LinkFacts, MoveAppend
      <4>2. l - 1 = g
        BY <1>3, <3>1
      <4> QED
        BY <1>2, <2>2, <2>3, <3>1, <4>1, <4>2
    <3>2. CASE l # g + 1
      BY <1>2, <1>3, <2>2, <2>3, <3>2
    <3> QED
      BY <3>1, <3>2
  <2>5. w[0] = s'[0] \o <<root'>>
    BY <1>2, <1>3, <2>2, ChainFacts
  <2>6. \A u \in Position : Consecutive(LineOf(w, u)')
    BY <1>2, <2>1, <2>3 DEF LineOf
  <2> QED
    BY <1>2, <1>3, <2>4, <2>5, <2>6, GoodNext
<1>5. CASE LeafWrite(g)
  <2>1. /\ lpc[g] = "leaf" /\ leaf' = [leaf EXCEPT ![g] = Append(@, lreg[g])]
        /\ lpc' = [lpc EXCEPT ![g] = "read"] /\ lreg' = [lreg EXCEPT ![g] = NoVal] /\ s' = s
    BY <1>5 DEF LeafWrite
  <2>2. /\ \A u \in Position : u # g => Reg(u)' = Reg(u) /\ leaf'[u] = leaf[u]
        /\ \A u \in Position : Held(u)' = Held(u)
        /\ Reg(g) = <<lreg[g]>> /\ Reg(g)' = <<>> /\ lreg[g] \in Root
        /\ leaf'[g] = Append(leaf[g], lreg[g])
    BY <2>1 DEF TInv, LeafRegisters, LeafQueues, Reg, Held
  <2>3. ASSUME NEW u \in Position PROVE LineOf(w, u)' = LineOf(w, u)
    <3>1. CASE u = g
      <4>1. Three(leaf[g], <<lreg[g]>>, w[g]) = Three(Append(leaf[g], lreg[g]), <<>>, w[g])
        BY <1>2, <1>3, <2>2, PartFacts, MoveAppend
      <4> QED
        BY <2>2, <3>1, <4>1 DEF LineOf
    <3>2. CASE u # g
      BY <2>2, <3>2 DEF LineOf
    <3> QED
      BY <3>1, <3>2
  <2>4. \A u \in Position : Consecutive(LineOf(w, u)')
    BY <1>2, <2>3
  <2>5. w[0] = s'[0] \o <<root'>>
    BY <1>2, <1>3, <2>1
  <2>6. \A l \in Link \ {0} : w[l] = Three(s'[l], Held(l - 1)', w[l - 1])
    BY <1>2, <1>3, <2>1, <2>2
  <2> QED
    BY <1>2, <1>3, <2>4, <2>5, <2>6, GoodNext
<1> QED
  BY <1>4, <1>5

(* The ends of the lines: an instance takes a leaf number, rng_end takes a *)
(* root state.                                                             *)
LEMMA CombineSeen == ASSUME TInv, RInv, NEW p \in Position, Combine(p) PROVE RInv'
<1>1. PICK w : Good(w)
  BY DEF RInv
<1>2. /\ w = [l \in Link |-> w[l]] /\ w[0] = s[0] \o <<root>>
      /\ \A l \in Link \ {0} : w[l] = Three(s[l], Held(l - 1), w[l - 1])
      /\ \A l \in Link : w[l] \in Seq(Root) /\ EndsIn(w[l], root)
      /\ \A u \in Position : Consecutive(LineOf(w, u))
      /\ Consecutive(w[Total])
  BY <1>1, GoodFacts
<1>3. /\ s' = s /\ lpc' = lpc /\ lreg' = lreg /\ root' = root
      /\ leaf' = leaf \/ (leaf[LeafOf(p)] # <<>> /\ leaf' = [leaf EXCEPT ![LeafOf(p)] = Tail(@)])
  BY DEF Combine, CanRead
<1>4. \A u : Held(u)' = Held(u) /\ Reg(u)' = Reg(u)
  BY <1>3 DEF Held, Reg
<1>5. ASSUME NEW u \in Position PROVE Consecutive(LineOf(w, u)')
  <2>1. LineOf(w, u)' = Three(leaf'[u], Reg(u), w[u]) /\ u \in Link
    BY <1>4, ChainFacts DEF LineOf
  <2>2. CASE leaf'[u] = leaf[u]
    BY <1>2, <2>1, <2>2 DEF LineOf
  <2>3. CASE leaf'[u] # leaf[u]
    <3>1. leaf[u] # <<>> /\ leaf'[u] = Tail(leaf[u])
      BY <1>3, <2>3 DEF TInv, LeafQueues
    <3> DEFINE line == Three(leaf[u], Reg(u), w[u])
    <3>2. line # <<>> /\ Tail(line) = Three(Tail(leaf[u]), Reg(u), w[u])
      <4> DEFINE a == leaf[u]
                 b == Reg(u)
                 c == w[u]
      <4>1. a \in Seq(Root) /\ b \in Seq(Root) /\ c \in Seq(Root)
        BY <1>2, <2>1, PartFacts
      <4>2. a # <<>>
        BY <3>1
      <4> HIDE DEF a, b, c
      <4>3. Three(a, b, c) # <<>> /\ Tail(Three(a, b, c)) = Three(Tail(a), b, c)
        BY <4>1, <4>2, ReadFirst
      <4> QED
        BY <4>3 DEF a, b, c
    <3>3. line \in Seq(Root)
      BY <1>2, <2>1, PartFacts, ThreeFacts
    <3>4. Consecutive(line)
      BY <1>2 DEF LineOf
    <3> HIDE DEF line
    <3>5. Consecutive(Tail(line))
      BY <3>2, <3>3, <3>4, ConsecutiveTail
    <3> QED
      BY <2>1, <3>1, <3>2, <3>5
  <2> QED
    BY <2>2, <2>3
<1>6. \A l \in Link \ {0} : w[l] = Three(s'[l], Held(l - 1)', w[l - 1])
  BY <1>2, <1>3, <1>4
<1> QED
  BY <1>2, <1>3, <1>5, <1>6, GoodNext

LEMMA SinkRootSeen == ASSUME TInv, RInv, SinkRoot PROVE RInv'
<1>1. PICK up : Good(up)
  BY DEF RInv
<1>2. /\ up[0] = s[0] \o <<root>>
      /\ \A l \in Link \ {0} : up[l] = Three(s[l], Held(l - 1), up[l - 1])
      /\ \A l \in Link : up[l] \in Seq(Root) /\ EndsIn(up[l], root)
      /\ \A u \in Position : Consecutive(LineOf(up, u))
      /\ Consecutive(up[Total])
  BY <1>1, GoodFacts
<1>3. /\ s[Total] # <<>> /\ s' = [s EXCEPT ![Total] = Tail(@)]
      /\ leaf' = leaf /\ lpc' = lpc /\ lreg' = lreg /\ root' = root
  BY DEF SinkRoot, CanRead
<1>4. /\ Total \in Link \ {0} /\ 0 \in Link /\ Total - 1 \in Position
      /\ \A l \in Link \ {0} : l - 1 \in Link /\ l - 1 # Total
      /\ \A u \in Position : u \in Link /\ u # Total
  BY ChainFacts DEF Position, Link
<1>5. PICK w : w = [l \in Link |-> IF l = Total THEN Tail(up[Total]) ELSE up[l]]
  OBVIOUS
<1>6. \A u : Held(u)' = Held(u) /\ Reg(u)' = Reg(u)
  BY <1>3 DEF Held, Reg
<1>7. \A l \in Link : s'[l] = IF l = Total THEN Tail(s[l]) ELSE s[l]
  BY <1>3, LinkFacts
<1>8. /\ up[Total] # <<>>
      /\ Tail(up[Total]) = Three(Tail(s[Total]), Held(Total - 1), up[Total - 1])
      /\ Tail(up[Total]) \in Seq(Root) /\ EndsIn(Tail(up[Total]), root)
  <2> DEFINE a == s[Total]
             b == Held(Total - 1)
             c == up[Total - 1]
  <2>1. /\ a \in Seq(Root) /\ a # <<>> /\ b \in Seq(Root) /\ c \in Seq(Root)
        /\ EndsIn(c, root) /\ up[Total] = Three(a, b, c) /\ Tail(a) \in Seq(Root)
    BY <1>2, <1>3, <1>4, LinkFacts, PartFacts, TailFacts
  <2> HIDE DEF a, b, c
  <2>2. /\ Three(a, b, c) # <<>> /\ Head(Three(a, b, c)) = Head(a)
        /\ Tail(Three(a, b, c)) = Three(Tail(a), b, c)
    BY <2>1, ReadFirst
  <2>4. Three(Tail(a), b, c) \in Seq(Root) /\ EndsIn(Three(Tail(a), b, c), root)
    BY <2>1, ThreeFacts
  <2> QED
    BY <2>1, <2>2, <2>4 DEF a, b, c
<1>9. w[0] = s'[0] \o <<root'>>
  BY <1>2, <1>3, <1>4, <1>5, <1>7
<1>10. ASSUME NEW l \in Link \ {0} PROVE w[l] = Three(s'[l], Held(l - 1)', w[l - 1])
  BY <1>2, <1>4, <1>5, <1>6, <1>7, <1>8
<1>11. \A l \in Link : w[l] \in Seq(Root) /\ EndsIn(w[l], root')
  BY <1>2, <1>3, <1>5, <1>8
<1>12. \A u \in Position : Consecutive(LineOf(w, u)')
  BY <1>2, <1>3, <1>4, <1>5, <1>6 DEF LineOf
<1>13. Consecutive(w[Total])
  BY <1>2, <1>4, <1>5, <1>8, ConsecutiveTail
<1>14. w = [l \in Link |-> w[l]]
  BY <1>5
<1> QED
  BY <1>9, <1>10, <1>11, <1>12, <1>13, <1>14, GoodNext

LEMMA SameSeen == ASSUME RInv, UNCHANGED rootVars PROVE RInv'
<1>1. s' = s /\ leaf' = leaf /\ lpc' = lpc /\ lreg' = lreg /\ root' = root
  BY DEF rootVars
<1>2. PICK w : Good(w)
  BY DEF RInv
<1>3. \A u : Held(u)' = Held(u) /\ Reg(u)' = Reg(u)
  BY <1>1 DEF Held, Reg
<1> QED
  BY <1>1, <1>2, <1>3, GoodFacts, GoodNext DEF LineOf

LEMMA NextSeen == TInv /\ RInv /\ [Next]_vars => RInv'
<1> SUFFICES ASSUME TInv, RInv, [Next]_vars PROVE RInv'
  OBVIOUS
<1>1. ASSUME NEW g \in Position, LeafRead(g) \/ LeafForward(g) \/ LeafWrite(g) PROVE RInv'
  BY <1>1, LeafReadSeen, LeafPassSeen
<1>2. ASSUME NEW p \in Position, PutPacket(p) PROVE RInv'
  BY <1>2, SameSeen DEF PutPacket
<1>3. CASE StartPacket \/ Draw
  BY <1>3, SameSeen DEF StartPacket, Draw
<1>4. CASE UNCHANGED vars
  BY <1>4, SameSeen DEF vars, rootVars
<1> QED
  BY <1>1, <1>2, <1>3, <1>4, RootInSeen, CombineSeen, SinkRootSeen DEF Next

LEMMA InitSeen == Init => RInv
<1> SUFFICES ASSUME Init PROVE RInv
  OBVIOUS
<1>1. /\ s = [l \in Link |-> <<>>] /\ leaf = [g \in Position |-> <<>>] /\ root = FirstRoot
      /\ lpc = [g \in Position |-> "read"] /\ FirstRoot \in Root
  BY RootAssumption DEF Init
<1>2. PICK w : w = [l \in Link |-> <<FirstRoot>>]
  OBVIOUS
<1>3. \A q : q = <<FirstRoot>> => <<>> \o q = q /\ Three(<<>>, <<>>, q) = q
      /\ q \in Seq(Root) /\ EndsIn(q, FirstRoot) /\ Consecutive(q)
  <2>1. <<FirstRoot>> \in Seq(Root) /\ <<>> \in Seq(Root) /\ Len(<<FirstRoot>>) = 1
    BY <1>1
  <2>2. <<>> \o <<FirstRoot>> = <<FirstRoot>> /\ <<>> \o <<>> = <<>>
    BY <2>1, ConcatEmptySeq
  <2>3. EndsIn(<<FirstRoot>>, FirstRoot) /\ Consecutive(<<FirstRoot>>)
    BY <2>1 DEF EndsIn, Consecutive
  <2>4. Three(<<>>, <<>>, <<FirstRoot>>) = <<FirstRoot>>
    BY <2>2 DEF Three
  <2> QED
    BY <2>1, <2>2, <2>3, <2>4
<1>4. \A l \in Link \ {0} : l - 1 \in Link /\ Held(l - 1) = <<>>
  <2>1. \A l \in Link \ {0} : l - 1 \in Position /\ l - 1 \in Link
    BY ChainFacts DEF Link, Position
  <2> QED
    BY <1>1, <2>1 DEF Held
<1>5. \A g \in Position : g \in Link /\ Reg(g) = <<>> /\ leaf[g] = <<>>
  BY <1>1, ChainFacts DEF Reg
<1>6. w[0] = s[0] \o <<root>> /\ Total \in Link
  BY <1>1, <1>2, <1>3, ChainFacts
<1>7. \A l \in Link \ {0} : w[l] = Three(s[l], Held(l - 1), w[l - 1])
  BY <1>1, <1>2, <1>3, <1>4
<1>8. \A g \in Position : Consecutive(LineOf(w, g))
  BY <1>2, <1>3, <1>5 DEF LineOf
<1>9. Lines(w)
  <2>1. \A l \in Link : w[l] = IF l = 0 THEN s[0] \o <<root>>
                                        ELSE Three(s[l], Held(l - 1), w[l - 1])
    BY <1>6, <1>7
  <2> DEFINE f == [l \in Link |-> IF l = 0 THEN s[0] \o <<root>>
                                           ELSE Three(s[l], Held(l - 1), w[l - 1])]
  <2>2. f = [l \in Link |-> w[l]] /\ w = [l \in Link |-> w[l]]
    BY <1>2, <2>1
  <2> QED
    BY <2>2 DEF Lines
<1>10. \A l \in Link : w[l] \in Seq(Root) /\ EndsIn(w[l], root) /\ Consecutive(w[l])
  BY <1>1, <1>2, <1>3
<1>11. Good(w)
  BY <1>6, <1>8, <1>9, <1>10 DEF Good
<1> QED
  BY <1>11 DEF RInv

(* Every leaf generator and rng_end see every root state once and in       *)
(* order, however far the generators drift apart, for any number of units  *)
(* and instances and any capacities (leaf_state_stream).                   *)
THEOREM RootsSeen == Spec => []EveryRootSeen
<1>1. Init => RInv
  BY InitSeen
<1>2. TInv /\ RInv /\ [Next]_vars => RInv'
  BY NextSeen
<1>3. RInv => EveryRootSeen
  BY SeenInside
<1> QED
  BY <1>1, <1>2, <1>3, TypeInvariance, PTL DEF Spec

-----------------------------------------------------------------------------
(* Counters along a chain of streams: c[l] counts what was read from q[l],  *)
(* hold[l] what the process between q[l] and q[l + 1] has not passed on.   *)
Chained(q, c, hold) ==
    /\ c \in [Link -> Nat] /\ hold \in [Position -> Nat]
    /\ \A p \in Position : c[p] = c[p + 1] + Len(q[p + 1]) + hold[p]

Taken(hold, l) == [p \in Position |-> IF p = l THEN hold[p] + 1 ELSE hold[p]]
Given(hold, l) == [p \in Position |-> IF p = l THEN hold[p] - 1 ELSE hold[p]]

Reads(q, r, c, d, l) ==
    CanRead(q[l]) /\ r = [q EXCEPT ![l] = Tail(@)] /\ d = [c EXCEPT ![l] = @ + 1]

(* Reading q[l] leaves one more with the process after it.                 *)
LEMMA ChainTake ==
    ASSUME NEW q, NEW c, NEW hold, Chained(q, c, hold), DOMAIN q = Link,
           NEW l \in Link, IsSequence(q[l]), NEW r, NEW d, Reads(q, r, c, d, l)
    PROVE  Chained(r, d, Taken(hold, l))
<1> DEFINE h == Taken(hold, l)
<1>1. Len(Tail(q[l])) = Len(q[l]) - 1 /\ Len(q[l]) \in Nat \ {0}
  BY TailSequence DEF Reads
<1>2. d \in [Link -> Nat] /\ h \in [Position -> Nat]
  BY DEF Chained, Taken, Reads
<1>3. ASSUME NEW p \in Position PROVE d[p] = d[p + 1] + Len(r[p + 1]) + h[p]
  <2>1. p \in Link /\ p + 1 \in Link /\ p # p + 1
    BY ChainFacts
  <2>2. c[p] \in Nat /\ c[p + 1] \in Nat /\ hold[p] \in Nat
        /\ c[p] = c[p + 1] + Len(q[p + 1]) + hold[p]
    BY <2>1 DEF Chained
  <2>3. CASE p = l
    <3>1. d[p] = c[p] + 1 /\ d[p + 1] = c[p + 1] /\ r[p + 1] = q[p + 1] /\ h[p] = hold[p] + 1
      BY <2>1, <2>3 DEF Chained, Taken, Reads
    <3> HIDE DEF h
    <3>2. Len(q[p + 1]) \in Int
      BY <2>2, <2>1 DEF Chained
    <3> QED
      BY <2>2, <3>1, <3>2
  <2>4. CASE p + 1 = l
    <3>1. d[p] = c[p] /\ d[p + 1] = c[p + 1] + 1 /\ r[p + 1] = Tail(q[p + 1]) /\ h[p] = hold[p]
      BY <2>1, <2>4 DEF Chained, Taken, Reads
    <3>2. Len(r[p + 1]) = Len(q[p + 1]) - 1 /\ Len(q[p + 1]) \in Nat
      BY <1>1, <2>4, <3>1
    <3> HIDE DEF h
    <3> QED
      BY <2>2, <3>1, <3>2
  <2>5. CASE p # l /\ p + 1 # l
    <3>1. d[p] = c[p] /\ d[p + 1] = c[p + 1] /\ r[p + 1] = q[p + 1] /\ h[p] = hold[p]
      BY <2>1, <2>5 DEF Chained, Taken, Reads
    <3> QED
      BY <2>2, <3>1
  <2> QED
    BY <2>3, <2>4, <2>5
<1> QED
  BY <1>2, <1>3 DEF Chained

(* A process passes one on into the next stream.                           *)
LEMMA ChainGive ==
    ASSUME NEW q, NEW c, NEW hold, Chained(q, c, hold), DOMAIN q = Link,
           NEW l \in Position, IsSequence(q[l + 1]), hold[l] # 0, NEW e
    PROVE  Chained([q EXCEPT ![l + 1] = Append(@, e)], c, Given(hold, l))
<1> DEFINE r == [q EXCEPT ![l + 1] = Append(@, e)]
           h == Given(hold, l)
<1>1. Len(Append(q[l + 1], e)) = Len(q[l + 1]) + 1 /\ Len(q[l + 1]) \in Nat
  BY AppendSequence, SequenceFacts
<1>2. h \in [Position -> Nat] /\ c \in [Link -> Nat]
  BY DEF Chained, Given
<1>3. ASSUME NEW p \in Position PROVE c[p] = c[p + 1] + Len(r[p + 1]) + h[p]
  <2>1. p + 1 \in Link /\ l + 1 \in Link /\ (p + 1 = l + 1 => p = l)
    BY ChainFacts
  <2>2. c[p + 1] \in Nat /\ hold[p] \in Nat /\ c[p] = c[p + 1] + Len(q[p + 1]) + hold[p]
    BY <2>1 DEF Chained
  <2>3. CASE p = l
    <3>1. r[p + 1] = Append(q[p + 1], e) /\ h[p] = hold[p] - 1
      BY <2>1, <2>3 DEF Given
    <3>2. Len(r[p + 1]) = Len(q[p + 1]) + 1 /\ Len(q[p + 1]) \in Nat
      BY <1>1, <2>3, <3>1
    <3>3. \A a, b, k \in Nat : a + b + k = a + (b + 1) + (k - 1)
      OBVIOUS
    <3>4. c[p] = c[p + 1] + (Len(q[p + 1]) + 1) + (hold[p] - 1)
      BY <2>2, <3>2, <3>3
    <3> HIDE DEF r, h
    <3> QED
      BY <3>1, <3>2, <3>4
  <2>4. CASE p # l
    <3>1. r[p + 1] = q[p + 1] /\ h[p] = hold[p]
      BY <2>1, <2>4 DEF Given
    <3> QED
      BY <2>2, <3>1
  <2> QED
    BY <2>3, <2>4
<1> QED
  BY <1>2, <1>3 DEF Chained

(* What lies further down the chain was read before.                       *)
LEMMA ChainFalls ==
    ASSUME NEW q, NEW c, NEW hold, Chained(q, c, hold),
           \A l \in Link : Len(q[l]) \in Nat,
           NEW p \in Position, NEW l \in Link, p < l
    PROVE  c[l] + Len(q[l]) + hold[p] <= c[p]
<1> DEFINE Bad == {m \in Nat : m \in Link /\ p < m /\ ~(c[m] + Len(q[m]) + hold[p] <= c[p])}
<1>1. ASSUME NEW m \in Bad, \A k \in Bad : m <= k PROVE FALSE
  <2>1. m \in Nat /\ m \in Link /\ p < m /\ ~(c[m] + Len(q[m]) + hold[p] <= c[p])
    OBVIOUS
  <2>2. m - 1 \in Position /\ m - 1 \in Link /\ m - 1 \in Nat /\ p \in Nat /\ (m - 1) + 1 = m
    BY <2>1, ChainFacts DEF Position, Link
  <2>3. c[m - 1] = c[m] + Len(q[m]) + hold[m - 1]
        /\ c[m] \in Nat /\ Len(q[m]) \in Nat /\ hold[m - 1] \in Nat /\ hold[p] \in Nat
        /\ c[m - 1] \in Nat /\ Len(q[m - 1]) \in Nat /\ c[p] \in Nat
    BY <2>1, <2>2, ChainFacts DEF Chained
  <2>4. CASE m - 1 = p
    BY <2>1, <2>3, <2>4
  <2>5. CASE m - 1 # p
    <3>1. p < m - 1
      BY <2>1, <2>2, <2>5
    <3>2. m - 1 \notin Bad
      BY <1>1, <2>1, <2>2
    <3>3. c[m - 1] + Len(q[m - 1]) + hold[p] <= c[p]
      BY <2>2, <3>1, <3>2
    <3> HIDE DEF Bad
    <3> DEFINE a == c[m - 1]
               b == c[m]
               d == Len(q[m])
               e == hold[m - 1]
               f == Len(q[m - 1])
               h == hold[p]
               k == c[p]
    <3>4. b + d + h <= k
      <4>1. /\ a \in Nat /\ b \in Nat /\ d \in Nat /\ e \in Nat /\ f \in Nat
            /\ h \in Nat /\ k \in Nat /\ a = b + d + e /\ a + f + h <= k
        BY <2>3, <3>3
      <4> HIDE DEF a, b, d, e, f, h, k
      <4> QED
        BY <4>1
    <3> QED
      BY <2>1, <3>4
  <2> QED
    BY <2>4, <2>5
<1>2. Bad = {}
  <2> HIDE DEF Bad
  <2>1. Bad \in SUBSET Nat
    BY DEF Bad
  <2> QED
    BY <1>1, <2>1, LeastNatural
<1>3. l \in Nat
  BY DEF Link
<1> QED
  BY <1>2, <1>3

(* What the chain holds in all: Room.                                      *)
LEMMA RoomFacts ==
    /\ Room \in Nat
    /\ \E up \in [Link -> Nat] :
           /\ up[0] = 0 /\ up[Total] = Room
           /\ \A p \in Position : up[p + 1] = up[p] + Capacity(p + 1) + 1
<1> DEFINE S == 1 .. Total
           F == [l \in S |-> Capacity(l) + 1]
<1>1. Total \in Nat \ {0} /\ S \subseteq Link /\ IsFiniteSet(S)
  <2>1. Total \in Nat \ {0}
    BY ChainFacts
  <2>2. IsFiniteSet(S)
    BY <2>1, FS_Interval
  <2> QED
    BY <2>1, <2>2 DEF Link
<1>2. F \in [S -> Nat]
  BY <1>1, CapacityFacts
<1>3. PICK g : Sums(g, F, S)
  BY <1>1, SumsExist
<1>4. /\ g[{}] = 0
      /\ \A w \in SUBSET S : g[w] \in Nat
      /\ \A w \in SUBSET S : \A y \in w : g[w] = F[y] + g[w \ {y}]
  <2> HIDE DEF F, S
  <2> QED
    BY <1>1, <1>2, <1>3, SumsAny
<1>5. Room = g[S]
  <2> DEFINE h == CHOOSE k : k = [w \in SUBSET S |->
                                   IF w = {} THEN 0
                                   ELSE LET x == CHOOSE x \in w : TRUE
                                        IN  (Capacity(x) + 1) + k[w \ {x}]]
  <2>1. Room = h[S]
    BY DEF Room, MapThenSumSet, MapThenFoldSet
  <2>2. ASSUME NEW k
        PROVE  Sums(k, F, S) <=>
                   k = [w \in SUBSET S |->
                          IF w = {} THEN 0
                          ELSE LET x == CHOOSE x \in w : TRUE
                               IN  (Capacity(x) + 1) + k[w \ {x}]]
    BY DEF Sums
  <2>3. h = [w \in SUBSET S |->
               IF w = {} THEN 0
               ELSE LET x == CHOOSE x \in w : TRUE
                    IN  (Capacity(x) + 1) + h[w \ {x}]]
    <3>1. g = [w \in SUBSET S |->
                 IF w = {} THEN 0
                 ELSE LET x == CHOOSE x \in w : TRUE
                      IN  (Capacity(x) + 1) + g[w \ {x}]]
      BY <1>3, <2>2
    <3> QED
      BY <3>1
  <2> HIDE DEF h
  <2>4. Sums(h, F, S)
    BY <2>2, <2>3
  <2> HIDE DEF F, S
  <2>5. h = g
    BY <1>1, <1>3, <2>4, SumsOnce
  <2> QED
    BY <2>1, <2>5
<1> DEFINE up == [l \in Link |-> g[1 .. l]]
<1>6. \A l \in Link : 1 .. l \in SUBSET S
  BY <1>1 DEF Link
<1>7. up \in [Link -> Nat]
  BY <1>4, <1>6
<1>8. up[0] = 0 /\ up[Total] = Room
  <2>1. 1 .. 0 = {} /\ 0 \in Link /\ Total \in Link
    BY ChainFacts
  <2> QED
    BY <1>4, <1>5, <2>1
<1>9. ASSUME NEW p \in Position PROVE up[p + 1] = up[p] + Capacity(p + 1) + 1
  <2>1. p \in Link /\ p + 1 \in Link /\ p \in Nat
    BY ChainFacts
  <2>2. p + 1 \in 1 .. p + 1 /\ (1 .. p + 1) \ {p + 1} = 1 .. p
    BY <2>1
  <2>3. 1 .. p + 1 \in SUBSET S /\ 1 .. p \in SUBSET S
    BY <1>6, <2>1
  <2>4. F[p + 1] = Capacity(p + 1) + 1 /\ Capacity(p + 1) \in Nat
    BY <2>1, <2>2, <2>3, CapacityFacts
  <2> HIDE DEF F, S
  <2>5. g[1 .. p + 1] = F[p + 1] + g[(1 .. p + 1) \ {p + 1}]
    BY <1>4, <2>2, <2>3, Zenon
  <2>6. g[1 .. p + 1] = F[p + 1] + g[1 .. p]
    BY <2>2, <2>5, Zenon
  <2>7. g[1 .. p] \in Nat
    BY <1>4, <2>3, Zenon
  <2>8. up[p + 1] = g[1 .. p + 1] /\ up[p] = g[1 .. p]
    BY <2>1
  <2> HIDE DEF up
  <2> QED
    BY <2>4, <2>6, <2>7, <2>8
<1> QED
  BY <1>7, <1>8, <1>9, ChainFacts

(* No more packets lie behind an instance than there is room for.          *)
LEMMA ChainRoom ==
    ASSUME NEW q, NEW c, NEW hold, Chained(q, c, hold),
           \A l \in Link : Len(q[l]) \in Nat /\ Len(q[l]) <= Capacity(l),
           \A l \in Position : hold[l] <= 1,
           NEW p \in Position
    PROVE  c[p] - c[Total] <= Room
<1>1. PICK up \in [Link -> Nat] :
        /\ up[0] = 0 /\ up[Total] = Room
        /\ \A l \in Position : up[l + 1] = up[l] + Capacity(l + 1) + 1
  BY RoomFacts
<1> DEFINE Bad == {m \in Nat : m \in Link /\ ~(c[0] - c[m] <= up[m])}
<1>2. ASSUME NEW m \in Bad, \A k \in Bad : m <= k PROVE FALSE
  <2>1. m \in Nat /\ m \in Link /\ ~(c[0] - c[m] <= up[m])
    OBVIOUS
  <2>2. c \in [Link -> Nat] /\ 0 \in Link
    BY ChainFacts DEF Chained
  <2>3. m # 0
    BY <1>1, <2>1, <2>2
  <2>4. m - 1 \in Position /\ m - 1 \in Link /\ m - 1 \in Nat /\ (m - 1) + 1 = m
    BY <2>1, <2>3, ChainFacts DEF Position, Link
  <2>5. m - 1 \notin Bad
    BY <1>2, <2>1, <2>4
  <2>6. c[0] - c[m - 1] <= up[m - 1]
    BY <2>4, <2>5
  <2>7. c[m - 1] = c[m] + Len(q[m]) + hold[m - 1] /\ hold[m - 1] \in Nat
    BY <2>4 DEF Chained
  <2>8. up[m] = up[m - 1] + Capacity(m) + 1
    BY <1>1, <2>4
  <2>9. /\ Len(q[m]) \in Nat /\ Len(q[m]) <= Capacity(m) /\ Capacity(m) \in Nat
        /\ hold[m - 1] <= 1
    BY <2>1, <2>4, CapacityFacts
  <2>10. /\ c[0] \in Nat /\ c[m] \in Nat /\ c[m - 1] \in Nat
         /\ up[m] \in Nat /\ up[m - 1] \in Nat
    BY <1>1, <2>1, <2>2, <2>4
  <2> HIDE DEF Bad
  <2>11. c[m - 1] <= c[m] + Capacity(m) + 1
    BY <2>7, <2>9, <2>10
  <2>12. c[0] - c[m] <= up[m]
    BY <2>6, <2>8, <2>9, <2>10, <2>11
  <2> QED
    BY <2>1, <2>12
<1>3. Bad = {}
  <2> HIDE DEF Bad
  <2>1. Bad \in SUBSET Nat
    BY DEF Bad
  <2> QED
    BY <1>2, <2>1, LeastNatural
<1>4. Total \in Nat /\ Total \in Link /\ 0 \in Position /\ p \in Nat /\ p \in Link
  BY ChainFacts
<1>5. c[0] - c[Total] <= Room
  BY <1>1, <1>3, <1>4
<1>6. c[p] <= c[0]
  <2>1. CASE p = 0
    BY <1>4, <2>1 DEF Chained
  <2>2. CASE p # 0
    <3>1. c[p] + Len(q[p]) + hold[0] <= c[0]
      BY <1>4, <2>2, ChainFalls
    <3>2. /\ c[p] \in Nat /\ c[0] \in Nat /\ Len(q[p]) \in Nat /\ hold[0] \in Nat
      BY <1>4, ChainFacts DEF Chained
    <3> QED
      BY <3>1, <3>2
  <2> QED
    BY <2>1, <2>2
<1>7. c[p] \in Nat /\ c[0] \in Nat /\ c[Total] \in Nat /\ Room \in Nat
  BY <1>4, ChainFacts, RoomFacts DEF Chained
<1> QED
  BY <1>5, <1>6, <1>7

-----------------------------------------------------------------------------
(* Where every root state is.  ord[n]: the n-th root state; read[l]: how    *)
(* many were read from s[l]; used[g]: how many numbers of leaf generator g *)
(* its instance took.                                                      *)
RootSequence(ord) ==
    ord \in [Nat -> Root] /\ ord[0] = FirstRoot /\ \A n \in Nat : RootStep[ord[n]] = ord[n + 1]

Forwarding == [g \in Position |-> IF lpc[g] = "forward" THEN 1 ELSE 0]
Giving(g) == IF lpc[g] = "read" THEN 0 ELSE 1

InLine(ord, q, c) ==
    \A l \in Link, i \in Nat : i \in 1 .. Len(q[l]) => q[l][i] = ord[c[l] + i - 1]

LinkPlaced(ord, read) ==
    /\ Chained(s, read, Forwarding)
    /\ root = ord[read[0] + Len(s[0])]
    /\ InLine(ord, s, read)
    /\ \A g \in Position : lpc[g] # "read" => read[g] # 0 /\ lreg[g] = ord[read[g] - 1]

LeafPlaced(ord, read, used) ==
    /\ used \in [Position -> Nat]
    /\ \A g \in Position : read[g] = used[g] + Len(leaf[g]) + Giving(g)
    /\ \A g \in Position, i \in Nat : i \in 1 .. Len(leaf[g]) => leaf[g][i] = ord[used[g] + i - 1]

(* The streams of the chain are sequences.                                 *)
LEMMA LinkIsSequence ==
    ASSUME TInv
    PROVE  /\ DOMAIN s = Link /\ DOMAIN o = Link /\ DOMAIN leaf = Position
           /\ \A l \in Link : /\ IsSequence(s[l]) /\ Len(s[l]) \in Nat
                              /\ IsSequence(o[l]) /\ Len(o[l]) \in Nat
           /\ \A g \in Position : IsSequence(leaf[g]) /\ Len(leaf[g]) \in Nat
<1>1. \A l \in Link : IsSequence(s[l]) /\ IsSequence(o[l])
  BY DEF TInv, LinkQueues, IsSequence
<1>2. \A g \in Position : IsSequence(leaf[g])
  BY DEF TInv, LeafQueues, IsSequence
<1> QED
  BY <1>1, <1>2, SequenceFacts DEF TInv, LinkQueues, LeafQueues

(* The generator puts the next root state on the chain.                    *)
LEMMA RootInPlaced ==
    ASSUME TInv, NEW ord, RootSequence(ord), NEW read, NEW used,
           LinkPlaced(ord, read), LeafPlaced(ord, read, used), RootIn
    PROVE  LinkPlaced(ord, read)' /\ LeafPlaced(ord, read, used)'
<1>1. /\ s' = [s EXCEPT ![0] = Append(@, root)] /\ root' = RootStep[root]
      /\ leaf' = leaf /\ lpc' = lpc /\ lreg' = lreg
  BY DEF RootIn
<1>2. DOMAIN s = Link /\ 0 \in Link /\ \A l \in Link : IsSequence(s[l]) /\ Len(s[l]) \in Nat
  BY LinkIsSequence, ChainFacts
<1>3. /\ Len(s'[0]) = Len(s[0]) + 1 /\ s'[0][Len(s[0]) + 1] = root
      /\ \A i \in 1 .. Len(s[0]) : s'[0][i] = s[0][i]
      /\ \A l \in Link \ {0} : s'[l] = s[l]
  BY <1>1, <1>2, AppendSequence
<1>4. Forwarding' = Forwarding /\ \A g : Giving(g)' = Giving(g)
  BY <1>1 DEF Forwarding, Giving
<1>5. read \in [Link -> Nat] /\ root = ord[read[0] + Len(s[0])]
  BY DEF LinkPlaced, Chained
<1>6. Chained(s', read, Forwarding)
  <2>1. \A p \in Position : p + 1 \in Link \ {0}
    BY ChainFacts
  <2> QED
    BY <1>3, <2>1 DEF LinkPlaced, Chained
<1>7. root' = ord[read[0] + Len(s'[0])]
  <2>1. read[0] + Len(s[0]) \in Nat
    BY <1>2, <1>5
  <2>2. RootStep[root] = ord[(read[0] + Len(s[0])) + 1]
    BY <1>5, <2>1 DEF RootSequence
  <2>3. (read[0] + Len(s[0])) + 1 = read[0] + Len(s'[0])
    BY <1>2, <1>3, <1>5
  <2> QED
    BY <1>1, <2>2, <2>3
<1>8. ASSUME NEW l \in Link, NEW i \in Nat, i \in 1 .. Len(s'[l])
      PROVE  s'[l][i] = ord[read[l] + i - 1]
  <2>1. CASE l # 0 \/ i <= Len(s[0])
    BY <1>2, <1>3, <1>8, <2>1 DEF LinkPlaced, InLine
  <2>2. CASE l = 0 /\ i > Len(s[0])
    <3>1. i = Len(s[0]) + 1
      BY <1>2, <1>3, <1>8, <2>2
    <3>2. read[0] + i - 1 = read[0] + Len(s[0])
      BY <1>2, <1>5, <3>1
    <3> QED
      BY <1>3, <1>5, <2>2, <3>1, <3>2
  <2> QED
    BY <1>2, <2>1, <2>2
<1>9. LinkPlaced(ord, read)'
  BY <1>1, <1>4, <1>6, <1>7, <1>8 DEF LinkPlaced, InLine
<1>10. LeafPlaced(ord, read, used)'
  BY <1>1, <1>4 DEF LeafPlaced
<1> QED
  BY <1>9, <1>10

(* What a read from a root stream leaves behind.                           *)
LEMMA TakeRoot ==
    ASSUME TInv, NEW ord, NEW read, LinkPlaced(ord, read), NEW l \in Link,
           NEW d, Reads(s, s', read, d, l)
    PROVE  /\ Chained(s', d, Taken(Forwarding, l)) /\ root = ord[d[0] + Len(s'[0])]
           /\ InLine(ord, s', d) /\ Head(s[l]) = ord[read[l]]
<1>1. DOMAIN s = Link /\ 0 \in Link /\ \A m \in Link : IsSequence(s[m]) /\ Len(s[m]) \in Nat
  BY LinkIsSequence, ChainFacts
<1>2. /\ Len(s'[l]) = Len(s[l]) - 1 /\ Len(s[l]) \in Nat \ {0}
      /\ \A i \in 1 .. Len(s[l]) - 1 : s'[l][i] = s[l][i + 1]
      /\ Head(s[l]) = s[l][1]
      /\ \A m \in Link \ {l} : s'[m] = s[m]
  BY <1>1, TailSequence DEF Reads
<1>3. Chained(s', d, Taken(Forwarding, l))
  BY <1>1, ChainTake DEF LinkPlaced
<1>4. read \in [Link -> Nat] /\ d[l] = read[l] + 1 /\ \A m \in Link \ {l} : d[m] = read[m]
  BY DEF LinkPlaced, Chained, Reads
<1>5. ASSUME NEW m \in Link, NEW i \in Nat, i \in 1 .. Len(s'[m])
      PROVE  s'[m][i] = ord[d[m] + i - 1]
  <2>1. CASE m # l
    <3>1. s'[m] = s[m] /\ d[m] = read[m]
      BY <1>2, <1>4, <2>1
    <3>2. i \in 1 .. Len(s[m]) => s[m][i] = ord[read[m] + i - 1]
      BY DEF LinkPlaced, InLine
    <3> QED
      BY <1>5, <3>1, <3>2
  <2>2. CASE m = l
    <3>1. i \in 1 .. Len(s[l]) - 1 /\ i + 1 \in Nat /\ i + 1 \in 1 .. Len(s[l])
      BY <1>2, <1>5, <2>2
    <3>2. s[l][i + 1] = ord[read[l] + (i + 1) - 1]
      BY <3>1 DEF LinkPlaced, InLine
    <3>3. read[l] + (i + 1) - 1 = d[m] + i - 1
      BY <1>4, <2>2
    <3> QED
      BY <1>2, <2>2, <3>1, <3>2, <3>3
  <2> QED
    BY <2>1, <2>2
<1>6. root = ord[d[0] + Len(s'[0])]
  <2>1. d[0] + Len(s'[0]) = read[0] + Len(s[0])
    <3>1. read[0] \in Nat /\ Len(s[0]) \in Nat
      BY <1>1, <1>4
    <3>2. CASE l = 0
      <4>1. d[0] = read[0] + 1 /\ Len(s'[0]) = Len(s[0]) - 1
        BY <1>2, <1>4, <3>2
      <4>2. \A a, b \in Nat : (a + 1) + (b - 1) = a + b
        OBVIOUS
      <4>3. (read[0] + 1) + (Len(s[0]) - 1) = read[0] + Len(s[0])
        BY <3>1, <4>2, Zenon
      <4> QED
        BY <4>1, <4>3, Zenon
    <3>3. CASE l # 0
      BY <1>1, <1>2, <1>4, <3>3
    <3> QED
      BY <3>2, <3>3
  <2> QED
    BY <2>1 DEF LinkPlaced
<1>7. Head(s[l]) = ord[read[l]]
  <2>1. 1 \in Nat /\ 1 \in 1 .. Len(s[l]) /\ read[l] + 1 - 1 = read[l]
    BY <1>2, <1>4
  <2>2. s[l][1] = ord[read[l] + 1 - 1]
    BY <2>1 DEF LinkPlaced, InLine
  <2> QED
    BY <1>2, <2>1, <2>2
<1> QED
  BY <1>3, <1>5, <1>6, <1>7 DEF InLine

(* A leaf generator reads a root state...                                  *)
LEMMA LeafReadPlaced ==
    ASSUME TInv, NEW ord, NEW read, NEW used,
           LinkPlaced(ord, read), LeafPlaced(ord, read, used),
           NEW g \in Position, LeafRead(g)
    PROVE  LET d == [read EXCEPT ![g] = @ + 1]
           IN  LinkPlaced(ord, d)' /\ LeafPlaced(ord, d, used)'
<1> DEFINE d == [read EXCEPT ![g] = @ + 1]
<1>1. /\ lpc[g] = "read" /\ CanRead(s[g]) /\ lreg' = [lreg EXCEPT ![g] = Head(s[g])]
      /\ s' = [s EXCEPT ![g] = Tail(@)] /\ lpc' = [lpc EXCEPT ![g] = "forward"]
      /\ leaf' = leaf /\ root' = root /\ g \in Link
  BY ChainFacts DEF LeafRead
<1>2. DOMAIN lreg = Position /\ DOMAIN lpc = Position
  BY DEF TInv, LeafRegisters
<1>3. /\ Chained(s', d, Taken(Forwarding, g)) /\ root' = ord[d[0] + Len(s'[0])]
      /\ InLine(ord, s', d) /\ Head(s[g]) = ord[read[g]]
  <2>1. Reads(s, s', read, d, g)
    BY <1>1 DEF Reads
  <2>2. g \in Link /\ root' = root
    BY <1>1
  <2> HIDE DEF d
  <2>3. /\ Chained(s', d, Taken(Forwarding, g)) /\ root = ord[d[0] + Len(s'[0])]
        /\ InLine(ord, s', d) /\ Head(s[g]) = ord[read[g]]
    BY <2>1, <2>2, TakeRoot
  <2> QED
    BY <2>2, <2>3
<1>4. Forwarding' = Taken(Forwarding, g)
  BY <1>1, <1>2 DEF Forwarding, Taken
<1>5. read \in [Link -> Nat] /\ d[g] = read[g] + 1
      /\ \A m \in Position \ {g} : d[m] = read[m]
  BY <1>1, ChainFacts DEF LinkPlaced, Chained
<1> HIDE DEF d
<1>6. ASSUME NEW m \in Position, lpc'[m] # "read"
      PROVE  d[m] # 0 /\ lreg'[m] = ord[d[m] - 1]
  <2>1. CASE m = g
    <3>1. d[m] - 1 = read[g] /\ d[m] # 0
      BY <1>1, <1>5, <2>1
    <3> QED
      BY <1>1, <1>2, <1>3, <2>1, <3>1
  <2>2. CASE m # g
    BY <1>1, <1>2, <1>5, <1>6, <2>2 DEF LinkPlaced
  <2> QED
    BY <2>1, <2>2
<1>7. LinkPlaced(ord, d)'
  BY <1>3, <1>4, <1>6 DEF LinkPlaced
<1>8. ASSUME NEW m \in Position PROVE d[m] = used[m] + Len(leaf[m]) + Giving(m)'
  <2>1. read[m] = used[m] + Len(leaf[m]) + Giving(m) /\ used[m] \in Nat /\ Len(leaf[m]) \in Nat
    BY LinkIsSequence DEF LeafPlaced
  <2>2. CASE m = g
    <3>1. Giving(m) = 0 /\ Giving(m)' = 1
      BY <1>1, <1>2, <2>2 DEF Giving
    <3> QED
      BY <1>5, <2>1, <2>2, <3>1
  <2>3. CASE m # g
    <3>1. Giving(m)' = Giving(m)
      BY <1>1, <1>2, <2>3 DEF Giving
    <3> QED
      BY <1>5, <2>1, <2>3, <3>1
  <2> QED
    BY <2>2, <2>3
<1>9. LeafPlaced(ord, d, used)'
  BY <1>1, <1>8 DEF LeafPlaced
<1> QED
  BY <1>7, <1>9 DEF d

(* ... passes it on to the next unit...                                    *)
LEMMA LeafForwardPlaced ==
    ASSUME TInv, NEW ord, NEW read, NEW used,
           LinkPlaced(ord, read), LeafPlaced(ord, read, used),
           NEW g \in Position, LeafForward(g)
    PROVE  LinkPlaced(ord, read)' /\ LeafPlaced(ord, read, used)'
<1>1. /\ lpc[g] = "forward" /\ lreg' = lreg
      /\ s' = [s EXCEPT ![g + 1] = Append(@, lreg[g])] /\ lpc' = [lpc EXCEPT ![g] = "leaf"]
      /\ leaf' = leaf /\ root' = root
  BY DEF LeafForward
<1>2. DOMAIN lpc = Position /\ DOMAIN s = Link /\ g + 1 \in Link /\ g + 1 # 0 /\ 0 \in Link
      /\ \A m \in Link : IsSequence(s[m]) /\ Len(s[m]) \in Nat
  <2>1. DOMAIN lpc = Position
    BY DEF TInv, LeafRegisters
  <2>2. g + 1 \in Link /\ g + 1 # 0 /\ 0 \in Link
    BY ChainFacts
  <2> QED
    BY <2>1, <2>2, LinkIsSequence
<1>3. /\ Len(s'[g + 1]) = Len(s[g + 1]) + 1
      /\ \A i \in 1 .. Len(s[g + 1]) : s'[g + 1][i] = s[g + 1][i]
      /\ s'[g + 1][Len(s[g + 1]) + 1] = lreg[g]
      /\ \A m \in Link \ {g + 1} : s'[m] = s[m]
  BY <1>1, <1>2, AppendSequence
<1>4. Forwarding[g] = 1 /\ Forwarding' = Given(Forwarding, g)
  BY <1>1, <1>2 DEF Forwarding, Given
<1>5. /\ read \in [Link -> Nat] /\ g \in Link
      /\ read[g] = read[g + 1] + Len(s[g + 1]) + Forwarding[g]
      /\ lreg[g] = ord[read[g] - 1]
  BY <1>1, ChainFacts DEF LinkPlaced, Chained
<1>6. Chained(s', read, Forwarding')
  <2>1. Chained(s, read, Forwarding) /\ Forwarding[g] # 0
    BY <1>4 DEF LinkPlaced
  <2>2. Chained([s EXCEPT ![g + 1] = Append(@, lreg[g])], read, Given(Forwarding, g))
    BY <1>2, <2>1, ChainGive
  <2> QED
    BY <1>1, <1>4, <2>2
<1>7. ASSUME NEW m \in Link, NEW i \in Nat, i \in 1 .. Len(s'[m])
      PROVE  s'[m][i] = ord[read[m] + i - 1]
  <2>1. i \in 1 .. Len(s[m]) => s[m][i] = ord[read[m] + i - 1]
    BY DEF LinkPlaced, InLine
  <2>2. CASE m # g + 1
    <3>1. s'[m] = s[m]
      BY <1>3, <2>2
    <3> QED
      BY <1>7, <2>1, <3>1
  <2>3. CASE m = g + 1 /\ i <= Len(s[m])
    <3>1. i \in 1 .. Len(s[m])
      BY <1>2, <1>7, <2>3
    <3>2. s'[m][i] = s[m][i]
      BY <1>3, <2>3, <3>1
    <3> QED
      BY <2>1, <3>1, <3>2
  <2>4. CASE m = g + 1 /\ i > Len(s[m])
    <3>1. i = Len(s[g + 1]) + 1
      BY <1>2, <1>3, <1>7, <2>4
    <3>2. read[m] + i - 1 = read[g] - 1
      BY <1>2, <1>4, <1>5, <2>4, <3>1
    <3> QED
      BY <1>3, <1>5, <2>4, <3>1, <3>2
  <2> QED
    BY <1>2, <2>2, <2>3, <2>4
<1>8. root' = ord[read[0] + Len(s'[0])]
  <2>1. s'[0] = s[0]
    BY <1>2, <1>3
  <2> QED
    BY <1>1, <2>1 DEF LinkPlaced
<1>9. ASSUME NEW m \in Position, lpc'[m] # "read"
      PROVE  read[m] # 0 /\ lreg'[m] = ord[read[m] - 1]
  <2>1. lpc[m] # "read"
    BY <1>1, <1>2, <1>9
  <2> QED
    BY <1>1, <2>1 DEF LinkPlaced
<1>10. LinkPlaced(ord, read)'
  BY <1>6, <1>7, <1>8, <1>9 DEF LinkPlaced, InLine
<1>11. \A m \in Position : Giving(m)' = Giving(m)
  BY <1>1, <1>2 DEF Giving
<1>12. LeafPlaced(ord, read, used)'
  BY <1>1, <1>11 DEF LeafPlaced
<1> QED
  BY <1>10, <1>12

(* ... and then gives it to its instance.                                  *)
LEMMA LeafWritePlaced ==
    ASSUME TInv, NEW ord, NEW read, NEW used,
           LinkPlaced(ord, read), LeafPlaced(ord, read, used),
           NEW g \in Position, LeafWrite(g)
    PROVE  LinkPlaced(ord, read)' /\ LeafPlaced(ord, read, used)'
<1>1. /\ lpc[g] = "leaf" /\ leaf' = [leaf EXCEPT ![g] = Append(@, lreg[g])]
      /\ lpc' = [lpc EXCEPT ![g] = "read"] /\ lreg' = [lreg EXCEPT ![g] = NoVal]
      /\ s' = s /\ root' = root
  BY DEF LeafWrite
<1>2. /\ DOMAIN lpc = Position /\ DOMAIN lreg = Position /\ DOMAIN leaf = Position
      /\ \A m \in Position : IsSequence(leaf[m]) /\ Len(leaf[m]) \in Nat
  BY LinkIsSequence DEF TInv, LeafRegisters
<1>3. /\ Len(leaf'[g]) = Len(leaf[g]) + 1
      /\ \A i \in 1 .. Len(leaf[g]) : leaf'[g][i] = leaf[g][i]
      /\ leaf'[g][Len(leaf[g]) + 1] = lreg[g]
      /\ \A m \in Position \ {g} : leaf'[m] = leaf[m]
  BY <1>1, <1>2, AppendSequence
<1>4. Forwarding' = Forwarding
  BY <1>1, <1>2 DEF Forwarding
<1>5. ASSUME NEW m \in Position, lpc'[m] # "read"
      PROVE  read[m] # 0 /\ lreg'[m] = ord[read[m] - 1]
  <2>1. m # g /\ lpc[m] # "read" /\ lreg'[m] = lreg[m]
    BY <1>1, <1>2, <1>5
  <2> QED
    BY <2>1 DEF LinkPlaced
<1>6. LinkPlaced(ord, read)'
  BY <1>1, <1>4, <1>5 DEF LinkPlaced, InLine
<1>7. ASSUME NEW m \in Position
      PROVE  /\ used[m] \in Nat /\ read[m] = used[m] + Len(leaf[m]) + Giving(m)
             /\ \A i \in Nat : i \in 1 .. Len(leaf[m]) => leaf[m][i] = ord[used[m] + i - 1]
  BY DEF LeafPlaced
<1>8. Giving(g) = 1 /\ Giving(g)' = 0 /\ \A m \in Position \ {g} : Giving(m)' = Giving(m)
  BY <1>1, <1>2 DEF Giving
<1>9. lreg[g] = ord[read[g] - 1]
  BY <1>1 DEF LinkPlaced
<1>10. ASSUME NEW m \in Position PROVE read[m] = used[m] + Len(leaf'[m]) + Giving(m)'
  <2>1. CASE m = g
    BY <1>2, <1>3, <1>7, <1>8, <2>1
  <2>2. CASE m # g
    <3>1. leaf'[m] = leaf[m] /\ Giving(m)' = Giving(m)
      BY <1>3, <1>8, <2>2
    <3> QED
      BY <1>7, <3>1
  <2> QED
    BY <2>1, <2>2
<1>11. ASSUME NEW m \in Position, NEW i \in Nat, i \in 1 .. Len(leaf'[m])
       PROVE  leaf'[m][i] = ord[used[m] + i - 1]
  <2>1. i \in 1 .. Len(leaf[m]) => leaf[m][i] = ord[used[m] + i - 1]
    BY <1>7
  <2>2. CASE m # g
    <3>1. leaf'[m] = leaf[m]
      BY <1>3, <2>2
    <3> QED
      BY <1>11, <2>1, <3>1
  <2>3. CASE m = g /\ i <= Len(leaf[m])
    <3>1. i \in 1 .. Len(leaf[m])
      BY <1>2, <1>11, <2>3
    <3>2. leaf'[m][i] = leaf[m][i]
      BY <1>3, <2>3, <3>1
    <3> QED
      BY <2>1, <3>1, <3>2
  <2>4. CASE m = g /\ i > Len(leaf[m])
    <3>1. i = Len(leaf[g]) + 1
      BY <1>2, <1>3, <1>11, <2>4
    <3>2. used[m] + i - 1 = read[g] - 1
      BY <1>2, <1>7, <1>8, <2>4, <3>1
    <3> QED
      BY <1>3, <1>9, <2>4, <3>1, <3>2
  <2> QED
    BY <1>2, <2>2, <2>3, <2>4
<1>12. LeafPlaced(ord, read, used)'
  BY <1>10, <1>11 DEF LeafPlaced
<1> QED
  BY <1>6, <1>12

(* The end of the root chain takes a state away.                           *)
LEMMA SinkRootPlaced ==
    ASSUME TInv, NEW ord, NEW read, NEW used,
           LinkPlaced(ord, read), LeafPlaced(ord, read, used), SinkRoot
    PROVE  LET d == [read EXCEPT ![Total] = @ + 1]
           IN  LinkPlaced(ord, d)' /\ LeafPlaced(ord, d, used)'
<1> DEFINE d == [read EXCEPT ![Total] = @ + 1]
<1>1. /\ CanRead(s[Total]) /\ s' = [s EXCEPT ![Total] = Tail(@)]
      /\ leaf' = leaf /\ lpc' = lpc /\ lreg' = lreg /\ root' = root
  BY DEF SinkRoot
<1>2. Total \in Link /\ Total \notin Position /\ root' = root
  BY <1>1, ChainFacts DEF Position
<1>3. \A m \in Position : d[m] = read[m]
  BY <1>2, ChainFacts DEF LinkPlaced, Chained
<1>4. Reads(s, s', read, d, Total)
  BY <1>1 DEF Reads
<1> HIDE DEF d
<1>5. /\ Chained(s', d, Taken(Forwarding, Total)) /\ root = ord[d[0] + Len(s'[0])]
      /\ InLine(ord, s', d)
  BY <1>2, <1>4, TakeRoot
<1>6. Forwarding' = Taken(Forwarding, Total) /\ \A m \in Position : Giving(m)' = Giving(m)
  BY <1>1, <1>2 DEF Forwarding, Taken, Giving
<1>7. LinkPlaced(ord, d)'
  <2>1. \A m \in Position : lpc'[m] # "read" => d[m] # 0 /\ lreg'[m] = ord[d[m] - 1]
    BY <1>1, <1>3 DEF LinkPlaced
  <2> QED
    BY <1>2, <1>5, <1>6, <2>1 DEF LinkPlaced
<1>8. LeafPlaced(ord, d, used)'
  BY <1>1, <1>3, <1>6 DEF LeafPlaced
<1> QED
  BY <1>7, <1>8 DEF d

(* An instance takes a number from its leaf generator.                     *)
LEMMA LeafTaken ==
    ASSUME TInv, NEW ord, NEW read, NEW used, LeafPlaced(ord, read, used),
           NEW g \in Position, NEW w, Reads(leaf, leaf', used, w, g), UNCHANGED lpc
    PROVE  LeafPlaced(ord, read, w)' /\ Head(leaf[g]) = ord[used[g]]
<1>1. /\ DOMAIN leaf = Position
      /\ \A m \in Position : IsSequence(leaf[m]) /\ Len(leaf[m]) \in Nat
  BY LinkIsSequence
<1>2. /\ Len(leaf'[g]) = Len(leaf[g]) - 1 /\ Len(leaf[g]) \in Nat \ {0}
      /\ \A i \in 1 .. Len(leaf[g]) - 1 : leaf'[g][i] = leaf[g][i + 1]
      /\ Head(leaf[g]) = leaf[g][1]
      /\ \A m \in Position \ {g} : leaf'[m] = leaf[m]
  BY <1>1, TailSequence DEF Reads
<1>3. ASSUME NEW m \in Position
      PROVE  /\ used[m] \in Nat /\ read[m] = used[m] + Len(leaf[m]) + Giving(m)
             /\ \A i \in Nat : i \in 1 .. Len(leaf[m]) => leaf[m][i] = ord[used[m] + i - 1]
  BY DEF LeafPlaced
<1>4. w[g] = used[g] + 1 /\ w \in [Position -> Nat] /\ \A m \in Position \ {g} : w[m] = used[m]
  BY DEF LeafPlaced, Reads
<1>5. \A m \in Position : Giving(m)' = Giving(m) /\ Giving(m) \in Nat
  BY DEF Giving
<1>6. ASSUME NEW m \in Position PROVE read[m] = w[m] + Len(leaf'[m]) + Giving(m)'
  <2>1. CASE m = g
    <3>1. \A a, b, d \in Nat : a + b + d = (a + 1) + (b - 1) + d
      OBVIOUS
    <3>2. /\ used[g] \in Nat /\ Len(leaf[g]) \in Nat /\ Giving(g) \in Nat
          /\ read[g] = used[g] + Len(leaf[g]) + Giving(g)
      BY <1>2, <1>3, <1>5
    <3>3. used[g] + Len(leaf[g]) + Giving(g) = (used[g] + 1) + (Len(leaf[g]) - 1) + Giving(g)
      BY <3>1, <3>2, Zenon
    <3>4. read[g] = w[g] + Len(leaf'[g]) + Giving(g)'
      BY <1>2, <1>4, <1>5, <3>2, <3>3, Zenon
    <3> QED
      BY <2>1, <3>4
  <2>2. CASE m # g
    <3>1. leaf'[m] = leaf[m] /\ Giving(m)' = Giving(m) /\ w[m] = used[m]
      BY <1>2, <1>4, <1>5, <2>2
    <3> QED
      BY <1>3, <3>1
  <2> QED
    BY <2>1, <2>2
<1>7. ASSUME NEW m \in Position, NEW i \in Nat, i \in 1 .. Len(leaf'[m])
      PROVE  leaf'[m][i] = ord[w[m] + i - 1]
  <2>1. CASE m # g
    <3>1. leaf'[m] = leaf[m] /\ w[m] = used[m]
      BY <1>2, <1>4, <2>1
    <3> QED
      BY <1>3, <1>7, <3>1
  <2>2. CASE m = g
    <3>1. i \in 1 .. Len(leaf[g]) - 1 /\ i + 1 \in Nat /\ i + 1 \in 1 .. Len(leaf[g])
      BY <1>2, <1>7, <2>2
    <3>2. leaf[g][i + 1] = ord[used[g] + (i + 1) - 1]
      BY <1>3, <3>1
    <3>3. used[g] + (i + 1) - 1 = w[g] + i - 1
      <4>1. used[g] \in Nat /\ w[g] = used[g] + 1
        BY <1>3, <1>4
      <4>2. \A a \in Nat : a + (i + 1) - 1 = (a + 1) + i - 1
        OBVIOUS
      <4> QED
        BY <4>1, <4>2, Zenon
    <3> QED
      BY <1>2, <2>2, <3>1, <3>2, <3>3
  <2> QED
    BY <2>1, <2>2
<1>8. LeafPlaced(ord, read, w)'
  BY <1>4, <1>6, <1>7 DEF LeafPlaced
<1>9. Head(leaf[g]) = ord[used[g]]
  <2>1. 1 \in Nat /\ 1 \in 1 .. Len(leaf[g]) /\ used[g] + 1 - 1 = used[g]
    BY <1>2, <1>3
  <2>2. leaf[g][1] = ord[used[g] + 1 - 1]
    BY <1>3, <2>1
  <2> QED
    BY <1>2, <2>1, <2>2
<1> QED
  BY <1>8, <1>9

-----------------------------------------------------------------------------
(* Where every random number is.  Packets are counted as they pass:        *)
(* cnt[l] were read from o[l], so the j-th of o[l] is packet cnt[l] + j.   *)
(* use[n]: how many leaf numbers instance p has taken with packet n.       *)
Hands == [p \in Position |-> InHand(p)]

PacketsPlaced(cnt) ==
    Chained(o, cnt, Hands) /\ \A p \in Position : sg[p] = cnt[p] % Period

(* What packet n may hold of instance p, which has combined last packets.  *)
Carries(packet, n, ord, p, last, use) ==
    \A t \in packet :
        /\ t.src = "xorshift" /\ t.id = InstanceId(p) => n \in 1 .. last /\ t.at = n % Period
        /\ t.src = "leaf" /\ t.id = LeafId(LeafOf(p)) =>
               n \in 1 .. last /\ use[n] = use[n - 1] + 1 /\ t.at = ord[use[n - 1]]

Steady(use, last) ==
    /\ use \in [Nat -> Nat]
    /\ \A m, n \in 0 .. last : m <= n => use[m] <= use[n] /\ use[n] <= use[m] + (n - m)

OnWay(q, cnt, ord, p, last, use) ==
    \A l \in Link, j \in Nat :
        j \in 1 .. Len(q[l]) => Carries(q[l][j], cnt[l] + j, ord, p, last, use)
InHands(cnt, ord, p, last, use) ==
    \A l \in Position : ipc[l] = "write" => Carries(ireg[l], cnt[l], ord, p, last, use)

Entries(cnt, ord, used, p, use) ==
    /\ Steady(use, cnt[p]) /\ use[cnt[p]] = used[LeafOf(p)]
    /\ OnWay(o, cnt, ord, p, cnt[p], use)
    /\ InHands(cnt, ord, p, cnt[p], use)

(* A read takes no packet to another number.                               *)
LEMMA SameNumbers ==
    ASSUME TInv, NEW cnt, PacketsPlaced(cnt), NEW l \in Link, NEW d, Reads(o, o', cnt, d, l)
    PROVE  /\ Chained(o', d, Taken(Hands, l)) /\ Head(o[l]) = o[l][1] /\ 1 \in 1 .. Len(o[l])
           /\ \A ord, p, last, use : OnWay(o, cnt, ord, p, last, use)
                                         => OnWay(o', d, ord, p, last, use)
<1>1. DOMAIN o = Link /\ \A m \in Link : IsSequence(o[m]) /\ Len(o[m]) \in Nat
  BY LinkIsSequence
<1>2. /\ Len(o'[l]) = Len(o[l]) - 1 /\ Len(o[l]) \in Nat \ {0}
      /\ \A i \in 1 .. Len(o[l]) - 1 : o'[l][i] = o[l][i + 1]
      /\ Head(o[l]) = o[l][1]
      /\ \A m \in Link \ {l} : o'[m] = o[m]
  BY <1>1, TailSequence DEF Reads
<1>3. Chained(o', d, Taken(Hands, l))
  BY <1>1, ChainTake DEF PacketsPlaced
<1>4. cnt \in [Link -> Nat] /\ d[l] = cnt[l] + 1 /\ \A m \in Link \ {l} : d[m] = cnt[m]
  BY DEF PacketsPlaced, Chained, Reads
<1>5. ASSUME NEW ord, NEW p, NEW last, NEW use, OnWay(o, cnt, ord, p, last, use),
             NEW m \in Link, NEW i \in Nat, i \in 1 .. Len(o'[m])
      PROVE  Carries(o'[m][i], d[m] + i, ord, p, last, use)
  <2>1. CASE m # l
    <3>1. o'[m] = o[m] /\ d[m] = cnt[m]
      BY <1>2, <1>4, <2>1
    <3> QED
      BY <1>5, <3>1 DEF OnWay
  <2>2. CASE m = l
    <3>1. i \in 1 .. Len(o[l]) - 1 /\ i + 1 \in Nat /\ i + 1 \in 1 .. Len(o[l])
      BY <1>2, <1>5, <2>2
    <3>2. Carries(o[l][i + 1], cnt[l] + (i + 1), ord, p, last, use)
      BY <1>5, <3>1 DEF OnWay
    <3>3. cnt[l] + (i + 1) = d[m] + i
      BY <1>4, <2>2
    <3>4. o'[m][i] = o[l][i + 1]
      BY <1>2, <2>2, <3>1
    <3> QED
      BY <3>2, <3>3, <3>4
  <2> QED
    BY <2>1, <2>2
<1>6. 1 \in 1 .. Len(o[l])
  BY <1>2
<1>7. ASSUME NEW ord, NEW p, NEW last, NEW use, OnWay(o, cnt, ord, p, last, use)
      PROVE  OnWay(o', d, ord, p, last, use)
  BY <1>5, <1>7 DEF OnWay
<1> QED
  BY <1>2, <1>3, <1>6, <1>7

(* rng_start puts a new empty packet on the chain.                         *)
LEMMA StartPlaced ==
    ASSUME TInv, NEW cnt, PacketsPlaced(cnt), StartPacket
    PROVE  /\ PacketsPlaced(cnt)'
           /\ \A ord, used, p, use :
                  Entries(cnt, ord, used, p, use) => Entries(cnt, ord, used, p, use)'
<1>1. /\ o' = [o EXCEPT ![0] = Append(@, {})] /\ ipc' = ipc /\ ireg' = ireg /\ sg' = sg
  BY DEF StartPacket
<1>2. DOMAIN o = Link /\ 0 \in Link /\ \A m \in Link : IsSequence(o[m]) /\ Len(o[m]) \in Nat
  BY LinkIsSequence, ChainFacts
<1>3. /\ Len(o'[0]) = Len(o[0]) + 1 /\ o'[0][Len(o[0]) + 1] = {}
      /\ \A i \in 1 .. Len(o[0]) : o'[0][i] = o[0][i]
      /\ \A m \in Link \ {0} : o'[m] = o[m]
  BY <1>1, <1>2, AppendSequence
<1>4. Hands' = Hands
  BY <1>1 DEF Hands, InHand
<1>5. PacketsPlaced(cnt)'
  <2>1. \A p \in Position : o'[p + 1] = o[p + 1]
    BY <1>3, ChainFacts
  <2> QED
    BY <1>1, <1>4, <2>1 DEF PacketsPlaced, Chained
<1>6. ASSUME NEW ord, NEW p, NEW last, NEW use, OnWay(o, cnt, ord, p, last, use)
      PROVE  OnWay(o', cnt, ord, p, last, use)
  <2>1. ASSUME NEW m \in Link, NEW i \in Nat, i \in 1 .. Len(o'[m])
        PROVE  Carries(o'[m][i], cnt[m] + i, ord, p, last, use)
    <3>1. CASE i \in 1 .. Len(o[m])
      <4>1. o'[m][i] = o[m][i]
        BY <1>3, <3>1
      <4> QED
        BY <1>6, <3>1, <4>1 DEF OnWay
    <3>2. CASE i \notin 1 .. Len(o[m])
      <4>1. m = 0 /\ i = Len(o[0]) + 1
        BY <1>2, <1>3, <2>1, <3>2
      <4>2. o'[m][i] = {}
        BY <1>3, <4>1
      <4> QED
        BY <4>2 DEF Carries
    <3> QED
      BY <3>1, <3>2
  <2> QED
    BY <2>1 DEF OnWay
<1>7. ASSUME NEW ord, NEW used, NEW p, NEW use, Entries(cnt, ord, used, p, use)
      PROVE  Entries(cnt, ord, used, p, use)'
  <2>1. OnWay(o', cnt, ord, p, cnt[p], use) /\ Steady(use, cnt[p]) /\ use[cnt[p]] = used[LeafOf(p)]
    BY <1>6, <1>7 DEF Entries
  <2>2. InHands(cnt, ord, p, cnt[p], use)'
    <3>1. InHands(cnt, ord, p, cnt[p], use)
      BY <1>7 DEF Entries
    <3> QED
      BY <1>1, <3>1 DEF InHands, Carries
  <2> QED
    BY <2>1, <2>2 DEF Entries, OnWay, Carries
<1> QED
  BY <1>5, <1>7

(* An instance passes its packet on.                                       *)
LEMMA PutPlaced ==
    ASSUME TInv, NEW cnt, PacketsPlaced(cnt), NEW g \in Position, PutPacket(g)
    PROVE  /\ PacketsPlaced(cnt)'
           /\ \A ord, used, p, use :
                  Entries(cnt, ord, used, p, use) => Entries(cnt, ord, used, p, use)'
<1>1. /\ ipc[g] = "write" /\ o' = [o EXCEPT ![g + 1] = Append(@, ireg[g])]
      /\ ipc' = [ipc EXCEPT ![g] = "read"] /\ ireg' = [ireg EXCEPT ![g] = {}] /\ sg' = sg
  BY DEF PutPacket
<1>2. /\ DOMAIN o = Link /\ g + 1 \in Link /\ DOMAIN ipc = Position /\ DOMAIN ireg = Position
      /\ \A m \in Link : IsSequence(o[m]) /\ Len(o[m]) \in Nat
  BY LinkIsSequence, ChainFacts DEF TInv, InstanceRegisters
<1>3. /\ Len(o'[g + 1]) = Len(o[g + 1]) + 1 /\ o'[g + 1][Len(o[g + 1]) + 1] = ireg[g]
      /\ \A i \in 1 .. Len(o[g + 1]) : o'[g + 1][i] = o[g + 1][i]
      /\ \A m \in Link \ {g + 1} : o'[m] = o[m]
  BY <1>1, <1>2, AppendSequence
<1>4. Hands[g] = 1 /\ Hands' = Given(Hands, g)
  BY <1>1, <1>2 DEF Hands, InHand, Given
<1>5. PacketsPlaced(cnt)'
  <2>1. Chained(o, cnt, Hands) /\ Hands[g] # 0
    BY <1>4 DEF PacketsPlaced
  <2>2. Chained([o EXCEPT ![g + 1] = Append(@, ireg[g])], cnt, Given(Hands, g))
    BY <1>2, <2>1, ChainGive
  <2>3. Chained(o', cnt, Hands')
    BY <1>1, <1>4, <2>2
  <2>4. \A p \in Position : sg'[p] = cnt[p] % Period
    BY <1>1 DEF PacketsPlaced
  <2> QED
    BY <2>3, <2>4 DEF PacketsPlaced
<1>6. cnt[g + 1] + (Len(o[g + 1]) + 1) = cnt[g]
  <2>1. cnt[g] = cnt[g + 1] + Len(o[g + 1]) + Hands[g] /\ cnt[g + 1] \in Nat
    BY <1>2 DEF PacketsPlaced, Chained
  <2> QED
    BY <1>2, <1>4, <2>1
<1>7. ASSUME NEW ord, NEW p, NEW last, NEW use,
             OnWay(o, cnt, ord, p, last, use), InHands(cnt, ord, p, last, use)
      PROVE  OnWay(o', cnt, ord, p, last, use)
  <2>1. ASSUME NEW m \in Link, NEW i \in Nat, i \in 1 .. Len(o'[m])
        PROVE  Carries(o'[m][i], cnt[m] + i, ord, p, last, use)
    <3>1. CASE i \in 1 .. Len(o[m])
      <4>1. o'[m][i] = o[m][i]
        BY <1>3, <3>1
      <4> QED
        BY <1>7, <3>1, <4>1 DEF OnWay
    <3>2. CASE i \notin 1 .. Len(o[m])
      <4>1. m = g + 1 /\ i = Len(o[g + 1]) + 1
        BY <1>2, <1>3, <2>1, <3>2
      <4>2. o'[m][i] = ireg[g] /\ cnt[m] + i = cnt[g]
        BY <1>3, <1>6, <4>1
      <4>3. Carries(ireg[g], cnt[g], ord, p, last, use)
        BY <1>1, <1>7 DEF InHands
      <4> QED
        BY <4>2, <4>3
    <3> QED
      BY <3>1, <3>2
  <2> QED
    BY <2>1 DEF OnWay
<1>8. ASSUME NEW ord, NEW used, NEW p, NEW use, Entries(cnt, ord, used, p, use)
      PROVE  Entries(cnt, ord, used, p, use)'
  <2>1. OnWay(o', cnt, ord, p, cnt[p], use) /\ Steady(use, cnt[p]) /\ use[cnt[p]] = used[LeafOf(p)]
    BY <1>7, <1>8 DEF Entries
  <2>2. ASSUME NEW m \in Position, ipc'[m] = "write"
        PROVE  Carries(ireg'[m], cnt[m], ord, p, cnt[p], use)
    <3>1. ipc[m] = "write" /\ ireg'[m] = ireg[m]
      BY <1>1, <1>2, <2>2
    <3>2. InHands(cnt, ord, p, cnt[p], use)
      BY <1>8 DEF Entries
    <3> QED
      BY <3>1, <3>2 DEF InHands
  <2> QED
    BY <2>1, <2>2 DEF Entries, OnWay, InHands, Carries
<1> QED
  BY <1>5, <1>8

(* The application takes a packet away.                                    *)
LEMMA DrawPlaced ==
    ASSUME TInv, NEW cnt, PacketsPlaced(cnt), Draw
    PROVE  LET d == [cnt EXCEPT ![Total] = @ + 1]
           IN  /\ PacketsPlaced(d)'
               /\ \A ord, used, use : \A p \in Position :
                      Entries(cnt, ord, used, p, use) => Entries(d, ord, used, p, use)'
<1> DEFINE d == [cnt EXCEPT ![Total] = @ + 1]
<1>1. /\ CanRead(o[Total]) /\ o' = [o EXCEPT ![Total] = Tail(@)]
      /\ ipc' = ipc /\ ireg' = ireg /\ sg' = sg
  BY DEF Draw
<1>2. Total \in Link /\ Total \notin Position
  BY ChainFacts DEF Position
<1>3. \A p \in Position : d[p] = cnt[p]
  BY <1>2, ChainFacts DEF PacketsPlaced, Chained
<1>4. Reads(o, o', cnt, d, Total)
  BY <1>1 DEF Reads
<1> HIDE DEF d
<1>5. /\ Chained(o', d, Taken(Hands, Total))
      /\ \A ord, p, last, use : OnWay(o, cnt, ord, p, last, use) => OnWay(o', d, ord, p, last, use)
  BY <1>2, <1>4, SameNumbers
<1>6. Hands' = Taken(Hands, Total)
  BY <1>1, <1>2 DEF Hands, Taken, InHand
<1>7. PacketsPlaced(d)'
  <2>1. \A p \in Position : sg'[p] = d[p] % Period
    BY <1>1, <1>3 DEF PacketsPlaced
  <2> QED
    BY <1>5, <1>6, <2>1 DEF PacketsPlaced
<1>8. ASSUME NEW ord, NEW used, NEW use, NEW p \in Position, Entries(cnt, ord, used, p, use)
      PROVE  Entries(d, ord, used, p, use)'
  <2>1. OnWay(o', d, ord, p, d[p], use) /\ Steady(use, d[p]) /\ use[d[p]] = used[LeafOf(p)]
    <3>1. d[p] = cnt[p]
      BY <1>3
    <3> QED
      BY <1>5, <1>8, <3>1 DEF Entries
  <2>2. ASSUME NEW m \in Position, ipc'[m] = "write"
        PROVE  Carries(ireg'[m], d[m], ord, p, d[p], use)
    <3>1. ipc[m] = "write" /\ ireg'[m] = ireg[m] /\ d[m] = cnt[m] /\ d[p] = cnt[p]
      BY <1>1, <1>3, <2>2
    <3>2. InHands(cnt, ord, p, cnt[p], use)
      BY <1>8 DEF Entries
    <3> QED
      BY <3>1, <3>2 DEF InHands
  <2> QED
    BY <2>1, <2>2 DEF Entries, OnWay, InHands, Carries
<1> QED
  BY <1>7, <1>8 DEF d

(* What an instance combines: the packet it read and its own number.       *)
LEMMA CombinedTerms ==
    ASSUME TInv, NEW p \in Position, Combine(p)
    PROVE  /\ DOMAIN ireg' = Position /\ \A u \in Position \ {p} : ireg'[u] = ireg[u]
           /\ \A t \in ireg'[p] :
                 \/ t \in Head(o[p])
                 \/ CanRead(leaf[LeafOf(p)]) /\ t = JumpTerm(p, Jumped(p))
                 \/ CanRead(leaf[LeafOf(p)]) /\ t = LeafTerm(LeafOf(p), Head(leaf[LeafOf(p)]))
<1>1. DOMAIN ireg = Position
  BY DEF TInv, InstanceRegisters
<1>2. CASE CanRead(leaf[LeafOf(p)])
  <2>1. ireg' = [ireg EXCEPT ![p] = XOR(Head(o[p]), Output(p))]
    BY <1>2 DEF Combine
  <2>2. Output(p) = {JumpTerm(p, Jumped(p)), LeafTerm(LeafOf(p), Head(leaf[LeafOf(p)]))}
    BY <1>2, OutputTerms
  <2>3. \A t \in XOR(Head(o[p]), Output(p)) : t \in Head(o[p]) \/ t \in Output(p)
    BY DEF XOR
  <2> QED
    BY <1>1, <1>2, <2>1, <2>2, <2>3
<1>3. CASE ~CanRead(leaf[LeafOf(p)])
  <2>1. ireg' = [ireg EXCEPT ![p] = Head(o[p])]
    BY <1>3 DEF Combine
  <2> QED
    BY <1>1, <2>1
<1> QED
  BY <1>2, <1>3

(* One more packet, with at most one more leaf number.                     *)
Extended(use, last, more) == [n \in Nat |-> IF n <= last THEN use[n] ELSE more]

LEMMA SteadyMore ==
    ASSUME NEW use, NEW last \in Nat, Steady(use, last), NEW more,
           more = use[last] \/ more = use[last] + 1
    PROVE  LET new == Extended(use, last, more)
           IN  /\ Steady(new, last + 1) /\ new[last + 1] = more /\ new[last] = use[last]
               /\ \A packet, n, ord, p : Carries(packet, n, ord, p, last, use)
                                            => Carries(packet, n, ord, p, last + 1, new)
<1> DEFINE new == Extended(use, last, more)
<1>1. use \in [Nat -> Nat] /\ use[last] \in Nat /\ more \in Nat
  BY DEF Steady
<1>2. /\ new \in [Nat -> Nat] /\ new[last + 1] = more
      /\ \A n \in Nat : n <= last => new[n] = use[n]
  BY <1>1 DEF Extended
<1> HIDE DEF new
<1>3. ASSUME NEW m \in 0 .. last + 1, NEW n \in 0 .. last + 1, m <= n
      PROVE  new[m] <= new[n] /\ new[n] <= new[m] + (n - m)
  <2>1. CASE n <= last
    <3>1. /\ m \in 0 .. last /\ n \in 0 .. last /\ new[m] = use[m] /\ new[n] = use[n]
      BY <1>2, <1>3, <2>1
    <3> QED
      BY <1>3, <3>1 DEF Steady
  <2>2. CASE m = last + 1
    <3>1. n = m /\ new[m] \in Nat
      BY <1>2, <1>3, <2>2
    <3> QED
      BY <3>1
  <2>3. CASE n = last + 1 /\ m <= last
    <3>1. m \in 0 .. last /\ last \in 0 .. last /\ new[m] = use[m] /\ new[n] = more
          /\ use[m] \in Nat
      BY <1>1, <1>2, <2>3
    <3>2. use[m] <= use[last] /\ use[last] <= use[m] + (last - m)
      BY <2>3, <3>1 DEF Steady
    <3> QED
      BY <1>1, <2>3, <3>1, <3>2
  <2> QED
    BY <1>3, <2>1, <2>2, <2>3
<1>4. ASSUME NEW packet, NEW n, NEW ord, NEW p, Carries(packet, n, ord, p, last, use)
      PROVE  Carries(packet, n, ord, p, last + 1, new)
  <2>1. n \in 1 .. last => n \in 1 .. last + 1 /\ new[n] = use[n] /\ new[n - 1] = use[n - 1]
    BY <1>2
  <2> QED
    BY <1>4, <2>1 DEF Carries
<1>5. Steady(new, last + 1)
  BY <1>2, <1>3 DEF Steady
<1>6. new[last] = use[last]
  BY <1>2
<1> QED
  BY <1>2, <1>4, <1>5, <1>6 DEF new

Placed(ord) ==
    \E read, used, cnt :
        /\ LinkPlaced(ord, read) /\ LeafPlaced(ord, read, used) /\ PacketsPlaced(cnt)
        /\ \A p \in Position : \E use : Entries(cnt, ord, used, p, use)

(* An instance reads a packet and combines it with its number.             *)
LEMMA CombinePlaced ==
    ASSUME TInv, NEW ord, Placed(ord), NEW p \in Position, Combine(p)
    PROVE  Placed(ord)'
<1>1. PICK read, used, cnt :
        /\ LinkPlaced(ord, read) /\ LeafPlaced(ord, read, used) /\ PacketsPlaced(cnt)
        /\ \A u \in Position : \E use : Entries(cnt, ord, used, u, use)
  BY DEF Placed
<1> DEFINE g == LeafOf(p)
           hit == CanRead(leaf[g])
           d == [cnt EXCEPT ![p] = @ + 1]
           c == cnt[p]
<1>0. PICK w : w = IF hit THEN [used EXCEPT ![g] = @ + 1] ELSE used
  OBVIOUS
<1>2. /\ ipc[p] = "read" /\ CanRead(o[p]) /\ sg' = [sg EXCEPT ![p] = Jumped(p)]
      /\ o' = [o EXCEPT ![p] = Tail(@)] /\ ipc' = [ipc EXCEPT ![p] = "write"]
      /\ s' = s /\ lpc' = lpc /\ lreg' = lreg /\ root' = root
      /\ leaf' = IF hit THEN [leaf EXCEPT ![g] = Tail(@)] ELSE leaf
  BY DEF Combine
<1>3. /\ p \in Link /\ g \in Position /\ DOMAIN ipc = Position /\ DOMAIN sg = Position
      /\ sg[p] \in Int /\ Period \in Nat \ {0}
      /\ \A u \in Position : u \in Link /\ (u # p => LeafOf(u) # g)
  BY ChainFacts, PairingIs, PairingOneToOne DEF TInv, InstanceRegisters
<1>4. cnt \in [Link -> Nat] /\ c \in Nat /\ d[p] = c + 1 /\ \A u \in Position \ {p} : d[u] = cnt[u]
  BY <1>1, <1>3 DEF PacketsPlaced, Chained
<1>5. used[g] \in Nat /\ w[g] \in {used[g], used[g] + 1}
      /\ \A u \in Position \ {p} : w[LeafOf(u)] = used[LeafOf(u)]
  BY <1>0, <1>1, <1>3, PairingIs DEF LeafPlaced
<1>6. hit => w[g] = used[g] + 1 /\ Head(leaf[g]) = ord[used[g]]
  <2>1. ASSUME hit PROVE Head(leaf[g]) = ord[used[g]]
    <3>1. Reads(leaf, leaf', used, w, g) /\ UNCHANGED lpc
      BY <1>0, <1>2, <2>1 DEF Reads
    <3> HIDE DEF g
    <3> QED
      BY <1>1, <1>3, <3>1, LeafTaken
  <2> QED
    BY <1>0, <1>1, <1>3, <2>1 DEF LeafPlaced
<1>7. LinkPlaced(ord, read)'
  BY <1>1, <1>2 DEF LinkPlaced, InLine, Forwarding
<1>8. LeafPlaced(ord, read, w)'
  <2>1. CASE hit
    <3>1. Reads(leaf, leaf', used, w, g) /\ UNCHANGED lpc
      BY <1>0, <1>2, <2>1 DEF Reads
    <3> HIDE DEF g
    <3> QED
      BY <1>1, <1>3, <3>1, LeafTaken
  <2>2. CASE ~hit
    <3>1. w = used /\ leaf' = leaf /\ lpc' = lpc
      BY <1>0, <1>2, <2>2
    <3>2. LeafPlaced(ord, read, used)'
      BY <1>1, <3>1 DEF LeafPlaced, Giving
    <3> QED
      BY <3>1, <3>2, Zenon
  <2> QED
    BY <2>1, <2>2
<1>9. Reads(o, o', cnt, d, p)
  BY <1>2 DEF Reads
<1>10. /\ Chained(o', d, Taken(Hands, p)) /\ Head(o[p]) = o[p][1] /\ 1 \in 1 .. Len(o[p])
       /\ \A u, last, use : OnWay(o, cnt, ord, u, last, use) => OnWay(o', d, ord, u, last, use)
  <2> HIDE DEF d
  <2> QED
    BY <1>1, <1>3, <1>9, SameNumbers
<1>11. Jumped(p) = (c + 1) % Period
  <2>1. sg[p] = c % Period
    BY <1>1 DEF PacketsPlaced
  <2>2. c \in Int /\ 1 \in Int /\ Period \in Nat \ {0}
    BY <1>3, <1>4
  <2> HIDE DEF c
  <2>3. ((c % Period) + 1) % Period = (c + 1) % Period
    BY <2>2, ModPlus
  <2> QED
    BY <2>1, <2>3 DEF Jumped
<1>12. PacketsPlaced(d)'
  <2>1. Hands' = Taken(Hands, p)
    BY <1>2, <1>3 DEF Hands, Taken, InHand
  <2>2. ASSUME NEW u \in Position PROVE sg'[u] = d[u] % Period
    <3>1. CASE u = p
      BY <1>2, <1>3, <1>4, <1>11, <3>1
    <3>2. CASE u # p
      <4>1. sg'[u] = sg[u] /\ d[u] = cnt[u]
        BY <1>2, <1>3, <1>4, <3>2
      <4> QED
        BY <1>1, <4>1 DEF PacketsPlaced
    <3> QED
      BY <3>1, <3>2
  <2> HIDE DEF d
  <2> QED
    BY <1>10, <2>1, <2>2 DEF PacketsPlaced
<1>13. ASSUME NEW u, NEW last, NEW use, OnWay(o, cnt, ord, u, last, use)
       PROVE  Carries(Head(o[p]), c + 1, ord, u, last, use)
  BY <1>3, <1>10, <1>13 DEF OnWay
<1> DEFINE a == JumpTerm(p, Jumped(p))
           b == LeafTerm(g, Head(leaf[g]))
<1>14. /\ a.src = "xorshift" /\ a.id = InstanceId(p) /\ a.at = Jumped(p)
       /\ b.src = "leaf" /\ b.id = LeafId(g) /\ b.at = Head(leaf[g])
  BY DEF JumpTerm, LeafTerm
<1>15. /\ \A u \in Position \ {p} : ireg'[u] = ireg[u]
       /\ \A t \in ireg'[p] : t \in Head(o[p]) \/ (hit /\ t = a) \/ (hit /\ t = b)
  BY CombinedTerms
<1>16. \A u \in Position \ {p} : ipc'[u] = ipc[u]
  BY <1>2, <1>3
<1> HIDE DEF a, b, d, c, g, hit
<1>17. ASSUME NEW u \in Position, u # p PROVE \E use : Entries(d, ord, w, u, use)'
  <2>1. PICK use : Entries(cnt, ord, used, u, use)
    BY <1>1
  <2>2. /\ Steady(use, cnt[u]) /\ use[cnt[u]] = used[LeafOf(u)]
        /\ OnWay(o, cnt, ord, u, cnt[u], use) /\ InHands(cnt, ord, u, cnt[u], use)
    BY <2>1 DEF Entries
  <2>3. d[u] = cnt[u] /\ w[LeafOf(u)] = used[LeafOf(u)]
    BY <1>4, <1>5, <1>17
  <2>4. OnWay(o', d, ord, u, cnt[u], use)
    BY <1>10, <2>2
  <2>5. ASSUME NEW m \in Position, ipc'[m] = "write"
        PROVE  Carries(ireg'[m], d[m], ord, u, cnt[u], use)
    <3>1. CASE m # p
      <4>1. ipc[m] = "write" /\ ireg'[m] = ireg[m] /\ d[m] = cnt[m]
        BY <1>4, <1>15, <1>16, <2>5, <3>1
      <4> QED
        BY <2>2, <4>1 DEF InHands
    <3>2. CASE m = p
      <4>1. Carries(Head(o[p]), c + 1, ord, u, cnt[u], use)
        BY <1>13, <2>2
      <4>2. InstanceId(u) # InstanceId(p) /\ LeafId(LeafOf(u)) # LeafId(g)
        BY <1>17, PairingOneToOne DEF g
      <4>3. Carries(ireg'[p], c + 1, ord, u, cnt[u], use)
        BY <1>14, <1>15, <4>1, <4>2 DEF Carries
      <4> QED
        BY <1>4, <3>2, <4>3
    <3> QED
      BY <3>1, <3>2
  <2>6. Entries(d, ord, w, u, use)'
    <3>1. Steady(use, d[u]) /\ use[d[u]] = w[LeafOf(u)] /\ OnWay(o', d, ord, u, d[u], use)
      BY <2>2, <2>3, <2>4
    <3>2. \A m \in Position : ipc'[m] = "write" => Carries(ireg'[m], d[m], ord, u, d[u], use)
      BY <2>3, <2>5
    <3> QED
      BY <3>1, <3>2 DEF Entries, OnWay, InHands, Carries
  <2> QED
    BY <2>6
<1>18. \E use : Entries(d, ord, w, p, use)'
  <2>1. PICK use : Entries(cnt, ord, used, p, use)
    BY <1>1
  <2>2. /\ Steady(use, c) /\ use[c] = used[g]
        /\ OnWay(o, cnt, ord, p, c, use) /\ InHands(cnt, ord, p, c, use)
    BY <2>1 DEF Entries, c, g
  <2> DEFINE new == Extended(use, c, w[g])
  <2>3. w[g] = use[c] \/ w[g] = use[c] + 1
    BY <1>5, <2>2
  <2>4. /\ Steady(new, c + 1) /\ new[c + 1] = w[g] /\ new[c] = use[c]
        /\ \A packet, n :
               Carries(packet, n, ord, p, c, use) => Carries(packet, n, ord, p, c + 1, new)
    <3>1. c \in Nat /\ Steady(use, c)
      BY <1>4, <2>2
    <3> QED
      BY <2>3, <3>1, SteadyMore
  <2> HIDE DEF new
  <2>5. OnWay(o', d, ord, p, c + 1, new)
    <3>1. OnWay(o, cnt, ord, p, c + 1, new)
      BY <2>2, <2>4 DEF OnWay
    <3> QED
      BY <1>10, <3>1
  <2>6. ASSUME NEW m \in Position, ipc'[m] = "write"
        PROVE  Carries(ireg'[m], d[m], ord, p, c + 1, new)
    <3>1. CASE m # p
      <4>1. ipc[m] = "write" /\ ireg'[m] = ireg[m] /\ d[m] = cnt[m]
        BY <1>4, <1>15, <1>16, <2>6, <3>1
      <4>2. Carries(ireg[m], cnt[m], ord, p, c, use)
        BY <2>2, <4>1 DEF InHands
      <4> QED
        BY <2>4, <4>1, <4>2
    <3>2. CASE m = p
      <4>1. Carries(Head(o[p]), c + 1, ord, p, c, use)
        BY <1>13, <2>2
      <4>2. c + 1 \notin 1 .. c /\ c + 1 \in 1 .. c + 1 /\ (c + 1) - 1 = c
        BY <1>4
      <4>3. \A t \in Head(o[p]) : /\ ~(t.src = "xorshift" /\ t.id = InstanceId(p))
                                 /\ ~(t.src = "leaf" /\ t.id = LeafId(LeafOf(p)))
        BY <4>1, <4>2 DEF Carries
      <4>4. hit => new[c + 1] = new[c] + 1 /\ b.at = ord[new[c]]
        BY <1>6, <1>14, <2>2, <2>4
      <4>5. a.at = (c + 1) % Period
        BY <1>11, <1>14
      <4>6. Carries(ireg'[p], c + 1, ord, p, c + 1, new)
        BY <1>14, <1>15, <4>2, <4>3, <4>4, <4>5 DEF Carries
      <4> QED
        BY <1>4, <3>2, <4>6
    <3> QED
      BY <3>1, <3>2
  <2>7. Entries(d, ord, w, p, new)'
    <3>1. d[p] = c + 1 /\ w[LeafOf(p)] = w[g]
      BY <1>4 DEF g
    <3>2. Steady(new, d[p]) /\ new[d[p]] = w[LeafOf(p)] /\ OnWay(o', d, ord, p, d[p], new)
      BY <2>4, <2>5, <3>1
    <3>3. \A m \in Position : ipc'[m] = "write" => Carries(ireg'[m], d[m], ord, p, d[p], new)
      BY <2>6, <3>1
    <3> QED
      BY <3>2, <3>3 DEF Entries, OnWay, InHands, Carries
  <2> QED
    BY <2>7
<1> QED
  BY <1>7, <1>8, <1>12, <1>17, <1>18 DEF Placed

(* Initially nothing has been read from any stream.                        *)
LEMMA InitPlaced ==
    ASSUME Init, NEW ord, RootSequence(ord)
    PROVE  Placed(ord)
<1> DEFINE zeros == [l \in Link |-> 0]
           none == [g \in Position |-> 0]
           use == [n \in Nat |-> 0]
<1>1. /\ s = [l \in Link |-> <<>>] /\ o = [l \in Link |-> <<>>] /\ leaf = [g \in Position |-> <<>>]
      /\ lpc = [g \in Position |-> "read"] /\ ipc = [p \in Position |-> "read"]
      /\ sg = [p \in Position |-> 0] /\ root = FirstRoot
  BY DEF Init
<1>2. Len(<<>>) = 0 /\ 1 .. 0 = {} /\ 0 \in Link
      /\ \A p \in Position : p \in Link /\ p + 1 \in Link /\ LeafOf(p) \in Position
  BY ChainFacts, PairingIs
<1>3. \A l \in Link : Len(s[l]) = 0 /\ Len(o[l]) = 0
  BY <1>1, <1>2
<1>4. \A g \in Position : Forwarding[g] = 0 /\ Giving(g) = 0 /\ Hands[g] = 0 /\ Len(leaf[g]) = 0
  BY <1>1, <1>2 DEF Forwarding, Giving, Hands, InHand
<1>5. Chained(s, zeros, Forwarding) /\ Chained(o, zeros, Hands)
  <2>1. Forwarding \in [Position -> Nat] /\ Hands \in [Position -> Nat]
    BY DEF Forwarding, Hands, InHand
  <2> QED
    BY <1>2, <1>3, <1>4, <2>1 DEF Chained
<1>6. LinkPlaced(ord, zeros)
  <2>1. zeros[0] + Len(s[0]) = 0
    BY <1>2, <1>3
  <2>2. InLine(ord, s, zeros)
    BY <1>2, <1>3 DEF InLine
  <2> QED
    BY <1>1, <1>5, <2>1, <2>2 DEF LinkPlaced, RootSequence
<1>7. LeafPlaced(ord, zeros, none)
  BY <1>2, <1>4 DEF LeafPlaced
<1>8. PacketsPlaced(zeros)
  <2>1. 0 % Period = 0
    BY ChainFacts
  <2> QED
    BY <1>1, <1>2, <1>5, <2>1 DEF PacketsPlaced
<1>9. ASSUME NEW p \in Position PROVE Entries(zeros, ord, none, p, use)
  <2>1. zeros[p] = 0 /\ none[LeafOf(p)] = 0 /\ use[0] = 0
    BY <1>2
  <2>2. Steady(use, 0)
    BY DEF Steady
  <2>3. OnWay(o, zeros, ord, p, zeros[p], use) /\ InHands(zeros, ord, p, zeros[p], use)
    BY <1>1, <1>2, <1>3 DEF OnWay, InHands
  <2> HIDE DEF zeros, none, use
  <2> QED
    BY <2>1, <2>2, <2>3 DEF Entries
<1> HIDE DEF zeros, none, use
<1> QED
  BY <1>6, <1>7, <1>8, <1>9 DEF Placed

(* Every step keeps the accounts of root states and packets.               *)
LEMMA NextPlaced ==
    ASSUME NEW ord, RootSequence(ord)
    PROVE  TInv /\ Placed(ord) /\ [Next]_vars => Placed(ord)'
<1> SUFFICES ASSUME TInv, Placed(ord), [Next]_vars PROVE Placed(ord)'
  OBVIOUS
<1>1. PICK read, used, cnt :
        /\ LinkPlaced(ord, read) /\ LeafPlaced(ord, read, used) /\ PacketsPlaced(cnt)
        /\ \A p \in Position : \E use : Entries(cnt, ord, used, p, use)
  BY DEF Placed
<1>2. ASSUME UNCHANGED packetVars
      PROVE  PacketsPlaced(cnt)' /\ \A p \in Position : \E use : Entries(cnt, ord, used, p, use)'
  <2>1. PacketsPlaced(cnt)'
    BY <1>1, <1>2 DEF PacketsPlaced, Chained, Hands, InHand, packetVars
  <2>2. ASSUME NEW p, NEW use, Entries(cnt, ord, used, p, use)
        PROVE  Entries(cnt, ord, used, p, use)'
    BY <1>2, <2>2 DEF Entries, OnWay, InHands, Carries, packetVars
  <2> QED
    BY <1>1, <2>1, <2>2
<1>3. ASSUME UNCHANGED rootVars
      PROVE  LinkPlaced(ord, read)' /\ LeafPlaced(ord, read, used)'
  <2>1. LinkPlaced(ord, read)'
    BY <1>1, <1>3 DEF LinkPlaced, InLine, Chained, Forwarding, rootVars
  <2>2. LeafPlaced(ord, read, used)'
    BY <1>1, <1>3 DEF LeafPlaced, Giving, rootVars
  <2> QED
    BY <2>1, <2>2
<1>4. CASE RootIn
  <2>1. LinkPlaced(ord, read)' /\ LeafPlaced(ord, read, used)' /\ UNCHANGED packetVars
    BY <1>1, <1>4, RootInPlaced DEF RootIn
  <2> QED
    BY <1>2, <2>1 DEF Placed
<1>5. ASSUME NEW g \in Position, LeafRead(g) PROVE Placed(ord)'
  <2>1. PICK d : LinkPlaced(ord, d)' /\ LeafPlaced(ord, d, used)'
    BY <1>1, <1>5, LeafReadPlaced
  <2>2. UNCHANGED packetVars
    BY <1>5 DEF LeafRead
  <2> QED
    BY <1>2, <2>1, <2>2 DEF Placed
<1>6. ASSUME NEW g \in Position, LeafForward(g) \/ LeafWrite(g) PROVE Placed(ord)'
  <2>1. LinkPlaced(ord, read)' /\ LeafPlaced(ord, read, used)'
    BY <1>1, <1>6, LeafForwardPlaced, LeafWritePlaced
  <2>2. UNCHANGED packetVars
    BY <1>6 DEF LeafForward, LeafWrite
  <2> QED
    BY <1>2, <2>1, <2>2 DEF Placed
<1>7. CASE SinkRoot
  <2>1. PICK d : LinkPlaced(ord, d)' /\ LeafPlaced(ord, d, used)'
    BY <1>1, <1>7, SinkRootPlaced
  <2>2. UNCHANGED packetVars
    BY <1>7 DEF SinkRoot
  <2> QED
    BY <1>2, <2>1, <2>2 DEF Placed
<1>8. CASE StartPacket
  <2>1. PacketsPlaced(cnt)'
        /\ \A p, use : Entries(cnt, ord, used, p, use) => Entries(cnt, ord, used, p, use)'
    BY <1>1, <1>8, StartPlaced
  <2>2. UNCHANGED rootVars
    BY <1>8 DEF StartPacket
  <2> QED
    BY <1>1, <1>3, <2>1, <2>2 DEF Placed
<1>9. ASSUME NEW p \in Position, PutPacket(p) PROVE Placed(ord)'
  <2>1. PacketsPlaced(cnt)'
        /\ \A u, use : Entries(cnt, ord, used, u, use) => Entries(cnt, ord, used, u, use)'
    BY <1>1, <1>9, PutPlaced
  <2>2. UNCHANGED rootVars
    BY <1>9 DEF PutPacket
  <2> QED
    BY <1>1, <1>3, <2>1, <2>2 DEF Placed
<1>10. CASE Draw
  <2>1. PICK d : /\ PacketsPlaced(d)'
                 /\ \A use : \A p \in Position :
                        Entries(cnt, ord, used, p, use) => Entries(d, ord, used, p, use)'
    BY <1>1, <1>10, DrawPlaced
  <2>2. UNCHANGED rootVars
    BY <1>10 DEF Draw
  <2> QED
    BY <1>1, <1>3, <2>1, <2>2 DEF Placed
<1>11. CASE UNCHANGED vars
  <2>1. UNCHANGED rootVars /\ UNCHANGED packetVars
    BY <1>11 DEF vars, rootVars, packetVars
  <2> QED
    BY <1>2, <1>3, <2>1 DEF Placed
<1> QED
  BY <1>4, <1>5, <1>6, <1>7, <1>8, <1>9, <1>10, <1>11, CombinePlaced DEF Next

(* A packet's number, from the place where it is.                          *)
Number(cnt, x) == cnt[x[1]] + x[2]

(* What a packet holds, from the place where it is.                        *)
LEMMA PlaceCarries ==
    ASSUME TInv, NEW cnt, PacketsPlaced(cnt), NEW x \in Places
    PROVE  /\ x = <<x[1], x[2]>> /\ x[1] \in Link /\ x[2] \in 0 .. Len(o[x[1]])
           /\ x[2] = 0 => x[1] \in Position /\ Hands[x[1]] = 1
           /\ cnt[x[1]] \in Nat /\ Number(cnt, x) \in Nat
           /\ PacketAt(x) \subseteq Term
           /\ \A ord, used, use : \A p \in Position : Entries(cnt, ord, used, p, use) =>
                  Carries(PacketAt(x), Number(cnt, x), ord, p, cnt[p], use)
<1>1. /\ \A l \in Link :
             o[l] \in Seq(SUBSET Term) /\ Len(o[l]) \in Nat /\ DOMAIN o[l] = 1 .. Len(o[l])
      /\ \A p \in Position : ireg[p] \in SUBSET Term /\ p \in Link
      /\ \A l \in Link : cnt[l] \in Nat
  BY ChainFacts, LenProperties DEF TInv, LinkQueues, InstanceRegisters, PacketsPlaced, Chained
<1>2. CASE \E l \in Link : x \in {l} \X DOMAIN o[l]
  <2>0. PICK l \in Link : x \in {l} \X DOMAIN o[l]
    BY <1>2
  <2>1. PICK j \in DOMAIN o[l] : x = <<l, j>>
    BY <2>0
  <2>2. /\ x[1] = l /\ x[2] = j /\ j \in 1 .. Len(o[l]) /\ j \in Nat /\ j # 0
        /\ PacketAt(x) = o[l][j] /\ o[l][j] \in SUBSET Term
    BY <1>1, <2>1 DEF PacketAt
  <2>3. /\ Number(cnt, x) = cnt[l] + j /\ cnt[l] \in Nat /\ cnt[l] + j \in Nat
        /\ j \in 0 .. Len(o[l])
    BY <1>1, <2>2 DEF Number
  <2>4. \A ord, used, use : \A p \in Position : Entries(cnt, ord, used, p, use) =>
            Carries(PacketAt(x), Number(cnt, x), ord, p, cnt[p], use)
    BY <2>2, <2>3 DEF Entries, OnWay
  <2> QED
    BY <2>1, <2>2, <2>3, <2>4
<1>3. CASE x \in {p \in Position : ipc[p] = "write"} \X {0}
  <2>1. PICK l \in Position : x = <<l, 0>> /\ ipc[l] = "write"
    BY <1>3
  <2>2. /\ x[1] = l /\ x[2] = 0 /\ PacketAt(x) = ireg[l] /\ ireg[l] \in SUBSET Term /\ l \in Link
        /\ Hands[l] = 1 /\ 0 \in 0 .. Len(o[l])
    BY <1>1, <2>1 DEF PacketAt, Hands, InHand
  <2>3. Number(cnt, x) = cnt[l] /\ cnt[l] \in Nat
    BY <1>1, <2>2 DEF Number
  <2>4. \A ord, used, use : \A p \in Position : Entries(cnt, ord, used, p, use) =>
            Carries(PacketAt(x), Number(cnt, x), ord, p, cnt[p], use)
    BY <2>1, <2>2, <2>3 DEF Entries, InHands
  <2> QED
    BY <2>1, <2>2, <2>3, <2>4
<1> QED
  BY <1>2, <1>3 DEF Places

(* No two instances are more than Room packets apart.                      *)
LEMMA ChainOfPackets ==
    ASSUME TInv, NEW cnt, PacketsPlaced(cnt)
    PROVE  /\ \A l \in Link : Len(o[l]) \in Nat /\ cnt[l] \in Nat
           /\ \A p \in Position : Hands[p] \in {0, 1} /\ cnt[p] - cnt[Total] <= Room
           /\ \A p \in Position, l \in Link : p < l => cnt[l] + Len(o[l]) + Hands[p] <= cnt[p]
<1>1. Chained(o, cnt, Hands) /\ \A p \in Position : Hands[p] \in {0, 1} /\ Hands[p] <= 1
  BY DEF PacketsPlaced, Hands, InHand
<1>2. \A l \in Link : Len(o[l]) \in Nat /\ Len(o[l]) <= Capacity(l) /\ cnt[l] \in Nat
  BY <1>1, LinkIsSequence DEF TInv, LinkQueues, Chained
<1>3. \A p \in Position : cnt[p] - cnt[Total] <= Room
  BY <1>1, <1>2, ChainRoom
<1>4. \A p \in Position, l \in Link : p < l => cnt[l] + Len(o[l]) + Hands[p] <= cnt[p]
  BY <1>1, <1>2, ChainFalls
<1> QED
  BY <1>1, <1>2, <1>3, <1>4

(* Packets in different places have different numbers, later than those of *)
(* the packets that have been drawn.                                       *)
LEMMA PlacesApart ==
    ASSUME TInv, NEW cnt, PacketsPlaced(cnt), NEW x \in Places, NEW y \in Places
    PROVE  /\ Number(cnt, x) = Number(cnt, y) => x = y
           /\ Number(cnt, x) > cnt[Total]
<1>1. /\ x = <<x[1], x[2]>> /\ x[1] \in Link /\ x[2] \in 0 .. Len(o[x[1]])
      /\ x[2] = 0 => x[1] \in Position /\ Hands[x[1]] = 1
  BY PlaceCarries
<1>2. /\ y = <<y[1], y[2]>> /\ y[1] \in Link /\ y[2] \in 0 .. Len(o[y[1]])
      /\ y[2] = 0 => y[1] \in Position /\ Hands[y[1]] = 1
  BY PlaceCarries
<1>3. Total \in Nat /\ Total \in Link /\ Link \subseteq Nat /\ Total \notin Position
      /\ \A l \in Link : l # Total => l \in Position /\ l < Total
  BY ChainFacts DEF Link, Position
<1>4. ASSUME NEW l \in Link, NEW m \in Link, NEW i \in 0 .. Len(o[l]), NEW j \in 0 .. Len(o[m]),
             i = 0 => Hands[l] = 1, l < m
      PROVE  cnt[m] + j < cnt[l] + i
  <2>1. l \in Position
    BY <1>3, <1>4
  <2>2. cnt[m] + Len(o[m]) + Hands[l] <= cnt[l]
    BY <1>4, <2>1, ChainOfPackets
  <2>3. /\ cnt[m] \in Nat /\ cnt[l] \in Nat /\ Len(o[m]) \in Nat /\ Len(o[l]) \in Nat
        /\ Hands[l] \in {0, 1}
    BY <2>1, ChainOfPackets
  <2>4. i \in Nat /\ j \in Nat /\ j <= Len(o[m])
    BY <2>3
  <2>5. CASE i = 0
    BY <1>4, <2>2, <2>3, <2>4, <2>5
  <2>6. CASE i # 0
    BY <2>2, <2>3, <2>4, <2>6
  <2> QED
    BY <2>5, <2>6
<1>5. ASSUME Number(cnt, x) = Number(cnt, y) PROVE x = y
  <2>1. cnt[x[1]] + x[2] = cnt[y[1]] + y[2] /\ cnt[x[1]] + x[2] \in Nat
    BY <1>5, PlaceCarries DEF Number
  <2>2. ~(x[1] < y[1])
    BY <1>1, <1>2, <1>4, <2>1
  <2>3. ~(y[1] < x[1])
    BY <1>1, <1>2, <1>4, <2>1
  <2>4. x[1] = y[1]
    BY <1>1, <1>2, <1>3, <2>2, <2>3
  <2>5. x[2] = y[2]
    <3>1. cnt[x[1]] \in Nat /\ Len(o[x[1]]) \in Nat /\ Len(o[y[1]]) \in Nat
      BY <1>1, <1>2, ChainOfPackets
    <3>2. x[2] \in Nat /\ y[2] \in Nat
      BY <1>1, <1>2, <3>1
    <3> QED
      BY <2>1, <2>4, <3>1, <3>2
  <2> QED
    BY <1>1, <1>2, <2>4, <2>5
<1>6. Number(cnt, x) > cnt[Total]
  <2>0. cnt[Total] \in Nat /\ cnt[x[1]] \in Nat /\ Len(o[x[1]]) \in Nat /\ Len(o[Total]) \in Nat
    BY <1>1, <1>3, ChainOfPackets
  <2>1. CASE x[1] = Total
    <3>1. x[2] \in Nat /\ x[2] # 0
      BY <1>1, <1>3, <2>0, <2>1
    <3> QED
      BY <2>0, <2>1, <3>1 DEF Number
  <2>2. CASE x[1] # Total
    <3>1. 0 \in 0 .. Len(o[Total]) /\ x[1] < Total
      BY <1>1, <1>3, <2>0, <2>2
    <3>2. cnt[Total] + 0 < cnt[x[1]] + x[2]
      BY <1>1, <1>3, <1>4, <3>1
    <3>3. x[2] \in Nat
      BY <1>1, <2>0
    <3> QED
      BY <2>0, <3>2, <3>3 DEF Number
  <2> QED
    BY <2>1, <2>2
<1> QED
  BY <1>5, <1>6

-----------------------------------------------------------------------------
(* Terms of one instance in packets with different numbers are different,  *)
(* and the leaf numbers among them are none that still wait.               *)
Distinct(ord, span) ==
    /\ span \in Nat
    /\ \A m, n \in Nat : m < n /\ n < m + span => ord[m] # ord[n]

(* The leaf numbers taken with later packets.                              *)
LEMMA UseFacts ==
    ASSUME NEW use, NEW last \in Nat, Steady(use, last),
           NEW n \in 1 .. last, use[n] = use[n - 1] + 1, NEW k \in n .. last
    PROVE  /\ use[n - 1] \in Nat /\ use[k] \in Nat
           /\ use[n - 1] < use[k] /\ use[k] <= use[n - 1] + (k - n) + 1
<1>1. n - 1 \in 0 .. last /\ n \in 0 .. last /\ k \in 0 .. last /\ n - 1 <= k /\ n <= k
      /\ n \in Nat /\ k \in Nat
  OBVIOUS
<1>2. use[n - 1] \in Nat /\ use[k] \in Nat /\ use[n] \in Nat
  BY <1>1 DEF Steady
<1>3. use[n] <= use[k] /\ use[k] <= use[n - 1] + (k - (n - 1))
  BY <1>1 DEF Steady
<1> QED
  BY <1>1, <1>2, <1>3

(* No two packets on the chain hold the same term of instance p.           *)
LEMMA PacketsDiffer ==
    ASSUME TInv, NEW ord, NEW span, Distinct(ord, span), Room <= span, Room <= Period,
           NEW cnt, PacketsPlaced(cnt), NEW used, NEW use, NEW p \in Position,
           Entries(cnt, ord, used, p, use),
           NEW x \in Places, NEW y \in Places, Number(cnt, x) < Number(cnt, y),
           NEW t \in PacketAt(x), t \in PacketAt(y)
    PROVE  /\ ~(t.src = "xorshift" /\ t.id = InstanceId(p))
           /\ ~(t.src = "leaf" /\ t.id = LeafId(LeafOf(p)))
<1> DEFINE a == Number(cnt, x)
           b == Number(cnt, y)
           c == cnt[p]
           e == cnt[Total]
<1>1. /\ Carries(PacketAt(x), a, ord, p, c, use) /\ Carries(PacketAt(y), b, ord, p, c, use)
      /\ a \in Nat /\ b \in Nat
  BY PlaceCarries
<1>2. e < a /\ e < b
  BY PlacesApart
<1>3. c - e <= Room /\ c \in Nat /\ e \in Nat /\ Room \in Nat /\ Period \in Nat \ {0}
  BY ChainFacts, ChainOfPackets, RoomFacts
<1>4. Steady(use, c)
  BY DEF Entries
<1>5. a < b
  OBVIOUS
<1> HIDE DEF a, b, c, e
<1>6. ASSUME t.src = "xorshift", t.id = InstanceId(p) PROVE FALSE
  <2>1. /\ a \in 1 .. c /\ t.at = a % Period /\ b \in 1 .. c /\ t.at = b % Period
    BY <1>1, <1>6 DEF Carries
  <2>2. b - a < Period /\ a - b < Period
    BY <1>1, <1>2, <1>3, <1>5, <2>1
  <2>3. a = b
    <3>1. a % Period = b % Period /\ a \in Int /\ b \in Int
      BY <1>1, <2>1
    <3> QED
      BY <1>3, <2>2, <3>1, ModApart
  <2> QED
    BY <1>1, <1>5, <2>3
<1>7. ASSUME t.src = "leaf", t.id = LeafId(LeafOf(p)) PROVE FALSE
  <2>1. /\ a \in 1 .. c /\ use[a] = use[a - 1] + 1 /\ t.at = ord[use[a - 1]]
        /\ b \in 1 .. c /\ t.at = ord[use[b - 1]]
    BY <1>1, <1>7 DEF Carries
  <2>2. b - 1 \in a .. c
    <3>1. a \in Nat /\ b \in Nat /\ c \in Nat /\ a < b /\ b <= c
      BY <1>1, <1>3, <1>5, <2>1
    <3> QED
      BY <3>1
  <2>3. /\ use[a - 1] \in Nat /\ use[b - 1] \in Nat
        /\ use[a - 1] < use[b - 1] /\ use[b - 1] <= use[a - 1] + ((b - 1) - a) + 1
    BY <1>3, <1>4, <2>1, <2>2, UseFacts
  <2>4. (b - 1) - a + 1 < span
    BY <1>1, <1>2, <1>3, <2>1 DEF Distinct
  <2>5. use[b - 1] < use[a - 1] + span
    BY <1>1, <2>3, <2>4 DEF Distinct
  <2> QED
    BY <2>1, <2>3, <2>5 DEF Distinct
<1> QED
  BY <1>6, <1>7

(* A leaf number in a packet is none that still waits.                     *)
LEMMA WaitingDiffer ==
    ASSUME TInv, NEW ord, NEW span, Distinct(ord, span), Room + Depth <= span,
           NEW cnt, PacketsPlaced(cnt), NEW read, NEW used, LeafPlaced(ord, read, used),
           NEW use, NEW p \in Position, Entries(cnt, ord, used, p, use),
           NEW x \in Places, NEW i \in 1 .. Len(leaf[LeafOf(p)])
    PROVE  LeafTerm(LeafOf(p), leaf[LeafOf(p)][i]) \notin PacketAt(x)
<1> DEFINE a == Number(cnt, x)
           c == cnt[p]
           e == cnt[Total]
           g == LeafOf(p)
           t == LeafTerm(g, leaf[g][i])
<1> SUFFICES ASSUME t \in PacketAt(x) PROVE FALSE
  OBVIOUS
<1>1. Carries(PacketAt(x), a, ord, p, c, use) /\ a \in Nat
  BY PlaceCarries
<1>2. e < a
  BY PlacesApart
<1>3. c - e <= Room /\ c \in Nat /\ e \in Nat /\ Room \in Nat
  BY ChainFacts, ChainOfPackets, RoomFacts
<1>4. Steady(use, c) /\ use[c] = used[g]
  BY DEF Entries
<1>5. g \in Position /\ Depth \in Nat /\ Len(leaf[g]) \in Nat /\ Len(leaf[g]) <= Depth
  BY PairingIs, CapacityFacts, LinkIsSequence DEF TInv, LeafQueues
<1>6. i \in Nat /\ 1 <= i /\ i <= Depth
  BY <1>5
<1>7. leaf[g][i] = ord[used[g] + i - 1] /\ used[g] \in Nat
  BY <1>5, <1>6 DEF LeafPlaced
<1>8. t.src = "leaf" /\ t.id = LeafId(g) /\ t.at = leaf[g][i]
  BY DEF LeafTerm
<1> HIDE DEF t, a, c, e
<1>9. a \in 1 .. c /\ use[a] = use[a - 1] + 1 /\ t.at = ord[use[a - 1]]
  BY <1>1, <1>8 DEF Carries
<1> HIDE DEF g
<1>10. /\ use[a - 1] \in Nat /\ use[a - 1] < used[g] /\ used[g] <= use[a - 1] + (c - a) + 1
  <2>1. c \in a .. c
    BY <1>1, <1>3, <1>9
  <2> QED
    BY <1>3, <1>4, <1>9, <2>1, UseFacts
<1>11. used[g] + i - 1 \in Nat /\ use[a - 1] < used[g] + i - 1
  BY <1>6, <1>7, <1>10
<1>12. used[g] + i - 1 < use[a - 1] + span
  <2>1. (c - a) + 1 <= Room
    BY <1>1, <1>2, <1>3
  <2>2. (c - a) + 1 + i - 1 < span
    BY <1>1, <1>3, <1>5, <1>6, <2>1 DEF Distinct
  <2> QED
    BY <1>1, <1>3, <1>6, <1>7, <1>10, <2>2 DEF Distinct
<1> QED
  BY <1>7, <1>8, <1>9, <1>10, <1>11, <1>12 DEF Distinct

(* The number a term belongs to.                                           *)
Owns(p, t) ==
    \/ t.src = "xorshift" /\ t.id = InstanceId(p)
    \/ t.src = "leaf" /\ t.id = LeafId(LeafOf(p))

(* So no number is used twice.                                             *)
LEMMA TwiceInside ==
    ASSUME TInv, NEW ord, NEW span, Distinct(ord, span), Room + Depth <= span, Room <= Period,
           Placed(ord)
    PROVE  NoNumberTwice
<1>1. PICK read, used, cnt :
        /\ LinkPlaced(ord, read) /\ LeafPlaced(ord, read, used) /\ PacketsPlaced(cnt)
        /\ \A p \in Position : \E use : Entries(cnt, ord, used, p, use)
  BY DEF Placed
<1>2. Room <= span
  BY RoomFacts, CapacityFacts DEF Distinct
<1>3. ASSUME NEW t \in Term
      PROVE  \E p \in Position : Owns(p, t)
  <2>1. CASE \E g \in Position, r \in Root : t = LeafTerm(g, r)
    BY <2>1, PairingOneToOne DEF LeafTerm, Owns
  <2>2. CASE \E p \in Position, n \in 0 .. Period - 1 : t = JumpTerm(p, n)
    BY <2>2 DEF JumpTerm, Owns
  <2> QED
    BY <2>1, <2>2 DEF Term
<1>4. ASSUME NEW x \in Places, NEW y \in Places, Number(cnt, x) < Number(cnt, y),
             NEW t \in PacketAt(x), t \in PacketAt(y)
      PROVE  FALSE
  <2>1. t \in Term
    BY <1>1, PlaceCarries
  <2>2. PICK p \in Position : Owns(p, t)
    BY <1>3, <2>1
  <2>3. PICK use : Entries(cnt, ord, used, p, use)
    BY <1>1
  <2> QED
    BY <1>1, <1>2, <1>4, <2>2, <2>3, PacketsDiffer DEF Owns
<1>5. ASSUME NEW x \in Places, NEW y \in Places, x # y
      PROVE  PacketAt(x) \cap PacketAt(y) = {}
  <2>1. Number(cnt, x) \in Nat /\ Number(cnt, y) \in Nat /\ Number(cnt, x) # Number(cnt, y)
    BY <1>1, <1>5, PlaceCarries, PlacesApart
  <2>2. CASE Number(cnt, x) < Number(cnt, y)
    BY <1>4, <2>2
  <2>3. CASE Number(cnt, y) < Number(cnt, x)
    BY <1>4, <2>3
  <2> QED
    BY <2>1, <2>2, <2>3
<1>6. ASSUME NEW x \in Places PROVE PacketAt(x) \cap Waiting = {}
  <2> SUFFICES ASSUME NEW t \in PacketAt(x), t \in Waiting PROVE FALSE
    OBVIOUS
  <2>1. PICK g \in Position : \E r \in Range(leaf[g]) : t = LeafTerm(g, r)
    BY DEF Waiting
  <2>2. DOMAIN leaf[g] = 1 .. Len(leaf[g])
    BY LinkIsSequence, SequenceFacts
  <2>3. PICK i \in 1 .. Len(leaf[g]) : t = LeafTerm(g, leaf[g][i])
    BY <2>1, <2>2 DEF Range
  <2>4. PICK p \in Position : LeafOf(p) = g
    BY PairingOneToOne
  <2>5. PICK use : Entries(cnt, ord, used, p, use)
    BY <1>1
  <2> QED
    BY <1>1, <2>3, <2>4, <2>5, WaitingDiffer
<1> QED
  BY <1>5, <1>6 DEF NoNumberTwice

(* Once around the cycle is a root sequence without end.                   *)
LEMMA CycleSequence ==
    ASSUME NEW cycle, NEW n, GoesAround(cycle, n)
    PROVE  \E ord : RootSequence(ord) /\ Distinct(ord, n)
<1> DEFINE ord == [k \in Nat |-> cycle[k % n]]
<1>1. n \in Nat \ {0} /\ cycle \in [0 .. n - 1 -> Root]
  BY DEF GoesAround
<1>2. \A k \in Nat : k % n \in 0 .. n - 1 /\ ((k % n) + 1) % n = (k + 1) % n
  <2>1. ASSUME NEW k \in Nat
        PROVE  k % n \in 0 .. n - 1 /\ ((k % n) + 1) % n = (k + 1) % n
    <3>1. k \in Int /\ 1 \in Int
      OBVIOUS
    <3>2. k % n \in 0 .. n - 1
      BY <1>1, <3>1, ModFacts
    <3>3. ((k % n) + 1) % n = (k + 1) % n
      BY <1>1, <3>1, ModPlus
    <3> QED
      BY <3>2, <3>3
  <2> QED
    BY <2>1
<1>3. RootSequence(ord)
  <2>1. ord \in [Nat -> Root]
    BY <1>1, <1>2
  <2>2. ord[0] = FirstRoot
    <3>1. 0 % n = 0
      BY <1>1
    <3> QED
      BY <3>1 DEF GoesAround
  <2>3. ASSUME NEW k \in Nat PROVE RootStep[ord[k]] = ord[k + 1]
    <3>1. RootStep[cycle[k % n]] = cycle[((k % n) + 1) % n]
      BY <1>2 DEF GoesAround
    <3> QED
      BY <1>2, <3>1
  <2> HIDE DEF ord
  <2> QED
    BY <2>1, <2>2, <2>3 DEF RootSequence
<1>4. ASSUME NEW a \in Nat, NEW b \in Nat, a < b, b < a + n, ord[a] = ord[b] PROVE FALSE
  <2>1. a % n = b % n
    BY <1>2, <1>4 DEF GoesAround
  <2>2. b - a < n /\ a - b < n
    BY <1>1, <1>4
  <2>3. a = b
    <3>1. a \in Int /\ b \in Int
      OBVIOUS
    <3> QED
      BY <1>1, <2>1, <2>2, <3>1, ModApart
  <2> QED
    BY <1>4, <2>3
<1>5. Distinct(ord, n)
  BY <1>1, <1>4 DEF Distinct
<1> HIDE DEF ord
<1> QED
  BY <1>3, <1>5

(* No random number is used for two packets, and none that was used still  *)
(* waits in a leaf stream, for any number of units and instances and any   *)
(* capacities, where neither the root sequence nor the decorrelators       *)
(* repeat within what the chain can hold (rng_instance_1: read_nb,         *)
(* sg_state).                                                              *)
THEOREM NumbersOnce ==
    ASSUME NEW cycle, NEW n, PeriodsSuffice(cycle, n)
    PROVE  Spec => []NoNumberTwice
<1>1. PICK ord : RootSequence(ord) /\ Distinct(ord, n)
  BY CycleSequence DEF PeriodsSuffice
<1>2. Init => Placed(ord)
  BY <1>1, InitPlaced
<1>3. TInv /\ Placed(ord) /\ [Next]_vars => Placed(ord)'
  BY <1>1, NextPlaced
<1>4. TInv /\ Placed(ord) => NoNumberTwice
  BY <1>1, TwiceInside DEF PeriodsSuffice
<1> QED
  BY <1>2, <1>3, <1>4, TypeInvariance, PTL DEF Spec

=============================================================================
