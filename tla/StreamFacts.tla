---------------------------- MODULE StreamFacts ----------------------------
(***************************************************************************)
(* What the proofs about the kernels have in common: what writing to and   *)
(* reading from a stream does to its contents (Append, Head and Tail), the *)
(* arithmetic of counters that wrap around, the least element of a set of  *)
(* positions, small sets, sums over sets, and induction.                   *)
(***************************************************************************)
EXTENDS Streams, Integers, SequenceTheorems, FiniteSetTheorems, WellFoundedInduction, TLAPS

(* Writing e to the stream q puts it behind what is already there.         *)
LEMMA AppendFacts ==
    ASSUME NEW S, NEW q \in Seq(S), NEW e \in S
    PROVE  /\ Append(q, e) \in Seq(S)
           /\ Append(q, e) # <<>>
           /\ Len(q) \in Nat
           /\ Len(Append(q, e)) = Len(q) + 1
           /\ \A i \in 1 .. Len(q) : Append(q, e)[i] = q[i]
           /\ Append(q, e)[Len(q) + 1] = e
           /\ Head(Append(q, e)) = IF q = <<>> THEN e ELSE Head(q)
  BY AppendProperties, HeadTailAppend, LenProperties

(* The oldest element of a stream is its first.                            *)
LEMMA HeadIsFirst ==
    ASSUME NEW S, NEW q \in Seq(S), q # <<>>
    PROVE  Head(q) = q[1]
  OBVIOUS

(* A sequence behind another one.                                          *)
LEMMA ConcatFacts ==
    ASSUME NEW T, NEW f \in Seq(T), NEW g \in Seq(T)
    PROVE  /\ f \o g \in Seq(T) /\ DOMAIN (f \o g) = 1 .. Len(f) + Len(g)
           /\ Len(f) \in Nat /\ DOMAIN f = 1 .. Len(f)
           /\ Len(g) \in Nat /\ DOMAIN g = 1 .. Len(g)
           /\ \A a \in 1 .. Len(f) : (f \o g)[a] = f[a]
           /\ \A a \in Len(f) + 1 .. Len(f) + Len(g) : (f \o g)[a] = g[a - Len(f)]
  BY SMTT(20)

(* A sequence of one element.                                              *)
LEMMA SingleFacts ==
    ASSUME NEW T, NEW x \in T
    PROVE  <<x>> \in Seq(T) /\ Len(<<x>>) = 1 /\ <<x>>[1] = x
  OBVIOUS

(* Reading takes the oldest element away and keeps the others in order.    *)
LEMMA TailFacts ==
    ASSUME NEW S, NEW q \in Seq(S), q # <<>>
    PROVE  /\ Head(q) \in S
           /\ Head(q) = q[1]
           /\ Tail(q) \in Seq(S)
           /\ Len(q) \in Nat \ {0}
           /\ Len(Tail(q)) = Len(q) - 1
           /\ \A i \in 1 .. Len(q) - 1 : Tail(q)[i] = q[i + 1]
           /\ Tail(q) # <<>> <=> Len(q) > 1
           /\ Tail(q) # <<>> => Head(Tail(q)) = q[2]
<1>1. Len(q) \in Nat \ {0}
  BY EmptySeq
<1>2. /\ Head(q) \in S
      /\ Tail(q) \in Seq(S)
      /\ Len(Tail(q)) = Len(q) - 1
      /\ \A i \in 1 .. Len(q) - 1 : Tail(q)[i] = q[i + 1]
  BY HeadTailProperties
<1>3. Head(q) = q[1]
  OBVIOUS
<1>4. Tail(q) # <<>> <=> Len(q) > 1
  <2>1. Tail(q) # <<>> => Len(Tail(q)) \in Nat \ {0}
    BY <1>2, EmptySeq
  <2>2. Tail(q) = <<>> => Len(Tail(q)) = 0
    BY EmptySeq
  <2>3. QED
    BY <1>1, <1>2, <2>1, <2>2
<1>5. Tail(q) # <<>> => Head(Tail(q)) = q[2]
  <2>1. ASSUME Tail(q) # <<>> PROVE Head(Tail(q)) = Tail(q)[1]
    <3> DEFINE t == Tail(q)
    <3>1. t \in Seq(S) /\ t # <<>>
      BY <1>2, <2>1
    <3> HIDE DEF t
    <3>2. Head(t) = t[1]
      BY <3>1, HeadIsFirst
    <3>3. QED
      BY <3>2 DEF t
  <2>2. QED
    BY <1>1, <1>2, <1>4, <2>1
<1>6. QED
  BY <1>1, <1>2, <1>3, <1>4, <1>5

(* A value that moves from one stream to the stream in front of it keeps   *)
(* its place in the two streams put together.                              *)
LEMMA MoveFacts ==
    ASSUME NEW S, NEW q \in Seq(S), q # <<>>
    PROVE  <<Head(q)>> \o Tail(q) = q
<1> DEFINE h == <<Head(q)>>
           t == Tail(q)
<1>1. /\ h \in Seq(S) /\ t \in Seq(S)
      /\ Len(h) = 1 /\ h[1] = q[1]
      /\ Len(q) \in Nat \ {0} /\ Len(t) = Len(q) - 1
      /\ \A i \in 1 .. Len(q) - 1 : t[i] = q[i + 1]
  BY TailFacts
<1> HIDE DEF h, t
<1>2. /\ h \o t \in Seq(S)
      /\ Len(h \o t) = Len(h) + Len(t)
      /\ \A i \in 1 .. Len(h) + Len(t) :
             (h \o t)[i] = IF i <= Len(h) THEN h[i] ELSE t[i - Len(h)]
  BY <1>1, ConcatProperties
<1>3. \A i \in 1 .. Len(q) : (h \o t)[i] = q[i]
  <2> TAKE i \in 1 .. Len(q)
  <2>1. CASE i = 1
    <3>1. (h \o t)[1] = h[1]
      BY <1>1, <1>2
    <3>2. QED
      BY <1>1, <2>1, <3>1
  <2>2. CASE i > 1
    <3>1. i - 1 \in 1 .. Len(q) - 1 /\ (h \o t)[i] = t[i - 1]
      BY <1>1, <1>2, <2>2
    <3>2. t[i - 1] = q[i - 1 + 1]
      BY <1>1, <3>1
    <3>3. i - 1 + 1 = i
      BY <1>1
    <3>4. QED
      BY <3>1, <3>2, <3>3
  <2>3. i = 1 \/ i > 1
    BY <1>1
  <2>4. QED
    BY <2>1, <2>2, <2>3
<1>4. h \o t = q
  BY <1>1, <1>2, <1>3, SeqEqual
<1>5. QED
  BY <1>4 DEF h, t

(* Reading the first of two streams put together.                          *)
LEMMA TailOfConcat ==
    ASSUME NEW S, NEW q \in Seq(S), NEW r \in Seq(S), q # <<>>
    PROVE  /\ q \o r # <<>>
           /\ Head(q \o r) = Head(q)
           /\ Tail(q \o r) = Tail(q) \o r
<1> DEFINE c == q \o r
           t == Tail(q)
<1>1. /\ c \in Seq(S)
      /\ Len(c) = Len(q) + Len(r) /\ Len(r) \in Nat
      /\ \A i \in 1 .. Len(q) + Len(r) : c[i] = IF i <= Len(q) THEN q[i] ELSE r[i - Len(q)]
  BY ConcatProperties, LenProperties
<1>2. /\ t \in Seq(S) /\ Head(q) = q[1]
      /\ Len(q) \in Nat \ {0} /\ Len(t) = Len(q) - 1
      /\ \A i \in 1 .. Len(q) - 1 : t[i] = q[i + 1]
  BY TailFacts
<1> HIDE DEF c, t
<1>3. c # <<>>
  BY <1>1, <1>2, EmptySeq
<1>4. /\ Head(c) = c[1] /\ Tail(c) \in Seq(S)
      /\ Len(Tail(c)) = Len(c) - 1
      /\ \A i \in 1 .. Len(c) - 1 : Tail(c)[i] = c[i + 1]
  BY <1>1, <1>3, TailFacts
<1>5. /\ t \o r \in Seq(S)
      /\ Len(t \o r) = Len(t) + Len(r)
      /\ \A i \in 1 .. Len(t) + Len(r) :
             (t \o r)[i] = IF i <= Len(t) THEN t[i] ELSE r[i - Len(t)]
  BY <1>1, <1>2, ConcatProperties
<1>6. \A i \in 1 .. Len(c) - 1 : Tail(c)[i] = (t \o r)[i]
  <2> TAKE i \in 1 .. Len(c) - 1
  <2>1. Tail(c)[i] = c[i + 1]
    BY <1>4
  <2>2. CASE i < Len(q)
    BY <1>1, <1>2, <1>5, <2>1, <2>2
  <2>3. CASE i >= Len(q)
    <3>1. c[i + 1] = r[i + 1 - Len(q)]
      BY <1>1, <1>2, <2>3
    <3>2. (t \o r)[i] = r[i - (Len(q) - 1)]
      BY <1>1, <1>2, <1>5, <2>3
    <3>3. i + 1 - Len(q) = i - (Len(q) - 1)
      BY <1>1, <1>2
    <3>4. QED
      BY <2>1, <3>1, <3>2, <3>3
  <2>4. QED
    BY <1>1, <1>2, <2>2, <2>3
<1>7. Tail(c) = t \o r
  <2>1. Len(Tail(c)) = Len(t \o r)
    BY <1>1, <1>2, <1>4, <1>5
  <2>2. \A i \in 1 .. Len(Tail(c)) : Tail(c)[i] = (t \o r)[i]
    BY <1>4, <1>6
  <2>3. QED
    BY <1>4, <1>5, <2>1, <2>2, SeqEqual
<1>8. Head(c) = Head(q)
  BY <1>1, <1>2, <1>4
<1>9. QED
  BY <1>3, <1>7, <1>8 DEF c, t

-----------------------------------------------------------------------------
(* Positions that wrap around.                                             *)
LEMMA ModFacts ==
    ASSUME NEW a \in Int, NEW P \in Nat \ {0}
    PROVE  a % P \in 0 .. P - 1 /\ a \div P \in Int /\ a = P * (a \div P) + (a % P)
<1>1. a % P \in 0 .. P - 1
  OBVIOUS
<1>2. a \div P \in Int
  OBVIOUS
<1>3. a = P * (a \div P) + (a % P)
  OBVIOUS
<1> QED
  BY <1>1, <1>2, <1>3

LEMMA SameRemainder ==
    ASSUME NEW P \in Nat \ {0}, NEW x \in Int, NEW y \in Int,
           NEW r \in 0 .. P - 1, NEW t \in 0 .. P - 1, P * x + r = P * y + t
    PROVE  r = t
<1>1. P * (x - y) = t - r
  OBVIOUS
<1>2. x - y # 0 => P * (x - y) >= P \/ P * (x - y) <= -P
  <2>1. ASSUME NEW z \in Int, z # 0 PROVE P * z >= P \/ P * z <= -P
    BY <2>1
  <2> QED
    BY <2>1
<1> QED
  BY <1>1, <1>2

(* A position that has wrapped around already can be moved further.        *)
LEMMA ModPlus ==
    ASSUME NEW a \in Int, NEW n \in Int, NEW P \in Nat \ {0}
    PROVE  ((a % P) + n) % P = (a + n) % P
<1> DEFINE r == a % P
           b == (a + n) % P
           c == (r + n) % P
           x == a \div P
           y == (a + n) \div P
           z == (r + n) \div P
<1>1. r \in 0 .. P - 1 /\ a = P * x + r /\ x \in Int
  BY ModFacts
<1>2. b \in 0 .. P - 1 /\ a + n = P * y + b /\ y \in Int
  <2>1. a + n \in Int
    OBVIOUS
  <2> QED
    BY <2>1, ModFacts
<1>3. c \in 0 .. P - 1 /\ r + n = P * z + c /\ z \in Int
  <2>1. r + n \in Int
    BY <1>1
  <2> HIDE DEF r
  <2> QED
    BY <2>1, ModFacts
<1> HIDE DEF r, b, c, x, y, z
<1>4. P * y + b = P * x + P * z + c
  BY <1>1, <1>2, <1>3
<1>5. P * x + P * z = P * (x + z) /\ x + z \in Int
  BY <1>1, <1>3
<1>6. b = c
  BY <1>2, <1>3, <1>4, <1>5, SameRemainder
<1> QED
  BY <1>6 DEF b, c, r

(* Within less than a whole turn, different numbers are different positions. *)
LEMMA ModApart ==
    ASSUME NEW P \in Nat \ {0}, NEW m \in Int, NEW n \in Int,
           m % P = n % P, n - m < P, m - n < P
    PROVE  m = n
<1> DEFINE r == m % P
           t == n % P
           x == m \div P
           y == n \div P
<1>1. r \in 0 .. P - 1 /\ x \in Int /\ m = P * x + r
  BY ModFacts
<1>2. t \in 0 .. P - 1 /\ y \in Int /\ n = P * y + t
  BY ModFacts
<1>3. r = t
  OBVIOUS
<1> HIDE DEF r, t, x, y
<1>4. n - m = P * (y - x) /\ n - m < P /\ m - n < P
  BY <1>1, <1>2, <1>3
<1>5. ASSUME NEW z \in Int, z # 0 PROVE P * z >= P \/ P * z <= -P
  BY <1>5
<1>6. y - x = 0
  <2>1. y - x \in Int
    BY <1>1, <1>2
  <2>2. P * (y - x) < P /\ -(P * (y - x)) < P
    BY <1>1, <1>2, <1>4
  <2> DEFINE z == y - x
             w == P * z
  <2>3. z # 0 => w >= P \/ w <= -P
    BY <1>5, <2>1
  <2>4. w \in Int
    BY <2>1
  <2>5. w < P /\ -w < P
    BY <2>2
  <2> HIDE DEF w, z
  <2>6. z = 0
    BY <2>3, <2>4, <2>5
  <2> QED
    BY <2>6 DEF z
<1> QED
  BY <1>1, <1>2, <1>3, <1>6

-----------------------------------------------------------------------------
(* A quotient is zero for what is less than the divisor.                   *)
LEMMA QuotientFacts ==
    ASSUME NEW a \in Nat, NEW w \in Nat \ {0}
    PROVE  a \div w \in Nat /\ (a \div w = 0 <=> a < w)
<1>1. a \div w \in Int /\ a % w \in 0 .. w - 1 /\ a = w * (a \div w) + (a % w)
  BY ModFacts
<1> DEFINE b == a \div w
           r == a % w
<1>2. b \in Int /\ r \in 0 .. w - 1 /\ a = w * b + r
  BY <1>1
<1> HIDE DEF b, r
<1>3. ~(b < 0)
  <2> SUFFICES ASSUME b <= -1 PROVE FALSE
    BY <1>2
  <2>1. w * b <= w * (-1)
    BY <1>2
  <2> QED
    BY <1>2, <2>1
<1>4. b = 0 => a < w
  BY <1>2
<1>5. b >= 1 => ~(a < w)
  <2> SUFFICES ASSUME b >= 1 PROVE ~(a < w)
    OBVIOUS
  <2>1. w * b >= w * 1
    BY <1>2
  <2> QED
    BY <1>2, <2>1
<1> QED
  BY <1>2, <1>3, <1>4, <1>5 DEF b

-----------------------------------------------------------------------------
(* Every set of natural numbers has a least element: what an induction     *)
(* over positions comes down to.                                           *)
LEMMA LeastNatural ==
    ASSUME NEW T \in SUBSET Nat, T # {}
    PROVE  \E n \in T : \A m \in T : n <= m
<1>1. \E x \in T : \A y \in T : ~ (<<y, x>> \in OpToRel(<, Nat))
  BY NatLessThanWellFounded, WFMin
<1>2. PICK x \in T : \A y \in T : ~ (<<y, x>> \in OpToRel(<, Nat))
  BY <1>1
<1>3. \A y \in T : ~ (y < x)
  BY <1>2 DEF OpToRel
<1> QED
  BY <1>3

(* How many members a set of two, three or four has.                       *)
LEMMA Members ==
    /\ \A a, b : Cardinality({a, b}) = IF a = b THEN 1 ELSE 2
    /\ \A a, b, c : Cardinality({a, b, c}) = 3 <=> a # b /\ a # c /\ b # c
    /\ \A a, b, c, d : a # b /\ a # c /\ a # d /\ b # c /\ b # d /\ c # d
                          => Cardinality({a, b, c, d}) = 4
<1>1. \A a : IsFiniteSet({a}) /\ Cardinality({a}) = 1
  BY FS_Singleton
<1>2. \A S, x : IsFiniteSet(S) =>
          /\ IsFiniteSet(S \cup {x}) /\ Cardinality(S) \in Nat
          /\ Cardinality(S \cup {x}) = IF x \in S THEN Cardinality(S) ELSE Cardinality(S) + 1
  BY FS_AddElement, FS_CardinalityType
<1>3. \A a, b : {a, b} = {a} \cup {b}
  OBVIOUS
<1>4. \A a, b, c : {a, b, c} = {a, b} \cup {c}
  OBVIOUS
<1>5. \A a, b, c, d : {a, b, c, d} = {a, b, c} \cup {d}
  OBVIOUS
<1>6. ASSUME NEW a, NEW b
      PROVE  /\ IsFiniteSet({a, b})
             /\ Cardinality({a, b}) = IF a = b THEN 1 ELSE 2
  <2> DEFINE S == {a}
  <2>1. IsFiniteSet(S) /\ Cardinality(S) = 1 /\ {a, b} = S \cup {b} /\ (b \in S <=> a = b)
    BY <1>1, <1>3
  <2> HIDE DEF S
  <2> QED
    BY <1>2, <2>1
<1>7. ASSUME NEW a, NEW b, NEW c
      PROVE  /\ IsFiniteSet({a, b, c})
             /\ Cardinality({a, b, c}) = IF c \in {a, b} THEN Cardinality({a, b}) ELSE Cardinality({a, b}) + 1
  <2> DEFINE S == {a, b}
  <2>1. IsFiniteSet(S) /\ {a, b, c} = S \cup {c} /\ S = {a, b}
    BY <1>4, <1>6
  <2> HIDE DEF S
  <2> QED
    BY <1>2, <2>1
<1>8. ASSUME NEW a, NEW b, NEW c
      PROVE  Cardinality({a, b, c}) = 3 <=> a # b /\ a # c /\ b # c
  <2>1. Cardinality({a, b}) = IF a = b THEN 1 ELSE 2
    BY <1>6
  <2>2. Cardinality({a, b, c}) = IF c \in {a, b} THEN Cardinality({a, b}) ELSE Cardinality({a, b}) + 1
    BY <1>7
  <2> DEFINE x == Cardinality({a, b})
             y == Cardinality({a, b, c})
  <2>3. x = (IF a = b THEN 1 ELSE 2) /\ y = (IF c = a \/ c = b THEN x ELSE x + 1)
    BY <2>1, <2>2
  <2> HIDE DEF x, y
  <2>4. y = 3 <=> a # b /\ a # c /\ b # c
    BY <2>3
  <2> QED
    BY <2>4 DEF y
<1>9. ASSUME NEW a, NEW b, NEW c, NEW d, a # b /\ a # c /\ a # d /\ b # c /\ b # d /\ c # d
       PROVE  Cardinality({a, b, c, d}) = 4
  <2>1. Cardinality({a, b, c}) = 3
    BY <1>8, <1>9
  <2> DEFINE S == {a, b, c}
             U == {a, b, c, d}
  <2>0. d \notin S
    BY <1>9
  <2>4. IsFiniteSet(S) /\ U = S \cup {d}
    BY <1>5, <1>7
  <2> HIDE DEF S, U
  <2>2. Cardinality(U) = Cardinality(S) + 1
    BY <1>2, <2>0, <2>4
  <2>3. Cardinality(S) = 3
    BY <2>1 DEF S
  <2>5. Cardinality(U) = 4
    BY <2>2, <2>3
  <2> QED
    BY <2>5 DEF U
<1>10. \A a, b, c, d : a # b /\ a # c /\ a # d /\ b # c /\ b # d /\ c # d
                          => Cardinality({a, b, c, d}) = 4
  BY <1>9
<1> QED
  BY <1>6, <1>8, <1>10

(* A sum over a set, added up in some order (MapThenSumSet): g[s] is the   *)
(* sum of F over the subset s.                                             *)
Sums(g, F, S) ==
    g = [s \in SUBSET S |-> IF s = {} THEN 0
                            ELSE LET x == CHOOSE x \in s : TRUE
                                 IN  F[x] + g[s \ {x}]]

LEMMA SumsExist ==
    ASSUME NEW S, IsFiniteSet(S), NEW F
    PROVE  \E g : Sums(g, F, S)
<1> DEFINE Part(n) == {s \in SUBSET S : Cardinality(s) <= n}
           Body(s, g) == IF s = {} THEN 0 ELSE LET x == CHOOSE x \in s : TRUE
                                               IN  F[x] + g[s \ {x}]
           Upto(n, g) == g = [s \in Part(n) |-> Body(s, g)]
           T == {n \in Nat : ~ \E g : Upto(n, g)}
<1>1. ASSUME NEW s \in SUBSET S
      PROVE  /\ IsFiniteSet(s) /\ Cardinality(s) \in Nat
             /\ \A x \in s : s \ {x} \in SUBSET S /\ Cardinality(s \ {x}) = Cardinality(s) - 1
             /\ Cardinality(s) = 0 <=> s = {}
  <2>1. IsFiniteSet(s)
    BY FS_Subset
  <2> QED
    BY <2>1, FS_CardinalityType, FS_EmptySet, FS_RemoveElement
<1>2. ASSUME NEW n \in Nat, n \in T, \A m \in T : n <= m PROVE FALSE
  <2>1. CASE n = 0
    <3> DEFINE g == [s \in Part(0) |-> 0]
    <3>1. \A s \in Part(0) : s = {}
      BY <1>1
    <3>2. Upto(0, g)
      BY <3>1
    <3> QED
      BY <1>2, <2>1, <3>2
  <2>2. CASE n # 0
    <3>1. n - 1 \in Nat /\ ~(n <= n - 1)
      BY <2>2
    <3>2. PICK g : Upto(n - 1, g)
      BY <1>2, <3>1
    <3> DEFINE h == [s \in Part(n) |-> Body(s, g)]
    <3>3. ASSUME NEW s \in Part(n), s # {}
          PROVE  LET x == CHOOSE x \in s : TRUE
                 IN  /\ s \ {x} \in Part(n - 1) /\ s \ {x} \in Part(n)
      <4> DEFINE x == CHOOSE x \in s : TRUE
      <4>1. x \in s
        BY <3>3
      <4> HIDE DEF x
      <4>2. s \ {x} \in SUBSET S /\ Cardinality(s \ {x}) = Cardinality(s) - 1
            /\ Cardinality(s) \in Nat /\ Cardinality(s) <= n
        BY <1>1, <4>1
      <4>3. s \ {x} \in Part(n - 1) /\ s \ {x} \in Part(n)
        BY <3>1, <4>2
      <4> QED
        BY <4>3 DEF x
    <3>4. ASSUME NEW s \in Part(n - 1) PROVE s \in Part(n) /\ h[s] = g[s]
      <4>1. s \in Part(n)
        BY <1>1, <3>1
      <4> HIDE DEF Part, Body
      <4>2. h[s] = Body(s, g)
        BY <4>1
      <4>3. g[s] = Body(s, g)
        BY <3>2
      <4> QED
        BY <4>1, <4>2, <4>3
    <3>5. ASSUME NEW s \in Part(n) PROVE Body(s, g) = Body(s, h)
      <4> HIDE DEF Part, h
      <4> DEFINE x == CHOOSE x \in s : TRUE
      <4>1. CASE s = {}
        BY <4>1
      <4>2. CASE s # {}
        <5>1. s \ {x} \in Part(n - 1)
          BY <3>3, <4>2
        <5>2. h[s \ {x}] = g[s \ {x}]
          BY <3>4, <5>1
        <5> QED
          BY <4>2, <5>2
      <4> QED
        BY <4>1, <4>2
    <3>6. Upto(n, h)
      <4> HIDE DEF Part, Body
      <4> QED
        BY <3>5
    <3> QED
      BY <1>2, <3>6
  <2> QED
    BY <2>1, <2>2
<1>3. T = {}
  <2>1. T \in SUBSET Nat
    OBVIOUS
  <2> HIDE DEF T
  <2> QED
    BY <1>2, <2>1, LeastNatural
<1>4. Cardinality(S) \in Nat
  BY <1>1
<1>5. PICK g : Upto(Cardinality(S), g)
  BY <1>3, <1>4
<1>6. Part(Cardinality(S)) = SUBSET S
  <2>1. ASSUME NEW s \in SUBSET S PROVE Cardinality(s) <= Cardinality(S)
    BY FS_Subset
  <2> QED
    BY <2>1
<1>7. g = [s \in SUBSET S |-> Body(s, g)]
  <2> HIDE DEF Part, Body
  <2> QED
    BY <1>5, <1>6
<1> QED
  BY <1>7 DEF Sums

LEMMA SumsOnce ==
    ASSUME NEW S, IsFiniteSet(S), NEW F, NEW g, Sums(g, F, S), NEW h, Sums(h, F, S)
    PROVE  g = h
<1> DEFINE T == {n \in Nat : \E s \in SUBSET S : Cardinality(s) = n /\ g[s] # h[s]}
           Pick(s) == CHOOSE x \in s : TRUE
<1>1. ASSUME NEW s \in SUBSET S
      PROVE  /\ Cardinality(s) \in Nat
             /\ \A x \in s : s \ {x} \in SUBSET S /\ Cardinality(s \ {x}) = Cardinality(s) - 1
  <2>1. IsFiniteSet(s)
    BY FS_Subset
  <2> QED
    BY <2>1, FS_CardinalityType, FS_RemoveElement
<1>2. g[{}] = 0 /\ h[{}] = 0
  BY DEF Sums
<1>3. ASSUME NEW s \in SUBSET S, s # {}
      PROVE  /\ g[s] = F[Pick(s)] + g[s \ {Pick(s)}]
             /\ h[s] = F[Pick(s)] + h[s \ {Pick(s)}]
             /\ Pick(s) \in s
  BY <1>3 DEF Sums
<1> HIDE DEF Pick
<1>4. ASSUME NEW n \in Nat, n \in T, \A m \in T : n <= m PROVE FALSE
  <2>1. PICK s \in SUBSET S : Cardinality(s) = n /\ g[s] # h[s]
    BY <1>4
  <2>2. s # {}
    BY <1>2, <2>1
  <2> DEFINE t == s \ {Pick(s)}
  <2>3. g[s] = F[Pick(s)] + g[t] /\ h[s] = F[Pick(s)] + h[t]
    BY <1>3, <2>2
  <2>4. t \in SUBSET S /\ Cardinality(t) \in Nat /\ ~(n <= Cardinality(t))
    <3>1. Pick(s) \in s
      BY <1>3, <2>2
    <3>2. t \in SUBSET S /\ Cardinality(t) = Cardinality(s) - 1
      BY <1>1, <3>1
    <3>3. Cardinality(t) \in Nat
      BY <1>1, <3>2
    <3> HIDE DEF t
    <3>4. Cardinality(t) = n - 1
      BY <2>1, <3>2
    <3> QED
      BY <3>2, <3>3, <3>4
  <2>5. Cardinality(t) \notin T
    BY <1>4, <2>4
  <2>6. g[t] = h[t]
    BY <2>4, <2>5
  <2> QED
    BY <2>1, <2>3, <2>6
<1>5. T = {}
  <2>1. T \in SUBSET Nat
    OBVIOUS
  <2> HIDE DEF T
  <2> QED
    BY <1>4, <2>1, LeastNatural
<1>6. \A s \in SUBSET S : g[s] = h[s]
  BY <1>1, <1>5
<1>7. /\ g = [s \in SUBSET S |-> g[s]]
      /\ h = [s \in SUBSET S |-> h[s]]
  BY DEF Sums
<1> QED
  BY <1>6, <1>7

(* The order does not matter, and the sum of natural numbers is one.       *)
LEMMA SumsAny ==
    ASSUME NEW S, IsFiniteSet(S), NEW F \in [S -> Nat], NEW g, Sums(g, F, S)
    PROVE  /\ g[{}] = 0
           /\ \A s \in SUBSET S : g[s] \in Nat
           /\ \A s \in SUBSET S : \A y \in s : g[s] = F[y] + g[s \ {y}]
<1> DEFINE Good(s) == g[s] \in Nat /\ \A y \in s : g[s] = F[y] + g[s \ {y}]
           T == {n \in Nat : \E s \in SUBSET S : Cardinality(s) = n /\ ~Good(s)}
<1>1. ASSUME NEW s \in SUBSET S
      PROVE  /\ Cardinality(s) \in Nat
             /\ \A x \in s : s \ {x} \in SUBSET S /\ Cardinality(s \ {x}) = Cardinality(s) - 1
  <2>1. IsFiniteSet(s)
    BY FS_Subset
  <2> QED
    BY <2>1, FS_CardinalityType, FS_RemoveElement
<1>2. g[{}] = 0
  BY DEF Sums
<1>3. ASSUME NEW s \in SUBSET S, s # {}
      PROVE  \E x \in s : g[s] = F[x] + g[s \ {x}]
  BY <1>3 DEF Sums
<1>4. ASSUME NEW n \in Nat, n \in T, \A m \in T : n <= m PROVE FALSE
  <2>1. PICK s \in SUBSET S : Cardinality(s) = n /\ ~Good(s)
    BY <1>4
  <2>2. s # {}
    BY <1>2, <2>1
  <2>3. PICK x \in s : g[s] = F[x] + g[s \ {x}]
    BY <1>3, <2>2
  <2>0. ASSUME NEW r \in SUBSET S, Cardinality(r) < n PROVE Good(r)
    <3> HIDE DEF Good
    <3>1. Cardinality(r) \in Nat
      BY <1>1
    <3>2. ~Good(r) => Cardinality(r) \in T
      BY <3>1
    <3> QED
      BY <1>4, <2>0, <3>1, <3>2
  <2>4. ASSUME NEW y \in s PROVE s \ {y} \in SUBSET S /\ Cardinality(s \ {y}) < n /\ Good(s \ {y})
    <3> HIDE DEF Good
    <3>1. s \ {y} \in SUBSET S /\ Cardinality(s \ {y}) < n
      BY <1>1, <2>1
    <3> QED
      BY <2>0, <3>1
  <2>5. g[s] \in Nat
    <3>1. F[x] \in Nat /\ g[s \ {x}] \in Nat
      BY <2>4
    <3> QED
      BY <2>3, <3>1
  <2>6. ASSUME NEW y \in s PROVE g[s] = F[y] + g[s \ {y}]
    <3>1. CASE y = x
      BY <2>3, <3>1
    <3>2. CASE y # x
      <4>1. y \in s \ {x} /\ x \in s \ {y}
        BY <3>2
      <4>2. g[s \ {x}] = F[y] + g[(s \ {x}) \ {y}]
        BY <2>4, <4>1
      <4>3. g[s \ {y}] = F[x] + g[(s \ {y}) \ {x}]
        BY <2>4, <4>1
      <4>4. (s \ {x}) \ {y} = (s \ {y}) \ {x}
        OBVIOUS
      <4> DEFINE a == F[x]
                 b == F[y]
                 c == g[(s \ {y}) \ {x}]
                 d == g[s \ {y}]
                 e == g[s \ {x}]
      <4>5. c \in Nat
        <5>1. (s \ {y}) \ {x} \in SUBSET S /\ Cardinality((s \ {y}) \ {x}) < n
          <6> DEFINE u == s \ {y}
          <6>1. u \in SUBSET S /\ Cardinality(u) < n /\ x \in u
            BY <2>4, <4>1
          <6> HIDE DEF u
          <6>2. u \ {x} \in SUBSET S /\ Cardinality(u \ {x}) = Cardinality(u) - 1
                /\ Cardinality(u) \in Nat
            BY <1>1, <6>1
          <6>3. Cardinality(u \ {x}) < n
            BY <1>4, <6>1, <6>2
          <6> QED
            BY <6>2, <6>3 DEF u
        <5> QED
          BY <2>0, <5>1
      <4>6. a \in Nat /\ b \in Nat
        OBVIOUS
      <4>7. e = b + c /\ d = a + c /\ g[s] = a + e
        BY <2>3, <4>2, <4>3, <4>4
      <4> HIDE DEF a, b, c, d, e
      <4>8. g[s] = b + d
        BY <4>5, <4>6, <4>7
      <4> QED
        BY <4>8 DEF b, d
    <3> QED
      BY <3>1, <3>2
  <2> QED
    BY <2>1, <2>5, <2>6
<1>5. T = {}
  <2>1. T \in SUBSET Nat
    OBVIOUS
  <2> HIDE DEF T
  <2> QED
    BY <1>4, <2>1, LeastNatural
<1>6. \A s \in SUBSET S : Good(s)
  <2> HIDE DEF Good
  <2> QED
    BY <1>1, <1>5
<1> QED
  BY <1>2, <1>6

-----------------------------------------------------------------------------
(* Induction, and functions that are computed step by step.                *)

(* Induction, over a set of natural numbers.                               *)
LEMMA Induction ==
    ASSUME NEW S \in SUBSET Nat, 0 \in S, \A k \in S : k + 1 \in S
    PROVE  \A k \in Nat : k \in S
<1> DEFINE T == {k \in Nat : k \notin S}
<1>1. ASSUME T # {} PROVE FALSE
  <2>1. PICK k \in T : \A m \in T : k <= m
    BY <1>1, LeastNatural
  <2>2. k \in Nat /\ k \notin S /\ k # 0
    BY <2>1
  <2>3. k - 1 \in Nat /\ ~(k <= k - 1)
    BY <2>2
  <2>4. k - 1 \in S
    BY <2>1, <2>3
  <2>5. (k - 1) + 1 = k
    BY <2>2
  <2> QED
    BY <2>2, <2>4, <2>5
<1> QED
  BY <1>1

(* f starts at a and goes on with g[0], g[1], ... in turn.                 *)
Iterates(f, S, a, g) ==
    /\ f \in [Nat -> S]
    /\ f[0] = a
    /\ \A k \in Nat : f[k + 1] = g[k][f[k]]

(* There is such an f: the library's rules for recursive functions are not *)
(* at hand.                                                                *)
LEMMA IterationExists ==
    ASSUME NEW S, NEW a \in S, NEW g, g \in [Nat -> [S -> S]]
    PROVE  \E f : Iterates(f, S, a, g)
<1> DEFINE Upto(m, h) == /\ h \in [0 .. m -> S] /\ h[0] = a
                         /\ \A k \in 0 .. m - 1 : h[k + 1] = g[k][h[k]]
           E == {m \in Nat : \E h : Upto(m, h)}
           Agree(k) == \A i, j \in Nat : \A h1, h2 :
                    Upto(i, h1) /\ Upto(j, h2) /\ k <= i /\ k <= j => h1[k] = h2[k]
           A == {k \in Nat : Agree(k)}
           H(m) == CHOOSE h : Upto(m, h)
           f == [m \in Nat |-> H(m)[m]]
<1>1. \A m \in Nat : m \in E
  <2>1. 0 \in E
    <3>1. Upto(0, [i \in 0 .. 0 |-> a])
      OBVIOUS
    <3> QED
      BY <3>1
  <2>2. ASSUME NEW m \in E PROVE m + 1 \in E
    <3>1. PICK h : Upto(m, h)
      OBVIOUS
    <3> DEFINE e == [i \in 0 .. m + 1 |-> IF i = m + 1 THEN g[m][h[m]] ELSE h[i]]
    <3>2. h[m] \in S /\ g[m][h[m]] \in S
      BY <3>1
    <3>3. e \in [0 .. m + 1 -> S] /\ e[0] = a
      BY <3>1, <3>2
    <3>4. \A i \in 0 .. m : e[i] = h[i]
      OBVIOUS
    <3>5. e[m + 1] = g[m][h[m]]
      OBVIOUS
    <3> HIDE DEF e
    <3>6. \A k \in 0 .. (m + 1) - 1 : e[k + 1] = g[k][e[k]]
      <4> TAKE k \in 0 .. (m + 1) - 1
      <4>1. CASE k = m
        BY <3>4, <3>5, <4>1
      <4>2. CASE k # m
        <5>1. k \in 0 .. m - 1 /\ k \in 0 .. m /\ k + 1 \in 0 .. m
          BY <4>2
        <5>2. h[k + 1] = g[k][h[k]]
          BY <3>1, <5>1
        <5> QED
          BY <3>4, <5>1, <5>2
      <4> QED
        BY <4>1, <4>2
    <3>7. Upto(m + 1, e)
      BY <3>3, <3>6
    <3> QED
      BY <3>7
  <2> HIDE DEF E
  <2>3. E \in SUBSET Nat
    BY DEF E
  <2> QED
    BY <2>1, <2>2, <2>3, Induction
<1>2. \A k \in Nat : k \in A
  <2>1. 0 \in A
    OBVIOUS
  <2>2. ASSUME NEW k \in A PROVE k + 1 \in A
    <3> HIDE DEF Agree
    <3>1. k \in Nat /\ Agree(k) /\ k + 1 \in Nat
      OBVIOUS
    <3> USE DEF Agree
    <3>2. ASSUME NEW i \in Nat, NEW j \in Nat, NEW h1, NEW h2,
                 Upto(i, h1), Upto(j, h2), k + 1 <= i, k + 1 <= j
          PROVE  h1[k + 1] = h2[k + 1]
      <4>1. k <= i /\ k <= j /\ k \in 0 .. i - 1 /\ k \in 0 .. j - 1
        BY <3>1, <3>2
      <4>2. h1[k + 1] = g[k][h1[k]]
        BY <3>2, <4>1
      <4>3. h2[k + 1] = g[k][h2[k]]
        BY <3>2, <4>1
      <4> HIDE DEF Upto
      <4>4. h1[k] = h2[k]
        BY <3>1, <3>2, <4>1
      <4> QED
        BY <4>2, <4>3, <4>4
    <3> HIDE DEF Upto
    <3>3. Agree(k + 1)
      BY <3>2
    <3> QED
      BY <3>1, <3>3
  <2> HIDE DEF A
  <2>3. A \in SUBSET Nat
    BY DEF A
  <2> QED
    BY <2>1, <2>2, <2>3, Induction
<1>3. \A m \in Nat : Upto(m, H(m))
  BY <1>1
<1>4. f \in [Nat -> S]
  <2>1. ASSUME NEW m \in Nat PROVE H(m)[m] \in S
    <3> DEFINE h == H(m)
    <3>1. Upto(m, h)
      BY <1>3
    <3> HIDE DEF h
    <3>2. h[m] \in S
      BY <3>1
    <3> QED
      BY <3>2 DEF h
  <2> HIDE DEF H
  <2> QED
    BY <2>1
<1>5. f[0] = a
  <2> DEFINE h == H(0)
  <2>1. Upto(0, h)
    BY <1>3
  <2>2. f[0] = h[0]
    OBVIOUS
  <2> HIDE DEF h
  <2> QED
    BY <2>1, <2>2
<1>6. ASSUME NEW k \in Nat PROVE f[k + 1] = g[k][f[k]]
  <2> DEFINE h1 == H(k)
             h2 == H(k + 1)
  <2>1. k + 1 \in Nat /\ k <= k /\ k <= k + 1 /\ k \in 0 .. (k + 1) - 1
    OBVIOUS
  <2>2. f[k + 1] = h2[k + 1] /\ f[k] = h1[k]
    BY <2>1
  <2> HIDE DEF Upto, H
  <2>3. Upto(k, h1) /\ Upto(k + 1, h2)
    BY <1>3, <2>1
  <2> HIDE DEF h1, h2
  <2>4. h1[k] = h2[k]
    <3> HIDE DEF Agree
    <3>1. Agree(k)
      BY <1>2
    <3> QED
      BY <2>1, <2>3, <3>1 DEF Agree
  <2>5. h2[k + 1] = g[k][h2[k]]
    BY <2>1, <2>3 DEF Upto
  <2> QED
    BY <2>2, <2>4, <2>5
<1> HIDE DEF f
<1>7. Iterates(f, S, a, g)
  BY <1>4, <1>5, <1>6 DEF Iterates
<1> QED
  BY <1>7

=============================================================================
