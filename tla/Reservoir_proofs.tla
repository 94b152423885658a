-------------------------- MODULE Reservoir_proofs --------------------------
(***************************************************************************)
(* For every number of stages, every capacity and every input, what goes   *)
(* through the streams of the dataflow region stays in step, nothing is    *)
(* left in them when it returns, the loops never wait in a circle, and the *)
(* results are those of the input.  First the invariant about what is      *)
(* where (IInv), then what the values mean: the positions that matter to a *)
(* stage and what one more edge adds to them, the sums over the stages,    *)
(* and the invariant about both (JInv).  The circle comes last.            *)
(***************************************************************************)
EXTENDS Reservoir, StreamFacts

-----------------------------------------------------------------------------
Items(items, from, to) == {items[j] : j \in from .. to}

(* A slice of the items that go through a stream is a sequence ...         *)
LEMMA SliceFacts ==
    ASSUME NEW items, NEW from \in Nat, NEW to \in Nat, from <= to
    PROVE  /\ Slice(items, from, to) \in Seq(Items(items, from, to))
           /\ Len(Slice(items, from, to)) = to - from
           /\ CanRead(Slice(items, from, to)) <=> from < to
<1> DEFINE m == to - from
           s == [j \in 1 .. m |-> items[from + j - 1]]
           S == Items(items, from, to)
<1>1. m \in Nat /\ \A j \in 1 .. m : from + j - 1 \in from .. to
  OBVIOUS
<1>2. \A j \in 1 .. m : s[j] \in S
  BY <1>1 DEF Items
<1>3. s \in [1 .. m -> S]
  BY <1>2
<1>4. s \in Seq(S) /\ Len(s) = m
  <2> HIDE DEF s, S
  <2> QED
    BY <1>1, <1>3
<1>5. s # <<>> <=> from < to
  BY <1>1, <1>4, EmptySeq
<1> QED
  BY <1>4, <1>5 DEF Slice, CanRead

LEMMA SeqWider ==
    ASSUME NEW A, NEW B, A \subseteq B, NEW s \in Seq(A)
    PROVE  s \in Seq(B)
<1>1. Len(s) \in Nat /\ s \in [1 .. Len(s) -> A]
  BY LenProperties
<1>2. s \in [1 .. Len(s) -> B]
  BY <1>1
<1> QED
  BY <1>1, <1>2

(* ... which a write of the next item makes longer, ...                    *)
LEMMA SliceAppend ==
    ASSUME NEW items, NEW from \in Nat, NEW to \in Nat, from <= to
    PROVE  Append(Slice(items, from, to), items[to]) = Slice(items, from, to + 1)
<1> DEFINE S == Items(items, from, to + 1)
           s == Slice(items, from, to)
           t == Slice(items, from, to + 1)
<1>1. s \in Seq(S) /\ Len(s) = to - from
  <2>1. Items(items, from, to) \subseteq S
    BY DEF Items
  <2>2. s \in Seq(Items(items, from, to)) /\ Len(s) = to - from
    BY SliceFacts
  <2> HIDE DEF s, S
  <2> QED
    BY <2>1, <2>2, SeqWider
<1>2. t \in Seq(S) /\ Len(t) = to + 1 - from
  <2>1. to + 1 \in Nat /\ from <= to + 1
    OBVIOUS
  <2> QED
    BY <2>1, SliceFacts
<1>3. items[to] \in S
  BY DEF Items
<1>4. \A j \in 1 .. to - from : s[j] = items[from + j - 1]
  BY DEF Slice
<1>5. \A j \in 1 .. to + 1 - from : t[j] = items[from + j - 1]
  BY DEF Slice
<1> HIDE DEF s, t, S
<1>6. /\ Append(s, items[to]) \in Seq(S)
      /\ Len(Append(s, items[to])) = to - from + 1
      /\ \A j \in 1 .. to - from : Append(s, items[to])[j] = s[j]
      /\ Append(s, items[to])[to - from + 1] = items[to]
  BY <1>1, <1>3, AppendFacts
<1>7. \A j \in 1 .. to - from + 1 : Append(s, items[to])[j] = t[j]
  <2> TAKE j \in 1 .. to - from + 1
  <2>0. j \in 1 .. to - from \/ j = to - from + 1
    OBVIOUS
  <2>1. CASE j \in 1 .. to - from
    BY <2>1, <1>4, <1>5, <1>6
  <2>2. CASE j = to - from + 1
    <3>1. from + j - 1 = to
      BY <2>2
    <3>2. t[j] = items[from + j - 1]
      BY <1>5, <2>2
    <3> QED
      BY <2>2, <3>1, <3>2, <1>6
  <2> QED
    BY <2>0, <2>1, <2>2
<1>8. Append(s, items[to]) = t
  BY <1>2, <1>6, <1>7, SeqEqual
<1> QED
  BY <1>8 DEF s, t

(* ... and a read shorter by the oldest.                                   *)
LEMMA SliceTail ==
    ASSUME NEW items, NEW from \in Nat, NEW to \in Nat, from < to
    PROVE  /\ Head(Slice(items, from, to)) = items[from]
           /\ Tail(Slice(items, from, to)) = Slice(items, from + 1, to)
<1> DEFINE S == Items(items, from, to)
           s == Slice(items, from, to)
           t == Slice(items, from + 1, to)
<1>1. s \in Seq(S) /\ Len(s) = to - from /\ s # <<>>
  <2>1. from <= to
    OBVIOUS
  <2> QED
    BY <2>1, SliceFacts DEF CanRead
<1>2. t \in Seq(S) /\ Len(t) = to - from - 1
  <2>1. Items(items, from + 1, to) \subseteq S
    BY DEF Items
  <2>2. t \in Seq(Items(items, from + 1, to)) /\ Len(t) = to - (from + 1)
    <3>1. from + 1 \in Nat /\ from + 1 <= to
      OBVIOUS
    <3> QED
      BY <3>1, SliceFacts
  <2> HIDE DEF t, S
  <2>3. t \in Seq(S)
    BY <2>1, <2>2, SeqWider
  <2> QED
    BY <2>2, <2>3
<1>3. \A j \in 1 .. to - from : s[j] = items[from + j - 1]
  BY DEF Slice
<1>4. \A j \in 1 .. to - from - 1 : t[j] = items[from + 1 + j - 1]
  BY DEF Slice
<1> HIDE DEF s, t, S
<1>5. /\ Head(s) = s[1]
      /\ Tail(s) \in Seq(S)
      /\ Len(Tail(s)) = to - from - 1
      /\ \A j \in 1 .. to - from - 1 : Tail(s)[j] = s[j + 1]
  BY <1>1, TailFacts
<1>6. \A j \in 1 .. to - from - 1 : Tail(s)[j] = t[j]
  <2> TAKE j \in 1 .. to - from - 1
  <2>1. s[j + 1] = items[from + (j + 1) - 1] /\ t[j] = items[from + 1 + j - 1]
    BY <1>3, <1>4
  <2>2. from + (j + 1) - 1 = from + 1 + j - 1
    OBVIOUS
  <2> QED
    BY <2>1, <2>2, <1>5
<1>7. Tail(s) = t
  BY <1>2, <1>5, <1>6, SeqEqual
<1>8. Head(s) = items[from]
  <2>1. s[1] = items[from + 1 - 1]
    BY <1>3
  <2> QED
    BY <2>1, <1>5
<1> QED
  BY <1>7, <1>8 DEF s, t

-----------------------------------------------------------------------------
(* The inductive invariant: InStep, with the bounds of the counters, what  *)
(* the loops hold between two accesses, and that no stream has been read   *)
(* further than it was written.                                            *)
StageCounts ==
    /\ n \in [Stage -> 0 .. Size] /\ at \in [Stage -> 1 .. 8]
    /\ \A k \in Stage : at[k] > 1 => n[k] < Size

LoopCounts ==
    /\ i \in [Loop -> 0 .. Size]
    /\ \/ pair = <<>>
       \/ /\ i["merge"] < Size
          /\ pair \in {<<run.s[i["merge"]]>>, <<run.s[i["merge"]], run.d[i["merge"]]>>}
    /\ first \in [at : {"read", "pass", "decide"}, state : Nat]
    /\ first.at # "read" => i["first"] < Size /\ first.state = i["first"]

Counts == StageCounts /\ LoopCounts

Border ==
    /\ DOMAIN feed = Feed
    /\ \A x \in Feed : Fetched[x] <= Fed[x]
    /\ \A x \in Feed : feed[x] = Slice(Expected[x], Fetched[x], Fed[x])

IsSequence(s) == \E S : s \in Seq(S)

Chain ==
    /\ DOMAIN q = Kind /\ \A x \in Kind : DOMAIN q[x] = Link
    /\ \A x \in Kind, l \in Link : Read(x, l) <= Written(x, l)
    /\ \A x \in Kind \ {"res"}, l \in Link :
           q[x][l] = Slice(Expected[x], Read(x, l), Written(x, l))
    /\ \A l \in Link : /\ IsSequence(q["res"][l])
                       /\ Len(q["res"][l]) = Written("res", l) - Read("res", l)

Hands ==
    /\ DOMAIN hand = Stage /\ \A k \in Stage : DOMAIN hand[k] = Kind
    /\ \A k \in Stage, x \in Kind \ {"res"} :
          at[k] > ReadAt[x] => hand[k][x] = Expected[x][n[k]]

IInv == Counts /\ Border /\ Chain /\ Hands

LEMMA InStepHolds == IInv => InStep
  BY DEF IInv, Border, Chain, Hands, InStep

LEMMA ExpectedSame == run' = run => Expected' = Expected
  BY DEF Expected, EdgeAt, DecisionAt

(* Positions are natural numbers.                                          *)
LEMMA ChainPositions ==
    ASSUME Counts, NEW x \in Kind, NEW l \in Link
    PROVE  Read(x, l) \in Nat /\ Written(x, l) \in Nat
<1>1. E_NUM \in Nat \ {0, 1} /\ Size \in Nat
  BY SizeAssumption
<1>2. \A loop \in Loop : i[loop] \in Nat
  BY <1>1 DEF Counts, StageCounts, LoopCounts
<1>3. \A k \in Stage, a \in Nat : Past(k, a) \in Nat
  BY <1>1 DEF Counts, StageCounts, LoopCounts, Past
<1>4. Source[x] \in Nat /\ Drained[x] \in Nat
  BY <1>2 DEF Source, Drained, Kind, Loop
<1>5. ReadAt[x] \in Nat /\ WriteAt[x] \in Nat
  BY DEF ReadAt, WriteAt, Kind
<1>6. l # 0 => l - 1 \in Stage
  BY <1>1 DEF Link, Stage
<1>7. l # E_NUM - 1 => l \in Stage
  BY <1>1 DEF Link, Stage
<1> QED
  BY <1>3, <1>4, <1>5, <1>6, <1>7 DEF Read, Written

LEMMA BorderPositions ==
    ASSUME Counts, NEW x \in Feed
    PROVE  Fetched[x] \in Nat /\ Fed[x] \in Nat
<1>1. Size \in Nat
  BY SizeAssumption
<1>2. \A loop \in Loop : i[loop] \in Nat
  BY <1>1 DEF Counts, StageCounts, LoopCounts
<1>3. Fed[x] \in Nat
  BY <1>2 DEF Fed, Feed, Loop
<1>4. Fetched[x] \in Nat
  <2>1. i["merge"] \in Nat /\ i["first"] \in Nat
    BY <1>2 DEF Loop
  <2> QED
    BY <2>1 DEF Fetched, Feed
<1> QED
  BY <1>3, <1>4

-----------------------------------------------------------------------------
(* What a read, and a write, do to the streams along the chain, when they  *)
(* move the position of the reader, or of the writer, by one.              *)
LEMMA ChainGet ==
    ASSUME NEW x \in Kind, NEW l \in Link, Counts, Chain, Get(x, l), run' = run,
           \A y \in Kind, m \in Link : Written(y, m)' = Written(y, m),
           \A y \in Kind, m \in Link :
              Read(y, m)' = IF y = x /\ m = l THEN Read(y, m) + 1 ELSE Read(y, m)
    PROVE  Chain' /\ (x # "res" => Head(q[x][l]) = Expected[x][Read(x, l)])
<1>1. q[x][l] # <<>> /\ q' = [q EXCEPT ![x][l] = Tail(@)]
  BY DEF Get, CanRead
<1>2. DOMAIN q' = Kind /\ \A y \in Kind : DOMAIN q'[y] = Link
  BY <1>1 DEF Chain
<1>3. \A y \in Kind, m \in Link :
        q'[y][m] = IF y = x /\ m = l THEN Tail(q[x][l]) ELSE q[y][m]
  BY <1>1 DEF Chain
<1>4. Expected' = Expected
  BY ExpectedSame
<1>5. \A y \in Kind, m \in Link : Read(y, m) \in Nat /\ Written(y, m) \in Nat
  BY ChainPositions
<1>6. \A y \in Kind, m \in Link : Read(y, m) <= Written(y, m)
  BY DEF Chain
<1>7. CASE x = "res"
  <2>1. PICK S : q[x][l] \in Seq(S)
    BY <1>7 DEF Chain, IsSequence
  <2>2. /\ Tail(q[x][l]) \in Seq(S)
        /\ Len(Tail(q[x][l])) = Len(q[x][l]) - 1
        /\ Len(q[x][l]) \in Nat \ {0}
    BY <1>1, <2>1, TailFacts
  <2>3. Len(q[x][l]) = Written(x, l) - Read(x, l)
    BY <1>7 DEF Chain
  <2>4. Read(x, l) + 1 <= Written(x, l)
    BY <1>5, <2>2, <2>3
  <2>5. \A y \in Kind, m \in Link : (Read(y, m) <= Written(y, m))'
    BY <1>6, <2>4
  <2>6. ASSUME NEW y \in Kind \ {"res"}, NEW m \in Link
        PROVE  (q[y][m] = Slice(Expected[y], Read(y, m), Written(y, m)))'
    <3>1. q'[y][m] = q[y][m] /\ Read(y, m)' = Read(y, m) /\ Written(y, m)' = Written(y, m)
      BY <1>3, <1>7
    <3>2. q[y][m] = Slice(Expected[y], Read(y, m), Written(y, m))
      BY DEF Chain
    <3> QED
      BY <1>4, <3>1, <3>2
  <2>7. ASSUME NEW m \in Link
        PROVE  /\ IsSequence(q["res"][m])'
               /\ (Len(q["res"][m]) = Written("res", m) - Read("res", m))'
    <3>1. CASE m = l
      <4>1. q'["res"][m] = Tail(q[x][l])
        BY <1>3, <1>7, <3>1
      <4>2. Len(Tail(q[x][l])) = Written(x, l) - (Read(x, l) + 1)
        BY <1>5, <2>2, <2>3
      <4> QED
        BY <1>7, <2>2, <3>1, <4>1, <4>2 DEF IsSequence
    <3>2. CASE m # l
      BY <1>3, <1>7, <3>2 DEF Chain, IsSequence
    <3> QED
      BY <3>1, <3>2
  <2> QED
    BY <1>2, <1>7, <2>5, <2>6, <2>7 DEF Chain
<1>8. CASE x # "res"
  <2>1. q[x][l] = Slice(Expected[x], Read(x, l), Written(x, l))
    BY <1>8 DEF Chain
  <2>2. Read(x, l) < Written(x, l)
    BY <1>1, <1>5, <1>6, <2>1, SliceFacts DEF CanRead
  <2>3. /\ Head(q[x][l]) = Expected[x][Read(x, l)]
        /\ Tail(q[x][l]) = Slice(Expected[x], Read(x, l) + 1, Written(x, l))
    BY <1>5, <2>1, <2>2, SliceTail
  <2>4. \A y \in Kind, m \in Link : (Read(y, m) <= Written(y, m))'
    BY <1>5, <1>6, <2>2
  <2>5. ASSUME NEW y \in Kind \ {"res"}, NEW m \in Link
        PROVE  (q[y][m] = Slice(Expected[y], Read(y, m), Written(y, m)))'
    <3>1. CASE y = x /\ m = l
      <4>1. q'[y][m] = Tail(q[x][l])
        BY <1>3, <3>1
      <4>2. Read(y, m)' = Read(x, l) + 1 /\ Written(y, m)' = Written(x, l)
        BY <3>1
      <4> QED
        BY <1>4, <2>3, <3>1, <4>1, <4>2
    <3>2. CASE ~(y = x /\ m = l)
      <4>1. q'[y][m] = q[y][m] /\ Read(y, m)' = Read(y, m) /\ Written(y, m)' = Written(y, m)
        BY <1>3, <3>2
      <4>2. q[y][m] = Slice(Expected[y], Read(y, m), Written(y, m))
        BY DEF Chain
      <4> QED
        BY <1>4, <4>1, <4>2
    <3> QED
      BY <3>1, <3>2
  <2>6. \A m \in Link : /\ IsSequence(q["res"][m])'
                        /\ (Len(q["res"][m]) = Written("res", m) - Read("res", m))'
    BY <1>3, <1>8 DEF Chain, IsSequence, Kind
  <2> QED
    BY <1>2, <2>3, <2>4, <2>5, <2>6 DEF Chain
<1> QED
  BY <1>7, <1>8

LEMMA ChainPut ==
    ASSUME NEW x \in Kind, NEW l \in Link, NEW item, Counts, Chain, Put(x, l, item), run' = run,
           x # "res" => item = Expected[x][Written(x, l)],
           \A y \in Kind, m \in Link : Read(y, m)' = Read(y, m),
           \A y \in Kind, m \in Link :
              Written(y, m)' = IF y = x /\ m = l THEN Written(y, m) + 1 ELSE Written(y, m)
    PROVE  Chain'
<1>1. q' = [q EXCEPT ![x][l] = Append(@, item)]
  BY DEF Put
<1>2. DOMAIN q' = Kind /\ \A y \in Kind : DOMAIN q'[y] = Link
  BY <1>1 DEF Chain
<1>3. \A y \in Kind, m \in Link :
        q'[y][m] = IF y = x /\ m = l THEN Append(q[x][l], item) ELSE q[y][m]
  BY <1>1 DEF Chain
<1>4. Expected' = Expected
  BY ExpectedSame
<1>5. \A y \in Kind, m \in Link : Read(y, m) \in Nat /\ Written(y, m) \in Nat
  BY ChainPositions
<1>6. \A y \in Kind, m \in Link : Read(y, m) <= Written(y, m)
  BY DEF Chain
<1>7. \A y \in Kind, m \in Link : (Read(y, m) <= Written(y, m))'
  BY <1>5, <1>6
<1>8. ASSUME NEW y \in Kind \ {"res"}, NEW m \in Link
      PROVE  (q[y][m] = Slice(Expected[y], Read(y, m), Written(y, m)))'
  <2>1. q[y][m] = Slice(Expected[y], Read(y, m), Written(y, m))
    BY DEF Chain
  <2>2. CASE y = x /\ m = l
    <3>0. item = Expected[x][Written(x, l)] /\ q[x][l] = Slice(Expected[x], Read(x, l), Written(x, l))
      BY <2>1, <2>2
    <3>1. Append(q[x][l], item) = Slice(Expected[x], Read(x, l), Written(x, l) + 1)
      BY <1>5, <1>6, <3>0, SliceAppend
    <3>2. q'[y][m] = Append(q[x][l], item)
      BY <1>3, <2>2
    <3>3. Read(y, m)' = Read(x, l) /\ Written(y, m)' = Written(x, l) + 1
      BY <2>2
    <3> QED
      BY <1>4, <2>2, <3>1, <3>2, <3>3
  <2>3. CASE ~(y = x /\ m = l)
    <3>1. q'[y][m] = q[y][m] /\ Read(y, m)' = Read(y, m) /\ Written(y, m)' = Written(y, m)
      BY <1>3, <2>3
    <3> QED
      BY <1>4, <2>1, <3>1
  <2> QED
    BY <2>2, <2>3
<1>9. ASSUME NEW m \in Link
      PROVE  /\ IsSequence(q["res"][m])'
             /\ (Len(q["res"][m]) = Written("res", m) - Read("res", m))'
  <2>1. IsSequence(q["res"][m]) /\ Len(q["res"][m]) = Written("res", m) - Read("res", m)
    BY DEF Chain
  <2>2. "res" \in Kind
    BY DEF Kind
  <2>3. CASE x = "res" /\ m = l
    <3>1. PICK S : q["res"][m] \in Seq(S)
      BY <2>1 DEF IsSequence
    <3>2. q["res"][m] \in Seq(S \cup {item})
      BY <3>1, SeqWider
    <3>3. /\ Append(q["res"][m], item) \in Seq(S \cup {item})
          /\ Len(Append(q["res"][m], item)) = Len(q["res"][m]) + 1
      BY <3>2, AppendFacts
    <3>4. q'["res"][m] = Append(q["res"][m], item)
      BY <1>3, <2>2, <2>3
    <3>5. Read("res", m)' = Read("res", m) /\ Written("res", m)' = Written("res", m) + 1
      BY <2>2, <2>3
    <3>6. Read("res", m) \in Nat /\ Written("res", m) \in Nat
      BY <1>5, <2>2
    <3>7. Written("res", m) - Read("res", m) + 1 = (Written("res", m) + 1) - Read("res", m)
      BY <3>6
    <3>8. IsSequence(q["res"][m])'
      BY <3>3, <3>4 DEF IsSequence
    <3> QED
      BY <2>1, <3>3, <3>4, <3>5, <3>7, <3>8
  <2>4. CASE ~(x = "res" /\ m = l)
    BY <1>3, <2>1, <2>2, <2>4 DEF IsSequence
  <2> QED
    BY <2>3, <2>4
<1> QED
  BY <1>2, <1>7, <1>8, <1>9 DEF Chain

LEMMA ChainSame ==
    ASSUME Chain, q' = q, run' = run,
           \A y \in Kind, m \in Link : Read(y, m)' = Read(y, m) /\ Written(y, m)' = Written(y, m)
    PROVE  Chain'
<1>1. Expected' = Expected
  BY ExpectedSame
<1>2. ASSUME NEW y \in Kind \ {"res"}, NEW m \in Link
      PROVE  (q[y][m] = Slice(Expected[y], Read(y, m), Written(y, m)))'
  <2>1. q[y][m] = Slice(Expected[y], Read(y, m), Written(y, m))
    BY DEF Chain
  <2>2. q'[y][m] = q[y][m] /\ Read(y, m)' = Read(y, m) /\ Written(y, m)' = Written(y, m)
    OBVIOUS
  <2> QED
    BY <1>1, <2>1, <2>2
<1>3. \A m \in Link : /\ IsSequence(q["res"][m])'
                      /\ (Len(q["res"][m]) = Written("res", m) - Read("res", m))'
  BY DEF Chain, IsSequence, Kind
<1>4. \A y \in Kind, m \in Link : (Read(y, m) <= Written(y, m))'
  BY DEF Chain
<1>5. DOMAIN q' = Kind /\ \A y \in Kind : DOMAIN q'[y] = Link
  BY DEF Chain
<1> QED
  BY <1>2, <1>3, <1>4, <1>5 DEF Chain

(* The same of the streams in front of the chain.                          *)
LEMMA BorderGet ==
    ASSUME NEW x \in Feed, Counts, Border, CanRead(feed[x]), run' = run,
           feed' = [feed EXCEPT ![x] = Tail(@)],
           \A y \in Feed : Fed[y]' = Fed[y],
           \A y \in Feed : Fetched[y]' = IF y = x THEN Fetched[y] + 1 ELSE Fetched[y]
    PROVE  Border' /\ Head(feed[x]) = Expected[x][Fetched[x]]
<1>1. Expected' = Expected
  BY ExpectedSame
<1>2. \A y \in Feed : Fetched[y] \in Nat /\ Fed[y] \in Nat /\ Fetched[y] <= Fed[y]
  BY BorderPositions DEF Border
<1>3. feed[x] = Slice(Expected[x], Fetched[x], Fed[x])
  BY DEF Border
<1>4. Fetched[x] < Fed[x]
  BY <1>2, <1>3, SliceFacts
<1>5. /\ Head(feed[x]) = Expected[x][Fetched[x]]
      /\ Tail(feed[x]) = Slice(Expected[x], Fetched[x] + 1, Fed[x])
  BY <1>2, <1>3, <1>4, SliceTail
<1>6. ASSUME NEW y \in Feed
      PROVE  (Fetched[y] <= Fed[y])' /\ (feed[y] = Slice(Expected[y], Fetched[y], Fed[y]))'
  <2>1. CASE y = x
    <3>1. feed'[y] = Tail(feed[x])
      BY <2>1 DEF Border
    <3>2. Fetched[y]' = Fetched[x] + 1 /\ Fed[y]' = Fed[x]
      BY <2>1
    <3>3. Fetched[x] + 1 <= Fed[x]
      BY <1>2, <1>4
    <3> QED
      BY <1>1, <1>5, <2>1, <3>1, <3>2, <3>3
  <2>2. CASE y # x
    <3>1. feed'[y] = feed[y] /\ Fetched[y]' = Fetched[y] /\ Fed[y]' = Fed[y]
      BY <2>2 DEF Border
    <3>2. feed[y] = Slice(Expected[y], Fetched[y], Fed[y])
      BY DEF Border
    <3> QED
      BY <1>1, <1>2, <3>1, <3>2
  <2> QED
    BY <2>1, <2>2
<1> QED
  BY <1>5, <1>6 DEF Border

LEMMA BorderPut ==
    ASSUME NEW x \in Feed, Counts, Border, run' = run,
           feed' = [feed EXCEPT ![x] = Append(@, Expected[x][Fed[x]])],
           \A y \in Feed : Fetched[y]' = Fetched[y],
           \A y \in Feed : Fed[y]' = IF y = x THEN Fed[y] + 1 ELSE Fed[y]
    PROVE  Border'
<1>1. Expected' = Expected
  BY ExpectedSame
<1>2. \A y \in Feed : Fetched[y] \in Nat /\ Fed[y] \in Nat /\ Fetched[y] <= Fed[y]
  BY BorderPositions DEF Border
<1>3. \A y \in Feed : feed[y] = Slice(Expected[y], Fetched[y], Fed[y])
  BY DEF Border
<1>4. Append(feed[x], Expected[x][Fed[x]]) = Slice(Expected[x], Fetched[x], Fed[x] + 1)
  <2> DEFINE items == Expected[x]
             from == Fetched[x]
             to == Fed[x]
  <2>1. from \in Nat /\ to \in Nat /\ from <= to /\ feed[x] = Slice(items, from, to)
    BY <1>2, <1>3
  <2> HIDE DEF items, from, to
  <2>2. Append(feed[x], items[to]) = Slice(items, from, to + 1)
    BY <2>1, SliceAppend
  <2> QED
    BY <2>2 DEF items, from, to
<1>5. ASSUME NEW y \in Feed
      PROVE  (Fetched[y] <= Fed[y])' /\ (feed[y] = Slice(Expected[y], Fetched[y], Fed[y]))'
  <2>1. CASE y = x
    <3>1. feed'[y] = Append(feed[x], Expected[x][Fed[x]])
      BY <2>1 DEF Border
    <3>2. Fetched[y]' = Fetched[x] /\ Fed[y]' = Fed[x] + 1
      BY <2>1
    <3>3. Fetched[x] <= Fed[x] + 1
      BY <1>2
    <3> QED
      BY <1>1, <1>4, <2>1, <3>1, <3>2, <3>3
  <2>2. CASE y # x
    <3>1. feed'[y] = feed[y] /\ Fetched[y]' = Fetched[y] /\ Fed[y]' = Fed[y]
      BY <2>2 DEF Border
    <3> QED
      BY <1>1, <1>2, <1>3, <3>1
  <2> QED
    BY <2>1, <2>2
<1> QED
  BY <1>5 DEF Border

LEMMA BorderSame ==
    ASSUME Border, feed' = feed, run' = run,
           \A y \in Feed : Fetched[y]' = Fetched[y] /\ Fed[y]' = Fed[y]
    PROVE  Border'
<1>1. Expected' = Expected
  BY ExpectedSame
<1> QED
  BY <1>1 DEF Border

-----------------------------------------------------------------------------
(* The accesses of a stage are eight different ones.                       *)
LEMMA AccessFacts ==
    /\ \A x \in Kind : ReadAt[x] \in 1 .. 8 /\ WriteAt[x] \in 1 .. 8 /\ ReadAt[x] < WriteAt[x]
    /\ \A x, y \in Kind : ReadAt[x] # WriteAt[y]
    /\ \A x, y \in Kind : x # y => ReadAt[x] # ReadAt[y] /\ WriteAt[x] # WriteAt[y]
    /\ \A x \in Kind : WriteAt[x] = 8 <=> x = "res"
    /\ \A x \in Kind : ReadAt[x] < 8
  BY DEF ReadAt, WriteAt, Kind

LEMMA LinkFacts ==
    /\ 0 \in Link /\ E_NUM - 1 \in Link /\ E_NUM - 1 # 0
    /\ \A k \in Stage : k \in Link /\ k + 1 \in Link /\ k # E_NUM - 1 /\ k + 1 # 0
    /\ \A k \in Stage : k + 1 - 1 = k
    /\ \A l \in Link : l # 0 => l - 1 \in Stage /\ l = (l - 1) + 1
    /\ \A l \in Link : l # E_NUM - 1 => l \in Stage
  BY SizeAssumption DEF Link, Stage

(* An access of a stage is counted for that access, and for no other ...   *)
Counted1(k) ==
    \A j \in Stage, a \in 1 .. 8 :
        Past(j, a)' = IF j = k /\ a = at[k] THEN Past(j, a) + 1 ELSE Past(j, a)

LEMMA WithinIteration ==
    ASSUME Counts, NEW k \in Stage, at[k] < 8, at' = [at EXCEPT ![k] = @ + 1], n' = n
    PROVE  Counted1(k)
  BY SizeAssumption DEF Counts, StageCounts, Counted1, Past

LEMMA WithinCounts ==
    ASSUME StageCounts, NEW k \in Stage, at[k] < 8, n[k] < Size,
           at' = [at EXCEPT ![k] = @ + 1], n' = n
    PROVE  StageCounts'
<1>1. \A j \in Stage : at'[j] = IF j = k THEN at[k] + 1 ELSE at[j]
  BY DEF StageCounts
<1>2. at[k] + 1 \in 1 .. 8
  BY DEF StageCounts
<1>3. at' \in [Stage -> 1 .. 8]
  BY <1>2 DEF StageCounts
<1> QED
  BY <1>1, <1>3 DEF StageCounts

LEMMA EndOfIteration ==
    ASSUME Counts, NEW k \in Stage, at[k] = 8,
           at' = [at EXCEPT ![k] = 1], n' = [n EXCEPT ![k] = @ + 1]
    PROVE  Counted1(k)
  BY SizeAssumption DEF Counts, StageCounts, Counted1, Past

LEMMA EndCounts ==
    ASSUME StageCounts, NEW k \in Stage, n[k] < Size,
           at' = [at EXCEPT ![k] = 1], n' = [n EXCEPT ![k] = @ + 1]
    PROVE  StageCounts'
<1>1. n[k] + 1 \in 0 .. Size
  BY SizeAssumption DEF StageCounts
<1>2. n' \in [Stage -> 0 .. Size] /\ at' \in [Stage -> 1 .. 8]
  BY <1>1 DEF StageCounts
<1>3. \A j \in Stage : at'[j] = IF j = k THEN 1 ELSE at[j]
  BY DEF StageCounts
<1>4. \A j \in Stage : j # k => n'[j] = n[j]
  BY DEF StageCounts
<1> QED
  BY <1>2, <1>3, <1>4 DEF StageCounts

LEMMA LoopCountsSame ==
    ASSUME LoopCounts, i' = i, pair' = pair, first' = first, run' = run
    PROVE  LoopCounts'
  BY DEF LoopCounts

(* ... so that it moves one position.                                      *)
LEMMA ReadMoves ==
    ASSUME Counts, NEW x \in Kind, NEW k \in Stage, Counted1(k), at[k] = ReadAt[x],
           i' = i, first' = first
    PROVE  /\ \A y \in Kind, m \in Link : Written(y, m)' = Written(y, m)
           /\ \A y \in Kind, m \in Link :
                 Read(y, m)' = IF y = x /\ m = k THEN Read(y, m) + 1 ELSE Read(y, m)
<1>1. Source' = Source /\ Drained' = Drained
  BY DEF Source, Drained
<1>2. ASSUME NEW y \in Kind, NEW m \in Link PROVE Written(y, m)' = Written(y, m)
  <2>1. CASE m = 0
    BY <1>1, <2>1 DEF Written
  <2>2. CASE m # 0
    <3>1. Past(m - 1, WriteAt[y])' = Past(m - 1, WriteAt[y])
      BY <2>2, AccessFacts, LinkFacts DEF Counted1
    <3> QED
      BY <2>2, <3>1 DEF Written
  <2> QED
    BY <2>1, <2>2
<1>3. ASSUME NEW y \in Kind, NEW m \in Link
      PROVE  Read(y, m)' = IF y = x /\ m = k THEN Read(y, m) + 1 ELSE Read(y, m)
  <2>1. CASE m = E_NUM - 1
    BY <1>1, <2>1, LinkFacts DEF Read
  <2>2. CASE m # E_NUM - 1
    <3>1. Past(m, ReadAt[y])' = IF y = x /\ m = k THEN Past(m, ReadAt[y]) + 1
                                                  ELSE Past(m, ReadAt[y])
      BY <2>2, AccessFacts, LinkFacts DEF Counted1
    <3> QED
      BY <2>2, <3>1 DEF Read
  <2> QED
    BY <2>1, <2>2
<1> QED
  BY <1>2, <1>3

LEMMA WriteMoves ==
    ASSUME Counts, NEW x \in Kind, NEW k \in Stage, Counted1(k), at[k] = WriteAt[x],
           i' = i, first' = first
    PROVE  /\ \A y \in Kind, m \in Link : Read(y, m)' = Read(y, m)
           /\ \A y \in Kind, m \in Link :
                 Written(y, m)' = IF y = x /\ m = k + 1 THEN Written(y, m) + 1 ELSE Written(y, m)
<1>1. Source' = Source /\ Drained' = Drained
  BY DEF Source, Drained
<1>2. ASSUME NEW y \in Kind, NEW m \in Link PROVE Read(y, m)' = Read(y, m)
  <2>1. CASE m = E_NUM - 1
    BY <1>1, <2>1 DEF Read
  <2>2. CASE m # E_NUM - 1
    <3>1. Past(m, ReadAt[y])' = Past(m, ReadAt[y])
      BY <2>2, AccessFacts, LinkFacts DEF Counted1
    <3> QED
      BY <2>2, <3>1 DEF Read
  <2> QED
    BY <2>1, <2>2
<1>3. ASSUME NEW y \in Kind, NEW m \in Link
      PROVE  Written(y, m)' = IF y = x /\ m = k + 1 THEN Written(y, m) + 1 ELSE Written(y, m)
  <2>1. CASE m = 0
    BY <1>1, <2>1, LinkFacts DEF Written
  <2>2. CASE m # 0
    <3>1. m = k + 1 <=> m - 1 = k
      BY <2>2, SizeAssumption DEF Link, Stage
    <3>2. Past(m - 1, WriteAt[y])' = IF y = x /\ m = k + 1 THEN Past(m - 1, WriteAt[y]) + 1
                                                          ELSE Past(m - 1, WriteAt[y])
      BY <2>2, <3>1, AccessFacts, LinkFacts DEF Counted1
    <3> QED
      BY <2>2, <3>2 DEF Written
  <2> QED
    BY <2>1, <2>2
<1> QED
  BY <1>2, <1>3

LEMMA WrittenBehind ==
    ASSUME NEW x, NEW l, NEW k, l # 0, l - 1 = k
    PROVE  Written(x, l) = Past(k, WriteAt[x])
  BY DEF Written

(* While the stages stand still, only the ends of the chain can move.      *)
LEMMA EndsMove ==
    ASSUME at' = at, n' = n
    PROVE  \A y \in Kind, m \in Link :
              /\ Read(y, m)' = IF m = E_NUM - 1 THEN Drained'[y] ELSE Read(y, m)
              /\ Written(y, m)' = IF m = 0 THEN Source'[y] ELSE Written(y, m)
  BY DEF Read, Written, Past

LEMMA ChainStill ==
    ASSUME Chain, q' = q, run' = run, at' = at, n' = n, Source' = Source, Drained' = Drained
    PROVE  Chain'
<1>1. \A y \in Kind, m \in Link : Read(y, m)' = Read(y, m) /\ Written(y, m)' = Written(y, m)
  BY EndsMove DEF Read, Written
<1> QED
  BY <1>1, ChainSame

LEMMA SourceMoves ==
    ASSUME NEW x \in Kind, NEW item, Counts, Chain, Put(x, 0, item), run' = run,
           x # "res" => item = Expected[x][Source[x]],
           at' = at, n' = n, Drained' = Drained,
           \A y \in Kind : Source'[y] = IF y = x THEN Source[y] + 1 ELSE Source[y]
    PROVE  Chain'
<1>1. \A y \in Kind, m \in Link : Read(y, m)' = Read(y, m)
  BY EndsMove DEF Read
<1>2. \A y \in Kind, m \in Link :
        Written(y, m)' = IF y = x /\ m = 0 THEN Written(y, m) + 1 ELSE Written(y, m)
  BY EndsMove DEF Written
<1>3. 0 \in Link /\ Written(x, 0) = Source[x]
  BY LinkFacts DEF Written
<1> QED
  BY <1>1, <1>2, <1>3, ChainPut

LEMMA DrainMoves ==
    ASSUME NEW x \in Kind, Counts, Chain, Get(x, E_NUM - 1), run' = run,
           at' = at, n' = n, Source' = Source,
           \A y \in Kind : Drained'[y] = IF y = x THEN Drained[y] + 1 ELSE Drained[y]
    PROVE  Chain'
<1>1. \A y \in Kind, m \in Link : Written(y, m)' = Written(y, m)
  BY EndsMove DEF Written
<1>2. \A y \in Kind, m \in Link :
        Read(y, m)' = IF y = x /\ m = E_NUM - 1 THEN Read(y, m) + 1 ELSE Read(y, m)
  BY EndsMove DEF Read
<1>3. E_NUM - 1 \in Link
  BY LinkFacts
<1> QED
  BY <1>1, <1>2, <1>3, ChainGet

LEMMA BorderStill ==
    ASSUME Border, feed' = feed, run' = run, Fed' = Fed, Fetched' = Fetched
    PROVE  Border'
  BY BorderSame

(* A loop that turns has made one more of its iterations.                  *)
LEMMA TurnFacts ==
    ASSUME LoopCounts, NEW loop \in Loop, i[loop] < Size, Turn(loop)
    PROVE  /\ i' \in [Loop -> 0 .. Size] /\ i[loop] \in Index
           /\ \A o \in Loop : i'[o] = IF o = loop THEN i[o] + 1 ELSE i[o]
<1>1. i[loop] \in 0 .. Size /\ i[loop] + 1 \in 0 .. Size /\ i[loop] \in Index
  BY SizeAssumption DEF LoopCounts, Index
<1> QED
  BY <1>1 DEF LoopCounts, Turn

LEMMA StageCountsSame ==
    ASSUME StageCounts, n' = n, at' = at
    PROVE  StageCounts'
  BY DEF StageCounts

LEMMA HandsSame ==
    ASSUME Hands, hand' = hand, at' = at, n' = n, run' = run
    PROVE  Hands'
<1>1. Expected' = Expected
  BY ExpectedSame
<1> QED
  BY <1>1 DEF Hands

-----------------------------------------------------------------------------
(* A stage.                                                                *)
LEMMA TakeStep ==
    ASSUME IInv, NEW k \in Stage, NEW x \in Kind, Take(k, x)
    PROVE  IInv'
<1>1. /\ n[k] < Size /\ at[k] = ReadAt[x] /\ Get(x, k)
      /\ hand' = [hand EXCEPT ![k][x] = Head(q[x][k])]
      /\ at' = [at EXCEPT ![k] = @ + 1]
      /\ run' = run /\ i' = i /\ feed' = feed /\ pair' = pair /\ first' = first /\ n' = n
  BY DEF Take
<1>2. Counts /\ Border /\ Chain /\ Hands
  BY DEF IInv
<1>3. at[k] < 8
  BY <1>1, AccessFacts
<1>4. Counted1(k)
  BY <1>1, <1>2, <1>3, WithinIteration
<1>5. Chain' /\ (x # "res" => Head(q[x][k]) = Expected[x][Read(x, k)])
  BY <1>1, <1>2, <1>4, ReadMoves, ChainGet, LinkFacts
<1>6. Counts'
  BY <1>1, <1>2, <1>3, WithinCounts, LoopCountsSame DEF Counts
<1>7. Border'
  <2>1. Fed' = Fed /\ Fetched' = Fetched
    BY <1>1 DEF Fed, Fetched
  <2> QED
    BY <1>1, <1>2, <2>1, BorderSame
<1>8. Hands'
  <2>1. Expected' = Expected
    BY <1>1, ExpectedSame
  <2>2. DOMAIN hand' = Stage /\ \A j \in Stage : DOMAIN hand'[j] = Kind
    BY <1>1, <1>2 DEF Hands
  <2>3. Read(x, k) = n[k]
    <3>1. Read(x, k) = Past(k, ReadAt[x])
      BY LinkFacts DEF Read
    <3>2. ~(at[k] > ReadAt[x])
      BY <1>1, AccessFacts
    <3> QED
      BY <3>1, <3>2 DEF Past
  <2>4. ASSUME NEW j \in Stage, NEW y \in Kind \ {"res"}, at'[j] > ReadAt[y]
        PROVE  hand'[j][y] = Expected[y][n[j]]
    <3>1. CASE j = k /\ y = x
      BY <1>1, <1>2, <1>5, <2>3, <3>1 DEF Hands
    <3>2. CASE j = k /\ y # x
      <4>1. at[k] > ReadAt[y]
        <5>1. at'[k] = at[k] + 1
          BY <1>1, <1>2 DEF Counts, StageCounts, LoopCounts
        <5> QED
          BY <1>1, <2>4, <3>2, <5>1, AccessFacts
      <4>2. hand'[j][y] = hand[j][y]
        BY <1>1, <1>2, <3>2 DEF Hands
      <4> QED
        BY <1>2, <3>2, <4>1, <4>2 DEF Hands
    <3>3. CASE j # k
      <4>1. at'[j] = at[j] /\ hand'[j] = hand[j]
        BY <1>1, <1>2, <3>3 DEF Counts, StageCounts, LoopCounts, Hands
      <4> QED
        BY <1>2, <2>4, <4>1 DEF Hands
    <3> QED
      BY <3>1, <3>2, <3>3
  <2> QED
    BY <1>1, <2>1, <2>2, <2>4 DEF Hands
<1> QED
  BY <1>5, <1>6, <1>7, <1>8 DEF IInv

LEMMA PassOnStep ==
    ASSUME IInv, NEW k \in Stage, NEW x \in Kind, PassOn(k, x)
    PROVE  IInv'
<1>1. /\ x # "res" /\ at[k] = WriteAt[x] /\ Put(x, k + 1, hand[k][x])
      /\ at' = [at EXCEPT ![k] = @ + 1]
      /\ run' = run /\ i' = i /\ feed' = feed /\ pair' = pair /\ first' = first
      /\ n' = n /\ hand' = hand
  BY DEF PassOn
<1>2. Counts /\ Border /\ Chain /\ Hands
  BY DEF IInv
<1>3. at[k] < 8
  BY <1>1, AccessFacts
<1>4. Counted1(k)
  BY <1>1, <1>2, <1>3, WithinIteration
<1>5. hand[k][x] = Expected[x][Written(x, k + 1)]
  <2>1. hand[k][x] = Expected[x][n[k]]
    BY <1>1, <1>2, AccessFacts DEF Hands
  <2>2. Written(x, k + 1) = n[k]
    <3>1. Written(x, k + 1) = Past(k, WriteAt[x])
      <4> DEFINE l == k + 1
      <4>2. l # 0 /\ l - 1 = k
        BY SizeAssumption DEF Stage
      <4> HIDE DEF l
      <4>3. Written(x, l) = Past(k, WriteAt[x])
        BY <4>2, WrittenBehind
      <4> QED
        BY <4>3 DEF l
    <3>2. ~(at[k] > WriteAt[x])
      BY <1>1, AccessFacts
    <3> QED
      BY <3>1, <3>2 DEF Past
  <2> QED
    BY <2>1, <2>2
<1>6. Chain'
  BY <1>1, <1>2, <1>4, <1>5, WriteMoves, ChainPut, LinkFacts
<1>7. Counts'
  <2>1. n[k] < Size
    BY <1>1, <1>2, AccessFacts DEF Counts, StageCounts
  <2> QED
    BY <1>1, <1>2, <1>3, <2>1, WithinCounts, LoopCountsSame DEF Counts
<1>8. Border'
  <2>1. Fed' = Fed /\ Fetched' = Fetched
    BY <1>1 DEF Fed, Fetched
  <2> QED
    BY <1>1, <1>2, <2>1, BorderSame
<1>9. Hands'
  <2>1. Expected' = Expected
    BY <1>1, ExpectedSame
  <2>2. ASSUME NEW j \in Stage, NEW y \in Kind \ {"res"}, at'[j] > ReadAt[y]
        PROVE  at[j] > ReadAt[y]
    <3>1. CASE j = k
      <4>1. at'[k] = at[k] + 1
        BY <1>1, <1>2 DEF Counts, StageCounts, LoopCounts
      <4> QED
        BY <1>1, <2>2, <3>1, <4>1, AccessFacts
    <3>2. CASE j # k
      BY <1>1, <1>2, <2>2, <3>2 DEF Counts, StageCounts, LoopCounts
    <3> QED
      BY <3>1, <3>2
  <2> QED
    BY <1>1, <1>2, <2>1, <2>2 DEF Hands
<1> QED
  BY <1>6, <1>7, <1>8, <1>9 DEF IInv

LEMMA SampleStep ==
    ASSUME IInv, NEW k \in Stage, Sample(k)
    PROVE  IInv'
<1>1. PICK item :
        /\ at[k] = WriteAt["res"] /\ Put("res", k + 1, item)
        /\ at' = [at EXCEPT ![k] = 1] /\ n' = [n EXCEPT ![k] = @ + 1]
        /\ run' = run /\ i' = i /\ feed' = feed /\ pair' = pair /\ first' = first /\ hand' = hand
  BY DEF Sample
<1>2. Counts /\ Border /\ Chain /\ Hands
  BY DEF IInv
<1>3. "res" \in Kind /\ at[k] = 8
  BY <1>1, AccessFacts DEF Kind
<1>4. Counted1(k)
  BY <1>1, <1>2, <1>3, EndOfIteration
<1>5. Chain'
  <2>1. /\ \A y \in Kind, m \in Link : Read(y, m)' = Read(y, m)
        /\ \A y \in Kind, m \in Link :
              Written(y, m)' = IF y = "res" /\ m = k + 1 THEN Written(y, m) + 1
                                                        ELSE Written(y, m)
    BY <1>1, <1>2, <1>3, <1>4, WriteMoves
  <2>2. k + 1 \in Link
    BY LinkFacts
  <2> QED
    BY <1>1, <1>2, <1>3, <2>1, <2>2, ChainPut
<1>6. Counts'
  <2>1. n[k] < Size
    BY <1>2, <1>3 DEF Counts, StageCounts, LoopCounts
  <2> QED
    BY <1>1, <1>2, <2>1, EndCounts, LoopCountsSame DEF Counts
<1>7. Border'
  <2>1. Fed' = Fed /\ Fetched' = Fetched
    BY <1>1 DEF Fed, Fetched
  <2> QED
    BY <1>1, <1>2, <2>1, BorderSame
<1>8. Hands'
  <2>1. Expected' = Expected
    BY <1>1, ExpectedSame
  <2>2. ASSUME NEW j \in Stage, NEW y \in Kind \ {"res"}, at'[j] > ReadAt[y]
        PROVE  hand[j][y] = Expected[y][n'[j]]
    <3>1. j # k
      <4>1. at'[k] = 1
        BY <1>1, <1>2 DEF Counts, StageCounts, LoopCounts
      <4> QED
        BY <2>2, <4>1, AccessFacts
    <3> QED
      BY <1>1, <1>2, <2>2, <3>1 DEF Counts, StageCounts, LoopCounts, Hands
  <2> QED
    BY <1>1, <1>2, <2>1, <2>2 DEF Hands
<1> QED
  BY <1>5, <1>6, <1>7, <1>8 DEF IInv

-----------------------------------------------------------------------------
(* The other loops.  Those that write into a border stream ...             *)
LEMMA FeedingStep ==
    ASSUME IInv, ReadInputS \/ ReadInputD \/ UpdateState
    PROVE  IInv'
<1>1. StageCounts /\ LoopCounts /\ Counts /\ Border /\ Chain /\ Hands
  BY DEF IInv, Counts
<1>2. ASSUME NEW loop \in {"read_s", "read_d", "update"}, NEW x \in Feed,
             NEW item, Feeding(loop, x, item), item = Expected[x][Fed[x]],
             \A y \in Feed : Fed'[y] = IF y = x THEN Fed[y] + 1 ELSE Fed[y]
      PROVE  IInv'
  <2>1. /\ i[loop] < Size /\ Turn(loop) /\ feed' = [feed EXCEPT ![x] = Append(@, item)]
        /\ run' = run /\ q' = q /\ pair' = pair /\ first' = first
        /\ n' = n /\ at' = at /\ hand' = hand
    BY <1>2 DEF Feeding, stages
  <2>2. /\ i' \in [Loop -> 0 .. Size]
        /\ \A o \in Loop : o # loop => i'[o] = i[o]
    BY <1>1, <2>1, TurnFacts DEF Loop
  <2>3. \A o \in Loop \ {"read_s", "read_d", "update"} : i'[o] = i[o]
    BY <2>2
  <2>4. Fetched' = Fetched /\ Source' = Source /\ Drained' = Drained
    BY <2>1, <2>3 DEF Fetched, Source, Drained, Loop
  <2>5. Border'
    BY <1>1, <1>2, <2>1, <2>4, BorderPut
  <2>6. LoopCounts'
    BY <1>1, <2>1, <2>2, <2>3 DEF LoopCounts, Loop
  <2> QED
    BY <1>1, <2>1, <2>4, <2>5, <2>6, ChainStill, HandsSame, StageCountsSame DEF IInv, Counts
<1>3. CASE ReadInputS
  <2>1. Feeding("read_s", "s_stream", run.s[i["read_s"]])
    BY <1>3 DEF ReadInputS
  <2>2. run.s[i["read_s"]] = Expected["s_stream"][Fed["s_stream"]]
    BY DEF Expected, Fed
  <2>3. \A o \in Loop : i'[o] = IF o = "read_s" THEN i[o] + 1 ELSE i[o]
    BY <1>1, <2>1, TurnFacts DEF Feeding, Loop
  <2>4. \A y \in Feed : Fed'[y] = IF y = "s_stream" THEN Fed[y] + 1 ELSE Fed[y]
    BY <2>3 DEF Fed, Feed, Loop
  <2> QED
    BY <1>2, <2>1, <2>2, <2>4 DEF Feed
<1>4. CASE ReadInputD
  <2>1. Feeding("read_d", "d_stream", run.d[i["read_d"]])
    BY <1>4 DEF ReadInputD
  <2>2. run.d[i["read_d"]] = Expected["d_stream"][Fed["d_stream"]]
    BY DEF Expected, Fed
  <2>3. \A o \in Loop : i'[o] = IF o = "read_d" THEN i[o] + 1 ELSE i[o]
    BY <1>1, <2>1, TurnFacts DEF Feeding, Loop
  <2>4. \A y \in Feed : Fed'[y] = IF y = "d_stream" THEN Fed[y] + 1 ELSE Fed[y]
    BY <2>3 DEF Fed, Feed, Loop
  <2> QED
    BY <1>2, <2>1, <2>2, <2>4 DEF Feed
<1>5. CASE UpdateState
  <2>1. Feeding("update", "primary", i["update"])
    BY <1>5 DEF UpdateState
  <2>2. /\ i["update"] \in Index
        /\ \A o \in Loop : i'[o] = IF o = "update" THEN i[o] + 1 ELSE i[o]
    BY <1>1, <2>1, TurnFacts DEF Feeding, Loop
  <2>3. i["update"] = Expected["primary"][Fed["primary"]]
    BY <2>2 DEF Expected, Fed
  <2>4. \A y \in Feed : Fed'[y] = IF y = "primary" THEN Fed[y] + 1 ELSE Fed[y]
    BY <2>2 DEF Fed, Feed, Loop
  <2> QED
    BY <1>2, <2>1, <2>3, <2>4 DEF Feed
<1> QED
  BY <1>3, <1>4, <1>5

(* ... or into the first or from the last stream of the chain:             *)
LEMMA DummyStep ==
    ASSUME IInv, Dummy
    PROVE  IInv'
<1>1. StageCounts /\ LoopCounts /\ Counts /\ Border /\ Chain /\ Hands
  BY DEF IInv, Counts
<1>2. /\ i["dummy"] < Size /\ Turn("dummy") /\ Put("res", 0, 0)
      /\ run' = run /\ feed' = feed /\ pair' = pair /\ first' = first
      /\ n' = n /\ at' = at /\ hand' = hand
  BY DEF Dummy, stages
<1>3. /\ i' \in [Loop -> 0 .. Size]
      /\ \A o \in Loop : i'[o] = IF o = "dummy" THEN i[o] + 1 ELSE i[o]
  BY <1>1, <1>2, TurnFacts DEF Loop
<1>4. Fetched' = Fetched /\ Fed' = Fed /\ Drained' = Drained
  BY <1>2, <1>3 DEF Fetched, Fed, Drained, Loop
<1>5. \A y \in Kind : Source'[y] = IF y = "res" THEN Source[y] + 1 ELSE Source[y]
  BY <1>2, <1>3 DEF Source, Loop, Kind
<1>6. Chain'
  BY <1>1, <1>2, <1>4, <1>5, SourceMoves DEF Kind
<1>7. LoopCounts'
  BY <1>1, <1>2, <1>3 DEF LoopCounts, Loop
<1> QED
  BY <1>1, <1>2, <1>4, <1>6, <1>7, BorderStill, HandsSame, StageCountsSame DEF IInv, Counts

LEMMA DrainStep ==
    ASSUME IInv, SinkAll \/ WriteResult
    PROVE  IInv'
<1>1. StageCounts /\ LoopCounts /\ Counts /\ Border /\ Chain /\ Hands
  BY DEF IInv, Counts
<1>2. ASSUME NEW loop \in {"sink_edge", "sink_state", "sink_fe", "write"}, NEW x \in Kind,
             i[loop] < Size, Turn(loop), Get(x, E_NUM - 1), Drained[x] = i[loop],
             \A y \in Kind : Drained'[y] = IF y = x THEN Drained[y] + 1 ELSE Drained[y],
             run' = run, feed' = feed, pair' = pair, first' = first,
             n' = n, at' = at, hand' = hand
      PROVE  IInv'
  <2>1. /\ i' \in [Loop -> 0 .. Size]
        /\ \A o \in Loop : o # loop => i'[o] = i[o]
    BY <1>1, <1>2, TurnFacts DEF Loop
  <2>2. \A o \in Loop \ {"sink_edge", "sink_state", "sink_fe", "write"} : i'[o] = i[o]
    BY <2>1
  <2>3. Fetched' = Fetched /\ Fed' = Fed /\ Source' = Source
    BY <1>2, <2>2 DEF Fetched, Fed, Source, Loop
  <2>4. Chain'
    BY <1>1, <1>2, <2>3, DrainMoves
  <2>5. LoopCounts'
    BY <1>1, <1>2, <2>1, <2>2 DEF LoopCounts, Loop
  <2> QED
    BY <1>1, <1>2, <2>3, <2>4, <2>5, BorderStill, HandsSame, StageCountsSame DEF IInv, Counts
<1>3. ASSUME NEW loop \in Loop, i[loop] < Size, Turn(loop)
      PROVE  \A o \in Loop : i'[o] = IF o = loop THEN i[o] + 1 ELSE i[o]
  BY <1>1, <1>3, TurnFacts
<1>4. CASE Sink("sink_edge", "edge")
  BY <1>2, <1>3, <1>4 DEF Sink, stages, Drained, Kind, Loop
<1>5. CASE Sink("sink_state", "state")
  BY <1>2, <1>3, <1>5 DEF Sink, stages, Drained, Kind, Loop
<1>6. CASE Sink("sink_fe", "fe")
  BY <1>2, <1>3, <1>6 DEF Sink, stages, Drained, Kind, Loop
<1>7. CASE WriteResult
  BY <1>2, <1>3, <1>7 DEF WriteResult, stages, Drained, Kind, Loop
<1> QED
  BY <1>4, <1>5, <1>6, <1>7 DEF SinkAll

(* The merge.                                                              *)
LEMMA TupleFacts ==
    ASSUME NEW a, NEW b
    PROVE  /\ Len(<<>>) = 0 /\ Len(<<a>>) = 1 /\ Len(<<a, b>>) = 2
           /\ <<a>> # <<>> /\ <<a, b>> # <<>>
           /\ Append(<<>>, a) = <<a>> /\ Append(<<a>>, b) = <<a, b>>
<1>1. Len(<<>>) = 0 /\ Len(<<a>>) = 1 /\ Len(<<a, b>>) = 2
  OBVIOUS
<1>2. <<a>> # <<>> /\ <<a, b>> # <<>>
  BY <1>1
<1>3. Append(<<>>, a) = <<a>>
  OBVIOUS
<1>4. Append(<<a>>, b) = <<a, b>>
  <2> DEFINE S == {a, b}
             s == <<a>>
             t == <<a, b>>
             u == Append(s, b)
  <2>1. s \in Seq(S) /\ t \in Seq(S) /\ b \in S /\ Len(s) = 1 /\ Len(t) = 2
    OBVIOUS
  <2>2. s[1] = a /\ t[1] = a /\ t[2] = b
    OBVIOUS
  <2> HIDE DEF S, s, t
  <2>3. u \in Seq(S) /\ Len(u) = 2 /\ u[1] = a /\ u[2] = b
    <3>0. s \in Seq(S) /\ b \in S
      BY <2>1
    <3>1. u \in Seq(S) /\ Len(u) = Len(s) + 1
      BY <3>0, AppendFacts
    <3>2. u[Len(s) + 1] = b /\ \A j \in 1 .. Len(s) : u[j] = s[j]
      BY <3>0, AppendFacts
    <3>3. Len(s) + 1 = 2 /\ 1 \in 1 .. Len(s)
      BY <2>1
    <3> HIDE DEF u
    <3> QED
      BY <2>2, <3>1, <3>2, <3>3
  <2> HIDE DEF u
  <2>4. \A j \in 1 .. 2 : u[j] = t[j]
    BY <2>2, <2>3
  <2>5. u = t
    BY <2>1, <2>3, <2>4, SeqEqual
  <2> QED
    BY <2>5 DEF s, t, u
<1> QED
  BY <1>1, <1>2, <1>3, <1>4

LEMMA MergeReadStep ==
    ASSUME IInv, MergeRead
    PROVE  IInv'
<1>1. StageCounts /\ LoopCounts /\ Counts /\ Border /\ Chain /\ Hands
  BY DEF IInv, Counts
<1>2. /\ i["merge"] < Size /\ Len(pair) < 2
      /\ run' = run /\ i' = i /\ q' = q /\ first' = first
      /\ n' = n /\ at' = at /\ hand' = hand
  BY DEF MergeRead, stages
<1>3. Fed' = Fed /\ Source' = Source /\ Drained' = Drained
  BY <1>2 DEF Fed, Source, Drained
<1>4. \/ pair = <<>> /\ Len(pair) = 0
      \/ pair = <<run.s[i["merge"]]>> /\ Len(pair) = 1
  <2>1. pair # <<run.s[i["merge"]], run.d[i["merge"]]>>
    <3>1. Len(<<run.s[i["merge"]], run.d[i["merge"]]>>) = 2
      BY TupleFacts
    <3>2. ~(2 < 2)
      OBVIOUS
    <3> QED
      BY <1>2, <3>1, <3>2
  <2>2. pair = <<>> \/ pair = <<run.s[i["merge"]]>>
    BY <1>1, <2>1 DEF LoopCounts
  <2> QED
    BY <2>2, TupleFacts
<1>9. Len(pair) + 1 \in {1, 2}
  <2>1. CASE Len(pair) = 0
    BY <2>1
  <2>2. CASE Len(pair) = 1
    BY <2>2
  <2> QED
    BY <1>4, <2>1, <2>2
<1> DEFINE ends == <<"s_stream", "d_stream">>
<1>7. PICK x \in {ends[1], ends[2]} :
        /\ x = ends[Len(pair) + 1] /\ CanRead(feed[x])
        /\ feed' = [feed EXCEPT ![x] = Tail(@)]
        /\ pair' = Append(pair, Head(feed[x]))
  BY <1>9 DEF MergeRead
<1>8. ends[1] = "s_stream" /\ ends[2] = "d_stream"
  OBVIOUS
<1> HIDE DEF ends
<1>5. CASE pair = <<>> /\ Len(pair) = 0
  <2>1. /\ CanRead(feed["s_stream"]) /\ feed' = [feed EXCEPT !["s_stream"] = Tail(@)]
        /\ pair' = <<Head(feed["s_stream"])>>
    <3>1. x = "s_stream"
      BY <1>7, <1>8, <1>5
    <3> QED
      BY <1>7, <1>5, <3>1, TupleFacts
  <2>2. pair' # <<>> /\ Len(pair') = 1
    BY <2>1, TupleFacts
  <2>3. Fetched["s_stream"] = i["merge"]
    BY <1>5 DEF Fetched
  <2>4. \A y \in Feed : Fetched'[y] = IF y = "s_stream" THEN Fetched[y] + 1 ELSE Fetched[y]
    BY <1>2, <1>5, <2>2 DEF Fetched, Feed
  <2>5. Border' /\ Head(feed["s_stream"]) = Expected["s_stream"][Fetched["s_stream"]]
    BY <1>1, <1>2, <1>3, <2>1, <2>4, BorderGet DEF Feed
  <2>6. pair' = <<run.s[i["merge"]]>>
    BY <2>1, <2>3, <2>5 DEF Expected
  <2>7. LoopCounts'
    BY <1>1, <1>2, <2>6 DEF LoopCounts
  <2> QED
    BY <1>1, <1>2, <1>3, <2>5, <2>7, ChainStill, HandsSame, StageCountsSame DEF IInv, Counts
<1>6. CASE pair = <<run.s[i["merge"]]>> /\ Len(pair) = 1
  <2>1. /\ CanRead(feed["d_stream"]) /\ feed' = [feed EXCEPT !["d_stream"] = Tail(@)]
        /\ pair' = Append(pair, Head(feed["d_stream"]))
    <3>1. x = "d_stream"
      BY <1>7, <1>8, <1>6
    <3> QED
      BY <1>7, <3>1
  <2>2. pair' = <<run.s[i["merge"]], Head(feed["d_stream"])>>
    BY <1>6, <2>1, TupleFacts
  <2>3. pair # <<>> /\ pair' # <<>> /\ Len(pair') = 2
    BY <1>6, <2>2, TupleFacts
  <2>4. Fetched["d_stream"] = i["merge"]
    BY <1>6 DEF Fetched
  <2>5. \A y \in Feed : Fetched'[y] = IF y = "d_stream" THEN Fetched[y] + 1 ELSE Fetched[y]
    BY <1>2, <1>6, <2>3 DEF Fetched, Feed
  <2>6. Border' /\ Head(feed["d_stream"]) = Expected["d_stream"][Fetched["d_stream"]]
    BY <1>1, <1>2, <1>3, <2>1, <2>5, BorderGet DEF Feed
  <2>7. pair' = <<run.s[i["merge"]], run.d[i["merge"]]>>
    BY <2>2, <2>4, <2>6 DEF Expected
  <2>8. LoopCounts'
    BY <1>1, <1>2, <2>7 DEF LoopCounts
  <2> QED
    BY <1>1, <1>2, <1>3, <2>6, <2>8, ChainStill, HandsSame, StageCountsSame DEF IInv, Counts
<1> QED
  BY <1>4, <1>5, <1>6

LEMMA MergeWriteStep ==
    ASSUME IInv, MergeWrite
    PROVE  IInv'
<1>1. StageCounts /\ LoopCounts /\ Counts /\ Border /\ Chain /\ Hands
  BY DEF IInv, Counts
<1>2. /\ Len(pair) = 2 /\ Put("edge", 0, Ordered(pair[1], pair[2])) /\ pair' = <<>>
      /\ Turn("merge")
      /\ run' = run /\ feed' = feed /\ first' = first
      /\ n' = n /\ at' = at /\ hand' = hand
  BY DEF MergeWrite, stages
<1>3. i["merge"] < Size /\ pair = <<run.s[i["merge"]], run.d[i["merge"]]>>
  <2>1. pair # <<>> /\ pair # <<run.s[i["merge"]]>>
    BY <1>2, TupleFacts
  <2> QED
    BY <1>1, <2>1 DEF LoopCounts
<1>4. /\ i' \in [Loop -> 0 .. Size] /\ i["merge"] \in Index
      /\ \A o \in Loop : i'[o] = IF o = "merge" THEN i[o] + 1 ELSE i[o]
  BY <1>1, <1>2, <1>3, TurnFacts DEF Loop
<1>5. Fed' = Fed /\ Drained' = Drained
  BY <1>4 DEF Fed, Drained, Loop
<1>6. Fetched' = Fetched
  <2>1. pair # <<>> /\ Len(pair) = 2 /\ Len(pair') = 0
    BY <1>2, <1>3
  <2> QED
    BY <1>2, <1>4, <2>1 DEF Fetched, Loop
<1>7. \A y \in Kind : Source'[y] = IF y = "edge" THEN Source[y] + 1 ELSE Source[y]
  BY <1>2, <1>4 DEF Source, Loop, Kind
<1>8. Ordered(pair[1], pair[2]) = Expected["edge"][Source["edge"]]
  BY <1>3, <1>4 DEF Expected, Source, EdgeAt
<1>9. Chain'
  BY <1>1, <1>2, <1>5, <1>7, <1>8, SourceMoves DEF Kind
<1>10. LoopCounts'
  BY <1>1, <1>2, <1>4 DEF LoopCounts, Loop
<1> QED
  BY <1>1, <1>2, <1>5, <1>6, <1>9, <1>10, BorderStill, HandsSame, StageCountsSame
     DEF IInv, Counts

(* The decisions.                                                          *)
LEMMA FirstReadStep ==
    ASSUME IInv, FirstRead
    PROVE  IInv'
<1>1. StageCounts /\ LoopCounts /\ Counts /\ Border /\ Chain /\ Hands
  BY DEF IInv, Counts
<1>2. /\ i["first"] < Size /\ first.at = "read" /\ CanRead(feed["primary"])
      /\ first' = [at |-> "pass", state |-> Head(feed["primary"])]
      /\ feed' = [feed EXCEPT !["primary"] = Tail(@)]
      /\ run' = run /\ i' = i /\ q' = q /\ pair' = pair
      /\ n' = n /\ at' = at /\ hand' = hand
  BY DEF FirstRead, stages
<1>3. Fed' = Fed /\ Drained' = Drained /\ Source' = Source
  BY <1>2 DEF Fed, Source, Drained
<1>4. Fetched["primary"] = i["first"] /\ i["first"] \in Index
  <2>1. i["first"] \in 0 .. Size
    BY <1>1 DEF LoopCounts, Loop
  <2>2. i["first"] \in Index
    BY <1>2, <2>1, SizeAssumption DEF Index
  <2>3. Fetched["primary"] = i["first"]
    BY <1>2 DEF Fetched
  <2> QED
    BY <2>2, <2>3
<1>5. \A y \in Feed : Fetched'[y] = IF y = "primary" THEN Fetched[y] + 1 ELSE Fetched[y]
  BY <1>2 DEF Fetched, Feed
<1>6. Border' /\ Head(feed["primary"]) = Expected["primary"][Fetched["primary"]]
  BY <1>1, <1>2, <1>3, <1>5, BorderGet DEF Feed
<1>7. Head(feed["primary"]) = i["first"]
  BY <1>4, <1>6 DEF Expected
<1>8. LoopCounts'
  BY <1>1, <1>2, <1>4, <1>7 DEF LoopCounts, Index
<1> QED
  BY <1>1, <1>2, <1>3, <1>6, <1>8, ChainStill, HandsSame, StageCountsSame DEF IInv, Counts

LEMMA FirstPassStep ==
    ASSUME IInv, FirstPass
    PROVE  IInv'
<1>1. StageCounts /\ LoopCounts /\ Counts /\ Border /\ Chain /\ Hands
  BY DEF IInv, Counts
<1>2. /\ first.at = "pass" /\ Put("state", 0, first.state)
      /\ first' = [first EXCEPT !.at = "decide"]
      /\ run' = run /\ i' = i /\ feed' = feed /\ pair' = pair
      /\ n' = n /\ at' = at /\ hand' = hand
  BY DEF FirstPass, stages
<1>3. /\ i["first"] < Size /\ first.state = i["first"] /\ i["first"] \in Index
      /\ first'.at = "decide" /\ first'.state = first.state /\ first'.state \in Nat
  <2>1. /\ i["first"] \in 0 .. Size /\ i["first"] < Size /\ first.state = i["first"]
        /\ first \in [at : {"read", "pass", "decide"}, state : Nat]
    BY <1>1, <1>2 DEF LoopCounts, Loop
  <2>2. i["first"] \in Index
    BY <2>1, SizeAssumption DEF Index
  <2>3. first'.at = "decide" /\ first'.state = first.state /\ first.state \in Nat
    BY <1>2, <2>1
  <2> QED
    BY <2>1, <2>2, <2>3
<1>4. Fed' = Fed /\ Drained' = Drained /\ Fetched' = Fetched
  BY <1>2, <1>3 DEF Fed, Fetched, Drained
<1>5. \A y \in Kind : Source'[y] = IF y = "state" THEN Source[y] + 1 ELSE Source[y]
  BY <1>2, <1>3 DEF Source, Kind
<1>6. first.state = Expected["state"][Source["state"]]
  BY <1>2, <1>3 DEF Expected, Source
<1>7. Chain'
  BY <1>1, <1>2, <1>4, <1>5, <1>6, SourceMoves DEF Kind
<1>8. LoopCounts'
  BY <1>1, <1>2, <1>3 DEF LoopCounts
<1> QED
  BY <1>1, <1>2, <1>4, <1>7, <1>8, BorderStill, HandsSame, StageCountsSame DEF IInv, Counts

LEMMA FirstDecideStep ==
    ASSUME IInv, FirstDecide
    PROVE  IInv'
<1>1. StageCounts /\ LoopCounts /\ Counts /\ Border /\ Chain /\ Hands
  BY DEF IInv, Counts
<1>2. /\ first.at = "decide"
      /\ Put("fe", 0, Decision(i["first"] + 1, run.r[first.state]))
      /\ first' = [first EXCEPT !.at = "read"] /\ Turn("first")
      /\ run' = run /\ feed' = feed /\ pair' = pair
      /\ n' = n /\ at' = at /\ hand' = hand
  BY DEF FirstDecide, stages
<1>3. /\ i["first"] < Size /\ first.state = i["first"]
      /\ first' \in [at : {"read", "pass", "decide"}, state : Nat] /\ first'.at = "read"
  BY <1>1, <1>2 DEF LoopCounts
<1>4. /\ i' \in [Loop -> 0 .. Size] /\ i["first"] \in Index
      /\ \A o \in Loop : i'[o] = IF o = "first" THEN i[o] + 1 ELSE i[o]
  BY <1>1, <1>2, <1>3, TurnFacts DEF Loop
<1>5. Fed' = Fed /\ Drained' = Drained /\ Fetched' = Fetched
  BY <1>2, <1>3, <1>4 DEF Fed, Fetched, Drained, Loop
<1>6. \A y \in Kind : Source'[y] = IF y = "fe" THEN Source[y] + 1 ELSE Source[y]
  BY <1>2, <1>3, <1>4 DEF Source, Kind, Loop
<1>7. Decision(i["first"] + 1, run.r[first.state]) = Expected["fe"][Source["fe"]]
  BY <1>3, <1>4 DEF Expected, Source, DecisionAt
<1>8. Chain'
  BY <1>1, <1>2, <1>5, <1>6, <1>7, SourceMoves DEF Kind
<1>9. LoopCounts'
  BY <1>1, <1>2, <1>3, <1>4 DEF LoopCounts, Loop
<1> QED
  BY <1>1, <1>2, <1>5, <1>8, <1>9, BorderStill, HandsSame, StageCountsSame DEF IInv, Counts

-----------------------------------------------------------------------------
LEMMA InitIInv == Init => IInv
<1> SUFFICES ASSUME Init PROVE IInv
  OBVIOUS
<1> USE DEF Init
<1>0. E_NUM \in Nat /\ Size \in Nat \ {0} /\ 0 \in 0 .. Size
  BY SizeAssumption
<1>1. StageCounts
  BY <1>0 DEF StageCounts
<1>2. LoopCounts
  BY <1>0 DEF LoopCounts
<1>3. \A items : Slice(items, 0, 0) = <<>>
  <2> TAKE items
  <2>1. /\ Slice(items, 0, 0) \in Seq(Items(items, 0, 0))
        /\ Len(Slice(items, 0, 0)) = 0 - 0
    BY SliceFacts
  <2> QED
    BY <2>1, EmptySeq
<1>4. \A x \in Feed : Fetched[x] = 0 /\ Fed[x] = 0
  BY DEF Fetched, Fed, Feed, Loop
<1>5. Border
  BY <1>3, <1>4 DEF Border
<1>6. \A x \in Kind : Source[x] = 0 /\ Drained[x] = 0
  BY DEF Source, Drained, Kind, Loop
<1>7. \A k \in Stage, a \in 1 .. 8 : Past(k, a) = 0
  BY DEF Past
<1>8. \A x \in Kind, l \in Link : Read(x, l) = 0 /\ Written(x, l) = 0
  BY <1>6, <1>7, LinkFacts, AccessFacts DEF Read, Written
<1>9. Chain
  <2>1. IsSequence(<<>>) /\ Len(<<>>) = 0 - 0
    BY DEF IsSequence
  <2>2. \A x \in Kind, l \in Link : q[x][l] = <<>>
    OBVIOUS
  <2> QED
    BY <1>3, <1>8, <2>1, <2>2 DEF Chain, Kind
<1>10. Hands
  BY AccessFacts DEF Hands, Kind
<1> QED
  BY <1>1, <1>2, <1>5, <1>9, <1>10 DEF IInv, Counts

LEMMA NextIInv == IInv /\ [Next]_vars => IInv'
<1> SUFFICES ASSUME IInv, [Next]_vars PROVE IInv'
  OBVIOUS
<1>1. CASE \E k \in Stage : StageStep(k)
  BY <1>1, TakeStep, PassOnStep, SampleStep DEF StageStep
<1>2. CASE UNCHANGED vars
  <2>1. /\ run' = run /\ i' = i /\ feed' = feed /\ q' = q /\ pair' = pair /\ first' = first
        /\ n' = n /\ at' = at /\ hand' = hand
    BY <1>2 DEF vars, stages
  <2>2. Fed' = Fed /\ Fetched' = Fetched /\ Source' = Source /\ Drained' = Drained
    BY <2>1 DEF Fed, Fetched, Source, Drained
  <2> QED
    BY <2>1, <2>2, BorderStill, ChainStill, HandsSame, StageCountsSame, LoopCountsSame
       DEF IInv, Counts
<1> QED
  BY <1>1, <1>2, FeedingStep, DummyStep, DrainStep, MergeReadStep, MergeWriteStep,
     FirstReadStep, FirstPassStep, FirstDecideStep DEF Next, Returned

LEMMA Invariance == Spec => []IInv
  BY InitIInv, NextIInv, PTL DEF Spec

(* Whatever the speeds of the loops, every stream holds exactly the items  *)
(* between its reader and its writer, in the order of the input, and what  *)
(* a stage puts together belongs together (data_flow).                     *)
THEOREM InStepCorrect == Spec => []InStep
  BY Invariance, InStepHolds, PTL

(* When the region returns, nothing is left in its static streams for the  *)
(* next launch to find (data_flow, the loops' common bound).               *)
THEOREM NothingLeft == Spec => []NothingLeftBehind
<1>1. IInv => NothingLeftBehind
  <2> SUFFICES ASSUME IInv, AllDone
               PROVE  /\ \A x \in Feed : feed[x] = <<>>
                      /\ \A x \in Kind, l \in Link : q[x][l] = <<>>
    BY DEF NothingLeftBehind
  <2>1. StageCounts /\ LoopCounts /\ Counts /\ Border /\ Chain
    BY DEF IInv, Counts
  <2>2. Size \in Nat /\ E_NUM \in Nat
    BY SizeAssumption
  <2>3. \A loop \in Loop : i[loop] = Size
    BY DEF AllDone
  <2>4. pair = <<>> /\ first.at = "read"
    BY <2>1, <2>2, <2>3 DEF LoopCounts, Loop
  <2>5. \A k \in Stage : n[k] = Size /\ at[k] = 1
    BY <2>1, <2>2 DEF AllDone, StageCounts
  <2>6. \A items : Slice(items, Size, Size) = <<>>
    <3> TAKE items
    <3>1. /\ Slice(items, Size, Size) \in Seq(Items(items, Size, Size))
          /\ Len(Slice(items, Size, Size)) = Size - Size
      BY <2>2, SliceFacts
    <3> QED
      BY <2>2, <3>1, EmptySeq
  <2>7. \A x \in Feed : Fetched[x] = Size /\ Fed[x] = Size
    <3>1. Len(pair) # 2
      BY <2>4
    <3> QED
      BY <2>3, <2>4, <3>1 DEF Fetched, Fed, Feed, Loop
  <2>8. \A x \in Kind : Source[x] = Size /\ Drained[x] = Size
    BY <2>3, <2>4 DEF Source, Drained, Kind, Loop
  <2>9. \A k \in Stage, a \in 1 .. 8 : Past(k, a) = Size
    BY <2>5 DEF Past
  <2>10. \A x \in Kind, l \in Link : Read(x, l) = Size /\ Written(x, l) = Size
    BY <2>8, <2>9, LinkFacts, AccessFacts DEF Read, Written
  <2>11. \A x \in Feed : feed[x] = <<>>
    BY <2>1, <2>6, <2>7 DEF Border
  <2>12. \A x \in Kind \ {"res"}, l \in Link : q[x][l] = <<>>
    BY <2>1, <2>6, <2>10 DEF Chain
  <2>13. ASSUME NEW l \in Link PROVE q["res"][l] = <<>>
    <3>1. IsSequence(q["res"][l]) /\ Len(q["res"][l]) = 0
      BY <2>1, <2>2, <2>10 DEF Chain, Kind
    <3> QED
      BY <3>1, EmptySeq DEF IsSequence
  <2> QED
    BY <2>11, <2>12, <2>13
<1> QED
  BY <1>1, Invariance, PTL

-----------------------------------------------------------------------------
(* Triangles.  The third edge joins the ends that the first two do not     *)
(* share.                                                                  *)
LEMMA ThirdEdge ==
    ASSUME NEW a, NEW b, NEW c, NEW x, NEW y,
           a # b, c # a, c # b, x # y, {x, y} \cap {a, b} # {}
    PROVE  /\ Cardinality({{a, b}, {a, c}, {x, y}}) = 3
           /\ Cardinality({a, b} \cup {a, c} \cup {x, y}) = 3
           <=> {x, y} = {b, c}
<1> DEFINE U == {a, b} \cup {a, c} \cup {x, y}
<1>1. {a, b} # {a, c}
  OBVIOUS
<1>2. Cardinality({{a, b}, {a, c}, {x, y}}) = 3 <=> {x, y} # {a, b} /\ {x, y} # {a, c}
  <2>1. \A p, r, s : Cardinality({p, r, s}) = 3 <=> p # r /\ p # s /\ r # s
    BY Members
  <2> QED
    BY <1>1, <2>1
<1>3. CASE {x, y} = {b, c}
  <2>1. U = {a, b, c}
    BY <1>3
  <2>2. Cardinality({a, b, c}) = 3
    BY Members
  <2> QED
    BY <1>2, <1>3, <2>1, <2>2
<1>4. CASE {x, y} # {b, c} /\ {x, y} # {a, b} /\ {x, y} # {a, c}
  <2>1. PICK d \in {x, y} : d \notin {a, b, c}
    BY <1>4
  <2>2. U = {a, b, c, d}
    BY <2>1
  <2>3. Cardinality({a, b, c, d}) = 4
    BY <2>1, Members
  <2> QED
    BY <1>4, <2>2, <2>3
<1>5. CASE {x, y} # {b, c} /\ ({x, y} = {a, b} \/ {x, y} = {a, c})
  BY <1>2, <1>5
<1> QED
  BY <1>3, <1>4, <1>5

(* If the first is an edge from a node to itself, it does not meet the     *)
(* other two, parallel ones.  Such three edges, in most orders, the code   *)
(* takes for a triangle; all others that it does are one.                  *)
LoopApart(e1, e2, e3) == e1.s = e1.d /\ Ends(e2) = Ends(e3) => Ends(e1) \cap Ends(e2) = {}

LEMMA CloseIsTriangle ==
    ASSUME NEW e1 \in Edge, NEW e2 \in Edge, NEW e3 \in Edge,
           e1.s <= e1.d, e2.s <= e2.d,
           Ends(e2) \cap Ends(e1) # {}, Ends(e3) \cap Ends(e1) # {},
           LoopApart(e1, e2, e3), LoopApart(e2, e1, e3), LoopApart(e3, e1, e2)
    PROVE  Close(Match(e1, e2), e3) <=> Triangle(e1, e2, e3)
<1> DEFINE T == /\ Cardinality({Ends(e1), Ends(e2), Ends(e3)}) = 3
                /\ Cardinality(Ends(e1) \cup Ends(e2) \cup Ends(e3)) = 3
<1>1. Close(Match(e1, e2), e3) <=> Ends(e3) = {FarEnd(e1, e2), FarEnd(e2, e1)}
  BY DEF Close, Match, Ends
<1>2. CASE e1.s = e1.d \/ e2.s = e2.d \/ e3.s = e3.d
  <2>1. ~Triangle(e1, e2, e3)
    BY <1>2 DEF Triangle
  <2>2. CASE e1.s = e1.d
    BY <1>1, <2>1, <2>2 DEF Ends, FarEnd, LoopApart
  <2>3. CASE e2.s = e2.d
    BY <1>1, <2>1, <2>3 DEF Ends, FarEnd, LoopApart
  <2>4. CASE e3.s = e3.d /\ e1.s # e1.d /\ e2.s # e2.d
    BY <1>1, <2>1, <2>4 DEF Ends, FarEnd, LoopApart
  <2> QED
    BY <1>2, <2>2, <2>3, <2>4
<1>3. CASE e1.s # e1.d /\ e2.s # e2.d /\ e3.s # e3.d
  <2>1. Triangle(e1, e2, e3) <=> T
    BY <1>3 DEF Triangle
  <2>2. CASE Ends(e1) = Ends(e2)
    <3>1. ~T
      <4>1. \A p, r, u : Cardinality({p, r, u}) = 3 <=> p # r /\ p # u /\ r # u
        BY Members
      <4> QED
        BY <2>2, <4>1
    <3>2. FarEnd(e1, e2) = e1.d /\ FarEnd(e2, e1) = e1.d
      <4>1. \A w \in Words : w \in Nat
        BY SizeAssumption DEF Words
      <4>2. e1.s \in Nat /\ e1.d \in Nat /\ e2.s \in Nat /\ e2.d \in Nat
        BY <4>1 DEF Edge
      <4>3. e1.s = e2.s /\ e1.d = e2.d
        BY <2>2, <4>2 DEF Ends
      <4> QED
        BY <4>3 DEF FarEnd
    <3> QED
      BY <1>1, <1>3, <2>1, <3>1, <3>2 DEF Ends
  <2>3. CASE Ends(e1) # Ends(e2)
    <3>1. PICK a \in Ends(e1) : a \in Ends(e2)
      OBVIOUS
    <3>2. PICK b : Ends(e1) = {a, b} /\ b # a /\ FarEnd(e1, e2) = b
      BY <1>3, <2>3, <3>1 DEF Ends, FarEnd
    <3>3. PICK c : Ends(e2) = {a, c} /\ c # a /\ c # b /\ FarEnd(e2, e1) = c
      BY <1>3, <2>3, <3>1 DEF Ends, FarEnd
    <3>4. PICK x, y : Ends(e3) = {x, y} /\ x # y
      BY <1>3 DEF Ends
    <3>5. T <=> {x, y} = {b, c}
      BY <3>2, <3>3, <3>4, ThirdEdge
    <3> QED
      BY <1>1, <2>1, <3>2, <3>3, <3>4, <3>5
  <2> QED
    BY <2>2, <2>3
<1> QED
  BY <1>2, <1>3

-----------------------------------------------------------------------------
(* The positions that matter to a stage, and what one more edge adds.      *)
LEMMA LastOf ==
    ASSUME NEW S, S # {}, NEW m \in Nat, S \subseteq 0 .. m
    PROVE  Max(S) \in S /\ \A x \in S : x <= Max(S)
<1> DEFINE T == {y \in Nat : \A x \in S : x <= y}
<1>1. m \in T /\ T \in SUBSET Nat
  OBVIOUS
<1>2. PICK y \in T : \A z \in T : y <= z
  <2> HIDE DEF T
  <2> QED
    BY <1>1, LeastNatural
<1>3. y \in S
  <2> SUFFICES ASSUME y \notin S PROVE FALSE
    OBVIOUS
  <2>1. PICK x \in S : TRUE
    OBVIOUS
  <2>2. x \in Nat /\ x <= y /\ x # y
    BY <1>2
  <2>3. y - 1 \in Nat
    BY <1>2, <2>2
  <2>4. \A z \in S : z <= y - 1
    BY <1>2
  <2> QED
    BY <1>2, <2>3, <2>4
<1>4. \A x \in S : y >= x
  BY <1>2
<1>5. Max(S) \in S /\ \A x \in S : Max(S) >= x
  BY <1>3, <1>4 DEF Max
<1> QED
  BY <1>5

LEMMA LastIs ==
    ASSUME NEW S, NEW j \in Nat, S \subseteq 0 .. j, j \in S
    PROVE  Max(S) = j
<1>1. Max(S) \in S /\ \A x \in S : x <= Max(S)
  BY LastOf
<1> DEFINE x == Max(S)
<1>2. x \in S /\ j <= x
  BY <1>1
<1> HIDE DEF x
<1>3. x = j
  BY <1>2
<1> QED
  BY <1>3 DEF x

LEMMA StartsGrow ==
    ASSUME NEW k, NEW j \in Nat
    PROVE  /\ DecisionAt(j) # k => StartsOf(k, j) = StartsOf(k, j - 1)
           /\ DecisionAt(j) = k => j \in StartsOf(k, j)
           /\ StartsOf(k, j) \subseteq 0 .. j
<1>1. 0 .. j = (0 .. j - 1) \cup {j}
  OBVIOUS
<1> QED
  BY <1>1 DEF StartsOf

Meets(f, j) == Ends(EdgeAt(j)) \cap Ends(EdgeAt(f)) # {}

LEMMA AdjacentGrow ==
    ASSUME NEW f \in Nat, NEW j \in Nat, f < j
    PROVE  /\ ~Meets(f, j) => AdjacentTo(f, j) = AdjacentTo(f, j - 1)
           /\ Meets(f, j) => AdjacentTo(f, j) = AdjacentTo(f, j - 1) \cup {j}
           /\ j \notin AdjacentTo(f, j - 1)
<1>1. f + 1 .. j = (f + 1 .. j - 1) \cup {j} /\ j \notin f + 1 .. j - 1
  OBVIOUS
<1> QED
  BY <1>1 DEF AdjacentTo, Meets

LEMMA AdjacentBound ==
    ASSUME NEW f \in Nat, NEW m \in Int, f <= m
    PROVE  /\ IsFiniteSet(AdjacentTo(f, m)) /\ AdjacentTo(f, m) \subseteq f + 1 .. m
           /\ Cardinality(AdjacentTo(f, m)) \in 0 .. m - f
<1>1. AdjacentTo(f, m) \subseteq f + 1 .. m
  BY DEF AdjacentTo
<1>2. IsFiniteSet(f + 1 .. m) /\ Cardinality(f + 1 .. m) = m - f
  <2> DEFINE a == f + 1
  <2>1. a \in Int /\ m \in Int
    OBVIOUS
  <2>2. IsFiniteSet(a .. m) /\ Cardinality(a .. m) = IF a > m THEN 0 ELSE m - a + 1
    BY <2>1, FS_Interval
  <2> QED
    BY <2>2
<1>3. /\ IsFiniteSet(AdjacentTo(f, m))
      /\ Cardinality(AdjacentTo(f, m)) <= Cardinality(f + 1 .. m)
  BY <1>1, <1>2, FS_Subset
<1>4. Cardinality(AdjacentTo(f, m)) \in Nat
  BY <1>3, FS_CardinalityType
<1> QED
  BY <1>1, <1>2, <1>3, <1>4

LEMMA CountGrow ==
    ASSUME NEW f \in Nat, NEW j \in Nat, f < j
    PROVE  Cardinality(AdjacentTo(f, j)) = IF Meets(f, j) THEN Cardinality(AdjacentTo(f, j - 1)) + 1
                                                     ELSE Cardinality(AdjacentTo(f, j - 1))
<1> DEFINE A == AdjacentTo(f, j - 1)
<1>1. IsFiniteSet(A)
  <2>1. j - 1 \in Int /\ f <= j - 1
    OBVIOUS
  <2> QED
    BY <2>1, AdjacentBound
<1>2. j \notin A /\ (Meets(f, j) => AdjacentTo(f, j) = A \cup {j}) /\ (~Meets(f, j) => AdjacentTo(f, j) = A)
  BY AdjacentGrow
<1> HIDE DEF A
<1>3. Cardinality(A \cup {j}) = Cardinality(A) + 1
  BY <1>1, <1>2, FS_AddElement
<1> QED
  BY <1>2, <1>3 DEF A

(* The j-th edge, if adjacent, is chosen or not.                           *)
Choice(f, j) == Cardinality(AdjacentTo(f, j)) * run.r2[j] < Word

LEMMA ChosenGrow ==
    ASSUME NEW f \in Nat, NEW j \in Nat, f < j
    PROVE  /\ ~(Meets(f, j) /\ Choice(f, j)) => ChosenOf(f, j) = ChosenOf(f, j - 1)
           /\ Meets(f, j) /\ Choice(f, j) => ChosenOf(f, j) = ChosenOf(f, j - 1) \cup {j}
           /\ j \notin ChosenOf(f, j - 1) /\ ChosenOf(f, j - 1) \subseteq f + 1 .. j - 1
<1>1. /\ ~Meets(f, j) => AdjacentTo(f, j) = AdjacentTo(f, j - 1)
      /\ Meets(f, j) => AdjacentTo(f, j) = AdjacentTo(f, j - 1) \cup {j}
      /\ j \notin AdjacentTo(f, j - 1)
  BY AdjacentGrow
<1>2. AdjacentTo(f, j - 1) \subseteq f + 1 .. j - 1
  BY DEF AdjacentTo
<1>3. ChosenOf(f, j) = {o \in AdjacentTo(f, j) : Choice(f, o)}
      /\ ChosenOf(f, j - 1) = {o \in AdjacentTo(f, j - 1) : Choice(f, o)}
  BY DEF ChosenOf, Choice
<1> QED
  BY <1>1, <1>2, <1>3

(* The last chosen edge so far, and what closes a triangle with it.        *)
LastChosen(f, m, o) == o \in ChosenOf(f, m) /\ ChosenOf(f, m) \cap (o + 1 .. m) = {}

(* As the code has it: what closes a triangle is the edge between the far  *)
(* ends.                                                                   *)
Joins(f, j, c) == Close(Match(EdgeAt(f), EdgeAt(j)), EdgeAt(c))

ClosedAs(f, m) ==
    \E j \in ChosenOf(f, m), c \in AdjacentTo(f, m) :
        j < c /\ ChosenOf(f, m) \cap (j + 1 .. c) = {} /\ Joins(f, j, c)

LEMMA ClosedGrow ==
    ASSUME NEW f \in Nat, NEW j \in Nat, f < j
    PROVE  /\ ~Meets(f, j) \/ Choice(f, j) => (ClosedAs(f, j) <=> ClosedAs(f, j - 1))
           /\ Meets(f, j) /\ ~Choice(f, j) =>
                 (ClosedAs(f, j) <=> \/ ClosedAs(f, j - 1)
                                   \/ \E o : /\ LastChosen(f, j - 1, o)
                                             /\ Joins(f, o, j))
<1> DEFINE A == AdjacentTo(f, j - 1)
           C == ChosenOf(f, j - 1)
           Tri(o, c) == Joins(f, o, c)
           Witness(B, D) == \E o \in D, c \in B : o < c /\ D \cap (o + 1 .. c) = {} /\ Tri(o, c)
<1>1. /\ ~Meets(f, j) => AdjacentTo(f, j) = A
      /\ Meets(f, j) => AdjacentTo(f, j) = A \cup {j}
      /\ A \subseteq f + 1 .. j - 1
  BY AdjacentGrow DEF AdjacentTo
<1>2. /\ ~(Meets(f, j) /\ Choice(f, j)) => ChosenOf(f, j) = C
      /\ Meets(f, j) /\ Choice(f, j) => ChosenOf(f, j) = C \cup {j}
      /\ C \subseteq f + 1 .. j - 1
  BY ChosenGrow
<1>3. ClosedAs(f, j) <=> Witness(AdjacentTo(f, j), ChosenOf(f, j))
  BY DEF ClosedAs
<1>4. ClosedAs(f, j - 1) <=> Witness(A, C)
  BY DEF ClosedAs
<1> HIDE DEF Tri
<1>5. Witness(A \cup {j}, C \cup {j}) <=> Witness(A, C)
  <2> HIDE DEF A, C
  <2>1. ASSUME NEW o \in C \cup {j}, NEW c \in A \cup {j}, o < c,
               (C \cup {j}) \cap (o + 1 .. c) = {}
        PROVE  o \in C /\ c \in A /\ C \cap (o + 1 .. c) = {}
    <3>1. o \in Nat /\ o <= j /\ c \in Nat /\ c <= j
      BY <1>1, <1>2
    <3>2. o # j /\ c # j
      BY <2>1, <3>1
    <3> QED
      BY <2>1, <3>2
  <2>2. ASSUME NEW o \in C, NEW c \in A, C \cap (o + 1 .. c) = {}
        PROVE  (C \cup {j}) \cap (o + 1 .. c) = {}
    BY <1>1, <1>2, <2>2
  <2> QED
    BY <2>1, <2>2
<1>6. Witness(A \cup {j}, C) <=> \/ Witness(A, C)
                                \/ \E o : o \in C /\ C \cap (o + 1 .. j - 1) = {} /\ Tri(o, j)
  <2> HIDE DEF A, C
  <2>1. ASSUME NEW o \in C PROVE o < j /\ (C \cap (o + 1 .. j) = {} <=> C \cap (o + 1 .. j - 1) = {})
    BY <1>2
  <2> QED
    BY <2>1
<1>7. CASE ~Meets(f, j)
  BY <1>1, <1>2, <1>3, <1>4, <1>7
<1>8. CASE Meets(f, j) /\ Choice(f, j)
  <2> HIDE DEF Witness, A, C
  <2> QED
    BY <1>1, <1>2, <1>3, <1>4, <1>5, <1>8
<1>9. CASE Meets(f, j) /\ ~Choice(f, j)
  <2>1. (\E o : o \in C /\ C \cap (o + 1 .. j - 1) = {} /\ Tri(o, j))
        <=> \E o : /\ LastChosen(f, j - 1, o)
                   /\ Joins(f, o, j)
    BY DEF LastChosen, Tri
  <2> HIDE DEF Witness, A, C
  <2> QED
    BY <1>1, <1>2, <1>3, <1>4, <1>6, <1>9, <2>1
<1> QED
  BY <1>7, <1>8, <1>9

-----------------------------------------------------------------------------
(* What a stage keeps after the edges up to m: StagesExact, with the edge  *)
(* that would close a triangle of the first and the chosen one.            *)
Registers == [first : Edge \cup {NoEdge}, adj : Nat, second : BOOLEAN,
              match : Edge \cup {NoEdge}, matched : BOOLEAN]

AfterStart(f, m, reg) ==
    /\ reg.first = EdgeAt(f)
    /\ reg.adj = Cardinality(AdjacentTo(f, m))
    /\ reg.second <=> ChosenOf(f, m) # {}
    /\ reg.second => \E o : LastChosen(f, m, o) /\ reg.match = Match(EdgeAt(f), EdgeAt(o))
    /\ reg.matched <=> ClosedAs(f, m)

BeforeStart(reg) == reg.first = NoEdge /\ reg.adj = 0 /\ ~reg.second /\ ~reg.matched

AsOf(k, m, reg) ==
    /\ StartsOf(k, m) = {} => BeforeStart(reg)
    /\ StartsOf(k, m) # {} => AfterStart(Max(StartsOf(k, m)), m, reg)

LEMMA EdgeFacts ==
    ASSUME run \in Run, NEW j \in Index
    PROVE  EdgeAt(j) \in Edge /\ EdgeAt(j).s <= EdgeAt(j).d
<1>1. run.s[j] \in Words /\ run.d[j] \in Words
  BY RunAssumption
<1>2. Words \subseteq Nat
  BY SizeAssumption DEF Words
<1>3. run.s[j] \in Nat /\ run.d[j] \in Nat
  BY <1>1, <1>2
<1> QED
  BY <1>1, <1>3 DEF EdgeAt, Ordered, Edge

(* With no edge from a node to itself beside two parallel edges, these are *)
(* the triangles.                                                          *)
Plain == \A a, b, c \in Index :
            a # b /\ a # c /\ b # c => LoopApart(EdgeAt(a), EdgeAt(b), EdgeAt(c))

LEMMA ClosedIs ==
    ASSUME run \in Run, Plain, NEW f \in Index, NEW m \in Index
    PROVE  ClosedAs(f, m) <=> Closed(f, m)
<1>0. f \in Nat /\ m \in Nat
  BY SizeAssumption DEF Index
<1>1. ASSUME NEW j \in ChosenOf(f, m), NEW c \in AdjacentTo(f, m), j < c
      PROVE  Joins(f, j, c) <=> Triangle(EdgeAt(f), EdgeAt(j), EdgeAt(c))
  <2>1. j \in f + 1 .. m /\ c \in f + 1 .. m /\ Meets(f, j) /\ Meets(f, c)
    BY DEF ChosenOf, AdjacentTo, Meets
  <2>2. j \in Index /\ c \in Index /\ j # f /\ c # f /\ j # c
    BY <1>0, <1>1, <2>1, SizeAssumption DEF Index
  <2>3. /\ LoopApart(EdgeAt(f), EdgeAt(j), EdgeAt(c)) /\ LoopApart(EdgeAt(j), EdgeAt(f), EdgeAt(c))
        /\ LoopApart(EdgeAt(c), EdgeAt(f), EdgeAt(j))
    BY <2>2 DEF Plain
  <2>4. /\ EdgeAt(f) \in Edge /\ EdgeAt(j) \in Edge /\ EdgeAt(c) \in Edge
        /\ EdgeAt(j).s <= EdgeAt(j).d /\ EdgeAt(f).s <= EdgeAt(f).d
    BY <2>2, EdgeFacts
  <2> QED
    BY <2>1, <2>3, <2>4, CloseIsTriangle DEF Meets, Joins
<1> QED
  BY <1>1 DEF Closed, ClosedAs

LEMMA AdjacentEnds ==
    ASSUME NEW f, NEW j
    PROVE  Adjacent(EdgeAt(j), EdgeAt(f)) <=> Meets(f, j)
<1> DEFINE a == EdgeAt(j)
           b == EdgeAt(f)
<1>1. Adjacent(a, b) <=> Ends(a) \cap Ends(b) # {}
  <2> HIDE DEF a, b
  <2> QED
    BY DEF Adjacent, Ends
<1> QED
  BY <1>1 DEF Meets

LEMMA ChosenIs ==
    ASSUME run \in Run, NEW f, NEW j \in Index, NEW c \in Nat, c = Cardinality(AdjacentTo(f, j))
    PROVE  Chosen(c, run.r2[j]) <=> Choice(f, j)
<1>1. run.r2[j] \in Nat /\ Word \in Nat \ {0}
  <2>1. run.r2[j] \in Words
    BY RunAssumption
  <2>2. Words \subseteq Nat
    BY SizeAssumption DEF Words
  <2>3. Word \in Nat \ {0}
    BY SizeAssumption
  <2> QED
    BY <2>1, <2>2, <2>3
<1> DEFINE a == c * run.r2[j]
<1>2. a \in Nat
  BY <1>1
<1>3. Chosen(c, run.r2[j]) <=> a \div Word = 0
  BY DEF Chosen
<1>4. Choice(f, j) <=> a < Word
  BY DEF Choice
<1> HIDE DEF a
<1> QED
  BY <1>1, <1>2, <1>3, <1>4, QuotientFacts

LEMMA RestartExact ==
    ASSUME run \in Run, NEW j \in Index, NEW reg \in Registers
    PROVE  /\ Restarted(reg, EdgeAt(j)) \in Registers
           /\ AfterStart(j, j, Restarted(reg, EdgeAt(j)))
<1> DEFINE new == Restarted(reg, EdgeAt(j))
<1>1. /\ new \in Registers
      /\ new.first = EdgeAt(j) /\ new.adj = 0 /\ ~new.second /\ ~new.matched
  BY EdgeFacts DEF Restarted, Registers
<1>2. AdjacentTo(j, j) = {} /\ ChosenOf(j, j) = {}
  <2>1. j + 1 .. j = {}
    BY SizeAssumption DEF Index
  <2> QED
    BY <2>1 DEF AdjacentTo, ChosenOf
<1>3. Cardinality(AdjacentTo(j, j)) = 0
  BY <1>2, FS_EmptySet
<1>4. ~ClosedAs(j, j)
  BY <1>2 DEF ClosedAs
<1> HIDE DEF new
<1>5. AfterStart(j, j, new)
  BY <1>1, <1>2, <1>3, <1>4 DEF AfterStart
<1> QED
  BY <1>1, <1>5 DEF new

LEMMA MatchType ==
    ASSUME NEW e1 \in Edge, NEW e2 \in Edge
    PROVE  Match(e1, e2) \in Edge
  BY DEF Match, FarEnd, Edge

(* What the three kinds of assignments do to the registers.                *)
LEMMA AdjSet ==
    ASSUME NEW reg \in Registers
    PROVE  LET new == [reg EXCEPT !.adj = @ + 1]
           IN  /\ new \in Registers /\ new.first = reg.first /\ new.adj = reg.adj + 1
               /\ new.second = reg.second /\ new.match = reg.match /\ new.matched = reg.matched
  BY DEF Registers

LEMMA SecondSet ==
    ASSUME NEW reg \in Registers, NEW e \in Edge
    PROVE  LET new == [reg EXCEPT !.second = TRUE, !.match = e]
           IN  /\ new \in Registers /\ new.first = reg.first /\ new.adj = reg.adj
               /\ new.second = TRUE /\ new.match = e /\ new.matched = reg.matched
  BY DEF Registers

LEMMA MatchedSet ==
    ASSUME NEW reg \in Registers, NEW b \in BOOLEAN
    PROVE  LET new == [reg EXCEPT !.matched = b]
           IN  /\ new \in Registers /\ new.first = reg.first /\ new.adj = reg.adj
               /\ new.second = reg.second /\ new.match = reg.match /\ new.matched = b
  BY DEF Registers

LEMMA CountedExact ==
    ASSUME run \in Run, NEW f \in Index, NEW j \in Index, f < j, Meets(f, j),
           NEW reg \in Registers, AfterStart(f, j - 1, reg)
    PROVE  /\ Counted(reg, EdgeAt(j), run.r2[j]) \in Registers
           /\ AfterStart(f, j, Counted(reg, EdgeAt(j), run.r2[j]))
<1> DEFINE new == Counted(reg, EdgeAt(j), run.r2[j])
<1>0. f \in Nat /\ j \in Nat /\ EdgeAt(f) \in Edge /\ EdgeAt(j) \in Edge
  BY EdgeFacts, SizeAssumption DEF Index
<1>1. reg.adj \in Nat /\ reg.adj + 1 = Cardinality(AdjacentTo(f, j))
  BY <1>0, CountGrow DEF AfterStart, Registers
<1>2. Chosen(reg.adj + 1, run.r2[j]) <=> Choice(f, j)
  BY <1>1, ChosenIs
<1>3. CASE Choice(f, j)
  <2>1. /\ new \in Registers
        /\ new.first = reg.first /\ new.adj = reg.adj + 1 /\ new.second
        /\ new.match = Match(reg.first, EdgeAt(j)) /\ new.matched = reg.matched
    <3>1. Match(reg.first, EdgeAt(j)) \in Edge
      BY <1>0, MatchType DEF AfterStart
    <3> DEFINE more == [reg EXCEPT !.adj = @ + 1]
               e == Match(reg.first, EdgeAt(j))
    <3>2. /\ more \in Registers /\ more.first = reg.first /\ more.adj = reg.adj + 1
          /\ more.matched = reg.matched
      BY AdjSet
    <3>3. new = [more EXCEPT !.second = TRUE, !.match = e]
      BY <1>2, <1>3 DEF Counted
    <3> HIDE DEF more, new, e
    <3>4. /\ new \in Registers /\ new.first = more.first /\ new.adj = more.adj /\ new.second
          /\ new.match = e /\ new.matched = more.matched
      BY <3>1, <3>2, <3>3, SecondSet DEF e
    <3> QED
      BY <3>2, <3>4 DEF e
  <2>2. ChosenOf(f, j) = ChosenOf(f, j - 1) \cup {j}
    BY <1>0, <1>3, ChosenGrow
  <2>3. LastChosen(f, j, j)
    <3>1. j + 1 .. j = {}
      BY <1>0
    <3> QED
      BY <2>2, <3>1 DEF LastChosen
  <2>4. ClosedAs(f, j) <=> ClosedAs(f, j - 1)
    BY <1>0, <1>3, ClosedGrow
  <2> HIDE DEF new
  <2>5. AfterStart(f, j, new)
    BY <1>1, <2>1, <2>2, <2>3, <2>4 DEF AfterStart
  <2> QED
    BY <2>1, <2>5 DEF new
<1>4. CASE ~Choice(f, j)
  <2>1. /\ new \in Registers
        /\ new.first = reg.first /\ new.adj = reg.adj + 1 /\ new.second = reg.second
        /\ new.match = reg.match
        /\ new.matched <=> reg.matched \/ (reg.second /\ Close(reg.match, EdgeAt(j)))
    <3> DEFINE more == [reg EXCEPT !.adj = @ + 1]
               b == more.matched \/ (more.second /\ Close(more.match, EdgeAt(j)))
    <3>1. /\ more \in Registers /\ more.first = reg.first /\ more.adj = reg.adj + 1
          /\ more.matched = reg.matched /\ more.second = reg.second /\ more.match = reg.match
      BY AdjSet
    <3>2. new = [more EXCEPT !.matched = more.matched \/ (reg.second /\ Close(reg.match, EdgeAt(j)))]
      BY <1>2, <1>4 DEF Counted
    <3>3. b \in BOOLEAN /\ b = (more.matched \/ (reg.second /\ Close(reg.match, EdgeAt(j))))
      BY <3>1 DEF Close
    <3> HIDE DEF more, new, b
    <3>4. new = [more EXCEPT !.matched = b]
      BY <3>2, <3>3
    <3>5. /\ new \in Registers /\ new.first = more.first /\ new.adj = more.adj
          /\ new.second = more.second /\ new.match = more.match /\ new.matched = b
      BY <3>1, <3>3, <3>4, MatchedSet
    <3> QED
      BY <3>1, <3>3, <3>5
  <2>2. ChosenOf(f, j) = ChosenOf(f, j - 1)
    BY <1>0, <1>4, ChosenGrow
  <2>3. j \notin ChosenOf(f, j - 1) /\ ChosenOf(f, j - 1) \subseteq f + 1 .. j - 1
    BY <1>0, ChosenGrow
  <2>4. ASSUME NEW o, LastChosen(f, j - 1, o) PROVE LastChosen(f, j, o)
    <3>1. o + 1 .. j \subseteq (o + 1 .. j - 1) \cup {j}
      BY <1>0, <2>3, <2>4 DEF LastChosen
    <3> QED
      BY <2>2, <2>3, <2>4, <3>1 DEF LastChosen
  <2>5. ASSUME NEW o, NEW p, LastChosen(f, j - 1, o), LastChosen(f, j - 1, p) PROVE o = p
    <3>1. o \in f + 1 .. j - 1 /\ p \in f + 1 .. j - 1 /\ p \notin o + 1 .. j - 1 /\ o \notin p + 1 .. j - 1
      BY <2>3, <2>5 DEF LastChosen
    <3> QED
      BY <1>0, <3>1
  <2>7. new.matched <=> ClosedAs(f, j)
    <3>1. ClosedAs(f, j) <=> \/ ClosedAs(f, j - 1)
                           \/ \E o : /\ LastChosen(f, j - 1, o)
                                     /\ Joins(f, o, j)
      BY <1>0, <1>4, ClosedGrow
    <3>2. reg.matched <=> ClosedAs(f, j - 1)
      BY DEF AfterStart
    <3>3. reg.second /\ Close(reg.match, EdgeAt(j))
          <=> \E o : LastChosen(f, j - 1, o) /\ Joins(f, o, j)
      <4>1. CASE reg.second
        <5>1. PICK o : LastChosen(f, j - 1, o) /\ reg.match = Match(EdgeAt(f), EdgeAt(o))
          BY <4>1 DEF AfterStart
        <5> QED
          BY <2>5, <4>1, <5>1 DEF Joins
      <4>2. CASE ~reg.second
        BY <4>2 DEF AfterStart, LastChosen
      <4> QED
        BY <4>1, <4>2
    <3> QED
      BY <2>1, <3>1, <3>2, <3>3
  <2> HIDE DEF new
  <2>8. AfterStart(f, j, new)
    <3>1. new.first = EdgeAt(f) /\ new.adj = Cardinality(AdjacentTo(f, j))
      BY <1>1, <2>1 DEF AfterStart
    <3>2. new.second <=> ChosenOf(f, j) # {}
      BY <2>1, <2>2 DEF AfterStart
    <3>3. new.second => \E o : LastChosen(f, j, o) /\ new.match = Match(EdgeAt(f), EdgeAt(o))
      BY <2>1, <2>4 DEF AfterStart
    <3> QED
      BY <2>7, <3>1, <3>2, <3>3 DEF AfterStart
  <2> QED
    BY <2>1, <2>8 DEF new
<1> QED
  BY <1>3, <1>4

LEMMA PassedExact ==
    ASSUME NEW f \in Index, NEW j \in Index, f < j, ~Meets(f, j),
           NEW reg, AfterStart(f, j - 1, reg)
    PROVE  AfterStart(f, j, reg)
<1>0. f \in Nat /\ j \in Nat
  BY SizeAssumption DEF Index
<1>1. /\ Cardinality(AdjacentTo(f, j)) = Cardinality(AdjacentTo(f, j - 1))
      /\ ChosenOf(f, j) = ChosenOf(f, j - 1) /\ (ClosedAs(f, j) <=> ClosedAs(f, j - 1))
      /\ j \notin ChosenOf(f, j - 1) /\ ChosenOf(f, j - 1) \subseteq f + 1 .. j - 1
  BY <1>0, CountGrow, ChosenGrow, ClosedGrow
<1>2. ASSUME NEW o, LastChosen(f, j - 1, o) PROVE LastChosen(f, j, o)
  <2>1. o + 1 .. j \subseteq (o + 1 .. j - 1) \cup {j}
    BY <1>0, <1>1, <1>2 DEF LastChosen
  <2> QED
    BY <1>1, <1>2, <2>1 DEF LastChosen
<1> QED
  BY <1>1, <1>2 DEF AfterStart

LEMMA UpdateExact ==
    ASSUME run \in Run, NEW k \in Stage, NEW j \in Index, NEW reg \in Registers, AsOf(k, j - 1, reg)
    PROVE  /\ Updated(k, reg, EdgeAt(j), DecisionAt(j), run.r2[j]) \in Registers
           /\ AsOf(k, j, Updated(k, reg, EdgeAt(j), DecisionAt(j), run.r2[j]))
<1> DEFINE new == Updated(k, reg, EdgeAt(j), DecisionAt(j), run.r2[j])
<1>0. j \in Nat
  BY SizeAssumption DEF Index
<1>1. CASE DecisionAt(j) = k
  <2>1. j \in StartsOf(k, j) /\ StartsOf(k, j) \subseteq 0 .. j
    BY <1>0, <1>1, StartsGrow
  <2>2. Max(StartsOf(k, j)) = j
    BY <1>0, <2>1, LastIs
  <2>3. new = Restarted(reg, EdgeAt(j))
    BY <1>1 DEF Updated
  <2>4. new \in Registers /\ AfterStart(j, j, new)
    BY <2>3, RestartExact
  <2> HIDE DEF new
  <2>5. AsOf(k, j, new)
    BY <2>1, <2>2, <2>4 DEF AsOf
  <2> QED
    BY <2>4, <2>5 DEF new
<1>2. CASE DecisionAt(j) # k /\ StartsOf(k, j - 1) = {}
  <2>1. StartsOf(k, j) = {}
    BY <1>0, <1>2, StartsGrow
  <2>2. new = reg /\ BeforeStart(reg)
    BY <1>2 DEF Updated, AsOf, BeforeStart
  <2> QED
    BY <2>1, <2>2 DEF AsOf
<1>3. CASE DecisionAt(j) # k /\ StartsOf(k, j - 1) # {}
  <2> DEFINE f == Max(StartsOf(k, j - 1))
  <2>1. StartsOf(k, j) = StartsOf(k, j - 1)
    BY <1>0, <1>3, StartsGrow
  <2>2. f \in Index /\ f < j
    <3>1. StartsOf(k, j - 1) \subseteq 0 .. j - 1
      BY DEF StartsOf
    <3>2. j - 1 \in Nat
      BY <1>0, <1>3, <3>1
    <3>3. f \in 0 .. j - 1
      BY <1>3, <3>1, <3>2, LastOf
    <3> HIDE DEF f
    <3> QED
      BY <3>3, SizeAssumption DEF Index
  <2>3. AfterStart(f, j - 1, reg)
    BY <1>3 DEF AsOf
  <2>4. AsOf(k, j, new) <=> AfterStart(f, j, new)
    BY <1>3, <2>1 DEF AsOf
  <2> HIDE DEF f
  <2>5. reg.first # NoEdge /\ (Adjacent(EdgeAt(j), reg.first) <=> Meets(f, j))
    <3>1. reg.first = EdgeAt(f)
      BY <2>3 DEF AfterStart
    <3> QED
      BY <2>2, <3>1, EdgeFacts, AdjacentEnds, SizeAssumption
  <2>6. CASE Meets(f, j)
    <3>1. new = Counted(reg, EdgeAt(j), run.r2[j])
      BY <1>3, <2>5, <2>6 DEF Updated
    <3> QED
      BY <2>2, <2>3, <2>4, <2>6, <3>1, CountedExact
  <2>7. CASE ~Meets(f, j)
    <3>1. new = reg
      BY <1>3, <2>5, <2>7 DEF Updated
    <3> QED
      BY <2>2, <2>3, <2>4, <2>7, <3>1, PassedExact
  <2> QED
    BY <2>6, <2>7
<1> QED
  BY <1>1, <1>2, <1>3

-----------------------------------------------------------------------------
(* The sums.  Part(j)[s]: what the stages in s are to count after edge j.  *)
Counting(k, m) ==
    IF StartsOf(k, m) = {} THEN 0
    ELSE LET f == Max(StartsOf(k, m))
         IN IF ClosedAs(f, m) THEN Cardinality(AdjacentTo(f, m)) ELSE 0

Countings(j) == [k \in Stage |-> Counting(k, j)]
Part(j) == CHOOSE g : Sums(g, Countings(j), Stage)
Below(l) == [j \in Index |-> Part(j)[0 .. l - 1]]

LEMMA CountingType ==
    ASSUME NEW k \in Stage, NEW j \in Index
    PROVE  Counting(k, j) \in Nat
<1>0. j \in Nat
  BY SizeAssumption DEF Index
<1>1. CASE StartsOf(k, j) = {}
  BY <1>1 DEF Counting
<1>2. CASE StartsOf(k, j) # {}
  <2> DEFINE f == Max(StartsOf(k, j))
  <2>1. StartsOf(k, j) \subseteq 0 .. j
    BY DEF StartsOf
  <2>2. f \in 0 .. j
    BY <1>0, <1>2, <2>1, LastOf
  <2>3. Counting(k, j) = IF ClosedAs(f, j) THEN Cardinality(AdjacentTo(f, j)) ELSE 0
    BY <1>2 DEF Counting
  <2> HIDE DEF f
  <2>4. Cardinality(AdjacentTo(f, j)) \in 0 .. j - f
    BY <1>0, <2>2, AdjacentBound
  <2> QED
    BY <1>0, <2>2, <2>3, <2>4
<1> QED
  BY <1>1, <1>2

LEMMA StagesFinite == IsFiniteSet(Stage)
<1>1. 0 \in Int /\ E_NUM - 2 \in Int
  BY SizeAssumption
<1> QED
  BY <1>1, FS_Interval DEF Stage

LEMMA PartFacts ==
    ASSUME NEW j \in Index
    PROVE  /\ Sums(Part(j), Countings(j), Stage)
           /\ Part(j)[{}] = 0
           /\ \A s \in SUBSET Stage : Part(j)[s] \in Nat
           /\ \A s \in SUBSET Stage : \A k \in s : Part(j)[s] = Counting(k, j) + Part(j)[s \ {k}]
<1>1. IsFiniteSet(Stage)
  BY StagesFinite
<1>2. Countings(j) \in [Stage -> Nat] /\ \A k \in Stage : Countings(j)[k] = Counting(k, j)
  BY CountingType DEF Countings
<1> DEFINE F == Countings(j)
           g == Part(j)
<1>3. Sums(g, F, Stage)
  <2>1. \E h : Sums(h, F, Stage)
    BY <1>1, SumsExist
  <2> QED
    BY <2>1 DEF Part
<1> HIDE DEF g
<1>4. /\ g[{}] = 0
      /\ \A s \in SUBSET Stage : g[s] \in Nat
      /\ \A s \in SUBSET Stage : \A k \in s : g[s] = F[k] + g[s \ {k}]
  <2> HIDE DEF F
  <2>1. F \in [Stage -> Nat]
    BY <1>2 DEF F
  <2> QED
    BY <1>1, <1>3, <2>1, SumsAny
<1> QED
  BY <1>2, <1>3, <1>4 DEF g

LEMMA BelowFacts ==
    /\ \A j \in Index : Below(0)[j] = 0
    /\ \A k \in Stage, j \in Index : /\ Below(k)[j] \in Nat
                                     /\ Below(k + 1)[j] \in Nat
                                     /\ Below(k + 1)[j] = Counting(k, j) + Below(k)[j]
<1>1. ASSUME NEW j \in Index PROVE Below(0)[j] = 0
  <2>1. 0 .. 0 - 1 = {}
    OBVIOUS
  <2> QED
    BY <2>1, PartFacts DEF Below
<1>2. ASSUME NEW k \in Stage, NEW j \in Index
      PROVE  /\ Below(k)[j] \in Nat /\ Below(k + 1)[j] \in Nat
             /\ Below(k + 1)[j] = Counting(k, j) + Below(k)[j]
  <2>1. /\ 0 .. k - 1 \in SUBSET Stage /\ 0 .. k \in SUBSET Stage /\ k \in 0 .. k
        /\ (0 .. k) \ {k} = 0 .. k - 1 /\ 0 .. (k + 1) - 1 = 0 .. k
    BY SizeAssumption DEF Stage
  <2>2. Below(k)[j] = Part(j)[0 .. k - 1]
    BY DEF Below
  <2>3. Below(k + 1)[j] = Part(j)[0 .. k]
    BY <2>1 DEF Below
  <2>4. /\ Part(j)[0 .. k - 1] \in Nat /\ Part(j)[0 .. k] \in Nat
        /\ Part(j)[0 .. k] = Counting(k, j) + Part(j)[(0 .. k) \ {k}]
    <3>1. 0 .. k - 1 \in SUBSET Stage /\ 0 .. k \in SUBSET Stage /\ k \in 0 .. k
      BY <2>1
    <3>2. \A s \in SUBSET Stage : Part(j)[s] \in Nat
      BY PartFacts
    <3>3. \A s \in SUBSET Stage : \A x \in s : Part(j)[s] = Counting(x, j) + Part(j)[s \ {x}]
      BY PartFacts
    <3>4. Part(j)[0 .. k - 1] \in Nat /\ Part(j)[0 .. k] \in Nat
      BY <3>1, <3>2, Zenon
    <3>5. Part(j)[0 .. k] = Counting(k, j) + Part(j)[(0 .. k) \ {k}]
      BY <3>1, <3>3, Zenon
    <3> QED
      BY <3>4, <3>5
  <2>5. Part(j)[0 .. k] = Counting(k, j) + Part(j)[0 .. k - 1]
    <3>1. (0 .. k) \ {k} = 0 .. k - 1
      BY <2>1
    <3>2. Part(j)[0 .. k] = Counting(k, j) + Part(j)[(0 .. k) \ {k}]
      BY <2>4
    <3> QED
      BY <3>1, <3>2, Zenon
  <2> QED
    BY <2>2, <2>3, <2>4, <2>5
<1> QED
  BY <1>1, <1>2

LEMMA BelowAll ==
    ASSUME run \in Run, Plain, NEW j \in Index
    PROVE  MapThenSumSet(LAMBDA k : Estimate(k, j), Stage) = Below(E_NUM - 1)[j]
<1> DEFINE h == CHOOSE g : g = [s \in SUBSET Stage |->
                                  IF s = {} THEN 0
                                  ELSE LET x == CHOOSE x \in s : TRUE
                                       IN  Estimate(x, j) + g[s \ {x}]]
<1>1. MapThenSumSet(LAMBDA k : Estimate(k, j), Stage) = h[Stage]
  BY DEF MapThenSumSet, MapThenFoldSet
<1>0. ASSUME NEW k \in Stage PROVE Estimate(k, j) = Counting(k, j)
  <2>1. CASE StartsOf(k, j) = {}
    BY <2>1 DEF Estimate, Counting
  <2>2. CASE StartsOf(k, j) # {}
    <3> DEFINE f == Max(StartsOf(k, j))
    <3>1. StartsOf(k, j) \subseteq 0 .. j /\ j \in Nat
      BY SizeAssumption DEF StartsOf, Index
    <3>2. f \in 0 .. j
      BY <2>2, <3>1, LastOf
    <3>3. f \in Index
      <4> HIDE DEF f
      <4> QED
        BY <3>1, <3>2, SizeAssumption DEF Index
    <3>4. ClosedAs(f, j) <=> Closed(f, j)
      <4> HIDE DEF f
      <4> QED
        BY <3>3, ClosedIs
    <3> QED
      BY <3>4 DEF Estimate, Counting
  <2> QED
    BY <2>1, <2>2
<1>2. ASSUME NEW g
      PROVE  Sums(g, Countings(j), Stage) <=>
                 g = [s \in SUBSET Stage |->
                        IF s = {} THEN 0
                        ELSE LET x == CHOOSE x \in s : TRUE
                             IN  Estimate(x, j) + g[s \ {x}]]
  BY <1>0 DEF Sums, Countings
<1>3. h = Part(j)
  <2>1. Sums(Part(j), Countings(j), Stage)
    BY PartFacts
  <2>2. h = [s \in SUBSET Stage |->
               IF s = {} THEN 0
               ELSE LET x == CHOOSE x \in s : TRUE
                    IN  Estimate(x, j) + h[s \ {x}]]
    <3>1. PICK g : Sums(g, Countings(j), Stage)
      BY <2>1
    <3>2. g = [s \in SUBSET Stage |->
                 IF s = {} THEN 0
                 ELSE LET x == CHOOSE x \in s : TRUE
                      IN  Estimate(x, j) + g[s \ {x}]]
      BY <1>2, <3>1
    <3> QED
      BY <3>2
  <2> HIDE DEF h
  <2>3. Sums(h, Countings(j), Stage)
    BY <1>2, <2>2
  <2>4. IsFiniteSet(Stage)
    BY StagesFinite
  <2> QED
    BY <2>1, <2>3, <2>4, SumsOnce
<1>4. Stage = 0 .. (E_NUM - 1) - 1
  BY SizeAssumption DEF Stage
<1> QED
  BY <1>1, <1>3, <1>4 DEF Below

LEMMA SameInput ==
    ASSUME run' = run
    PROVE  /\ Expected' = Expected
           /\ \A k, m, reg : AsOf(k, m, reg)' <=> AsOf(k, m, reg)
           /\ \A l : Below(l)' = Below(l)
<1>1. \A j : EdgeAt(j)' = EdgeAt(j) /\ DecisionAt(j)' = DecisionAt(j)
  BY DEF EdgeAt, DecisionAt
<1>2. \A k, m : StartsOf(k, m)' = StartsOf(k, m)
  BY <1>1 DEF StartsOf
<1>3. \A f, m : AdjacentTo(f, m)' = AdjacentTo(f, m)
  BY <1>1 DEF AdjacentTo
<1>4. \A f, m : ChosenOf(f, m)' = ChosenOf(f, m)
  BY <1>3 DEF ChosenOf
<1>7. \A f, j, c : Joins(f, j, c)' <=> Joins(f, j, c)
  BY <1>1 DEF Joins
<1>5. \A f, m : ClosedAs(f, m)' <=> ClosedAs(f, m)
  BY <1>1, <1>3, <1>4, <1>7 DEF ClosedAs
<1>6. \A f, m, o : LastChosen(f, m, o)' <=> LastChosen(f, m, o)
  BY <1>4 DEF LastChosen
<1>8. \A f, m, reg : AfterStart(f, m, reg)' <=> AfterStart(f, m, reg)
  BY <1>1, <1>3, <1>4, <1>5, <1>6 DEF AfterStart
<1>9. \A k, m, reg : AsOf(k, m, reg)' <=> AsOf(k, m, reg)
  BY <1>2, <1>8 DEF AsOf
<1>10. \A k, m : Counting(k, m)' = Counting(k, m)
  BY <1>2, <1>3, <1>5 DEF Counting
<1>11. \A j : Countings(j)' = Countings(j)
  BY <1>10 DEF Countings
<1>12. \A j : Part(j)' = Part(j)
  BY <1>11 DEF Part
<1>13. \A l : Below(l)' = Below(l)
  BY <1>12 DEF Below
<1> QED
  BY <1>9, <1>13, ExpectedSame

-----------------------------------------------------------------------------
(* Beside IInv: the input is one of those given and no stream overflows,   *)
(* what a stage keeps is what the edges so far call for, and a sum on its  *)
(* way to stage l is that of the stages in front of it.                    *)
Bounded ==
    /\ run \in Run
    /\ \A x \in Feed : Len(feed[x]) <= Depth
    /\ \A x \in Kind, l \in Link : Len(q[x][l]) <= Depth

Kept == /\ kept \in [Stage -> Registers]
        /\ \A k \in Stage : AsOf(k, n[k] - 1, kept[k])

SumsInStep == \A l \in Link : q["res"][l] = Slice(Below(l), Read("res", l), Written("res", l))
SumsInHand == \A k \in Stage : at[k] > ReadAt["res"] => hand[k]["res"] = Below(k)[n[k]]
SumsOut == /\ DOMAIN output = Index
           /\ \A j \in 0 .. i["write"] - 1 : output[j] = Below(E_NUM - 1)[j]

Summed == SumsInStep /\ SumsInHand /\ SumsOut

JInv == IInv /\ Bounded /\ Kept /\ Summed

LEMMA Sequences ==
    ASSUME IInv
    PROVE  /\ \A x \in Feed : IsSequence(feed[x])
           /\ \A x \in Kind, l \in Link : IsSequence(q[x][l])
<1>1. Counts /\ Border /\ Chain
  BY DEF IInv
<1>2. ASSUME NEW items, NEW from \in Nat, NEW to \in Nat, from <= to
      PROVE  IsSequence(Slice(items, from, to))
  BY <1>2, SliceFacts DEF IsSequence
<1>3. ASSUME NEW x \in Feed PROVE IsSequence(feed[x])
  BY <1>1, <1>2, BorderPositions DEF Border
<1>4. ASSUME NEW x \in Kind \ {"res"}, NEW l \in Link PROVE IsSequence(q[x][l])
  BY <1>1, <1>2, ChainPositions DEF Chain
<1>5. ASSUME NEW l \in Link PROVE IsSequence(q["res"][l])
  BY <1>1 DEF Chain
<1> QED
  BY <1>3, <1>4, <1>5

LEMMA LengthGet ==
    ASSUME NEW s, IsSequence(s), CanRead(s), NEW d \in Nat, Len(s) <= d
    PROVE  Len(Tail(s)) <= d
<1>1. PICK S : s \in Seq(S)
  BY DEF IsSequence
<1>2. Len(Tail(s)) = Len(s) - 1 /\ Len(s) \in Nat
  BY <1>1, TailFacts DEF CanRead
<1> QED
  BY <1>2

LEMMA LengthPut ==
    ASSUME NEW s, IsSequence(s), NEW e, NEW d \in Nat, CanWrite(s, d)
    PROVE  Len(Append(s, e)) <= d
<1>1. PICK S : s \in Seq(S)
  BY DEF IsSequence
<1>2. s \in Seq(S \cup {e}) /\ e \in S \cup {e}
  <2>1. S \subseteq S \cup {e}
    OBVIOUS
  <2> QED
    BY <1>1, <2>1, SeqWider
<1>3. Len(Append(s, e)) = Len(s) + 1 /\ Len(s) \in Nat
  BY <1>2, AppendFacts
<1> QED
  BY <1>3 DEF CanWrite

LEMMA BoundedGet ==
    ASSUME IInv, Bounded, NEW x \in Kind, NEW l \in Link, Get(x, l)
    PROVE  \A y \in Kind, m \in Link : Len(q'[y][m]) <= Depth
<1>1. DOMAIN q = Kind /\ \A y \in Kind : DOMAIN q[y] = Link
  BY DEF IInv, Chain
<1>2. \A y \in Kind, m \in Link :
        q'[y][m] = IF y = x /\ m = l THEN Tail(q[x][l]) ELSE q[y][m]
  BY <1>1 DEF Get
<1>3. Len(Tail(q[x][l])) <= Depth
  BY Sequences, LengthGet, SizeAssumption DEF Get, Bounded
<1> QED
  BY <1>2, <1>3 DEF Bounded

LEMMA BoundedPut ==
    ASSUME IInv, Bounded, NEW x \in Kind, NEW l \in Link, NEW item, Put(x, l, item)
    PROVE  \A y \in Kind, m \in Link : Len(q'[y][m]) <= Depth
<1>1. DOMAIN q = Kind /\ \A y \in Kind : DOMAIN q[y] = Link
  BY DEF IInv, Chain
<1>2. \A y \in Kind, m \in Link :
        q'[y][m] = IF y = x /\ m = l THEN Append(q[x][l], item) ELSE q[y][m]
  BY <1>1 DEF Put
<1>3. Len(Append(q[x][l], item)) <= Depth
  BY Sequences, LengthPut, SizeAssumption DEF Put
<1> QED
  BY <1>2, <1>3 DEF Bounded

FeedGet(x) == CanRead(feed[x]) /\ feed' = [feed EXCEPT ![x] = Tail(@)]
FeedPut(x, item) == CanWrite(feed[x], Depth) /\ feed' = [feed EXCEPT ![x] = Append(@, item)]

LEMMA BoundedFeed ==
    ASSUME IInv, Bounded,
           \/ feed' = feed
           \/ \E x \in Feed : FeedGet(x)
           \/ \E x \in Feed : \E item : FeedPut(x, item)
    PROVE  \A y \in Feed : Len(feed'[y]) <= Depth
<1>1. DOMAIN feed = Feed /\ \A y \in Feed : IsSequence(feed[y])
  BY Sequences DEF IInv, Border
<1>2. CASE feed' = feed
  BY <1>2 DEF Bounded
<1>3. ASSUME NEW x \in Feed, FeedGet(x) PROVE \A y \in Feed : Len(feed'[y]) <= Depth
  <2>1. Len(Tail(feed[x])) <= Depth
    BY <1>1, <1>3, LengthGet, SizeAssumption DEF FeedGet, Bounded
  <2> QED
    BY <1>1, <1>3, <2>1 DEF FeedGet, Bounded
<1>4. ASSUME NEW x \in Feed, NEW item, FeedPut(x, item)
      PROVE  \A y \in Feed : Len(feed'[y]) <= Depth
  <2>1. Len(Append(feed[x], item)) <= Depth
    BY <1>1, <1>4, LengthPut, SizeAssumption DEF FeedPut
  <2> QED
    BY <1>1, <1>4, <2>1 DEF FeedPut, Bounded
<1> QED
  BY <1>2, <1>3, <1>4

(* Each step makes at most one access to each kind of stream.              *)
LEMMA Accesses ==
    ASSUME IInv, [Next]_vars
    PROVE  /\ run' = run
           /\ \/ feed' = feed
              \/ \E x \in Feed : FeedGet(x)
              \/ \E x \in Feed : \E item : FeedPut(x, item)
           /\ \/ q' = q
              \/ \E x \in Kind, l \in Link : Get(x, l)
              \/ \E x \in Kind, l \in Link : \E item : Put(x, l, item)
<1>0. Kind = {"res", "edge", "state", "fe"} /\ Feed = {"s_stream", "d_stream", "primary"}
  BY DEF Kind, Feed
<1>1. ASSUME NEW loop, NEW x \in Feed, NEW item, Feeding(loop, x, item)
      PROVE  run' = run /\ q' = q /\ FeedPut(x, item)
  BY <1>1 DEF Feeding, FeedPut
<1>2. CASE ReadInputS \/ ReadInputD \/ UpdateState
  <2>1. \E x \in Feed : \E item : run' = run /\ q' = q /\ FeedPut(x, item)
    BY <1>0, <1>1, <1>2 DEF ReadInputS, ReadInputD, UpdateState
  <2> QED
    BY <2>1
<1>3. CASE Dummy
  BY <1>0, <1>3, LinkFacts DEF Dummy
<1>4. CASE MergeRead
  <2>1. PICK x \in Feed : CanRead(feed[x]) /\ feed' = [feed EXCEPT ![x] = Tail(@)]
    <3>1. Len(pair) = 0 \/ Len(pair) = 1
      BY <1>4, TupleFacts DEF MergeRead, IInv, Counts, LoopCounts
    <3>2. <<"s_stream", "d_stream">>[Len(pair) + 1] \in Feed
      <4>1. \A m : m = 1 \/ m = 2 => <<"s_stream", "d_stream">>[m] \in Feed
        BY <1>0
      <4>2. Len(pair) + 1 = 1 \/ Len(pair) + 1 = 2
        <5> DEFINE m == Len(pair)
        <5>1. m = 0 \/ m = 1
          BY <3>1
        <5> HIDE DEF m
        <5>2. m + 1 = 1 \/ m + 1 = 2
          BY <5>1
        <5> QED
          BY <5>2 DEF m
      <4> QED
        BY <4>1, <4>2, Zenon
    <3> QED
      BY <1>4, <3>2 DEF MergeRead
  <2> QED
    BY <1>4, <2>1 DEF MergeRead, FeedGet
<1>5. CASE MergeWrite
  BY <1>0, <1>5, LinkFacts DEF MergeWrite
<1>6. CASE FirstRead
  <2>1. FeedGet("primary")
    BY <1>6 DEF FirstRead, FeedGet
  <2> QED
    BY <1>0, <1>6, <2>1 DEF FirstRead
<1>7. CASE FirstPass
  BY <1>0, <1>7, LinkFacts DEF FirstPass
<1>8. CASE FirstDecide
  BY <1>0, <1>8, LinkFacts DEF FirstDecide
<1>9. ASSUME NEW k \in Stage, StageStep(k)
      PROVE  /\ run' = run /\ feed' = feed
             /\ \/ \E x \in Kind, l \in Link : Get(x, l)
                \/ \E x \in Kind, l \in Link : \E item : Put(x, l, item)
  <2>1. k \in Link /\ k + 1 \in Link
    BY LinkFacts
  <2>2. CASE \E x \in Kind : Take(k, x)
    BY <2>1, <2>2 DEF Take
  <2>3. CASE \E x \in Kind : PassOn(k, x)
    BY <2>1, <2>3 DEF PassOn
  <2>4. CASE Sample(k)
    BY <1>0, <2>1, <2>4 DEF Sample
  <2> QED
    BY <1>9, <2>2, <2>3, <2>4 DEF StageStep
<1>10. CASE \E k \in Stage : StageStep(k)
  BY <1>9, <1>10
<1>11. CASE SinkAll \/ WriteResult
  BY <1>0, <1>11, LinkFacts DEF SinkAll, Sink, WriteResult
<1>12. CASE UNCHANGED vars
  BY <1>12 DEF vars
<1> QED
  BY <1>2, <1>3, <1>4, <1>5, <1>6, <1>7, <1>8, <1>10, <1>11, <1>12 DEF Next, Returned

LEMMA StepBounded ==
    ASSUME IInv, Bounded, [Next]_vars
    PROVE  Bounded'
<1>1. run' \in Run
  BY Accesses DEF Bounded
<1>2. \A y \in Feed : Len(feed'[y]) <= Depth
  BY Accesses, BoundedFeed
<1>3. \A y \in Kind, m \in Link : Len(q'[y][m]) <= Depth
  BY Accesses, BoundedGet, BoundedPut DEF Bounded
<1> QED
  BY <1>1, <1>2, <1>3 DEF Bounded

-----------------------------------------------------------------------------
(* An iteration ends with what its edge calls for.                         *)
LEMMA HandFacts ==
    ASSUME IInv, NEW k \in Stage, at[k] = WriteAt["res"]
    PROVE  /\ n[k] \in Index /\ at[k] = 8
           /\ hand[k].edge = EdgeAt(n[k]) /\ hand[k].fe = DecisionAt(n[k])
           /\ hand[k].state = n[k]
<1>1. at[k] = 8
  BY DEF WriteAt
<1>2. n[k] \in Index
  BY <1>1, SizeAssumption DEF IInv, Counts, StageCounts, Index
<1>3. \A x \in {"edge", "state", "fe"} : hand[k][x] = Expected[x][n[k]]
  BY <1>1, AccessFacts DEF IInv, Hands, Kind
<1>4. /\ Expected["edge"][n[k]] = EdgeAt(n[k]) /\ Expected["fe"][n[k]] = DecisionAt(n[k])
      /\ Expected["state"][n[k]] = n[k]
  BY <1>2 DEF Expected
<1> QED
  BY <1>1, <1>2, <1>3, <1>4

SampleNew(k) == Updated(k, kept[k], hand[k].edge, hand[k].fe, run.r2[hand[k].state])
SampleSum(k) == IF SampleNew(k).matched THEN SampleNew(k).adj + hand[k].res ELSE hand[k].res

LEMMA SampleFacts ==
    ASSUME IInv, Bounded, Kept, NEW k \in Stage, at[k] = WriteAt["res"]
    PROVE  /\ SampleNew(k) \in Registers
           /\ AsOf(k, n[k], SampleNew(k))
<1> DEFINE j == n[k]
           reg == kept[k]
<1>1. /\ j \in Index /\ hand[k].edge = EdgeAt(j) /\ hand[k].fe = DecisionAt(j)
      /\ hand[k].state = j
  BY HandFacts
<1>2. run \in Run /\ reg \in Registers /\ AsOf(k, j - 1, reg)
  BY DEF Bounded, Kept
<1>3. SampleNew(k) = Updated(k, reg, EdgeAt(j), DecisionAt(j), run.r2[j])
  BY <1>1 DEF SampleNew
<1> HIDE DEF j, reg
<1>4. SampleNew(k) \in Registers /\ AsOf(k, j, SampleNew(k))
  BY <1>1, <1>2, <1>3, UpdateExact
<1> QED
  BY <1>4 DEF j

LEMMA KeptStep ==
    ASSUME IInv, Bounded, Kept, [Next]_vars
    PROVE  Kept'
<1>0. run' = run /\ \A k, m, reg : AsOf(k, m, reg)' <=> AsOf(k, m, reg)
  BY Accesses, SameInput
<1>1. CASE n' = n /\ kept' = kept
  BY <1>0, <1>1 DEF Kept
<1>2. ASSUME NEW k \in Stage, Sample(k) PROVE Kept'
  <2>1. /\ at[k] = WriteAt["res"] /\ kept' = [kept EXCEPT ![k] = SampleNew(k)]
        /\ n' = [n EXCEPT ![k] = @ + 1]
    BY <1>2 DEF Sample, SampleNew
  <2>2. SampleNew(k) \in Registers /\ AsOf(k, n[k], SampleNew(k))
    BY <2>1, SampleFacts
  <2>3. kept' \in [Stage -> Registers]
    BY <2>1, <2>2 DEF Kept
  <2>4. DOMAIN n = Stage /\ n[k] \in Nat
    BY SizeAssumption DEF IInv, Counts, StageCounts
  <2>5. ASSUME NEW j \in Stage PROVE AsOf(j, n'[j] - 1, kept'[j])
    <3>1. CASE j = k
      <4>1. n'[k] - 1 = n[k] /\ kept'[k] = SampleNew(k)
        BY <2>1, <2>4 DEF Kept
      <4> QED
        BY <2>2, <3>1, <4>1
    <3>2. CASE j # k
      <4>1. n'[j] = n[j] /\ kept'[j] = kept[j]
        BY <2>1, <2>4, <3>2 DEF Kept
      <4> QED
        BY <4>1 DEF Kept
    <3> QED
      BY <3>1, <3>2
  <2> QED
    BY <1>0, <2>3, <2>5 DEF Kept
<1>3. CASE \E k \in Stage : StageStep(k)
  <2>1. ASSUME NEW k \in Stage, NEW x \in Kind, Take(k, x) \/ PassOn(k, x)
        PROVE  n' = n /\ kept' = kept
    BY <2>1 DEF Take, PassOn
  <2> QED
    BY <1>1, <1>2, <1>3, <2>1 DEF StageStep
<1>4. CASE ReadInputS \/ ReadInputD \/ UpdateState
  BY <1>1, <1>4 DEF ReadInputS, ReadInputD, UpdateState, Feeding, stages
<1>5. CASE Dummy \/ MergeRead \/ MergeWrite \/ FirstRead \/ FirstPass \/ FirstDecide
  BY <1>1, <1>5 DEF Dummy, MergeRead, MergeWrite, FirstRead, FirstPass, FirstDecide, stages
<1>6. CASE SinkAll \/ WriteResult
  BY <1>1, <1>6 DEF SinkAll, Sink, WriteResult, stages
<1>7. CASE UNCHANGED vars
  BY <1>1, <1>7 DEF vars, stages
<1> QED
  BY <1>3, <1>4, <1>5, <1>6, <1>7 DEF Next, Returned

-----------------------------------------------------------------------------
(* The sums on their way.                                                  *)
LEMMA SumsSame ==
    ASSUME SumsInStep, run' = run,
           \A l \in Link : /\ q'["res"][l] = q["res"][l]
                           /\ Read("res", l)' = Read("res", l)
                           /\ Written("res", l)' = Written("res", l)
    PROVE  SumsInStep'
<1>1. \A l : Below(l)' = Below(l)
  BY SameInput
<1> QED
  BY <1>1 DEF SumsInStep

LEMMA SumsGet ==
    ASSUME IInv, SumsInStep, run' = run, NEW l \in Link, Get("res", l),
           \A m \in Link : Written("res", m)' = Written("res", m),
           \A m \in Link : Read("res", m)' = IF m = l THEN Read("res", m) + 1 ELSE Read("res", m)
    PROVE  SumsInStep' /\ Head(q["res"][l]) = Below(l)[Read("res", l)]
<1>1. \A m : Below(m)' = Below(m)
  BY SameInput
<1>2. Counts /\ Chain /\ "res" \in Kind
  BY DEF IInv, Kind
<1>3. Read("res", l) \in Nat /\ Written("res", l) \in Nat /\ Read("res", l) <= Written("res", l)
  BY <1>2, ChainPositions DEF Chain
<1>4. q["res"][l] = Slice(Below(l), Read("res", l), Written("res", l))
  BY DEF SumsInStep
<1>5. Read("res", l) < Written("res", l)
  BY <1>3, <1>4, SliceFacts DEF Get
<1>6. /\ Head(q["res"][l]) = Below(l)[Read("res", l)]
      /\ Tail(q["res"][l]) = Slice(Below(l), Read("res", l) + 1, Written("res", l))
  BY <1>3, <1>4, <1>5, SliceTail
<1>7. \A m \in Link : q'["res"][m] = IF m = l THEN Tail(q["res"][l]) ELSE q["res"][m]
  BY <1>2 DEF Get, Chain
<1>8. ASSUME NEW m \in Link
      PROVE  q'["res"][m] = Slice(Below(m)', Read("res", m)', Written("res", m)')
  <2>1. CASE m = l
    BY <1>1, <1>6, <1>7, <2>1
  <2>2. CASE m # l
    BY <1>1, <1>7, <2>2 DEF SumsInStep
  <2> QED
    BY <2>1, <2>2
<1> QED
  BY <1>6, <1>8 DEF SumsInStep

LEMMA SumsPut ==
    ASSUME IInv, SumsInStep, run' = run, NEW l \in Link, NEW item, Put("res", l, item),
           item = Below(l)[Written("res", l)],
           \A m \in Link : Read("res", m)' = Read("res", m),
           \A m \in Link : Written("res", m)' = IF m = l THEN Written("res", m) + 1
                                                         ELSE Written("res", m)
    PROVE  SumsInStep'
<1>1. \A m : Below(m)' = Below(m)
  BY SameInput
<1>2. Counts /\ Chain /\ "res" \in Kind
  BY DEF IInv, Kind
<1>3. Read("res", l) \in Nat /\ Written("res", l) \in Nat /\ Read("res", l) <= Written("res", l)
  BY <1>2, ChainPositions DEF Chain
<1>4. q["res"][l] = Slice(Below(l), Read("res", l), Written("res", l))
  BY DEF SumsInStep
<1>5. Append(q["res"][l], item) = Slice(Below(l), Read("res", l), Written("res", l) + 1)
  BY <1>3, <1>4, SliceAppend
<1>6. \A m \in Link : q'["res"][m] = IF m = l THEN Append(q["res"][l], item) ELSE q["res"][m]
  BY <1>2 DEF Put, Chain
<1>7. ASSUME NEW m \in Link
      PROVE  q'["res"][m] = Slice(Below(m)', Read("res", m)', Written("res", m)')
  <2>1. CASE m = l
    BY <1>1, <1>5, <1>6, <2>1
  <2>2. CASE m # l
    BY <1>1, <1>6, <2>2 DEF SumsInStep
  <2> QED
    BY <2>1, <2>2
<1> QED
  BY <1>7 DEF SumsInStep

LEMMA ResStill ==
    ASSUME at' = at, n' = n, i'["dummy"] = i["dummy"], i'["write"] = i["write"]
    PROVE  \A l \in Link : Read("res", l)' = Read("res", l) /\ Written("res", l)' = Written("res", l)
<1>1. Source'["res"] = Source["res"] /\ Drained'["res"] = Drained["res"]
  BY DEF Source, Drained
<1>2. "res" \in Kind
  BY DEF Kind
<1>3. ASSUME NEW l \in Link PROVE Read("res", l)' = Read("res", l)
  <2>1. Read("res", l)' = IF l = E_NUM - 1 THEN Drained'["res"] ELSE Read("res", l)
    BY <1>2, EndsMove
  <2> QED
    BY <1>1, <2>1 DEF Read
<1>4. ASSUME NEW l \in Link PROVE Written("res", l)' = Written("res", l)
  <2>1. Written("res", l)' = IF l = 0 THEN Source'["res"] ELSE Written("res", l)
    BY <1>2, EndsMove
  <2> QED
    BY <1>1, <2>1 DEF Written
<1> QED
  BY <1>3, <1>4

LEMMA InHandSame ==
    ASSUME SumsInHand, run' = run, n' = n, at' = at, hand' = hand
    PROVE  SumsInHand'
<1>1. \A l : Below(l)' = Below(l)
  BY SameInput
<1> QED
  BY <1>1 DEF SumsInHand

LEMMA OutSame ==
    ASSUME SumsOut, run' = run, output' = output, i'["write"] = i["write"]
    PROVE  SumsOut'
<1>1. \A l : Below(l)' = Below(l)
  BY SameInput
<1> QED
  BY <1>1 DEF SumsOut

LEMMA TakeSums ==
    ASSUME IInv, Summed, NEW k \in Stage, NEW x \in Kind, Take(k, x)
    PROVE  Summed'
<1>1. /\ n[k] < Size /\ at[k] = ReadAt[x] /\ Get(x, k)
      /\ hand' = [hand EXCEPT ![k][x] = Head(q[x][k])]
      /\ at' = [at EXCEPT ![k] = @ + 1]
      /\ run' = run /\ i' = i /\ first' = first /\ n' = n /\ output' = output
  BY DEF Take
<1>2. Counts /\ Chain /\ Hands /\ k \in Link /\ "res" \in Kind
  BY LinkFacts DEF IInv, Kind
<1>3. at[k] < 8 /\ Counted1(k)
  BY <1>1, <1>2, AccessFacts, WithinIteration
<1>4. /\ \A y \in Kind, m \in Link : Written(y, m)' = Written(y, m)
      /\ \A y \in Kind, m \in Link :
            Read(y, m)' = IF y = x /\ m = k THEN Read(y, m) + 1 ELSE Read(y, m)
  BY <1>1, <1>2, <1>3, ReadMoves
<1>5. SumsOut'
  BY <1>1, OutSame DEF Summed
<1>6. \A j : Below(j)' = Below(j)
  BY <1>1, SameInput
<1>7. /\ \A j \in Stage : at'[j] = IF j = k THEN at[k] + 1 ELSE at[j]
      /\ \A j \in Stage : hand'[j]["res"] = IF j = k /\ x = "res" THEN Head(q[x][k]) ELSE hand[j]["res"]
  BY <1>1, <1>2 DEF Counts, StageCounts, Hands
<1>8. CASE x = "res"
  <2>1. SumsInStep' /\ Head(q["res"][k]) = Below(k)[Read("res", k)]
    BY <1>1, <1>2, <1>4, <1>8, SumsGet DEF Summed
  <2>2. Read("res", k) = n[k]
    <3>1. Read("res", k) = Past(k, ReadAt["res"])
      BY LinkFacts DEF Read
    <3>2. ~(at[k] > ReadAt["res"])
      BY <1>1, <1>8, AccessFacts
    <3> QED
      BY <3>1, <3>2 DEF Past
  <2>3. SumsInHand'
    BY <1>1, <1>6, <1>7, <1>8, <2>1, <2>2 DEF SumsInHand, Summed
  <2> QED
    BY <1>5, <2>1, <2>3 DEF Summed
<1>9. CASE x # "res"
  <2>1. \A m \in Link : q'["res"][m] = q["res"][m]
    BY <1>1, <1>2, <1>9 DEF Get, Chain
  <2>2. SumsInStep'
    BY <1>1, <1>2, <1>4, <1>9, <2>1, SumsSame DEF Summed
  <2>3. at[k] > ReadAt["res"]
    <3>1. ReadAt["res"] = 1 /\ ReadAt[x] \in 2 .. 8
      BY <1>9 DEF ReadAt, Kind
    <3> QED
      BY <1>1, <3>1
  <2>4. SumsInHand'
    BY <1>1, <1>6, <1>7, <1>9, <2>3 DEF SumsInHand, Summed
  <2> QED
    BY <1>5, <2>2, <2>4 DEF Summed
<1> QED
  BY <1>8, <1>9

LEMMA PassOnSums ==
    ASSUME IInv, Summed, NEW k \in Stage, NEW x \in Kind, PassOn(k, x)
    PROVE  Summed'
<1>1. /\ x # "res" /\ at[k] = WriteAt[x] /\ Put(x, k + 1, hand[k][x])
      /\ at' = [at EXCEPT ![k] = @ + 1]
      /\ run' = run /\ i' = i /\ first' = first /\ n' = n /\ hand' = hand /\ output' = output
  BY DEF PassOn
<1>2. Counts /\ Chain /\ k + 1 \in Link /\ "res" \in Kind
  BY LinkFacts DEF IInv, Kind
<1>3. Counted1(k)
  <2>1. at[k] < 8
    BY <1>1, AccessFacts
  <2> QED
    BY <1>1, <1>2, <2>1, WithinIteration
<1>4. \A m \in Link : Read("res", m)' = Read("res", m) /\ Written("res", m)' = Written("res", m)
  BY <1>1, <1>2, <1>3, WriteMoves
<1>5. \A m \in Link : q'["res"][m] = q["res"][m]
  BY <1>1, <1>2 DEF Put, Chain
<1>6. SumsInStep' /\ SumsOut'
  BY <1>1, <1>4, <1>5, SumsSame, OutSame DEF Summed
<1>7. \A j \in Stage : at'[j] > ReadAt["res"] => at[j] > ReadAt["res"]
  <2>1. ReadAt["res"] = 1 /\ WriteAt[x] \in 2 .. 8
    BY DEF ReadAt, WriteAt, Kind
  <2>2. \A j \in Stage : j # k => at'[j] = at[j]
    BY <1>1, <1>2 DEF Counts, StageCounts
  <2> QED
    BY <1>1, <2>1, <2>2
<1>8. \A j : Below(j)' = Below(j)
  BY <1>1, SameInput
<1>9. SumsInHand'
  BY <1>1, <1>7, <1>8 DEF SumsInHand, Summed
<1> QED
  BY <1>6, <1>9 DEF Summed

LEMMA SampleSums ==
    ASSUME IInv, Bounded, Kept, Summed, NEW k \in Stage, Sample(k)
    PROVE  Summed'
<1>1. /\ at[k] = WriteAt["res"] /\ Put("res", k + 1, SampleSum(k))
      /\ at' = [at EXCEPT ![k] = 1] /\ n' = [n EXCEPT ![k] = @ + 1]
      /\ run' = run /\ i' = i /\ first' = first /\ hand' = hand /\ output' = output
  BY DEF Sample, SampleSum, SampleNew
<1>2. Counts /\ Chain /\ k + 1 \in Link /\ "res" \in Kind
  BY LinkFacts DEF IInv, Kind
<1>3. at[k] = 8 /\ n[k] \in Index
  BY <1>1, HandFacts
<1>4. Counted1(k)
  BY <1>1, <1>2, <1>3, EndOfIteration
<1>5. \A m \in Link : /\ Read("res", m)' = Read("res", m)
                      /\ Written("res", m)' = IF m = k + 1 THEN Written("res", m) + 1
                                                           ELSE Written("res", m)
  BY <1>1, <1>2, <1>4, WriteMoves
<1>6. hand[k].res = Below(k)[n[k]]
  <2>1. at[k] > ReadAt["res"]
    BY <1>3 DEF ReadAt
  <2> QED
    BY <2>1 DEF Summed, SumsInHand
<1>7. Written("res", k + 1) = n[k]
  <2> DEFINE l == k + 1
  <2>1. l # 0 /\ l - 1 = k
    BY SizeAssumption DEF Stage
  <2> HIDE DEF l
  <2>2. Written("res", l) = Past(k, WriteAt["res"])
    BY <2>1, WrittenBehind
  <2>3. ~(at[k] > WriteAt["res"])
    BY <1>3 DEF WriteAt
  <2> QED
    BY <2>2, <2>3 DEF Past, l
<1>8. SampleSum(k) = Below(k + 1)[n[k]]
  <2>1. AsOf(k, n[k], SampleNew(k))
    BY <1>1, SampleFacts
  <2>2. Counting(k, n[k]) = IF SampleNew(k).matched THEN SampleNew(k).adj ELSE 0
    BY <2>1 DEF Counting, AsOf, BeforeStart, AfterStart
  <2>3. /\ Below(k + 1)[n[k]] = Counting(k, n[k]) + Below(k)[n[k]]
        /\ Below(k)[n[k]] \in Nat
    BY <1>3, BelowFacts
  <2> QED
    BY <1>6, <2>2, <2>3 DEF SampleSum
<1>9. SumsInStep' /\ SumsOut'
  BY <1>1, <1>2, <1>5, <1>7, <1>8, SumsPut, OutSame DEF Summed
<1>10. SumsInHand'
  <2>1. \A j : Below(j)' = Below(j)
    BY <1>1, SameInput
  <2>2. ASSUME NEW j \in Stage, at'[j] > ReadAt["res"]
        PROVE  j # k /\ at'[j] = at[j] /\ n'[j] = n[j]
    BY <1>1, <1>2, <2>2 DEF Counts, StageCounts, ReadAt
  <2> QED
    BY <1>1, <2>1, <2>2 DEF Summed, SumsInHand
<1> QED
  BY <1>9, <1>10 DEF Summed

LEMMA DummySums ==
    ASSUME IInv, Summed, Dummy
    PROVE  Summed'
<1>1. /\ i["dummy"] < Size /\ Turn("dummy") /\ Put("res", 0, 0)
      /\ run' = run /\ n' = n /\ at' = at /\ hand' = hand /\ output' = output
  BY DEF Dummy, stages
<1>2. LoopCounts /\ "res" \in Kind /\ "dummy" \in Loop /\ "write" \in Loop /\ 0 \in Link
  BY LinkFacts DEF IInv, Counts, Kind, Loop
<1>3. /\ i["dummy"] \in Index
      /\ i'["dummy"] = i["dummy"] + 1 /\ i'["write"] = i["write"]
  BY <1>1, <1>2, TurnFacts
<1>4. Source["res"] = i["dummy"] /\ Source'["res"] = i["dummy"] + 1 /\ Drained'["res"] = Drained["res"]
  BY <1>3 DEF Source, Drained
<1>5. \A m \in Link : Read("res", m)' = Read("res", m)
  BY <1>1, <1>2, <1>4, EndsMove DEF Read
<1>6. \A m \in Link : Written("res", m)' = IF m = 0 THEN Written("res", m) + 1 ELSE Written("res", m)
  BY <1>1, <1>2, <1>4, EndsMove DEF Written
<1>7. Written("res", 0) = i["dummy"]
  BY <1>4 DEF Written
<1>8. Below(0)[i["dummy"]] = 0
  BY <1>3, BelowFacts
<1>9. SumsInStep'
  BY <1>1, <1>2, <1>5, <1>6, <1>7, <1>8, SumsPut DEF Summed
<1> QED
  BY <1>1, <1>3, <1>9, InHandSame, OutSame DEF Summed

LEMMA WriteSums ==
    ASSUME IInv, Summed, WriteResult
    PROVE  Summed'
<1> DEFINE j == i["write"]
           l == E_NUM - 1
<1>1. /\ j < Size /\ Turn("write") /\ Get("res", l)
      /\ output' = [output EXCEPT ![j] = Head(q["res"][l])]
      /\ run' = run /\ n' = n /\ at' = at /\ hand' = hand
  BY DEF WriteResult, stages
<1>2. LoopCounts /\ "res" \in Kind /\ "dummy" \in Loop /\ "write" \in Loop /\ l \in Link
  BY LinkFacts DEF IInv, Counts, Kind, Loop
<1>3. j \in Index /\ i'["write"] = j + 1 /\ i'["dummy"] = i["dummy"]
  BY <1>1, <1>2, TurnFacts
<1>4. Source'["res"] = Source["res"] /\ Drained["res"] = j /\ Drained'["res"] = j + 1
  BY <1>3 DEF Source, Drained
<1>5. \A m \in Link : Read("res", m)' = IF m = l THEN Read("res", m) + 1 ELSE Read("res", m)
  BY <1>1, <1>2, <1>4, EndsMove DEF Read
<1>6. \A m \in Link : Written("res", m)' = Written("res", m)
  BY <1>1, <1>2, <1>4, EndsMove DEF Written
<1>7. Read("res", l) = j
  BY <1>4 DEF Read
<1>8. SumsInStep' /\ Head(q["res"][l]) = Below(l)[j]
  BY <1>1, <1>2, <1>5, <1>6, <1>7, SumsGet DEF Summed
<1>9. SumsOut'
  <2>1. \A m : Below(m)' = Below(m)
    BY <1>1, SameInput
  <2>2. DOMAIN output' = Index /\ output'[j] = Below(l)[j]
        /\ \A m \in Index : m # j => output'[m] = output[m]
    BY <1>1, <1>3, <1>8 DEF Summed, SumsOut
  <2>3. j \in Nat /\ j < Size /\ Size \in Nat
    BY <1>3, SizeAssumption DEF Index
  <2>4. \A m \in 0 .. j - 1 : output[m] = Below(l)[m]
    BY DEF Summed, SumsOut
  <2>5. i'["write"] = j + 1
    BY <1>3
  <2> HIDE DEF j
  <2>6. ASSUME NEW m \in 0 .. i'["write"] - 1 PROVE output'[m] = Below(l)[m]
    <3>1. m \in Index /\ (m = j \/ m \in 0 .. j - 1)
      BY <2>3, <2>5, <2>6 DEF Index
    <3> QED
      BY <2>2, <2>3, <2>4, <3>1
  <2> QED
    BY <2>1, <2>2, <2>6 DEF SumsOut
<1> QED
  BY <1>1, <1>8, <1>9, InHandSame DEF Summed

LEMMA SinkSums ==
    ASSUME IInv, Summed, SinkAll
    PROVE  Summed'
<1>1. ASSUME NEW loop \in Loop \ {"dummy", "write"}, NEW x \in Kind \ {"res"}, Sink(loop, x)
      PROVE  Summed'
  <2>1. /\ i[loop] < Size /\ Turn(loop) /\ Get(x, E_NUM - 1)
        /\ run' = run /\ n' = n /\ at' = at /\ hand' = hand /\ output' = output
    BY <1>1 DEF Sink, stages
  <2>2. LoopCounts /\ "dummy" \in Loop /\ "write" \in Loop /\ "res" \in Kind /\ Chain
    BY DEF IInv, Counts, Kind, Loop
  <2>3. i'["write"] = i["write"] /\ i'["dummy"] = i["dummy"]
    BY <1>1, <2>1, <2>2, TurnFacts
  <2>4. \A m \in Link : q'["res"][m] = q["res"][m]
    BY <2>1, <2>2 DEF Get, Chain
  <2> QED
    BY <2>1, <2>3, <2>4, ResStill, SumsSame, InHandSame, OutSame DEF Summed
<1> QED
  BY <1>1 DEF SinkAll, Loop, Kind

(* A step that does not touch the sums.                                    *)
LEMMA OtherSums ==
    ASSUME IInv, Summed, run' = run, n' = n, at' = at, hand' = hand, output' = output,
           i'["dummy"] = i["dummy"], i'["write"] = i["write"],
           \A m \in Link : q'["res"][m] = q["res"][m]
    PROVE  Summed'
  BY ResStill, SumsSame, InHandSame, OutSame DEF Summed

LEMMA OtherLoop ==
    ASSUME IInv, NEW loop \in Loop \ {"dummy", "write"}, i[loop] < Size, Turn(loop)
    PROVE  i'["dummy"] = i["dummy"] /\ i'["write"] = i["write"]
<1>1. LoopCounts /\ "dummy" \in Loop /\ "write" \in Loop /\ loop \in Loop
  BY DEF IInv, Counts, Loop
<1> QED
  BY <1>1, TurnFacts

LEMMA OtherPut ==
    ASSUME IInv, NEW x \in Kind \ {"res"}, NEW l, NEW item, Put(x, l, item)
    PROVE  \A m \in Link : q'["res"][m] = q["res"][m]
  BY DEF IInv, Chain, Put, Kind

LEMMA SumsStep ==
    ASSUME IInv, Bounded, Kept, Summed, [Next]_vars
    PROVE  Summed'
<1>1. CASE \E k \in Stage : StageStep(k)
  BY <1>1, TakeSums, PassOnSums, SampleSums DEF StageStep
<1>2. CASE ReadInputS \/ ReadInputD \/ UpdateState
  <2>1. ASSUME NEW loop \in {"read_s", "read_d", "update"}, NEW x, NEW item, Feeding(loop, x, item)
        PROVE  Summed'
    <3>1. loop \in Loop \ {"dummy", "write"}
      BY DEF Loop
    <3>2. i'["dummy"] = i["dummy"] /\ i'["write"] = i["write"]
      BY <2>1, <3>1, OtherLoop DEF Feeding
    <3> QED
      BY <2>1, <3>2, OtherSums DEF Feeding, stages
  <2> QED
    BY <1>2, <2>1 DEF ReadInputS, ReadInputD, UpdateState
<1>3. CASE MergeRead \/ FirstRead
  BY <1>3, OtherSums DEF MergeRead, FirstRead, stages
<1>4. CASE MergeWrite
  <2>1. i["merge"] < Size
    BY <1>4, SMTT(30) DEF MergeWrite, IInv, Counts, LoopCounts
  <2>2. i'["dummy"] = i["dummy"] /\ i'["write"] = i["write"]
    BY <1>4, <2>1, OtherLoop DEF MergeWrite, Loop
  <2>3. \A m \in Link : q'["res"][m] = q["res"][m]
    BY <1>4, OtherPut DEF MergeWrite, Kind
  <2> QED
    BY <1>4, <2>2, <2>3, OtherSums DEF MergeWrite, stages
<1>5. CASE FirstPass
  <2>1. \A m \in Link : q'["res"][m] = q["res"][m]
    BY <1>5, OtherPut DEF FirstPass, Kind
  <2> QED
    BY <1>5, <2>1, OtherSums DEF FirstPass, stages
<1>6. CASE FirstDecide
  <2>1. i["first"] < Size
    BY <1>6 DEF FirstDecide, IInv, Counts, LoopCounts
  <2>2. i'["dummy"] = i["dummy"] /\ i'["write"] = i["write"]
    BY <1>6, <2>1, OtherLoop DEF FirstDecide, Loop
  <2>3. \A m \in Link : q'["res"][m] = q["res"][m]
    BY <1>6, OtherPut DEF FirstDecide, Kind
  <2> QED
    BY <1>6, <2>2, <2>3, OtherSums DEF FirstDecide, stages
<1>7. CASE UNCHANGED vars
  BY <1>7, OtherSums DEF vars, stages
<1> QED
  BY <1>1, <1>2, <1>3, <1>4, <1>5, <1>6, <1>7, DummySums, WriteSums, SinkSums DEF Next, Returned

-----------------------------------------------------------------------------
LEMMA InitJInv == Init => JInv
<1> SUFFICES ASSUME Init PROVE JInv
  OBVIOUS
<1>0. E_NUM \in Nat /\ Size \in Nat \ {0} /\ Depth \in Nat \ {0}
  BY SizeAssumption
<1>1. IInv
  BY InitIInv
<1>2. Bounded
  BY <1>0 DEF Init, Bounded
<1>3. Kept
  <2>1. ASSUME NEW k \in Stage PROVE kept[k] \in Registers /\ BeforeStart(kept[k]) /\ n[k] - 1 = -1
    BY DEF Init, Registers, BeforeStart
  <2>2. kept \in [Stage -> Registers]
    BY DEF Init, Registers
  <2>3. \A k : StartsOf(k, -1) = {}
    BY DEF StartsOf
  <2> QED
    BY <2>1, <2>2, <2>3 DEF Kept, AsOf
<1>4. SumsInStep
  <2>1. \A x \in Kind : Source[x] = 0 /\ Drained[x] = 0
    BY DEF Init, Source, Drained, Kind, Loop
  <2>2. \A k \in Stage, a \in 1 .. 8 : Past(k, a) = 0
    BY DEF Init, Past
  <2>3. \A l \in Link : Read("res", l) = 0 /\ Written("res", l) = 0
    BY <2>1, <2>2, LinkFacts, AccessFacts DEF Read, Written, Kind
  <2>4. ASSUME NEW l \in Link PROVE q["res"][l] = Slice(Below(l), 0, 0)
    <3>1. Slice(Below(l), 0, 0) \in Seq(Items(Below(l), 0, 0)) /\ Len(Slice(Below(l), 0, 0)) = 0 - 0
      BY SliceFacts
    <3>2. Slice(Below(l), 0, 0) = <<>>
      BY <3>1, EmptySeq
    <3> QED
      BY <3>2 DEF Init, Kind
  <2> QED
    BY <2>3, <2>4 DEF SumsInStep
<1>5. SumsInHand
  BY DEF Init, SumsInHand, ReadAt
<1>6. SumsOut
  BY DEF Init, SumsOut, Loop
<1> QED
  BY <1>1, <1>2, <1>3, <1>4, <1>5, <1>6 DEF JInv, Summed

LEMMA NextJInv == JInv /\ [Next]_vars => JInv'
  BY NextIInv, StepBounded, KeptStep, SumsStep DEF JInv

LEMMA JInvariance == Spec => []JInv
  BY InitJInv, NextJInv, PTL DEF Spec

-----------------------------------------------------------------------------
(* A sum on its way is a 32-bit word: each stage adds less than Size.      *)
LEMMA CountingBound ==
    ASSUME NEW k \in Stage, NEW j \in Index
    PROVE  Counting(k, j) \in Nat /\ Counting(k, j) <= j
<1>0. j \in Nat
  BY SizeAssumption DEF Index
<1>1. CASE StartsOf(k, j) = {}
  BY <1>0, <1>1 DEF Counting
<1>2. CASE StartsOf(k, j) # {}
  <2> DEFINE f == Max(StartsOf(k, j))
  <2>1. StartsOf(k, j) \subseteq 0 .. j
    BY DEF StartsOf
  <2>2. f \in 0 .. j
    BY <1>0, <1>2, <2>1, LastOf
  <2>3. Counting(k, j) = IF ClosedAs(f, j) THEN Cardinality(AdjacentTo(f, j)) ELSE 0
    BY <1>2 DEF Counting
  <2> HIDE DEF f
  <2>4. Cardinality(AdjacentTo(f, j)) \in 0 .. j - f
    BY <1>0, <2>2, AdjacentBound
  <2> QED
    BY <1>0, <2>2, <2>3, <2>4
<1> QED
  BY <1>1, <1>2

LEMMA Smaller ==
    ASSUME NEW a \in Nat, NEW b \in Nat, NEW c \in Nat, NEW d \in Nat, a <= c, b <= d
    PROVE  a * b \in Nat /\ a * b <= c * d
<1>1. a * b <= c * b
  OBVIOUS
<1>2. c * b <= c * d
  OBVIOUS
<1>3. a * b \in Nat /\ c * b \in Nat /\ c * d \in Nat
  OBVIOUS
<1> QED
  BY <1>1, <1>2, <1>3

LEMMA SumsFit ==
    ASSUME NEW l \in Link, NEW j \in Index
    PROVE  Below(l)[j] \in Words
<1>0. j \in Nat /\ l \in Nat /\ E_NUM \in Nat \ {0, 1} /\ Size \in Nat \ {0} /\ j < Size /\ l <= E_NUM - 1
  BY SizeAssumption DEF Index, Link
<1> DEFINE Fits(m) == Below(m)[j] \in Nat /\ Below(m)[j] <= m * j
           T == {m \in Nat : m \in Link /\ ~Fits(m)}
<1>1. ASSUME NEW m \in Nat, m \in T, \A o \in T : m <= o PROVE FALSE
  <2>1. CASE m = 0
    <3>1. Below(0)[j] = 0
      BY BelowFacts
    <3> QED
      BY <1>0, <1>1, <2>1, <3>1
  <2>2. CASE m # 0
    <3> DEFINE k == m - 1
    <3>1. k \in Nat /\ k \in Stage /\ m = k + 1 /\ k < m /\ k \in Link
      BY <1>1, <2>2, LinkFacts
    <3> HIDE DEF k
    <3>2. Fits(k)
      <4> HIDE DEF Fits
      <4>1. k \notin T
        BY <1>1, <3>1
      <4> QED
        BY <3>1, <4>1
    <3>3. /\ Below(k)[j] \in Nat /\ Below(k + 1)[j] \in Nat
          /\ Below(k + 1)[j] = Counting(k, j) + Below(k)[j]
      BY <3>1, BelowFacts
    <3>4. Counting(k, j) \in Nat /\ Counting(k, j) <= j
      BY <3>1, CountingBound
    <3> DEFINE a == Below(k)[j]
               b == Counting(k, j)
               c == Below(k + 1)[j]
    <3>5. a \in Nat /\ b \in Nat /\ a <= k * j /\ b <= j /\ c = b + a
      BY <3>2, <3>3, <3>4
    <3> HIDE DEF a, b, c
    <3>6. (k + 1) * j = k * j + j
      BY <1>0, <3>1
    <3>7. k * j \in Nat
      BY <1>0, <3>1
    <3>8. c \in Nat /\ c <= (k + 1) * j
      BY <1>0, <3>5, <3>6, <3>7
    <3> QED
      BY <1>1, <3>1, <3>8 DEF c
  <2> QED
    BY <2>1, <2>2
<1>2. T = {}
  <2>1. T \in SUBSET Nat
    OBVIOUS
  <2> HIDE DEF T
  <2> QED
    BY <1>1, <2>1, LeastNatural
<1>3. Fits(l)
  <2> HIDE DEF Fits
  <2> QED
    BY <1>0, <1>2
<1>4. l * j < Word
  <2> DEFINE e == E_NUM - 1
             s == Size - 1
  <2>1. e \in Nat \ {0} /\ s \in Nat /\ l <= e /\ j <= s /\ Size = s + 1 /\ Word \in Nat
    BY <1>0, SizeAssumption
  <2>2. e * Size <= Word
    BY SumAssumption
  <2> HIDE DEF e, s
  <2>3. l * j \in Nat /\ l * j <= e * s
    BY <1>0, <2>1, Smaller
  <2>4. e * Size = e * s + e /\ e * s \in Nat
    BY <2>1
  <2> QED
    BY <2>1, <2>2, <2>3, <2>4
<1> DEFINE a == Below(l)[j]
           p == l * j
<1>5. a \in Nat /\ a <= p /\ p < Word /\ p \in Nat /\ Word \in Nat
  <2>1. l * j \in Nat
    BY <1>0
  <2> QED
    BY <1>3, <1>4, <2>1, SizeAssumption
<1> HIDE DEF a, p
<1>6. a \in Words
  BY <1>5 DEF Words
<1> QED
  BY <1>6 DEF a

(* No position is beyond the input.                                        *)
LEMMA WithinInput ==
    ASSUME IInv, NEW x \in Kind, NEW l \in Link
    PROVE  Read(x, l) \in Nat /\ Written(x, l) \in Nat /\ Read(x, l) <= Written(x, l) /\ Written(x, l) <= Size
<1>1. Counts /\ Chain /\ Size \in Nat
  BY SizeAssumption DEF IInv
<1>2. Read(x, l) \in Nat /\ Written(x, l) \in Nat /\ Read(x, l) <= Written(x, l)
  BY <1>1, ChainPositions DEF Chain
<1>3. CASE l = 0
  <2>1. Source[x] <= Size
    <3>1. \A loop \in Loop : i[loop] \in 0 .. Size
      BY <1>1 DEF Counts, LoopCounts
    <3>2. i["dummy"] \in 0 .. Size /\ i["merge"] \in 0 .. Size /\ i["first"] \in 0 .. Size
      BY <3>1 DEF Loop
    <3>3. first.at = "decide" => i["first"] + 1 \in 0 .. Size
      BY <1>1, <3>2 DEF Counts, LoopCounts
    <3> QED
      BY <1>1, <3>2, <3>3 DEF Source, Kind
  <2> QED
    BY <1>2, <1>3, <2>1 DEF Written
<1>4. CASE l # 0
  <2> DEFINE k == l - 1
  <2>1. k \in Stage /\ Written(x, l) = Past(k, WriteAt[x])
    BY <1>4, LinkFacts DEF Written
  <2> HIDE DEF k
  <2>2. Past(k, WriteAt[x]) <= Size
    <3>1. n[k] \in 0 .. Size /\ at[k] \in 1 .. 8 /\ (at[k] > 1 => n[k] < Size)
      BY <1>1, <2>1 DEF Counts, StageCounts
    <3>2. WriteAt[x] \in 1 .. 8
      BY AccessFacts
    <3> QED
      BY <1>1, <3>1, <3>2 DEF Past
  <2> QED
    BY <1>2, <2>1, <2>2
<1> QED
  BY <1>2, <1>3, <1>4

LEMMA DecisionType ==
    ASSUME run \in Run, NEW j \in Index
    PROVE  DecisionAt(j) \in 0 .. E_NUM
<1>1. run.r[j] \in Words
  BY RunAssumption
<1>2. run.r[j] \in Nat
  BY <1>1, SizeAssumption DEF Words
<1>3. Word \in Nat \ {0} /\ j \in Nat /\ E_NUM \in Nat
  BY SizeAssumption DEF Index
<1> DEFINE r1 == run.r[j] + 1
           j1 == j + 1
           a == j1 * r1
<1>4. r1 \in Nat /\ j1 \in Nat
  BY <1>2, <1>3
<1>5. a \in Nat
  <2> HIDE DEF r1, j1
  <2> QED
    BY <1>4
<1>6. DecisionAt(j) = IF a \div Word <= E_NUM THEN a \div Word ELSE 0
  BY DEF DecisionAt, Decision
<1> HIDE DEF a
<1>7. a \div Word \in Nat
  BY <1>3, <1>5, QuotientFacts
<1> QED
  BY <1>3, <1>6, <1>7

LEMMA SliceType ==
    ASSUME NEW items, NEW S, \A j \in Index : items[j] \in S,
           NEW from \in Nat, NEW to \in Nat, from <= to, to <= Size
    PROVE  Slice(items, from, to) \in Seq(S)
<1> DEFINE m == to - from
           s == [j \in 1 .. m |-> items[from + j - 1]]
<1>1. m \in Nat /\ Size \in Nat
  BY SizeAssumption
<1>2. ASSUME NEW j \in 1 .. m PROVE items[from + j - 1] \in S
  <2>1. from + j - 1 \in Index
    BY <1>1, <1>2 DEF Index
  <2> QED
    BY <2>1
<1>3. s \in [1 .. m -> S]
  BY <1>2
<1>4. s \in Seq(S)
  <2> HIDE DEF s, m
  <2> QED
    BY <1>1, <1>3
<1> QED
  BY <1>4 DEF Slice

LEMMA TypeHolds == JInv => TypeOK
<1> SUFFICES ASSUME JInv PROVE TypeOK
  OBVIOUS
<1>1. IInv /\ Bounded /\ Kept /\ SumsInStep /\ StageCounts /\ LoopCounts /\ Chain
  BY DEF JInv, IInv, Counts, Summed
<1>2. /\ run \in Run /\ i \in [Loop -> 0 .. Size] /\ n \in [Stage -> 0 .. Size]
      /\ at \in [Stage -> 1 .. 8]
      /\ \A x \in Feed : Len(feed[x]) <= Depth
  BY <1>1 DEF Bounded, StageCounts, LoopCounts
<1>3. ASSUME NEW x \in Kind, NEW l \in Link PROVE q[x][l] \in Seq(Item[x]) /\ Len(q[x][l]) <= Depth
  <2>1. Len(q[x][l]) <= Depth
    BY <1>1 DEF Bounded
  <2>2. Read(x, l) \in Nat /\ Written(x, l) \in Nat /\ Read(x, l) <= Written(x, l) /\ Written(x, l) <= Size
    BY <1>1, WithinInput
  <2>3. CASE x = "res"
    <3>1. \A j \in Index : Below(l)[j] \in Words
      BY SumsFit
    <3>2. Slice(Below(l), Read(x, l), Written(x, l)) \in Seq(Words)
      BY <2>2, <3>1, SliceType
    <3> QED
      BY <1>1, <2>1, <2>3, <3>2 DEF SumsInStep, Item
  <2>4. CASE x # "res"
    <3>1. \A j \in Index : Expected[x][j] \in Item[x]
      <4>1. CASE x = "edge"
        BY <1>2, <4>1, EdgeFacts DEF Expected, Item
      <4>2. CASE x = "state"
        BY <4>2 DEF Expected, Item
      <4>3. CASE x = "fe"
        BY <1>2, <4>3, DecisionType DEF Expected, Item
      <4> QED
        BY <2>4, <4>1, <4>2, <4>3 DEF Kind
    <3>2. Slice(Expected[x], Read(x, l), Written(x, l)) \in Seq(Item[x])
      BY <2>2, <3>1, SliceType
    <3> QED
      BY <1>1, <2>1, <2>4, <3>2 DEF Chain
  <2> QED
    BY <2>3, <2>4
<1>4. pair \in Seq(Words) /\ Len(pair) <= 2
  <2>1. CASE pair = <<>>
    BY <2>1
  <2>2. CASE pair # <<>>
    <3> DEFINE j == i["merge"]
               a == run.s[j]
               b == run.d[j]
    <3>1. j \in Index /\ pair \in {<<a>>, <<a, b>>}
      BY <1>1, <2>2, SizeAssumption DEF LoopCounts, Loop, Index
    <3>2. a \in Words /\ b \in Words
      BY <1>2, <3>1, RunAssumption
    <3> HIDE DEF a, b
    <3>3. <<a>> \in Seq(Words) /\ Len(<<a>>) = 1
      BY <3>2
    <3>4. <<a, b>> \in Seq(Words) /\ Len(<<a, b>>) = 2
      BY <3>2
    <3> DEFINE t1 == <<a>>
               t2 == <<a, b>>
    <3>5. pair = t1 \/ pair = t2
      BY <3>1
    <3>6. t1 \in Seq(Words) /\ Len(t1) <= 2 /\ t2 \in Seq(Words) /\ Len(t2) <= 2
      BY <3>3, <3>4
    <3> HIDE DEF t1, t2
    <3> QED
      BY <3>5, <3>6
  <2> QED
    BY <2>1, <2>2
<1>5. ASSUME NEW k \in Stage
      PROVE  kept[k].adj \in 0 .. n[k] /\ (kept[k].first = NoEdge => ~kept[k].second)
  <2> DEFINE m == n[k] - 1
             f == Max(StartsOf(k, m))
  <2>1. n[k] \in 0 .. Size /\ Size \in Nat /\ AsOf(k, m, kept[k])
    BY <1>1, <1>2, SizeAssumption DEF Kept
  <2>2. CASE StartsOf(k, m) = {}
    BY <2>1, <2>2 DEF AsOf, BeforeStart
  <2>3. CASE StartsOf(k, m) # {}
    <3>1. AfterStart(f, m, kept[k])
      BY <2>1, <2>3 DEF AsOf
    <3>2. StartsOf(k, m) \subseteq 0 .. m
      BY DEF StartsOf
    <3>3. m \in Nat
      BY <2>1, <2>3, <3>2
    <3>4. f \in 0 .. m
      BY <2>3, <3>2, <3>3, LastOf
    <3>5. m < n[k] /\ m < Size
      BY <2>1
    <3> HIDE DEF f, m
    <3>6. f \in Index
      BY <2>1, <3>3, <3>4, <3>5 DEF Index
    <3>7. Cardinality(AdjacentTo(f, m)) \in 0 .. m - f
      BY <3>3, <3>4, AdjacentBound
    <3>8. EdgeAt(f) # NoEdge
      BY <1>2, <3>6, EdgeFacts, SizeAssumption
    <3>9. kept[k].adj \in 0 .. n[k]
      BY <2>1, <3>1, <3>3, <3>4, <3>5, <3>7 DEF AfterStart
    <3> QED
      BY <3>1, <3>8, <3>9 DEF AfterStart
  <2> QED
    BY <2>2, <2>3
<1> QED
  BY <1>2, <1>3, <1>4, <1>5 DEF TypeOK

(* No stream holds more than it can, an edge goes along the chain with its *)
(* smaller end first, and neither the count of a stage nor a sum of counts *)
(* leaves its 32 bits (data_flow).                                         *)
THEOREM TypeCorrect == Spec => []TypeOK
  BY JInvariance, TypeHolds, PTL

(* What a stage keeps is what the edges it has seen call for, whatever the *)
(* order in which they, the root states and the decisions came to it, as   *)
(* long as the input has no edge from a node to itself that meets two      *)
(* parallel ones (reservoir_sampling).                                     *)
THEOREM StagesCorrect == Spec => [](Plain => StagesExact)
<1>1. JInv => (Plain => StagesExact)
  <2> SUFFICES ASSUME JInv, Plain, NEW k \in Stage
               PROVE  LET m == n[k] - 1
                      IN IF StartsOf(k, m) = {} THEN kept[k].first = NoEdge /\ ~kept[k].matched
                         ELSE LET f == Max(StartsOf(k, m))
                              IN /\ kept[k].first = EdgeAt(f)
                                 /\ kept[k].adj = Cardinality(AdjacentTo(f, m))
                                 /\ kept[k].second <=> ChosenOf(f, m) # {}
                                 /\ kept[k].matched <=> Closed(f, m)
    BY DEF StagesExact
  <2> DEFINE m == n[k] - 1
             f == Max(StartsOf(k, m))
  <2>1. AsOf(k, m, kept[k]) /\ run \in Run
    BY DEF JInv, Kept, Bounded
  <2>2. CASE StartsOf(k, m) = {}
    BY <2>1, <2>2 DEF AsOf, BeforeStart
  <2>3. CASE StartsOf(k, m) # {}
    <3>0. n[k] \in 0 .. Size /\ Size \in Nat
      BY SizeAssumption DEF JInv, IInv, Counts, StageCounts
    <3>1. AfterStart(f, m, kept[k])
      BY <2>1, <2>3 DEF AsOf
    <3>2. StartsOf(k, m) \subseteq 0 .. m
      BY DEF StartsOf
    <3>3. m \in Nat
      BY <2>3, <3>0, <3>2
    <3>4. f \in 0 .. m
      BY <2>3, <3>2, <3>3, LastOf
    <3>5. f \in Index /\ m \in Index
      <4> HIDE DEF f
      <4> QED
        BY <3>0, <3>3, <3>4 DEF Index
    <3>6. ClosedAs(f, m) <=> Closed(f, m)
      BY <2>1, <3>5, ClosedIs
    <3> QED
      BY <2>3, <3>1, <3>6 DEF AfterStart
  <2> QED
    BY <2>2, <2>3
<1> QED
  BY <1>1, JInvariance, PTL

(* For such inputs, every result in memory is the sum of what the stages   *)
(* are to count after that edge (data_flow).                               *)
THEOREM ResultCorrect == Spec => [](Plain => ResultExact)
<1>1. JInv => (Plain => ResultExact)
  <2> SUFFICES ASSUME JInv, Plain, NEW j \in 0 .. i["write"] - 1
               PROVE  output[j] = MapThenSumSet(LAMBDA k : Estimate(k, j), Stage)
    BY DEF ResultExact
  <2>1. run \in Run /\ output[j] = Below(E_NUM - 1)[j]
    BY DEF JInv, Bounded, Summed, SumsOut
  <2>2. i["write"] \in 0 .. Size /\ Size \in Nat
    BY SizeAssumption DEF JInv, IInv, Counts, LoopCounts, Loop
  <2>3. j \in Index
    BY <2>2 DEF Index
  <2> QED
    BY <2>1, <2>3, BelowAll
<1> QED
  BY <1>1, JInvariance, PTL

-----------------------------------------------------------------------------
(* The loops do not wait in a circle.  Of the loops and stages with the    *)
(* fewest iterations behind them, the first along the way of the data can  *)
(* always make its next access: those before it are ahead of it, and so    *)
(* have written what it is to read; those behind it have read as much as   *)
(* it has written, and so have left room for the next item.                *)
LEMMA StreamRoom ==
    ASSUME Counts, Chain, NEW x \in Kind, NEW l \in Link
    PROVE  /\ Read(x, l) < Written(x, l) => CanRead(q[x][l])
           /\ Written(x, l) <= Read(x, l) => CanWrite(q[x][l], Depth)
<1>1. Read(x, l) \in Nat /\ Written(x, l) \in Nat /\ Depth \in Nat \ {0}
  BY ChainPositions, SizeAssumption
<1>2. Len(q[x][l]) = Written(x, l) - Read(x, l)
  BY <1>1, SliceFacts DEF Chain
<1>3. Len(<<>>) = 0
  OBVIOUS
<1> QED
  BY <1>1, <1>2, <1>3 DEF CanRead, CanWrite

LEMMA FeedRoom ==
    ASSUME Counts, Border, NEW x \in Feed
    PROVE  /\ Fetched[x] < Fed[x] => CanRead(feed[x])
           /\ Fed[x] <= Fetched[x] => CanWrite(feed[x], Depth)
<1>1. Fetched[x] \in Nat /\ Fed[x] \in Nat /\ Depth \in Nat \ {0}
  BY BorderPositions, SizeAssumption
<1>2. Fetched[x] <= Fed[x] /\ feed[x] = Slice(Expected[x], Fetched[x], Fed[x])
  BY DEF Border
<1> DEFINE items == Expected[x]
           from == Fetched[x]
           to == Fed[x]
<1>3. Len(feed[x]) = Fed[x] - Fetched[x] /\ (CanRead(feed[x]) <=> Fetched[x] < Fed[x])
  <2>1. from \in Nat /\ to \in Nat /\ from <= to /\ feed[x] = Slice(items, from, to)
    BY <1>1, <1>2
  <2> HIDE DEF items, from, to
  <2>2. Len(feed[x]) = to - from /\ (CanRead(feed[x]) <=> from < to)
    BY <2>1, SliceFacts
  <2> QED
    BY <2>2 DEF from, to
<1> QED
  BY <1>1, <1>2, <1>3 DEF CanWrite

(* No loop and no stage has made fewer iterations than m.                  *)
AtLeast(m) == /\ \A loop \in Loop : m <= i[loop]
              /\ \A k \in Stage : m <= n[k]

(* An iteration of a stage counts for an access once that is behind it.    *)
LEMMA PastFacts ==
    ASSUME Counts, NEW k \in Stage, NEW a \in Nat
    PROVE  /\ Past(k, a) \in Nat /\ n[k] <= Past(k, a)
           /\ at[k] <= a => Past(k, a) = n[k]
  BY SizeAssumption DEF Counts, StageCounts, Past

(* The loops in front.                                                     *)
LEMMA FeedsAhead ==
    ASSUME IInv, NEW m \in Nat, m < Size, AtLeast(m), ~CanAct
    PROVE  \A loop \in {"read_s", "read_d", "update", "dummy"} : m < i[loop]
<1>1. Counts /\ Border /\ Chain /\ Size \in Nat /\ \A loop \in Loop : i[loop] \in Nat
  BY SizeAssumption DEF IInv, Counts, LoopCounts
<1>2. \A x \in Feed : m <= Fetched[x]
  BY <1>1, SMTT(30) DEF AtLeast, Fetched, Feed, Loop
<1>3. ASSUME NEW loop \in Loop, NEW x \in Feed, i[loop] = Fed[x], ~CanFeed(loop, x)
      PROVE  m < i[loop]
  <2>1. i[loop] \in Nat /\ m <= i[loop] /\ m <= Fetched[x] /\ Fetched[x] \in Nat
    BY <1>1, <1>2, BorderPositions DEF AtLeast
  <2>2. i[loop] = m => Fed[x] <= Fetched[x]
    BY <1>3, <2>1
  <2>3. i[loop] = m => CanWrite(feed[x], Depth)
    BY <1>1, <2>2, FeedRoom
  <2> QED
    BY <1>3, <2>1, <2>3 DEF CanFeed
<1>4. m < i["read_s"] /\ m < i["read_d"] /\ m < i["update"]
  <2>1. ~CanFeed("read_s", "s_stream") /\ ~CanFeed("read_d", "d_stream") /\ ~CanFeed("update", "primary")
    BY DEF CanAct
  <2>2. Fed["s_stream"] = i["read_s"] /\ Fed["d_stream"] = i["read_d"] /\ Fed["primary"] = i["update"]
    BY DEF Fed
  <2> QED
    BY <1>3, <2>1, <2>2 DEF Loop, Feed
<1>5. m < i["dummy"]
  <2>1. i["dummy"] \in Nat /\ m <= i["dummy"]
    BY <1>1 DEF AtLeast, Loop
  <2>2. 0 \in Link /\ 0 \in Stage /\ 0 # E_NUM - 1 /\ "res" \in Kind
    BY SizeAssumption DEF Link, Stage, Kind
  <2>3. Written("res", 0) = i["dummy"]
    BY DEF Written, Source
  <2>4. Read("res", 0) = Past(0, 1)
    BY <2>2 DEF Read, ReadAt
  <2>5. m <= n[0] /\ n[0] <= Past(0, 1) /\ Past(0, 1) \in Nat /\ n[0] \in Nat
    BY <1>1, <2>2, PastFacts DEF AtLeast, Counts, StageCounts
  <2>6. i["dummy"] = m => Written("res", 0) <= Read("res", 0)
    BY <2>3, <2>4, <2>5
  <2>7. i["dummy"] = m => CanWrite(q["res"][0], Depth)
    BY <1>1, <2>2, <2>6, StreamRoom
  <2> QED
    BY <2>1, <2>7 DEF CanAct
<1> QED
  BY <1>4, <1>5

(* What the first stage has read.                                          *)
LEMMA FirstReads ==
    ASSUME IInv, NEW m \in Nat, AtLeast(m), NEW x \in Kind
    PROVE  m <= Read(x, 0) /\ Read(x, 0) \in Nat /\ 0 \in Link
<1>1. Counts
  BY DEF IInv
<1>2. 0 \in Stage /\ 0 # E_NUM - 1 /\ ReadAt[x] \in Nat
  BY SizeAssumption, AccessFacts DEF Stage
<1>3. Read(x, 0) = Past(0, ReadAt[x])
  BY <1>2 DEF Read
<1>4. n[0] \in Nat /\ m <= n[0]
  BY <1>1, <1>2 DEF Counts, StageCounts, AtLeast
<1> QED
  BY <1>1, <1>2, <1>3, <1>4, PastFacts, LinkFacts

LEMMA MergeAhead ==
    ASSUME IInv, NEW m \in Nat, m < Size, AtLeast(m), ~CanAct
    PROVE  m < i["merge"]
<1>1. Counts /\ Border /\ Chain /\ \A loop \in Loop : i[loop] \in Nat
  BY SizeAssumption DEF IInv, Counts, LoopCounts
<1>2. m < i["read_s"] /\ m < i["read_d"] /\ i["read_s"] \in Nat /\ i["read_d"] \in Nat
  BY <1>1, FeedsAhead DEF Loop
<1>3. i["merge"] \in Nat /\ m <= i["merge"]
  BY <1>1 DEF AtLeast, Loop
<1>4. ~CanMerge
  BY DEF CanAct
<1> SUFFICES ASSUME i["merge"] = m PROVE FALSE
  BY <1>3
<1> DEFINE a == run.s[i["merge"]]
           b == run.d[i["merge"]]
           t1 == <<a>>
           t2 == <<a, b>>
<1>5. pair = <<>> \/ pair = t1 \/ pair = t2
  BY <1>1 DEF Counts, LoopCounts
<1>6. Len(t1) = 1 /\ Len(t2) = 2 /\ t1 # <<>>
  OBVIOUS
<1> HIDE DEF t1, t2
<1>7. CASE pair = <<>>
  <2>1. Len(pair) = 0
    BY <1>7
  <2>2. <<"s_stream", "d_stream">>[Len(pair) + 1] = "s_stream"
    BY <2>1
  <2>3. Fetched["s_stream"] = m /\ Fed["s_stream"] = i["read_s"]
    BY <1>7 DEF Fetched, Fed
  <2>4. CanRead(feed["s_stream"])
    BY <1>1, <1>2, <2>3, FeedRoom DEF Feed
  <2> QED
    BY <1>4, <2>1, <2>2, <2>4 DEF CanMerge
<1>8. CASE pair = t1
  <2>1. Len(pair) = 1
    BY <1>6, <1>8
  <2>2. <<"s_stream", "d_stream">>[Len(pair) + 1] = "d_stream"
    BY <2>1
  <2>3. Fetched["d_stream"] = m /\ Fed["d_stream"] = i["read_d"]
    BY <2>1 DEF Fetched, Fed
  <2>4. CanRead(feed["d_stream"])
    BY <1>1, <1>2, <2>3, FeedRoom DEF Feed
  <2> QED
    BY <1>4, <2>1, <2>2, <2>4 DEF CanMerge
<1>9. CASE pair = t2
  <2>1. "edge" \in Kind /\ Written("edge", 0) = m
    BY DEF Kind, Written, Source
  <2>2. CanWrite(q["edge"][0], Depth)
    BY <1>1, <2>1, FirstReads, StreamRoom
  <2> QED
    BY <1>4, <1>6, <1>9, <2>2 DEF CanMerge
<1> QED
  BY <1>5, <1>7, <1>8, <1>9

LEMMA FirstAhead ==
    ASSUME IInv, NEW m \in Nat, m < Size, AtLeast(m), ~CanAct
    PROVE  m < i["first"]
<1>1. Counts /\ Border /\ Chain /\ \A loop \in Loop : i[loop] \in Nat
  BY SizeAssumption DEF IInv, Counts, LoopCounts
<1>2. m < i["update"] /\ i["update"] \in Nat
  BY <1>1, FeedsAhead DEF Loop
<1>3. i["first"] \in Nat /\ m <= i["first"]
  BY <1>1 DEF AtLeast, Loop
<1>4. ~CanDecide
  BY DEF CanAct
<1> SUFFICES ASSUME i["first"] = m PROVE FALSE
  BY <1>3
<1>5. first.at \in {"read", "pass", "decide"}
  BY <1>1 DEF Counts, LoopCounts
<1>6. CASE first.at = "read"
  <2>1. Fetched["primary"] = m /\ Fed["primary"] = i["update"]
    BY <1>6 DEF Fetched, Fed
  <2>2. CanRead(feed["primary"])
    BY <1>1, <1>2, <2>1, FeedRoom DEF Feed
  <2> QED
    BY <1>4, <1>6, <2>2 DEF CanDecide
<1>7. CASE first.at = "pass"
  <2>1. "state" \in Kind /\ Written("state", 0) = m
    BY <1>7 DEF Kind, Written, Source
  <2>2. CanWrite(q["state"][0], Depth)
    BY <1>1, <2>1, FirstReads, StreamRoom
  <2> QED
    BY <1>4, <1>7, <2>2 DEF CanDecide
<1>8. CASE first.at = "decide"
  <2>1. "fe" \in Kind /\ Written("fe", 0) = m
    BY <1>8 DEF Kind, Written, Source
  <2>2. CanWrite(q["fe"][0], Depth)
    BY <1>1, <2>1, FirstReads, StreamRoom
  <2> QED
    BY <1>4, <1>8, <2>2 DEF CanDecide
<1> QED
  BY <1>5, <1>6, <1>7, <1>8

(* The stages.  A stage whose predecessor, or whose sources, are ahead of  *)
(* it has what it is to read.                                              *)
LEMMA StageAhead ==
    ASSUME IInv, NEW m \in Nat, m < Size, AtLeast(m), ~CanAct, NEW k \in Stage,
           k # 0 => m < n[k - 1]
    PROVE  m < n[k]
<1>1. Counts /\ Chain /\ \A loop \in Loop : i[loop] \in Nat
  BY SizeAssumption DEF IInv, Counts, LoopCounts
<1>2. n[k] \in Nat /\ m <= n[k] /\ at[k] \in 1 .. 8
  BY <1>1, SizeAssumption DEF AtLeast, Counts, StageCounts
<1>3. ~CanStage(k)
  BY DEF CanAct
<1> SUFFICES ASSUME n[k] = m PROVE FALSE
  BY <1>2
<1>4. k \in Link /\ k + 1 \in Link /\ k # E_NUM - 1 /\ k + 1 # 0 /\ (k + 1) - 1 = k
  BY LinkFacts, SizeAssumption DEF Stage
<1>5. CASE \E x \in Kind : at[k] = ReadAt[x]
  <2>1. PICK x \in Kind : at[k] = ReadAt[x]
    BY <1>5
  <2>2. Read(x, k) = m
    BY <1>1, <1>2, <1>4, <2>1, PastFacts DEF Read
  <2>3. m < Written(x, k)
    <3>1. CASE k = 0
      <4>1. m < i["dummy"] /\ m < i["merge"] /\ m < i["first"] /\ i["first"] \in Nat
        BY <1>1, FeedsAhead, MergeAhead, FirstAhead DEF Loop
      <4>2. m < Source[x]
        BY <4>1 DEF Source, Kind
      <4> QED
        BY <3>1, <4>2 DEF Written
    <3>2. CASE k # 0
      <4>1. k - 1 \in Stage /\ WriteAt[x] \in Nat
        BY <1>4, <3>2, LinkFacts, AccessFacts
      <4>2. Written(x, k) = Past(k - 1, WriteAt[x])
        BY <3>2 DEF Written
      <4>3. n[k - 1] <= Past(k - 1, WriteAt[x]) /\ Past(k - 1, WriteAt[x]) \in Nat
        BY <1>1, <4>1, PastFacts
      <4>4. n[k - 1] \in Nat
        BY <1>1, <4>1, SizeAssumption DEF Counts, StageCounts
      <4> QED
        BY <3>2, <4>2, <4>3, <4>4
    <3> QED
      BY <3>1, <3>2
  <2>4. CanRead(q[x][k])
    BY <1>1, <1>4, <2>2, <2>3, StreamRoom
  <2> QED
    BY <1>3, <2>1, <2>4 DEF CanStage
<1>6. CASE \E x \in Kind : at[k] = WriteAt[x]
  <2>1. PICK x \in Kind : at[k] = WriteAt[x]
    BY <1>6
  <2>2. Written(x, k + 1) = m
    BY <1>1, <1>2, <1>4, <2>1, PastFacts DEF Written
  <2>3. m <= Read(x, k + 1) /\ Read(x, k + 1) \in Nat
    <3>1. CASE k + 1 = E_NUM - 1
      <4>1. m <= Drained[x] /\ Drained[x] \in Nat
        BY <1>1 DEF AtLeast, Drained, Loop, Kind
      <4> QED
        BY <3>1, <4>1 DEF Read
    <3>2. CASE k + 1 # E_NUM - 1
      <4>1. k + 1 \in Stage /\ ReadAt[x] \in Nat
        BY <1>4, <3>2, LinkFacts, AccessFacts
      <4>2. Read(x, k + 1) = Past(k + 1, ReadAt[x])
        BY <3>2 DEF Read
      <4>3. n[k + 1] <= Past(k + 1, ReadAt[x]) /\ Past(k + 1, ReadAt[x]) \in Nat
        BY <1>1, <4>1, PastFacts
      <4>4. n[k + 1] \in Nat /\ m <= n[k + 1]
        BY <1>1, <4>1, SizeAssumption DEF Counts, StageCounts, AtLeast
      <4> QED
        BY <4>2, <4>3, <4>4
    <3> QED
      BY <3>1, <3>2
  <2>4. CanWrite(q[x][k + 1], Depth)
    BY <1>1, <1>4, <2>2, <2>3, StreamRoom
  <2> QED
    BY <1>3, <2>1, <2>4 DEF CanStage
<1>7. \A a \in 1 .. 8 : \E x \in Kind : a = ReadAt[x] \/ a = WriteAt[x]
  BY DEF ReadAt, WriteAt, Kind
<1> QED
  BY <1>2, <1>5, <1>6, <1>7

LEMMA StagesAhead ==
    ASSUME IInv, NEW m \in Nat, m < Size, AtLeast(m), ~CanAct
    PROVE  \A k \in Stage : m < n[k]
<1> DEFINE T == {k \in Stage : ~(m < n[k])}
<1>1. Stage \subseteq Nat
  BY SizeAssumption DEF Stage
<1>2. SUFFICES ASSUME T # {} PROVE FALSE
  OBVIOUS
<1>3. T \in SUBSET Nat
  BY <1>1
<1>4. PICK k \in T : \A j \in T : k <= j
  <2> HIDE DEF T
  <2> QED
    BY <1>2, <1>3, LeastNatural
<1>5. k # 0 => k - 1 \in Stage /\ k - 1 < k /\ k - 1 \in Nat /\ k \in Nat
  BY SizeAssumption DEF Stage
<1>6. k # 0 => k - 1 \notin T
  BY <1>4, <1>5
<1>7. k # 0 => m < n[k - 1]
  BY <1>5, <1>6
<1> QED
  BY <1>4, <1>7, StageAhead

(* The loops behind.                                                       *)
LEMMA DrainsAhead ==
    ASSUME IInv, NEW m \in Nat, m < Size, AtLeast(m), ~CanAct
    PROVE  \A loop \in {"sink_edge", "sink_state", "sink_fe", "write"} : m < i[loop]
<1>1. Counts /\ Chain /\ \A loop \in Loop : i[loop] \in Nat
  BY SizeAssumption DEF IInv, Counts, LoopCounts
<1>2. E_NUM - 1 \in Link /\ E_NUM - 1 # 0 /\ E_NUM - 1 - 1 \in Stage
  BY LinkFacts
<1>3. ASSUME NEW loop \in Loop, NEW x \in Kind, i[loop] = Drained[x], ~CanDrain(loop, x)
      PROVE  m < i[loop]
  <2> DEFINE k == E_NUM - 1 - 1
  <2>1. k \in Stage /\ WriteAt[x] \in Nat
    BY <1>2, AccessFacts
  <2>2. Written(x, E_NUM - 1) = Past(k, WriteAt[x]) /\ Read(x, E_NUM - 1) = i[loop]
    BY <1>2, <1>3 DEF Written, Read
  <2> HIDE DEF k
  <2>3. m < n[k] /\ n[k] \in Nat /\ n[k] <= Past(k, WriteAt[x]) /\ Past(k, WriteAt[x]) \in Nat
    BY <1>1, <2>1, StagesAhead, PastFacts, SizeAssumption DEF Counts, StageCounts
  <2>4. i[loop] \in Nat /\ m <= i[loop]
    BY <1>1 DEF AtLeast
  <2>5. i[loop] = m => CanRead(q[x][E_NUM - 1])
    BY <1>1, <1>2, <2>2, <2>3, StreamRoom
  <2> QED
    BY <1>3, <2>4, <2>5 DEF CanDrain
<1>4. /\ ~CanDrain("sink_edge", "edge") /\ ~CanDrain("sink_state", "state")
      /\ ~CanDrain("sink_fe", "fe") /\ ~CanDrain("write", "res")
  BY DEF CanAct
<1>5. /\ Drained["edge"] = i["sink_edge"] /\ Drained["state"] = i["sink_state"]
      /\ Drained["fe"] = i["sink_fe"] /\ Drained["res"] = i["write"]
  BY DEF Drained
<1> QED
  BY <1>3, <1>4, <1>5 DEF Loop, Kind

LEMMA NoCircle == IInv => NeverStuck
<1> SUFFICES ASSUME IInv, ~CanAct PROVE AllDone
  BY DEF NeverStuck
<1>1. /\ Size \in Nat /\ \A loop \in Loop : i[loop] \in Nat /\ i[loop] <= Size
      /\ \A k \in Stage : n[k] \in Nat /\ n[k] <= Size
  BY SizeAssumption DEF IInv, Counts, LoopCounts, StageCounts
<1> DEFINE T == {i[loop] : loop \in Loop} \cup {n[k] : k \in Stage}
<1>2. T \in SUBSET Nat /\ T # {}
  BY <1>1 DEF Loop
<1>3. PICK m \in T : \A j \in T : m <= j
  <2> HIDE DEF T
  <2> QED
    BY <1>2, LeastNatural
<1>4. m \in Nat /\ AtLeast(m)
  BY <1>2, <1>3 DEF AtLeast
<1>5. ~(m < Size)
  <2>1. SUFFICES ASSUME m < Size PROVE FALSE
    OBVIOUS
  <2>2. \A loop \in Loop : m < i[loop]
    BY <1>4, <2>1, FeedsAhead, MergeAhead, FirstAhead, DrainsAhead DEF Loop
  <2>3. \A k \in Stage : m < n[k]
    BY <1>4, <2>1, StagesAhead
  <2> QED
    BY <1>1, <1>3, <2>2, <2>3
<1> QED
  BY <1>1, <1>4, <1>5 DEF AtLeast, AllDone

(* As small as the streams are, the loops never wait for each other in a   *)
(* circle: until all of them are done, one of them can make its next       *)
(* access (data_flow).                                                     *)
THEOREM NeverStuckCorrect == Spec => []NeverStuck
  BY Invariance, NoCircle, PTL
=============================================================================
