----------------------- MODULE RootGenerator_proofs -----------------------
(***************************************************************************)
(* Theorems about the root state generation unit, for any number of lanes, *)
(* any link capacities and any generator whose seek and seeds satisfy      *)
(* SeekAssumption; the last one needs its period too (PeriodAssumption).   *)
(***************************************************************************)
EXTENDS RootGenerator, StreamFacts

(* Every kernel keeps its registers and links within their types and       *)
(* capacities, and the merge never holds an element it has not read.       *)
THEOREM TypeCorrect == Spec => []TypeOK
<1> USE SizeAssumption, StateAssumption DEF Lane, Last, CanRead, CanWrite
<1>1. Init => TypeOK
  BY DEF Init, TypeOK
<1>2. TypeOK /\ [Next]_vars => TypeOK'
  <2> SUFFICES ASSUME TypeOK, [Next]_vars PROVE TypeOK'
    OBVIOUS
  <2>1. ASSUME NEW k \in Lane, Update(k) PROVE TypeOK'
    BY <2>1 DEF Update, TypeOK
  <2>2. CASE MergeRead
    BY <2>2 DEF MergeRead, TypeOK
  <2>3. CASE MergeWrite
    <3>1. /\ pos \in Lanes .. Lanes + Last /\ pos - Lanes \in Lane /\ pos - Lanes < pos
          /\ v[pos - Lanes] \in State /\ state' = state /\ lane' = lane
      BY <2>3 DEF MergeWrite, TypeOK
    <3>2. out' \in Seq(State) /\ Len(out') <= OutDepth
      BY <2>3, <3>1, AppendFacts DEF MergeWrite, TypeOK
    <3>3. pos' \in 0 .. Lanes + Last
      BY <2>3, <3>1 DEF MergeWrite
    <3>4. v' \in [Lane -> State \cup {NoVal}] /\ \A k \in Lane : k < pos' => v'[k] \in State
      BY <2>3, <3>1 DEF MergeWrite, TypeOK
    <3>5. QED
      BY <3>1, <3>2, <3>3, <3>4 DEF TypeOK
  <2>4. CASE Consume
    BY <2>4 DEF Consume, TypeOK
  <2>5. CASE UNCHANGED vars
    BY <2>5 DEF vars, TypeOK
  <2>6. QED
    BY <2>1, <2>2, <2>3, <2>4, <2>5 DEF Next
<1>3. QED
  BY <1>1, <1>2, PTL DEF Spec

(* A write by an updater changes neither what the merge will read next     *)
(* from any lane nor the order within the lane.                            *)
LEMMA UpdateLane ==
    ASSUME TypeOK, LaneOrder, NEW k \in Lane, Update(k)
    PROVE  /\ LaneOrder'
           /\ \A j \in Lane : Upcoming(j)' = Upcoming(j)
<1> USE DEF TypeOK
<1> DEFINE q == lane[k]
<1>1. /\ q \in Seq(State) /\ state[k] \in State
      /\ lane' = [lane EXCEPT ![k] = Append(q, state[k])]
      /\ state' = [state EXCEPT ![k] = Seek[state[k]]]
  BY DEF Update
<1>2. /\ lane'[k] = Append(q, state[k])
      /\ state'[k] = Seek[state[k]]
      /\ \A j \in Lane \ {k} : lane'[j] = lane[j] /\ state'[j] = state[j]
  BY <1>1
<1>3. \A i \in 1 .. Len(q) - 1 : q[i + 1] = Seek[q[i]]
  BY DEF LaneOrder
<1>4. q # <<>> => state[k] = Seek[q[Len(q)]]
  BY DEF LaneOrder
<1> HIDE DEF q
<1>5. /\ Append(q, state[k]) # <<>>
      /\ Len(q) \in Nat
      /\ Len(Append(q, state[k])) = Len(q) + 1
      /\ \A i \in 1 .. Len(q) : Append(q, state[k])[i] = q[i]
      /\ Append(q, state[k])[Len(q) + 1] = state[k]
      /\ Head(Append(q, state[k])) = IF q = <<>> THEN state[k] ELSE Head(q)
  BY <1>1, AppendFacts
<1>6. Len(q) > 0 => q # <<>>
  BY <1>1, EmptySeq
<1>7. \A i \in 1 .. Len(lane'[k]) - 1 : lane'[k][i + 1] = Seek[lane'[k][i]]
  <2> TAKE i \in 1 .. Len(lane'[k]) - 1
  <2>1. i \in 1 .. Len(q)
    BY <1>2, <1>5
  <2>2. CASE i = Len(q)
    BY <1>2, <1>4, <1>5, <1>6, <2>1, <2>2
  <2>3. CASE i < Len(q)
    BY <1>2, <1>3, <1>5, <2>1, <2>3
  <2>4. QED
    BY <1>5, <2>1, <2>2, <2>3
<1>8. state'[k] = Seek[lane'[k][Len(lane'[k])]]
  BY <1>2, <1>5
<1>9. LaneOrder'
  <2> SUFFICES ASSUME NEW j \in Lane
               PROVE  /\ \A i \in 1 .. Len(lane'[j]) - 1 :
                             lane'[j][i + 1] = Seek[lane'[j][i]]
                      /\ lane'[j] # <<>> => state'[j] = Seek[lane'[j][Len(lane'[j])]]
    BY DEF LaneOrder
  <2>1. CASE j = k
    BY <1>7, <1>8, <2>1
  <2>2. CASE j # k
    <3>1. lane'[j] = lane[j] /\ state'[j] = state[j]
      BY <1>2, <2>2
    <3>2. QED
      BY <3>1 DEF LaneOrder
  <2>3. QED
    BY <2>1, <2>2
<1>10. Upcoming(k)' = Upcoming(k)
  BY <1>2, <1>5 DEF Upcoming, q
<1>11. QED
  BY <1>2, <1>9, <1>10 DEF Upcoming

(* Reading a lane moves what comes next from it on by one seek.            *)
LEMMA ReadLane ==
    ASSUME TypeOK, LaneOrder, MergeRead
    PROVE  /\ LaneOrder'
           /\ Upcoming(pos) = Head(lane[pos])
           /\ \A j \in Lane : Upcoming(j)' = IF j = pos THEN Seek[Head(lane[pos])]
                                                       ELSE Upcoming(j)
<1> USE DEF TypeOK
<1> DEFINE q == lane[pos]
<1>1. /\ pos \in Lane
      /\ q \in Seq(State) /\ q # <<>>
      /\ lane' = [lane EXCEPT ![pos] = Tail(q)]
      /\ state' = state
  BY DEF MergeRead, CanRead
<1>2. /\ lane'[pos] = Tail(q)
      /\ \A j \in Lane \ {pos} : lane'[j] = lane[j]
  BY <1>1
<1>3. \A i \in 1 .. Len(q) - 1 : q[i + 1] = Seek[q[i]]
  BY <1>1 DEF LaneOrder
<1>4. state[pos] = Seek[q[Len(q)]]
  BY <1>1 DEF LaneOrder
<1> HIDE DEF q
<1>5. /\ Head(q) = q[1]
      /\ Len(q) \in Nat \ {0}
      /\ Len(Tail(q)) = Len(q) - 1
      /\ \A i \in 1 .. Len(q) - 1 : Tail(q)[i] = q[i + 1]
      /\ Tail(q) # <<>> <=> Len(q) > 1
      /\ Tail(q) # <<>> => Head(Tail(q)) = q[2]
  BY <1>1, TailFacts
<1>6. \A i \in 1 .. Len(lane'[pos]) - 1 : lane'[pos][i + 1] = Seek[lane'[pos][i]]
  <2> TAKE i \in 1 .. Len(lane'[pos]) - 1
  <2>1. i \in 1 .. Len(q) - 2 /\ i + 1 \in 1 .. Len(q) - 1
    BY <1>2, <1>5
  <2>2. Tail(q)[i] = q[i + 1] /\ Tail(q)[i + 1] = q[i + 1 + 1]
    BY <1>5, <2>1
  <2>3. QED
    BY <1>2, <1>3, <2>1, <2>2
<1>7. lane'[pos] # <<>> => state[pos] = Seek[lane'[pos][Len(lane'[pos])]]
  BY <1>2, <1>4, <1>5
<1>8. LaneOrder'
  <2> SUFFICES ASSUME NEW j \in Lane
               PROVE  /\ \A i \in 1 .. Len(lane'[j]) - 1 :
                             lane'[j][i + 1] = Seek[lane'[j][i]]
                      /\ lane'[j] # <<>> => state'[j] = Seek[lane'[j][Len(lane'[j])]]
    BY DEF LaneOrder
  <2>1. CASE j = pos
    BY <1>1, <1>6, <1>7, <2>1
  <2>2. CASE j # pos
    <3>1. lane'[j] = lane[j] /\ state'[j] = state[j]
      BY <1>1, <1>2, <2>2
    <3>2. QED
      BY <3>1 DEF LaneOrder
  <2>3. QED
    BY <2>1, <2>2
<1>9. Upcoming(pos) = Head(q)
  BY <1>1 DEF Upcoming, q
<1>10. (IF lane'[pos] = <<>> THEN state'[pos] ELSE Head(lane'[pos])) = Seek[Head(q)]
  <2>1. CASE Len(q) = 1
    BY <1>1, <1>2, <1>4, <1>5, <2>1
  <2>2. CASE Len(q) > 1
    BY <1>2, <1>3, <1>5, <2>2
  <2>3. QED
    BY <1>5, <2>1, <2>2
<1>11. QED
  BY <1>1, <1>2, <1>8, <1>9, <1>10 DEF Upcoming, q

(* What the lanes hold are root states.                                    *)
LEMMA UpcomingType ==
    ASSUME TypeOK
    PROVE  \A k \in Lane : Upcoming(k) \in State /\ Current(k) \in State
<1> TAKE k \in Lane
<1>1. lane[k] # <<>> => Head(lane[k]) \in State
  BY HeadTailProperties DEF TypeOK
<1>2. QED
  BY <1>1 DEF TypeOK, Upcoming, Current

(* While the round does not change, neither does the order within it.      *)
LEMMA SameRound ==
    ASSUME RoundOrder, \A k \in Lane : Current(k)' = Current(k)
    PROVE  RoundOrder'
  BY SizeAssumption DEF RoundOrder, Lane, Last

(* While the output and the next root state do not change, the output      *)
(* stays in order.                                                         *)
LEMMA SameOut ==
    ASSUME OutOrder, out' = out, NextRoot' = NextRoot
    PROVE  OutOrder'
  BY DEF OutOrder

(* An updater that writes a state behind the ones on its link disturbs     *)
(* neither the round in progress nor the output (ssrng_state_update_k).    *)
LEMMA UpdateStep ==
    ASSUME TypeOK, LeapfrogInv, NEW k \in Lane, Update(k)
    PROVE  LeapfrogInv' /\ NextRoot' = NextRoot
<1>1. /\ LaneOrder'
      /\ \A j \in Lane : Upcoming(j)' = Upcoming(j)
  BY UpdateLane DEF LeapfrogInv
<1>2. UNCHANGED <<v, pos, out>>
  BY DEF Update
<1>3. \A j \in Lane : Current(j)' = Current(j)
  BY <1>1, <1>2 DEF Current
<1>4. NextRoot' = NextRoot
  BY <1>2, <1>3, SizeAssumption DEF NextRoot, Lane
<1>5. ReadAhead'
  BY <1>1, <1>2 DEF LeapfrogInv, ReadAhead
<1>6. QED
  BY <1>1, <1>2, <1>3, <1>4, <1>5, SameRound, SameOut DEF LeapfrogInv

(* Reading the next lane keeps the round a contiguous piece of the root    *)
(* sequence (the reads of ssrng_state_merge).                              *)
LEMMA MergeReadStep ==
    ASSUME TypeOK, LeapfrogInv, MergeRead
    PROVE  LeapfrogInv' /\ NextRoot' = NextRoot
<1> USE SizeAssumption DEF Lane, Last
<1>1. /\ LaneOrder'
      /\ Upcoming(pos) = Head(lane[pos])
      /\ \A j \in Lane : Upcoming(j)' = IF j = pos THEN Seek[Head(lane[pos])]
                                                  ELSE Upcoming(j)
  BY ReadLane DEF LeapfrogInv
<1>2. /\ pos \in Lane /\ pos' = pos + 1
      /\ v' = [v EXCEPT ![pos] = Head(lane[pos])]
      /\ v'[pos] = Head(lane[pos])
      /\ \A j \in Lane \ {pos} : v'[j] = v[j]
      /\ out' = out
  BY DEF MergeRead, TypeOK
<1>3. \A j \in Lane : Current(j)' = Current(j)
  <2> TAKE j \in Lane
  <2>1. CASE j < pos
    BY <1>2, <2>1 DEF Current
  <2>2. CASE j = pos
    BY <1>1, <1>2, <2>2 DEF Current
  <2>3. CASE j > pos
    BY <1>1, <1>2, <2>3 DEF Current
  <2>4. QED
    BY <1>2, <2>1, <2>2, <2>3
<1>4. NextRoot' = NextRoot
  <2>1. NextRoot = Current(0)
    BY <1>2 DEF NextRoot
  <2>2. CASE pos' < Lanes
    BY <1>2, <1>3, <2>1, <2>2 DEF NextRoot
  <2>3. CASE pos' = Lanes
    BY <1>2, <1>3, <2>1, <2>3 DEF NextRoot, Current
  <2>4. QED
    BY <1>2, <2>2, <2>3
<1>5. ReadAhead'
  <2> SUFFICES ASSUME NEW j \in Lane, j < pos' PROVE Upcoming(j)' = Seek[v'[j]]
    BY DEF ReadAhead
  <2>1. CASE j = pos
    BY <1>1, <1>2, <2>1
  <2>2. CASE j < pos
    BY <1>1, <1>2, <2>2 DEF LeapfrogInv, ReadAhead
  <2>3. QED
    BY <1>2, <2>1, <2>2
<1>6. QED
  BY <1>1, <1>2, <1>3, <1>4, <1>5, SameRound, SameOut DEF LeapfrogInv

(* Writing an element puts the next root state behind the output and makes *)
(* its successor the next one, across the end of a round as well.          *)
LEMMA MergeWriteRoot ==
    ASSUME TypeOK, LeapfrogInv, MergeWrite
    PROVE  /\ out' = Append(out, NextRoot)
           /\ NextRoot \in State
           /\ NextRoot' = Step[NextRoot]
           /\ RoundOrder' /\ ReadAhead' /\ LaneOrder'
<1> USE SizeAssumption DEF Lane, Last
<1>1. /\ pos \in Lanes .. Lanes + Last
      /\ out' = Append(out, v[pos - Lanes])
      /\ UNCHANGED <<state, lane>>
      /\ \A k \in Lane : v[k] \in State
  BY DEF MergeWrite, TypeOK
<1>2. NextRoot = v[pos - Lanes] /\ NextRoot \in State
  BY <1>1 DEF NextRoot
<1>3. /\ \A k \in Lane : Upcoming(k)' = Upcoming(k) /\ Upcoming(k) = Seek[v[k]]
      /\ LaneOrder'
  BY <1>1 DEF Upcoming, LaneOrder, LeapfrogInv, ReadAhead
<1>4. /\ \A k \in 1 .. Last : v[k] = Step[v[k - 1]]
      /\ Seek[v[0]] = Step[v[Last]]
  BY <1>1 DEF LeapfrogInv, RoundOrder, Current
<1>5. CASE pos = Lanes + Last
  <2>1. pos' = 0
    BY <1>5 DEF MergeWrite
  <2>2. \A k \in Lane : Current(k)' = Seek[v[k]]
    BY <1>3, <2>1 DEF Current
  <2>3. NextRoot' = Step[NextRoot]
    BY <1>2, <1>4, <1>5, <2>1, <2>2 DEF NextRoot
  <2>4. \A k \in 1 .. Last : Seek[v[k]] = Step[Seek[v[k - 1]]]
    BY <1>1, <1>4, SeekAssumption
  <2>5. Seek[Seek[v[0]]] = Step[Seek[v[Last]]]
    BY <1>1, <1>4, SeekAssumption
  <2>6. RoundOrder'
    BY <2>2, <2>4, <2>5 DEF RoundOrder
  <2>7. ReadAhead'
    BY <2>1 DEF ReadAhead
  <2>8. QED
    BY <1>1, <1>2, <1>3, <2>3, <2>6, <2>7
<1>6. CASE pos < Lanes + Last
  <2>1. pos' = pos + 1 /\ v' = v
    BY <1>6 DEF MergeWrite
  <2>2. NextRoot' = Step[NextRoot]
    BY <1>1, <1>2, <1>4, <1>6, <2>1 DEF NextRoot
  <2>3. \A k \in Lane : Current(k)' = Current(k)
    BY <1>1, <2>1 DEF Current
  <2>4. ReadAhead'
    BY <1>3, <2>1 DEF ReadAhead
  <2>5. QED
    BY <1>1, <1>2, <1>3, <2>2, <2>3, <2>4, SameRound DEF LeapfrogInv
<1>7. QED
  BY <1>1, <1>5, <1>6

(* Writing an element of the round continues the output, and the last one  *)
(* leaves the next round in order (the writes of ssrng_state_merge).       *)
LEMMA MergeWriteStep ==
    ASSUME TypeOK, LeapfrogInv, MergeWrite
    PROVE  LeapfrogInv'
<1> DEFINE r == NextRoot
<1>1. /\ out' = Append(out, r)
      /\ r \in State
      /\ NextRoot' = Step[r]
      /\ RoundOrder' /\ ReadAhead' /\ LaneOrder'
  BY MergeWriteRoot
<1>2. /\ out \in Seq(State)
      /\ \A i \in 1 .. Len(out) - 1 : out[i + 1] = Step[out[i]]
      /\ out # <<>> => r = Step[out[Len(out)]]
  BY DEF TypeOK, LeapfrogInv, OutOrder
<1> HIDE DEF r
<1>3. /\ out' # <<>>
      /\ Len(out) \in Nat
      /\ Len(out') = Len(out) + 1
      /\ \A i \in 1 .. Len(out) : out'[i] = out[i]
      /\ out'[Len(out) + 1] = r
  BY <1>1, <1>2, AppendFacts
<1>4. \A i \in 1 .. Len(out') - 1 : out'[i + 1] = Step[out'[i]]
  <2> TAKE i \in 1 .. Len(out') - 1
  <2>1. i \in 1 .. Len(out)
    BY <1>3
  <2>2. CASE i = Len(out)
    <3>1. out # <<>>
      BY <1>2, <2>1, EmptySeq
    <3>2. QED
      BY <1>2, <1>3, <2>1, <2>2, <3>1
  <2>3. CASE i < Len(out)
    BY <1>2, <1>3, <2>1, <2>3
  <2>4. QED
    BY <1>3, <2>1, <2>2, <2>3
<1>5. NextRoot' = Step[out'[Len(out')]]
  BY <1>1, <1>3
<1>6. OutOrder'
  BY <1>4, <1>5 DEF OutOrder
<1>7. QED
  BY <1>1, <1>6 DEF LeapfrogInv

(* A read by the output unit leaves the output a contiguous piece.         *)
LEMMA ConsumeStep ==
    ASSUME TypeOK, LeapfrogInv, Consume
    PROVE  LeapfrogInv' /\ NextRoot' = NextRoot
<1>1. /\ out \in Seq(State) /\ out # <<>>
      /\ out' = Tail(out)
      /\ UNCHANGED <<state, lane, v, pos>>
  BY DEF Consume, TypeOK, CanRead
<1>2. NextRoot' = NextRoot
  BY <1>1 DEF NextRoot, Current, Upcoming
<1>3. LaneOrder' /\ ReadAhead' /\ RoundOrder'
  BY <1>1 DEF LeapfrogInv, LaneOrder, ReadAhead, RoundOrder, Current, Upcoming
<1>4. /\ Len(out) \in Nat \ {0}
      /\ Len(out') = Len(out) - 1
      /\ \A i \in 1 .. Len(out) - 1 : out'[i] = out[i + 1]
      /\ out' # <<>> => Len(out) > 1
  BY <1>1, TailFacts
<1>5. \A i \in 1 .. Len(out) - 1 : out[i + 1] = Step[out[i]]
  BY DEF LeapfrogInv, OutOrder
<1>6. \A i \in 1 .. Len(out') - 1 : out'[i + 1] = Step[out'[i]]
  <2> TAKE i \in 1 .. Len(out') - 1
  <2>1. i \in 1 .. Len(out) - 1 /\ i + 1 \in 1 .. Len(out) - 1
    BY <1>4
  <2>2. out'[i] = out[i + 1] /\ out'[i + 1] = out[i + 1 + 1]
    BY <1>4, <2>1
  <2>3. QED
    BY <1>5, <2>1, <2>2
<1>7. out' # <<>> => NextRoot' = Step[out'[Len(out')]]
  <2> SUFFICES ASSUME out' # <<>> PROVE NextRoot' = Step[out'[Len(out')]]
    OBVIOUS
  <2>1. out'[Len(out')] = out[Len(out)]
    BY <1>4
  <2>2. NextRoot = Step[out[Len(out)]]
    BY <1>1 DEF LeapfrogInv, OutOrder
  <2>3. QED
    BY <1>2, <2>1, <2>2
<1>8. OutOrder'
  BY <1>6, <1>7 DEF OutOrder
<1>9. QED
  BY <1>2, <1>3, <1>8 DEF LeapfrogInv

(* The seeds make the first round contiguous (INIT_STATE_k).               *)
LEMMA LeapfrogInit == Init => LeapfrogInv
<1> USE SizeAssumption, StateAssumption, SeekAssumption DEF Lane, Last
<1> SUFFICES ASSUME Init PROVE LeapfrogInv
  OBVIOUS
<1>1. \A k \in Lane : lane[k] = <<>> /\ Upcoming(k) = InitState[k] /\ Current(k) = InitState[k]
  BY DEF Init, Upcoming, Current
<1>2. pos = 0 /\ out = <<>>
  BY DEF Init
<1>3. LaneOrder
  <2>1. \A k \in Lane : 1 .. Len(lane[k]) - 1 = {}
    BY <1>1, EmptySeq
  <2>2. QED
    BY <1>1, <2>1 DEF LaneOrder
<1>4. RoundOrder
  BY <1>1 DEF RoundOrder
<1>5. ReadAhead
  BY <1>2 DEF ReadAhead
<1>6. OutOrder
  <2>1. 1 .. Len(out) - 1 = {}
    BY <1>2, EmptySeq
  <2>2. QED
    BY <1>2, <2>1 DEF OutOrder
<1>7. QED
  BY <1>3, <1>4, <1>5, <1>6 DEF LeapfrogInv

(* Whatever the interleaving of the updaters and the merge, the lanes, the *)
(* merge buffer and the output link together hold one contiguous piece of  *)
(* the root sequence.                                                      *)
THEOREM LeapfrogCorrect == Spec => []LeapfrogInv
<1>1. Init => LeapfrogInv
  BY LeapfrogInit
<1>2. TypeOK /\ LeapfrogInv /\ [Next]_vars => LeapfrogInv'
  <2> SUFFICES ASSUME TypeOK, LeapfrogInv, [Next]_vars PROVE LeapfrogInv'
    OBVIOUS
  <2>1. ASSUME NEW k \in Lane, Update(k) PROVE LeapfrogInv'
    BY <2>1, UpdateStep
  <2>2. CASE MergeRead
    BY <2>2, MergeReadStep
  <2>3. CASE MergeWrite
    BY <2>3, MergeWriteStep
  <2>4. CASE Consume
    BY <2>4, ConsumeStep
  <2>5. CASE UNCHANGED vars
    BY <2>5 DEF vars, LeapfrogInv, LaneOrder, ReadAhead, RoundOrder, OutOrder,
                Upcoming, Current, NextRoot
  <2>6. QED
    BY <2>1, <2>2, <2>3, <2>4, <2>5 DEF Next
<1>3. QED
  BY <1>1, <1>2, TypeCorrect, PTL DEF Spec

(* The unit implements one sequential generator, as far as safety goes: it *)
(* starts like one, and every step of a kernel is a write of the next root *)
(* state, a read by the output unit, or invisible outside.                 *)
THEOREM ImplementsSequentialRoot == Spec => Root!Init /\ [][Root!Next]_(Root!vars)
<1>1. Init => Root!Init
  <2> SUFFICES ASSUME Init PROVE NextRoot = InitState[0] /\ out = <<>>
    BY DEF Root!Init
  <2>1. QED
    BY SizeAssumption DEF Init, NextRoot, Current, Upcoming, Lane, Last
<1>2. TypeOK /\ LeapfrogInv /\ [Next]_vars => [Root!Next]_(Root!vars)
  <2> SUFFICES ASSUME TypeOK, LeapfrogInv, [Next]_vars
               PROVE  Root!Next \/ (NextRoot' = NextRoot /\ out' = out)
    BY DEF Root!vars
  <2>1. ASSUME NEW k \in Lane, Update(k) PROVE NextRoot' = NextRoot /\ out' = out
    BY <2>1, UpdateStep DEF Update
  <2>2. CASE MergeRead
    BY <2>2, MergeReadStep DEF MergeRead
  <2>3. CASE MergeWrite
    BY <2>3, MergeWriteRoot DEF MergeWrite, CanWrite, Root!CanWrite, Root!Next, Root!Emit
  <2>4. CASE Consume
    BY <2>4, ConsumeStep DEF Consume, CanRead, Root!CanRead, Root!Next, Root!Consume
  <2>5. CASE UNCHANGED vars
    BY <2>5 DEF vars, Upcoming, Current, NextRoot
  <2>6. QED
    BY <2>1, <2>2, <2>3, <2>4, <2>5 DEF Next
<1>3. QED
  BY <1>1, <1>2, TypeCorrect, LeapfrogCorrect, PTL DEF Spec

-----------------------------------------------------------------------------
(* The states of the generator, counted through: going round is adding.    *)
At(n) == RootAt[n % Period]

LEMMA PeriodFacts ==
    /\ Period \in Nat \ {0} /\ Lanes < Period
    /\ OutDepth + Lanes * (Depth + 2) <= Period
<1> DEFINE x == Lanes * (Depth + 2)
<1>1. x \in Nat /\ x >= 2 * Lanes
  BY SizeAssumption
<1>2. OutDepth + x <= Period /\ Period \in Nat
  BY PeriodAssumption
<1> HIDE DEF x
<1> QED
  BY <1>1, <1>2, SizeAssumption DEF x

LEMMA Wraps ==
    \A a \in Int : /\ a % Period \in 0 .. Period - 1
                   /\ \A n \in Int : ((a % Period) + n) % Period = (a + n) % Period
<1>1. ASSUME NEW a \in Int PROVE a % Period \in 0 .. Period - 1
  BY PeriodFacts, ModFacts
<1>2. ASSUME NEW a \in Int, NEW n \in Int
      PROVE  ((a % Period) + n) % Period = (a + n) % Period
  <2>1. Period \in Nat \ {0}
    BY PeriodFacts
  <2> QED
    BY <2>1, ModPlus, Zenon
<1> QED
  BY <1>1, <1>2

LEMMA AtIs ==
    /\ \A n \in Int : At(n) \in State
    /\ \A n \in 0 .. Period - 1 : At(n) = RootAt[n]
    /\ \A a \in State : \E n \in Int : a = At(n)
<1>1. ASSUME NEW n \in Int PROVE At(n) \in State
  <2>1. n % Period \in 0 .. Period - 1
    BY PeriodFacts, ModFacts
  <2> QED
    BY <2>1, PeriodAssumption DEF At
<1>2. ASSUME NEW n \in 0 .. Period - 1 PROVE At(n) = RootAt[n]
  BY PeriodFacts DEF At
<1>3. ASSUME NEW a \in State PROVE \E n \in Int : a = At(n)
  <2>1. PICK n \in 0 .. Period - 1 : RootAt[n] = a
    BY PeriodAssumption
  <2> QED
    BY <1>2, <2>1
<1> QED
  BY <1>1, <1>2, <1>3

(* A step takes a state to the next one.                                   *)
LEMMA StepAt == \A n \in Int : Step[At(n)] = At(n + 1)
<1> SUFFICES ASSUME NEW n \in Int PROVE Step[At(n)] = At(n + 1)
  OBVIOUS
<1>1. n % Period \in 0 .. Period - 1
  BY PeriodFacts, ModFacts
<1>2. ((n % Period) + 1) % Period = (n + 1) % Period
  <2>1. 1 \in Int
    OBVIOUS
  <2> QED
    BY <2>1, Wraps, Zenon
<1>3. RootAt[((n % Period) + 1) % Period] = Step[RootAt[n % Period]]
  BY <1>1, PeriodAssumption
<1> QED
  BY <1>2, <1>3 DEF At

(* The states of less than a whole period are different.                   *)
LEMMA AtApart ==
    ASSUME NEW m \in Int, NEW n \in Int, At(m) = At(n), n - m < Period, m - n < Period
    PROVE  m = n
<1>1. Period \in Nat \ {0}
  BY PeriodFacts
<1>2. m % Period \in 0 .. Period - 1 /\ n % Period \in 0 .. Period - 1
  BY <1>1, ModFacts
<1>3. m % Period = n % Period
  BY <1>2, PeriodAssumption DEF At
<1> QED
  BY <1>1, <1>3, ModApart

(* So a state has only one before it.                                      *)
LEMMA StepBack ==
    ASSUME NEW a \in State, NEW n \in Int, Step[a] = At(n)
    PROVE  a = At(n - 1)
<1>1. PICK m \in Int : a = At(m)
  BY AtIs
<1>2. At(m + 1) = At(n)
  BY <1>1, StepAt
<1>3. (m + 1) % Period = n % Period
  <2>0. m + 1 \in Int
    OBVIOUS
  <2>1. (m + 1) % Period \in 0 .. Period - 1 /\ n % Period \in 0 .. Period - 1
    BY <2>0, Wraps, Zenon
  <2> QED
    BY <1>2, <2>1, PeriodAssumption DEF At
<1>4. /\ (((m + 1) % Period) + (-1)) % Period = ((m + 1) + (-1)) % Period
      /\ ((n % Period) + (-1)) % Period = (n + (-1)) % Period
  <2>1. m + 1 \in Int /\ -1 \in Int
    OBVIOUS
  <2> QED
    BY <2>1, Wraps, Zenon
<1>5. (m + 1) + (-1) = m /\ n + (-1) = n - 1
  OBVIOUS
<1>6. m % Period = (n - 1) % Period
  BY <1>3, <1>4, <1>5, Zenon
<1> QED
  BY <1>1, <1>6 DEF At

(* A seek takes a state to the one a round later, from wherever it starts: *)
(* SeekAssumption says so of the first seed, and stepping carries it on.   *)
LEMMA SeekAt == \A n \in Int : Seek[At(n)] = At(n + Lanes)
<1>0. Lanes \in Nat \ {0} /\ Lanes - 1 \in Lane /\ Last = Lanes - 1
  BY SizeAssumption DEF Lane, Last
<1>1. \A k \in Lane : InitState[k] = At(k)
  <2> DEFINE T == {k \in Nat : k \in Lane /\ InitState[k] # At(k)}
  <2>1. ASSUME NEW k \in T, \A j \in T : k <= j PROVE FALSE
    <3>1. CASE k = 0
      BY <2>1, <3>1, PeriodFacts, AtIs, PeriodAssumption
    <3>2. CASE k # 0
      <4>1. k \in 1 .. Last /\ k - 1 \in Nat /\ k - 1 \in Lane /\ ~(k <= k - 1)
        BY <1>0, <3>2 DEF Lane
      <4>2. k - 1 \notin T
        BY <2>1, <4>1
      <4>3. InitState[k - 1] = At(k - 1)
        BY <4>1, <4>2
      <4>4. InitState[k] = Step[InitState[k - 1]]
        BY <4>1, SeekAssumption
      <4>5. Step[At(k - 1)] = At((k - 1) + 1) /\ (k - 1) + 1 = k
        BY <4>1, StepAt
      <4> QED
        BY <2>1, <4>3, <4>4, <4>5
    <3> QED
      BY <3>1, <3>2
  <2>2. T \in SUBSET Nat
    OBVIOUS
  <2>3. T = {}
    <3> HIDE DEF T
    <3> QED
      BY <2>1, <2>2, LeastNatural
  <2> QED
    BY <2>3, <1>0 DEF Lane
<1>2. Seek[At(0)] = At(0 + Lanes)
  <2>1. InitState[0] = At(0) /\ InitState[Last] = At(Lanes - 1)
    BY <1>0, <1>1 DEF Lane
  <2>2. Step[At(Lanes - 1)] = At(Lanes - 1 + 1) /\ Lanes - 1 + 1 = 0 + Lanes
    BY <1>0, StepAt
  <2> QED
    BY <2>1, <2>2, SeekAssumption
<1>3. ASSUME NEW n \in Int, Seek[At(n)] = At(n + Lanes)
      PROVE  Seek[At(n + 1)] = At((n + 1) + Lanes)
  <2>1. At(n + 1) = Step[At(n)] /\ At(n) \in State
    BY AtIs, StepAt
  <2>2. Seek[Step[At(n)]] = Step[Seek[At(n)]]
    BY <2>1, SeekAssumption
  <2>3. n + Lanes \in Int /\ Step[At(n + Lanes)] = At(n + Lanes + 1)
        /\ n + Lanes + 1 = (n + 1) + Lanes
    BY <1>0, StepAt
  <2> QED
    BY <1>3, <2>1, <2>2, <2>3
<1> DEFINE T == {n \in Nat : Seek[At(n)] # At(n + Lanes)}
<1>4. ASSUME NEW n \in T, \A m \in T : n <= m PROVE FALSE
  <2>1. n # 0
    BY <1>2
  <2>2. n - 1 \in Nat /\ ~(n <= n - 1) /\ (n - 1) + 1 = n
    BY <2>1
  <2>3. Seek[At(n - 1)] = At(n - 1 + Lanes)
    BY <1>4, <2>2
  <2> QED
    BY <1>3, <2>2, <2>3
<1>5. T = {}
  <2>1. T \in SUBSET Nat
    OBVIOUS
  <2> HIDE DEF T
  <2> QED
    BY <1>4, <2>1, LeastNatural
<1>6. \A n \in Nat : Seek[At(n)] = At(n + Lanes)
  BY <1>5
<1> SUFFICES ASSUME NEW n \in Int PROVE Seek[At(n)] = At(n + Lanes)
  OBVIOUS
<1>7. n % Period \in Nat
  BY PeriodFacts, ModFacts
<1>8. At(n % Period) = At(n)
  <2>1. n % Period \in 0 .. Period - 1
    BY PeriodFacts, ModFacts
  <2> QED
    BY <2>1, AtIs DEF At
<1>9. At((n % Period) + Lanes) = At(n + Lanes)
  <2>1. Lanes \in Int
    BY <1>0
  <2>2. ((n % Period) + Lanes) % Period = (n + Lanes) % Period
    BY <2>1, Wraps, Zenon
  <2> QED
    BY <2>2 DEF At
<1> QED
  BY <1>6, <1>7, <1>8, <1>9

-----------------------------------------------------------------------------
(* What is where, counted from the first element of the round in the merge *)
(* (whose number is e): lane k has every Lanes-th state.                   *)
Row(e, k, m) == At(e + k + m * Lanes)
FirstRow(k) == IF k < pos THEN 1 ELSE 0
Written == IF pos < Lanes THEN 0 ELSE pos - Lanes

Located(e) ==
    /\ \A k \in Lane : k < pos => v[k] = Row(e, k, 0)
    /\ \A k \in Lane : \A j \in 1 .. Len(lane[k]) : lane[k][j] = Row(e, k, FirstRow(k) + j - 1)
    /\ \A k \in Lane : state[k] = Row(e, k, FirstRow(k) + Len(lane[k]))
    /\ \A j \in 1 .. Len(out) : out[j] = At(e + Written - Len(out) + j - 1)

LEMMA Rows ==
    \A e, k, m \in Int : Seek[Row(e, k, m)] = Row(e, k, m + 1) /\ Row(e, k, 0) = At(e + k)
<1> SUFFICES ASSUME NEW e \in Int, NEW k \in Int, NEW m \in Int
             PROVE  Seek[Row(e, k, m)] = Row(e, k, m + 1) /\ Row(e, k, 0) = At(e + k)
  OBVIOUS
<1>1. Lanes \in Int
  BY SizeAssumption
<1> DEFINE a == e + k + m * Lanes
<1>2. a \in Int /\ e + k + (m + 1) * Lanes = a + Lanes /\ e + k + 0 * Lanes = e + k
  BY <1>1
<1> HIDE DEF a
<1>3. Seek[At(a)] = At(a + Lanes)
  BY <1>2, SeekAt
<1> QED
  BY <1>2, <1>3 DEF Row, a

LEMMA LaneFacts ==
    /\ Lanes \in Nat \ {0} /\ Last = Lanes - 1 /\ Last \in Nat
    /\ 0 \in Lane /\ Last \in Lane /\ Lane \subseteq Nat
    /\ \A k \in Lane : k < Lanes
    /\ \A k \in Lane \ {0} : k \in 1 .. Last /\ k - 1 \in Lane
  BY SizeAssumption DEF Lane, Last

(* The round is contiguous: each lane's part of it is the one after that   *)
(* of the lane before.                                                     *)
LEMMA RoundAt ==
    ASSUME RoundOrder, NEW e \in Int, Current(0) = At(e)
    PROVE  \A k \in Lane : Current(k) = Row(e, k, 0)
<1> DEFINE T == {k \in Nat : k \in Lane /\ Current(k) # At(e + k)}
<1>1. ASSUME NEW k \in T, \A j \in T : k <= j PROVE FALSE
  <2>1. k # 0
    BY LaneFacts
  <2>2. k \in 1 .. Last /\ k - 1 \in Lane /\ k - 1 \in Nat /\ ~(k <= k - 1)
    BY <2>1, LaneFacts
  <2>3. Current(k - 1) = At(e + (k - 1))
    BY <1>1, <2>2
  <2>4. Current(k) = Step[Current(k - 1)]
    BY <2>2 DEF RoundOrder
  <2>5. e + (k - 1) \in Int /\ e + (k - 1) + 1 = e + k
    BY <2>2
  <2>6. Step[At(e + (k - 1))] = At(e + (k - 1) + 1)
    BY <2>5, StepAt
  <2> QED
    BY <2>3, <2>4, <2>5, <2>6
<1>2. T = {}
  <2>1. T \in SUBSET Nat
    OBVIOUS
  <2> HIDE DEF T
  <2> QED
    BY <1>1, <2>1, LeastNatural
<1>3. ASSUME NEW k \in Lane PROVE Current(k) = Row(e, k, 0)
  <2>1. k \in Int /\ Current(k) = At(e + k)
    BY <1>2, LaneFacts
  <2>2. 0 \in Int /\ Row(e, k, 0) = At(e + k)
    BY <2>1, Rows
  <2> QED
    BY <2>1, <2>2
<1> QED
  BY <1>3

(* Within a lane, the states are a round apart.                            *)
LEMMA LaneAt ==
    ASSUME TypeOK, LaneOrder, NEW e \in Int, NEW k \in Lane, NEW f \in Nat,
           Upcoming(k) = Row(e, k, f)
    PROVE  /\ \A j \in 1 .. Len(lane[k]) : lane[k][j] = Row(e, k, f + j - 1)
           /\ state[k] = Row(e, k, f + Len(lane[k]))
<1> DEFINE s == lane[k]
<1>0. k \in Int /\ s \in Seq(State)
  BY LaneFacts DEF TypeOK
<1>1. /\ \A j \in 1 .. Len(s) - 1 : s[j + 1] = Seek[s[j]]
      /\ s # <<>> => state[k] = Seek[s[Len(s)]]
      /\ s # <<>> => s[1] = Row(e, k, f)
      /\ s = <<>> => state[k] = Row(e, k, f)
  <2>1. s # <<>> => Head(s) = s[1]
    BY <1>0
  <2> QED
    BY <2>1 DEF LaneOrder, Upcoming
<1> HIDE DEF s
<1> DEFINE T == {j \in Nat : j \in 1 .. Len(s) /\ s[j] # Row(e, k, f + j - 1)}
<1>2. ASSUME NEW j \in T, \A i \in T : j <= i PROVE FALSE
  <2>1. CASE j = 1
    BY <1>0, <1>1, <2>1
  <2>2. CASE j # 1
    <3>1. j - 1 \in 1 .. Len(s) - 1 /\ j - 1 \in 1 .. Len(s) /\ j - 1 \in Nat
          /\ ~(j <= j - 1) /\ (j - 1) + 1 = j
      BY <1>0, <2>2
    <3>2. s[j - 1] = Row(e, k, f + (j - 1) - 1)
      BY <1>2, <3>1
    <3>3. s[j] = Seek[s[j - 1]]
      BY <1>1, <3>1
    <3>4. f + (j - 1) - 1 \in Int /\ f + (j - 1) - 1 + 1 = f + j - 1
      BY <3>1
    <3>5. Seek[Row(e, k, f + (j - 1) - 1)] = Row(e, k, f + (j - 1) - 1 + 1)
      BY <1>0, <3>4, Rows
    <3> QED
      BY <3>2, <3>3, <3>4, <3>5
  <2> QED
    BY <2>1, <2>2
<1>3. T = {}
  <2>1. T \in SUBSET Nat
    OBVIOUS
  <2> HIDE DEF T
  <2> QED
    BY <1>2, <2>1, LeastNatural
<1>4. \A j \in 1 .. Len(s) : s[j] = Row(e, k, f + j - 1)
  BY <1>0, <1>3
<1>5. state[k] = Row(e, k, f + Len(s))
  <2>1. CASE s = <<>>
    BY <1>1, <2>1
  <2>2. CASE s # <<>>
    <3> DEFINE n == Len(s)
    <3>1. n \in Nat \ {0}
      BY <1>0, <2>2
    <3>2. s[n] = Row(e, k, f + n - 1) /\ state[k] = Seek[s[n]]
      BY <1>1, <1>4, <2>2, <3>1
    <3> HIDE DEF n
    <3>3. f + n - 1 \in Int /\ f + n - 1 + 1 = f + n
      BY <3>1
    <3>4. Seek[Row(e, k, f + n - 1)] = Row(e, k, f + n - 1 + 1)
      BY <1>0, <3>3, Rows
    <3> QED
      BY <3>2, <3>3, <3>4 DEF n
  <2> QED
    BY <2>1, <2>2
<1> QED
  BY <1>4, <1>5 DEF s

(* The output link ends where the merge is.                                *)
LEMMA OutAt ==
    ASSUME TypeOK, OutOrder, NEW c \in Int, NextRoot = At(c)
    PROVE  \A j \in 1 .. Len(out) : out[j] = At(c - Len(out) + j - 1)
<1> DEFINE n == Len(out)
           T == {d \in Nat : d \in 0 .. n - 1 /\ out[n - d] # At(c - 1 - d)}
<1>0. n \in Nat /\ \A j \in 1 .. n : out[j] \in State
  BY DEF TypeOK
<1>1. /\ \A j \in 1 .. n - 1 : out[j + 1] = Step[out[j]]
      /\ n # 0 => At(c) = Step[out[n]]
  BY DEF OutOrder, TypeOK
<1> HIDE DEF n
<1>2. ASSUME NEW d \in T, \A b \in T : d <= b PROVE FALSE
  <2>0. n - d \in 1 .. n /\ out[n - d] \in State
    BY <1>0
  <2>1. CASE d = 0
    <3>1. Step[out[n]] = At(c) /\ out[n] \in State /\ n - d = n /\ c - 1 - d = c - 1
      BY <1>0, <1>1, <2>0, <2>1
    <3>2. out[n] = At(c - 1)
      BY <3>1, StepBack
    <3> QED
      BY <3>1, <3>2
  <2>2. CASE d # 0
    <3>1. d - 1 \in Nat /\ d - 1 \in 0 .. n - 1 /\ ~(d <= d - 1) /\ n - d \in 1 .. n - 1
          /\ n - (d - 1) = (n - d) + 1 /\ c - 1 - (d - 1) \in Int
          /\ c - 1 - (d - 1) - 1 = c - 1 - d
      BY <1>0, <2>2
    <3>2. out[n - (d - 1)] = At(c - 1 - (d - 1))
      BY <1>2, <3>1
    <3>3. Step[out[n - d]] = At(c - 1 - (d - 1))
      BY <1>1, <3>1, <3>2
    <3>4. out[n - d] = At(c - 1 - (d - 1) - 1)
      BY <2>0, <3>1, <3>3, StepBack
    <3> QED
      BY <3>1, <3>4
  <2> QED
    BY <2>1, <2>2
<1>3. T = {}
  <2>1. T \in SUBSET Nat
    OBVIOUS
  <2> HIDE DEF T
  <2> QED
    BY <1>2, <2>1, LeastNatural
<1>4. ASSUME NEW j \in 1 .. n PROVE out[j] = At(c - n + j - 1)
  <2>1. n - j \in Nat /\ n - j \in 0 .. n - 1 /\ n - (n - j) = j /\ c - 1 - (n - j) = c - n + j - 1
    BY <1>0
  <2>2. out[n - (n - j)] = At(c - 1 - (n - j))
    BY <1>3, <2>1
  <2> QED
    BY <2>1, <2>2
<1> QED
  BY <1>4 DEF n

LEMMA AllLocated ==
    ASSUME TypeOK, LeapfrogInv
    PROVE  \E e \in Int : Located(e)
<1>0. LaneOrder /\ ReadAhead /\ RoundOrder /\ OutOrder /\ pos \in 0 .. Lanes + Last
  BY DEF LeapfrogInv, TypeOK
<1>1. PICK e \in Int : Current(0) = At(e)
  BY UpcomingType, LaneFacts, AtIs
<1>2. \A k \in Lane : Current(k) = Row(e, k, 0)
  BY <1>0, <1>1, RoundAt
<1>3. ASSUME NEW k \in Lane PROVE Upcoming(k) = Row(e, k, FirstRow(k))
  <2>0. k \in Int /\ 0 \in Int
    BY LaneFacts
  <2>1. CASE k < pos
    <3>1. Upcoming(k) = Seek[Row(e, k, 0)]
      BY <1>0, <1>2, <2>1 DEF ReadAhead, Current
    <3>2. Seek[Row(e, k, 0)] = Row(e, k, 0 + 1)
      BY <2>0, Rows
    <3> QED
      BY <2>1, <3>1, <3>2 DEF FirstRow
  <2>2. CASE ~(k < pos)
    BY <1>2, <2>2 DEF Current, FirstRow
  <2> QED
    BY <2>1, <2>2
<1>4. ASSUME NEW k \in Lane
      PROVE  /\ \A j \in 1 .. Len(lane[k]) : lane[k][j] = Row(e, k, FirstRow(k) + j - 1)
             /\ state[k] = Row(e, k, FirstRow(k) + Len(lane[k]))
  <2>1. FirstRow(k) \in Nat
    BY DEF FirstRow
  <2> QED
    BY <1>0, <1>3, <2>1, LaneAt
<1>5. \A k \in Lane : k < pos => v[k] = Row(e, k, 0)
  BY <1>2 DEF Current
<1>6. NextRoot = At(e + Written)
  <2>1. CASE pos < Lanes
    BY <1>1, <2>1 DEF NextRoot, Written
  <2>2. CASE ~(pos < Lanes)
    <3>1. Written \in Lane /\ Written < pos /\ Written = pos - Lanes
      BY <1>0, <2>2, SizeAssumption DEF Written, Lane, Last
    <3>2. NextRoot = v[Written]
      BY <2>2, <3>1 DEF NextRoot
    <3>3. v[Written] = Row(e, Written, 0)
      BY <1>5, <3>1
    <3>4. Row(e, Written, 0) = At(e + Written)
      <4>1. Written \in Int /\ 0 \in Int
        BY <3>1, LaneFacts
      <4> QED
        BY <4>1, Rows
    <3> QED
      BY <3>2, <3>3, <3>4
  <2> QED
    BY <2>1, <2>2
<1>7. \A j \in 1 .. Len(out) : out[j] = At(e + Written - Len(out) + j - 1)
  <2>1. Written \in Int
    BY <1>0, LaneFacts DEF Written
  <2> DEFINE c == e + Written
  <2>2. c \in Int /\ NextRoot = At(c)
    BY <1>6, <2>1
  <2> HIDE DEF c
  <2>3. \A j \in 1 .. Len(out) : out[j] = At(c - Len(out) + j - 1)
    BY <1>0, <2>2, OutAt
  <2>4. ASSUME NEW j \in 1 .. Len(out)
        PROVE  out[j] = At(e + Written - Len(out) + j - 1)
    <3>1. c - Len(out) + j - 1 = e + Written - Len(out) + j - 1
      <4>1. e \in Int /\ Written \in Int /\ Len(out) \in Int /\ j \in Int
        BY <2>1 DEF TypeOK
      <4> QED
        BY <4>1 DEF c
    <3>2. out[j] = At(c - Len(out) + j - 1)
      BY <2>3
    <3> QED
      BY <3>1, <3>2, Zenon
  <2> QED
    BY <2>4
<1> QED
  BY <1>4, <1>5, <1>7 DEF Located

-----------------------------------------------------------------------------
(* The numbers of what is in flight.                                       *)
LowRow(k) == IF k \in Unwritten THEN 0 ELSE FirstRow(k)
HighRow(k) == FirstRow(k) + Len(lane[k])
OutNumbers(e) == e + Written - Len(out) .. e + Written - 1
LaneNumbers(e, k) == {e + k + m * Lanes : m \in LowRow(k) .. HighRow(k)}
LanesNumbers(e, K) == UNION {LaneNumbers(e, k) : k \in K}
Numbers(e) == OutNumbers(e) \cup LanesNumbers(e, Lane)

LEMMA RowFacts ==
    ASSUME TypeOK
    PROVE  /\ pos \in Nat /\ Written \in Nat /\ Written < Lanes
           /\ Len(out) \in Nat /\ Len(out) <= OutDepth /\ OutDepth \in Nat /\ Depth \in Nat
           /\ \A k \in Lane :
                  /\ k \in Nat /\ Len(lane[k]) \in Nat /\ Len(lane[k]) <= Depth
                  /\ FirstRow(k) \in {0, 1} /\ LowRow(k) \in 0 .. FirstRow(k)
                  /\ HighRow(k) \in FirstRow(k) .. Depth + 1
                  /\ FirstRow(k) = 0 => Written = 0
                  /\ LowRow(k) # FirstRow(k) => k \in Unwritten /\ LowRow(k) = 0
                  /\ LowRow(k) = 0 => k >= Written
                  /\ k \in Unwritten => k < pos /\ LowRow(k) = 0 /\ FirstRow(k) = 1
<1>1. pos \in 0 .. Lanes + Last /\ Lanes \in Nat \ {0} /\ Last = Lanes - 1
  BY SizeAssumption DEF TypeOK, Last
<1>2. Len(out) \in Nat /\ Len(out) <= OutDepth /\ OutDepth \in Nat /\ Depth \in Nat
  BY SizeAssumption DEF TypeOK
<1>3. Written \in Nat /\ Written < Lanes /\ pos \in Nat
  BY <1>1 DEF Written
<1>4. ASSUME NEW k \in Lane
      PROVE  /\ k \in Nat /\ Len(lane[k]) \in Nat /\ Len(lane[k]) <= Depth
             /\ FirstRow(k) \in {0, 1} /\ LowRow(k) \in 0 .. FirstRow(k)
             /\ HighRow(k) \in FirstRow(k) .. Depth + 1
             /\ FirstRow(k) = 0 => Written = 0
             /\ LowRow(k) # FirstRow(k) => k \in Unwritten /\ LowRow(k) = 0
             /\ LowRow(k) = 0 => k >= Written
             /\ k \in Unwritten => k < pos /\ LowRow(k) = 0 /\ FirstRow(k) = 1
  <2>1. k \in 0 .. Lanes - 1 /\ Len(lane[k]) \in Nat /\ Len(lane[k]) <= Depth
    BY <1>1 DEF TypeOK, Lane
  <2>2. k \in Unwritten <=> k < pos /\ pos - Lanes <= k
    BY DEF Unwritten
  <2>3. FirstRow(k) \in {0, 1} /\ (FirstRow(k) = 1 <=> k < pos)
    BY <1>3, <2>1 DEF FirstRow
  <2>4. HighRow(k) \in FirstRow(k) .. Depth + 1
    BY <1>2, <2>1, <2>3 DEF HighRow
  <2>5. /\ k \in Unwritten => LowRow(k) = 0
        /\ k \notin Unwritten => LowRow(k) = FirstRow(k)
    BY DEF LowRow
  <2>6. Written = IF pos < Lanes THEN 0 ELSE pos - Lanes
    BY DEF Written
  <2> QED
    BY <1>1, <1>3, <2>1, <2>2, <2>3, <2>4, <2>5, <2>6
<1> QED
  BY <1>2, <1>3, <1>4

LEMMA InFlightAt ==
    ASSUME TypeOK, NEW e \in Int, Located(e)
    PROVE  InFlight = {At(n) : n \in Numbers(e)}
<1> DEFINE A == {At(n) : n \in Numbers(e)}
           o == Len(out)
<1>0. /\ Written \in Nat /\ o \in Nat
      /\ \A x : x \in Range(out) <=> \E j \in 1 .. o : x = out[j]
  BY RowFacts DEF TypeOK, Range
<1>4. \A k \in Lane : \A x :
          x \in Range(lane[k]) <=> \E j \in 1 .. Len(lane[k]) : x = lane[k][j]
  BY DEF TypeOK, Range
<1>1. ASSUME NEW k \in Lane, NEW m \in LowRow(k) .. HighRow(k) PROVE Row(e, k, m) \in A
  BY <1>1 DEF Row, Numbers, LanesNumbers, LaneNumbers
<1>2. ASSUME NEW x \in InFlight PROVE x \in A
  <2>1. ASSUME NEW k \in Lane, x = state[k] PROVE x \in A
    <3>1. x = Row(e, k, HighRow(k)) /\ HighRow(k) \in LowRow(k) .. HighRow(k)
      BY <2>1, RowFacts DEF Located, HighRow
    <3> QED
      BY <1>1, <3>1
  <2>2. ASSUME NEW k \in Unwritten, x = v[k] PROVE x \in A
    <3>0. k \in Lane
      BY DEF Unwritten
    <3>1. k < pos /\ LowRow(k) = 0 /\ FirstRow(k) = 1 /\ HighRow(k) \in FirstRow(k) .. Depth + 1
      BY <3>0, RowFacts
    <3>2. 0 \in LowRow(k) .. HighRow(k)
      <4>1. Depth \in Nat
        BY SizeAssumption
      <4> QED
        BY <3>1, <4>1
    <3>3. v[k] = Row(e, k, 0)
      BY <3>0, <3>1 DEF Located
    <3> QED
      BY <1>1, <2>2, <3>0, <3>2, <3>3
  <2>3. ASSUME NEW k \in Lane, x \in Range(lane[k]) PROVE x \in A
    <3>1. PICK j \in 1 .. Len(lane[k]) : x = lane[k][j]
      BY <1>4, <2>3, Zenon
    <3>2. x = Row(e, k, FirstRow(k) + j - 1)
      BY <3>1 DEF Located
    <3>3. FirstRow(k) + j - 1 \in LowRow(k) .. HighRow(k)
      <4> DEFINE f == FirstRow(k)
                 l == LowRow(k)
                 n == Len(lane[k])
      <4>1. f \in {0, 1} /\ l \in 0 .. f /\ n \in Nat /\ j \in 1 .. n
        BY RowFacts
      <4> HIDE DEF f, l, n
      <4>2. f + j - 1 \in l .. f + n
        BY <4>1
      <4> QED
        BY <4>2 DEF f, l, n, HighRow
    <3> QED
      BY <1>1, <3>2, <3>3
  <2>4. ASSUME x \in Range(out) PROVE x \in A
    <3>1. PICK j \in 1 .. o : x = out[j]
      BY <1>0, <2>4
    <3>2. x = At(e + Written - o + j - 1)
      BY <3>1 DEF Located
    <3>3. e + Written - o + j - 1 \in e + Written - o .. e + Written - 1
      BY <1>0
    <3> QED
      BY <3>2, <3>3 DEF Numbers, OutNumbers
  <2> QED
    BY <1>2, <2>1, <2>2, <2>3, <2>4 DEF InFlight
<1>3. ASSUME NEW n \in Numbers(e) PROVE At(n) \in InFlight
  <2>1. CASE n \in OutNumbers(e)
    <3> DEFINE j == n - (e + Written - o) + 1
    <3>1. j \in 1 .. o /\ e + Written - o + j - 1 = n
      BY <1>0, <2>1 DEF OutNumbers
    <3>2. out[j] = At(e + Written - o + j - 1)
      BY <3>1 DEF Located
    <3>3. out[j] \in Range(out)
      BY <1>0, <3>1
    <3> QED
      BY <3>1, <3>2, <3>3 DEF InFlight
  <2>2. ASSUME NEW k \in Lane, NEW m \in LowRow(k) .. HighRow(k), n = e + k + m * Lanes
        PROVE  At(n) \in InFlight
    <3>1. At(n) = Row(e, k, m)
      BY <2>2 DEF Row
    <3>2. CASE m = HighRow(k)
      <4>1. state[k] = Row(e, k, m)
        BY <3>2 DEF Located, HighRow
      <4> QED
        BY <3>1, <4>1 DEF InFlight
    <3>3. CASE m # HighRow(k) /\ m >= FirstRow(k)
      <4> DEFINE j == m - FirstRow(k) + 1
      <4>1. j \in 1 .. Len(lane[k]) /\ FirstRow(k) + j - 1 = m
        <5> DEFINE f == FirstRow(k)
                   l == Len(lane[k])
                   h == HighRow(k)
        <5>1. /\ f \in Nat /\ l \in Nat /\ h = f + l
              /\ m \in Int /\ m <= h /\ m # h /\ m >= f
          <6>1. f \in {0, 1} /\ l \in Nat /\ LowRow(k) \in 0 .. f
            BY RowFacts
          <6> QED
            BY <3>3, <6>1 DEF HighRow
        <5> HIDE DEF f, l, h
        <5>2. m - f + 1 \in 1 .. l /\ f + (m - f + 1) - 1 = m
          BY <5>1
        <5> QED
          BY <5>2 DEF f, l
      <4>2. lane[k][j] = Row(e, k, FirstRow(k) + j - 1)
        BY <4>1 DEF Located
      <4>3. lane[k][j] \in Range(lane[k])
        BY <1>4, <4>1
      <4> QED
        BY <3>1, <4>1, <4>2, <4>3 DEF InFlight
    <3>4. CASE m # HighRow(k) /\ ~(m >= FirstRow(k))
      <4>1. m = 0 /\ k \in Unwritten /\ k < pos
        BY <3>4, RowFacts
      <4>2. v[k] = Row(e, k, 0)
        BY <4>1 DEF Located
      <4> QED
        BY <3>1, <4>1, <4>2 DEF InFlight
    <3> QED
      BY <3>2, <3>3, <3>4
  <2> QED
    BY <1>3, <2>1, <2>2 DEF Numbers, LanesNumbers, LaneNumbers
<1> QED
  BY <1>2, <1>3

-----------------------------------------------------------------------------
(* What is in flight is less than a period, so the numbers tell it apart.  *)
LEMMA LaneNumbersBounds ==
    ASSUME TypeOK, NEW e \in Int, NEW k \in Lane, NEW m \in LowRow(k) .. HighRow(k)
    PROVE  /\ m \in Nat /\ e + k + m * Lanes \in Int
           /\ e + k + m * Lanes >= e + Written
           /\ e + k + m * Lanes < e + Lanes * (Depth + 2)
<1> DEFINE L == Lanes
           w == Written
           d == Depth
           x == m * L
<1>1. /\ L \in Nat \ {0} /\ w \in Nat /\ w < L /\ d \in Nat /\ k \in Nat /\ k < L
  BY RowFacts, LaneFacts
<1>2. /\ m \in Nat /\ m <= d + 1 /\ (m = 0 => k >= w)
  <2>1. /\ LowRow(k) \in Nat /\ HighRow(k) \in Nat /\ HighRow(k) <= d + 1
        /\ (LowRow(k) = 0 => k >= w)
    BY RowFacts
  <2>2. m >= LowRow(k) /\ m <= HighRow(k) /\ m \in Int
    BY <2>1
  <2> HIDE DEF w, d
  <2> QED
    BY <1>1, <2>1, <2>2
<1> HIDE DEF L, w, d
<1>3. /\ x \in Nat /\ (m = 0 => x = 0) /\ (m # 0 => x >= L)
      /\ L * (d + 2) = (d + 1) * L + L
      /\ x <= (d + 1) * L
  <2>1. m # 0 => m * L >= 1 * L
    BY <1>1, <1>2
  <2>2. m * L <= (d + 1) * L
    BY <1>1, <1>2
  <2>3. m * L \in Nat /\ (m = 0 => m * L = 0)
    BY <1>1, <1>2
  <2>4. L * (d + 2) = (d + 1) * L + L
    BY <1>1
  <2> QED
    BY <1>1, <2>1, <2>2, <2>3, <2>4
<1> DEFINE y == (d + 1) * L
           z == L * (d + 2)
<1>4. y \in Nat /\ z = y + L /\ x <= y
  BY <1>1, <1>3
<1> HIDE DEF x, y, z
<1>5. e + k + x \in Int /\ e + k + x >= e + w /\ e + k + x < e + z
  BY <1>1, <1>2, <1>3, <1>4
<1> QED
  BY <1>2, <1>5 DEF x, z, L, w, d

LEMMA NumbersClose ==
    ASSUME TypeOK, NEW e \in Int
    PROVE  /\ Numbers(e) \subseteq Int
           /\ \A a, b \in Numbers(e) : a - b < Period
<1> DEFINE low == e + Written - Len(out)
           z == Lanes * (Depth + 2)
<1>0. /\ Written \in Nat /\ Len(out) \in Nat /\ Len(out) <= OutDepth /\ OutDepth \in Nat
      /\ Lanes \in Nat \ {0} /\ Depth \in Nat /\ Written < Lanes
  BY RowFacts, LaneFacts
<1>1. z \in Nat /\ Lanes <= z /\ OutDepth + z <= Period /\ Period \in Nat
  <2>1. Lanes * (Depth + 2) >= Lanes * 1
    BY <1>0
  <2> QED
    BY <1>0, <2>1, PeriodFacts
<1> HIDE DEF z
<1>2. low \in Int /\ low <= e + Written /\ low >= e - OutDepth
  BY <1>0
<1>3. ASSUME NEW n \in Numbers(e) PROVE n \in Int /\ n >= low /\ n < e + z
  <2>1. CASE n \in OutNumbers(e)
    <3>1. n \in low .. e + Written - 1
      BY <2>1 DEF OutNumbers
    <3> QED
      BY <1>0, <1>1, <1>2, <3>1
  <2>2. ASSUME NEW k \in Lane, NEW m \in LowRow(k) .. HighRow(k), n = e + k + m * Lanes
        PROVE  n \in Int /\ n >= low /\ n < e + z
    <3>1. n \in Int /\ n >= e + Written /\ n < e + z
      BY <2>2, LaneNumbersBounds DEF z
    <3> QED
      BY <1>0, <1>2, <3>1
  <2> QED
    BY <1>3, <2>1, <2>2 DEF Numbers, LanesNumbers, LaneNumbers
<1> HIDE DEF low
<1>4. ASSUME NEW a \in Numbers(e), NEW b \in Numbers(e) PROVE a - b < Period
  <2>1. a \in Int /\ b \in Int /\ a < e + z /\ b >= low
    BY <1>3
  <2> QED
    BY <1>0, <1>1, <1>2, <2>1
<1> QED
  BY <1>3, <1>4

LEMMA AsMany ==
    ASSUME TypeOK, NEW e \in Int, Located(e), IsFiniteSet(Numbers(e))
    PROVE  Cardinality(InFlight) = Cardinality(Numbers(e))
<1> DEFINE S == Numbers(e)
           T == {At(n) : n \in S}
           f == [n \in S |-> At(n)]
<1>1. \A a, b \in S : At(a) = At(b) => a = b
  <2> SUFFICES ASSUME NEW a \in S, NEW b \in S, At(a) = At(b) PROVE a = b
    OBVIOUS
  <2>1. a \in Int /\ b \in Int /\ a - b < Period /\ b - a < Period
    BY NumbersClose
  <2> QED
    BY <2>1, AtApart
<1> HIDE DEF S
<1>2. f \in Bijection(S, T)
  BY <1>1 DEF Bijection, Injection, Surjection, IsInjective
<1>3. ExistsBijection(S, T)
  BY <1>2 DEF ExistsBijection
<1>4. Cardinality(T) = Cardinality(S)
  <2> HIDE DEF T
  <2> QED
    BY <1>3, FS_Bijection DEF S
<1> QED
  BY <1>4, InFlightAt DEF S

(* No two lanes have a number in common, nor a lane and the output link.   *)
LEMMA LanesApart ==
    ASSUME TypeOK, NEW e \in Int, NEW k \in Lane, NEW j \in Lane, k # j
    PROVE  LaneNumbers(e, k) \cap LaneNumbers(e, j) = {}
<1> SUFFICES ASSUME NEW m \in LowRow(k) .. HighRow(k), NEW n \in LowRow(j) .. HighRow(j),
                    e + k + m * Lanes = e + j + n * Lanes
             PROVE  FALSE
  BY DEF LaneNumbers
<1>1. m \in Int /\ n \in Int /\ Lanes \in Nat \ {0} /\ k \in 0 .. Lanes - 1 /\ j \in 0 .. Lanes - 1
  BY LaneFacts, LaneNumbersBounds DEF Lane
<1>2. Lanes * m + k = Lanes * n + j
  BY <1>1
<1>3. k = j
  BY <1>1, <1>2, SameRemainder
<1> QED
  BY <1>3

LEMMA OutApart ==
    ASSUME TypeOK, NEW e \in Int, NEW k \in Lane
    PROVE  OutNumbers(e) \cap LaneNumbers(e, k) = {}
<1> SUFFICES ASSUME NEW m \in LowRow(k) .. HighRow(k), e + k + m * Lanes \in OutNumbers(e)
             PROVE  FALSE
  BY DEF LaneNumbers
<1> DEFINE n == e + k + m * Lanes
<1>1. n \in Int /\ n >= e + Written
  BY LaneNumbersBounds
<1>2. n \in e + Written - Len(out) .. e + Written - 1
  BY DEF OutNumbers
<1>3. Written \in Nat /\ Len(out) \in Nat
  BY RowFacts
<1> HIDE DEF n
<1> QED
  BY <1>1, <1>2, <1>3

(* How many there are: on the output link ...                              *)
LEMMA OutCount ==
    ASSUME TypeOK, NEW e \in Int
    PROVE  IsFiniteSet(OutNumbers(e)) /\ Cardinality(OutNumbers(e)) = Len(out)
<1> DEFINE a == e + Written - Len(out)
           b == e + Written - 1
<1>1. a \in Int /\ b \in Int /\ Len(out) \in Nat /\ b - a + 1 = Len(out)
  BY RowFacts
<1>2. OutNumbers(e) = a .. b
  BY DEF OutNumbers
<1> HIDE DEF a, b
<1>3. IsFiniteSet(a .. b) /\ Cardinality(a .. b) = IF a > b THEN 0 ELSE b - a + 1
  BY <1>1, FS_Interval
<1> QED
  BY <1>1, <1>2, <1>3

(* ... and on a lane: its link, its updater, and its part of the buffer.   *)
LEMMA LaneCount ==
    ASSUME TypeOK, NEW e \in Int, NEW k \in Lane
    PROVE  /\ IsFiniteSet(LaneNumbers(e, k))
           /\ Cardinality(LaneNumbers(e, k)) =
                  Len(lane[k]) + 1 + (IF k \in Unwritten THEN 1 ELSE 0)
<1> DEFINE a == LowRow(k)
           b == HighRow(k)
           S == a .. b
           Number(m) == e + k + m * Lanes
           f == [m \in S |-> Number(m)]
           T == {Number(m) : m \in S}
<1>1. /\ a \in Int /\ b \in Int /\ b >= a
      /\ b - a + 1 = Len(lane[k]) + 1 + (IF k \in Unwritten THEN 1 ELSE 0)
  <2> DEFINE g == FirstRow(k)
             l == Len(lane[k])
  <2>1. /\ l \in Nat /\ g \in {0, 1} /\ b = g + l
        /\ k \in Unwritten => a = 0 /\ g = 1
        /\ k \notin Unwritten => a = g
    BY RowFacts DEF HighRow, LowRow
  <2> HIDE DEF g, l, a, b
  <2>2. /\ a \in Int /\ b \in Int /\ b >= a
        /\ b - a + 1 = l + 1 + (IF k \in Unwritten THEN 1 ELSE 0)
    BY <2>1
  <2> QED
    BY <2>2 DEF l
<1>2. LaneNumbers(e, k) = T
  BY DEF LaneNumbers
<1>3. \A m, n \in S : Number(m) = Number(n) => m = n
  <2> SUFFICES ASSUME NEW m \in S, NEW n \in S, Number(m) = Number(n) PROVE m = n
    OBVIOUS
  <2> DEFINE L == Lanes
  <2>1. m \in Int /\ n \in Int /\ L \in Nat \ {0} /\ k \in Int /\ m * L = n * L
    <3>1. m \in Int /\ n \in Int /\ L \in Nat \ {0} /\ k \in Int
      BY <1>1, LaneFacts
    <3> HIDE DEF S, L
    <3>2. e + k + m * L = e + k + n * L
      BY DEF L
    <3> QED
      BY <3>1, <3>2
  <2> HIDE DEF S, L
  <2>2. m < n => m * L < n * L
    <3> SUFFICES ASSUME m < n PROVE m * L < n * L
      OBVIOUS
    <3>1. (m + 1) * L <= n * L /\ (m + 1) * L = m * L + L
      BY <2>1
    <3> QED
      BY <2>1, <3>1
  <2>3. n < m => n * L < m * L
    <3> SUFFICES ASSUME n < m PROVE n * L < m * L
      OBVIOUS
    <3>1. (n + 1) * L <= m * L /\ (n + 1) * L = n * L + L
      BY <2>1
    <3> QED
      BY <2>1, <3>1
  <2> QED
    BY <2>1, <2>2, <2>3
<1>4. IsFiniteSet(S) /\ Cardinality(S) = b - a + 1
  <2> HIDE DEF a, b
  <2>1. IsFiniteSet(S) /\ Cardinality(S) = IF a > b THEN 0 ELSE b - a + 1
    BY <1>1, FS_Interval
  <2> QED
    BY <1>1, <2>1
<1> HIDE DEF S, Number
<1>5. f \in Bijection(S, T)
  BY <1>3 DEF Bijection, Injection, Surjection, IsInjective
<1>6. ExistsBijection(S, T)
  BY <1>5 DEF ExistsBijection
<1>7. IsFiniteSet(T) /\ Cardinality(T) = Cardinality(S)
  <2> HIDE DEF T
  <2> QED
    BY <1>4, <1>6, FS_Bijection
<1> QED
  BY <1>1, <1>2, <1>4, <1>7

-----------------------------------------------------------------------------
(* What is on the links, added up.                                         *)
OnLinks == MapThenSumSet(LAMBDA k : Len(lane[k]), Lane)

LEMMA LinksSum ==
    ASSUME TypeOK
    PROVE  \E g : /\ OnLinks = g[Lane] /\ g[{}] = 0
                  /\ \A m \in Lane : /\ g[0 .. m - 1] \in Nat
                                     /\ g[0 .. m] = Len(lane[m]) + g[0 .. m - 1]
<1> DEFINE F == [k \in Lane |-> Len(lane[k])]
<1>1. F \in [Lane -> Nat]
  BY RowFacts
<1>2. IsFiniteSet(Lane)
  BY LaneFacts, FS_Interval DEF Lane
<1>3. ASSUME NEW g
      PROVE  Sums(g, F, Lane) <=>
                 g = [u \in SUBSET Lane |->
                        IF u = {} THEN 0
                        ELSE LET x == CHOOSE x \in u : TRUE
                             IN  Len(lane[x]) + g[u \ {x}]]
  BY DEF Sums
<1> DEFINE g == CHOOSE g : g = [u \in SUBSET Lane |->
                        IF u = {} THEN 0
                        ELSE LET x == CHOOSE x \in u : TRUE
                             IN  Len(lane[x]) + g[u \ {x}]]
<1>4. OnLinks = g[Lane]
  BY DEF OnLinks, MapThenSumSet, MapThenFoldSet
<1>5. Sums(g, F, Lane)
  <2>1. \E h : Sums(h, F, Lane)
    <3> HIDE DEF F
    <3> QED
      BY <1>2, SumsExist
  <2>2. \E h : h = [u \in SUBSET Lane |->
                        IF u = {} THEN 0
                        ELSE LET x == CHOOSE x \in u : TRUE
                             IN  Len(lane[x]) + h[u \ {x}]]
    <3> HIDE DEF F
    <3>1. PICK h : Sums(h, F, Lane)
      BY <2>1
    <3>2. h = [u \in SUBSET Lane |->
                 IF u = {} THEN 0
                 ELSE LET x == CHOOSE x \in u : TRUE
                      IN  Len(lane[x]) + h[u \ {x}]]
      BY <1>3, <3>1
    <3> QED
      BY <3>2
  <2>3. g = [u \in SUBSET Lane |->
                IF u = {} THEN 0
                ELSE LET x == CHOOSE x \in u : TRUE
                     IN  Len(lane[x]) + g[u \ {x}]]
    BY <2>2
  <2> HIDE DEF g, F
  <2> QED
    BY <1>3, <2>3
<1> HIDE DEF g
<1>6. /\ g[{}] = 0
      /\ \A u \in SUBSET Lane : g[u] \in Nat
      /\ \A u \in SUBSET Lane : \A k \in u : g[u] = F[k] + g[u \ {k}]
  <2> HIDE DEF F
  <2> QED
    BY <1>1, <1>2, <1>5, SumsAny
<1>7. ASSUME NEW m \in Lane
      PROVE  g[0 .. m - 1] \in Nat /\ g[0 .. m] = Len(lane[m]) + g[0 .. m - 1]
  <2>1. /\ 0 .. m \in SUBSET Lane /\ 0 .. m - 1 \in SUBSET Lane /\ m \in 0 .. m
        /\ (0 .. m) \ {m} = 0 .. m - 1
    BY LaneFacts DEF Lane
  <2>2. F[m] = Len(lane[m])
    OBVIOUS
  <2> HIDE DEF F
  <2>3. g[0 .. m - 1] \in Nat /\ g[0 .. m] = F[m] + g[(0 .. m) \ {m}]
    <3>1. g[0 .. m - 1] \in Nat
      BY <1>6, <2>1, Zenon
    <3>2. g[0 .. m] = F[m] + g[(0 .. m) \ {m}]
      BY <1>6, <2>1, Zenon
    <3> QED
      BY <3>1, <3>2
  <2> QED
    BY <2>1, <2>2, <2>3
<1> QED
  BY <1>4, <1>6, <1>7

(* The lanes in front of lane n hold n updaters, what is on their links    *)
(* and what is in their part of the buffer.                                *)
LEMMA LanesCount ==
    ASSUME TypeOK, NEW e \in Int
    PROVE  /\ IsFiniteSet(LanesNumbers(e, Lane))
           /\ Cardinality(LanesNumbers(e, Lane)) = Lanes + OnLinks + Cardinality(Unwritten)
<1>0. PICK g : /\ OnLinks = g[Lane] /\ g[{}] = 0
               /\ \A m \in Lane : /\ g[0 .. m - 1] \in Nat
                                  /\ g[0 .. m] = Len(lane[m]) + g[0 .. m - 1]
  BY LinksSum
<1> DEFINE K(n) == 0 .. n - 1
           N(n) == LanesNumbers(e, K(n))
           U(n) == Unwritten \cap K(n)
           Good(n) == /\ IsFiniteSet(N(n)) /\ IsFiniteSet(U(n))
                      /\ g[K(n)] \in Nat
                      /\ Cardinality(N(n)) = n + g[K(n)] + Cardinality(U(n))
           T == {n \in Nat : n <= Lanes /\ ~Good(n)}
<1>1. Good(0)
  <2>1. K(0) = {}
    OBVIOUS
  <2>2. N(0) = {} /\ U(0) = {}
    BY <2>1 DEF LanesNumbers
  <2>3. g[K(0)] = 0 /\ IsFiniteSet({}) /\ Cardinality({}) = 0
    BY <1>0, <2>1, FS_EmptySet
  <2> HIDE DEF K, N, U
  <2> QED
    BY <2>2, <2>3
<1>2. ASSUME NEW m \in Lane, Good(m) PROVE Good(m + 1)
  <2>1. /\ m \in Nat /\ K(m + 1) = K(m) \cup {m} /\ K(m + 1) = 0 .. m /\ m \notin K(m)
        /\ K(m) \subseteq Lane
    BY LaneFacts DEF Lane
  <2> HIDE DEF K
  <2>2. N(m + 1) = N(m) \cup LaneNumbers(e, m)
    BY <2>1 DEF LanesNumbers
  <2>3. N(m) \cap LaneNumbers(e, m) = {}
    <3>1. \A k \in K(m) : LaneNumbers(e, k) \cap LaneNumbers(e, m) = {}
      BY <2>1, LanesApart
    <3> QED
      BY <3>1 DEF LanesNumbers
  <2>4. /\ IsFiniteSet(LaneNumbers(e, m))
        /\ Cardinality(LaneNumbers(e, m)) = Len(lane[m]) + 1 + (IF m \in Unwritten THEN 1 ELSE 0)
    BY LaneCount
  <2>5. /\ IsFiniteSet(N(m + 1))
        /\ Cardinality(N(m + 1)) = Cardinality(N(m)) + Cardinality(LaneNumbers(e, m))
    <3> DEFINE A == N(m)
               B == LaneNumbers(e, m)
    <3>1. IsFiniteSet(A) /\ IsFiniteSet(B) /\ A \cap B = {} /\ N(m + 1) = A \cup B
      BY <1>2, <2>2, <2>3, <2>4
    <3>2. Cardinality(A) \in Nat /\ Cardinality(B) \in Nat
      BY <3>1, FS_CardinalityType
    <3> HIDE DEF A, B, N
    <3>3. /\ IsFiniteSet(A \cup B)
          /\ Cardinality(A \cup B) = Cardinality(A) + Cardinality(B) - Cardinality(A \cap B)
      BY <3>1, FS_Union
    <3>4. Cardinality(A \cap B) = 0
      BY <3>1, FS_EmptySet
    <3> DEFINE C == A \cup B
    <3>5. IsFiniteSet(C) /\ Cardinality(C) = Cardinality(A) + Cardinality(B)
      BY <3>2, <3>3, <3>4
    <3> HIDE DEF C
    <3>6. N(m + 1) = C
      BY <3>1 DEF C
    <3> QED
      BY <3>5, <3>6 DEF A, B
  <2>6. /\ IsFiniteSet(U(m + 1))
        /\ Cardinality(U(m + 1)) = Cardinality(U(m)) + (IF m \in Unwritten THEN 1 ELSE 0)
    <3> DEFINE A == U(m)
    <3>1. IsFiniteSet(A) /\ m \notin A
      BY <1>2, <2>1
    <3>2. Cardinality(A) \in Nat
      BY <3>1, FS_CardinalityType
    <3>3. U(m + 1) = IF m \in Unwritten THEN A \cup {m} ELSE A
      BY <2>1
    <3> HIDE DEF A, U
    <3>4. IsFiniteSet(A \cup {m}) /\ Cardinality(A \cup {m}) = Cardinality(A) + 1
      BY <3>1, FS_AddElement
    <3>5. IsFiniteSet(U(m + 1))
          /\ Cardinality(U(m + 1)) = Cardinality(A) + (IF m \in Unwritten THEN 1 ELSE 0)
      BY <3>1, <3>2, <3>3, <3>4
    <3> QED
      BY <3>5 DEF A
  <2>7. g[K(m)] \in Nat /\ g[K(m + 1)] = Len(lane[m]) + g[K(m)]
    BY <1>0, <1>2, <2>1 DEF K
  <2> DEFINE a == Cardinality(N(m))
             b == Cardinality(U(m))
             l == Len(lane[m])
             i == IF m \in Unwritten THEN 1 ELSE 0
             a2 == Cardinality(N(m + 1))
             b2 == Cardinality(U(m + 1))
             h == g[K(m)]
             h2 == g[K(m + 1)]
  <2>8. /\ b \in Nat /\ l \in Nat /\ i \in Nat /\ h \in Nat
        /\ a = m + h + b /\ a2 = a + (l + 1 + i) /\ b2 = b + i /\ h2 = l + h
    BY <1>2, <2>4, <2>5, <2>6, <2>7, RowFacts, FS_CardinalityType
  <2>9. h2 \in Nat /\ a2 = (m + 1) + h2 + b2
    <3> HIDE DEF a, b, l, i, a2, b2, h, h2
    <3> QED
      BY <2>1, <2>8
  <2> QED
    BY <2>5, <2>6, <2>9
<1>3. ASSUME NEW n \in T, \A m \in T : n <= m PROVE FALSE
  <2>1. n # 0
    BY <1>1
  <2>2. n - 1 \in Nat /\ n - 1 \in Lane /\ ~(n <= n - 1) /\ n - 1 <= Lanes /\ (n - 1) + 1 = n
    BY <2>1, LaneFacts DEF Lane
  <2> HIDE DEF Good
  <2>3. n - 1 \notin T
    BY <1>3, <2>2
  <2>4. Good(n - 1)
    BY <2>2, <2>3
  <2>5. Good((n - 1) + 1)
    BY <1>2, <2>2, <2>4
  <2> QED
    BY <2>2, <2>5
<1>4. T = {}
  <2>1. T \in SUBSET Nat
    OBVIOUS
  <2> HIDE DEF T
  <2> QED
    BY <1>3, <2>1, LeastNatural
<1>5. Good(Lanes)
  <2> HIDE DEF Good
  <2> QED
    BY <1>4, LaneFacts
<1>6. K(Lanes) = Lane /\ U(Lanes) = Unwritten
  BY DEF Lane, Unwritten
<1> QED
  BY <1>0, <1>5, <1>6

LEMMA TwiceNowhere == TypeOK /\ LeapfrogInv => NothingTwice
<1> SUFFICES ASSUME TypeOK, LeapfrogInv PROVE NothingTwice
  OBVIOUS
<1>1. PICK e \in Int : Located(e)
  BY AllLocated
<1> DEFINE A == OutNumbers(e)
           B == LanesNumbers(e, Lane)
<1>2. IsFiniteSet(A) /\ Cardinality(A) = Len(out)
  BY OutCount
<1>3. /\ IsFiniteSet(B)
      /\ Cardinality(B) = Lanes + OnLinks + Cardinality(Unwritten)
  BY LanesCount
<1>4. A \cap B = {}
  BY OutApart DEF LanesNumbers
<1>5. IsFiniteSet(A \cup B) /\ Cardinality(A \cup B) = Cardinality(A) + Cardinality(B)
  <2> HIDE DEF A, B
  <2>1. /\ IsFiniteSet(A \cup B)
        /\ Cardinality(A \cup B) = Cardinality(A) + Cardinality(B) - Cardinality(A \cap B)
    BY <1>2, <1>3, FS_Union
  <2>2. Cardinality(A) \in Nat /\ Cardinality(B) \in Nat /\ Cardinality(A \cap B) = 0
    BY <1>2, <1>3, <1>4, FS_CardinalityType, FS_EmptySet
  <2> QED
    BY <2>1, <2>2
<1>6. Cardinality(InFlight) = Cardinality(A \cup B)
  BY <1>1, <1>5, AsMany DEF Numbers
<1>7. Cardinality(B) \in Nat /\ Cardinality(A) \in Nat
  BY <1>2, <1>3, FS_CardinalityType
<1> HIDE DEF A, B
<1>8. Cardinality(InFlight) = Cardinality(B) + Len(out)
  BY <1>2, <1>5, <1>6, <1>7
<1>9. SlotsInUse = Lanes + OnLinks + Cardinality(Unwritten) + Len(out)
  BY DEF SlotsInUse, OnLinks
<1> QED
  BY <1>3, <1>8, <1>9 DEF NothingTwice

(* Wherever the kernels are, the updaters, the links, the merge buffer and *)
(* the output link hold as many different states as they have room in use: *)
(* none is lost to a duplicate (Spec, for every number of lanes, capacity  *)
(* and generator of full period).                                          *)
THEOREM StatesOnce == Spec => []NothingTwice
<1>1. TypeOK /\ LeapfrogInv => NothingTwice
  BY TwiceNowhere
<1>2. QED
  BY <1>1, TypeCorrect, LeapfrogCorrect, PTL

=============================================================================
