--------------------------- MODULE RootGenerator ---------------------------
(***************************************************************************)
(* The root state generation unit (fpga/rng/src/rsgu): one updater kernel  *)
(* per lane, each advancing the generator by as many steps as there are    *)
(* lanes, and the merge kernel that interleaves the lanes into the root    *)
(* sequence.  All kernels are free running (ap_ctrl_none) and communicate  *)
(* only through bounded streams with blocking reads and writes.            *)
(*                                                                         *)
(* The 64-bit arithmetic is behind two functions: Step is one transition   *)
(* of the generator, Seek the transition with RNG_A_SEEKED and             *)
(* RNG_INC_SEEKED.  SeekAssumption is all that the design needs of them    *)
(* and of the seeds; Lcg64 checks it of the constants in init_state.h.     *)
(***************************************************************************)
EXTENDS Streams, FiniteSets, FiniteSetsExt, Functions

CONSTANTS Lanes,     (* number of updaters: BREAK_NUM                       *)
          Depth,     (* capacity of the link between an updater and the merge *)
          OutDepth,  (* capacity of the link from the merge to the first SOU  *)
          State,     (* the root states                                     *)
          Step,      (* RNG_A, RNG_INC:               [State -> State]      *)
          Seek,      (* RNG_A_SEEKED, RNG_INC_SEEKED: [State -> State]      *)
          InitState, (* INIT_STATE_k for every lane k                       *)
          Period,    (* the period of the generator: 2^64                   *)
          RootAt,    (* the states in the order in which it goes through    *)
                     (* them:          [0 .. Period - 1 -> State]           *)
          NoVal      (* an uninitialised element of the merge buffer        *)

Lane == 0 .. Lanes - 1
Last == Lanes - 1

ASSUME SizeAssumption ==
    /\ Lanes \in Nat \ {0}
    /\ Depth \in Nat \ {0}
    /\ OutDepth \in Nat \ {0}

ASSUME StateAssumption ==
    /\ Step \in [State -> State]
    /\ Seek \in [State -> State]
    /\ InitState \in [Lane -> State]
    /\ NoVal \notin State

(* The lanes start one step apart, a seek from the first lane lands one     *)
(* step after the last lane, and stepping and seeking commute.             *)
ASSUME SeekAssumption ==
    /\ \A k \in 1 .. Last : InitState[k] = Step[InitState[k - 1]]
    /\ Seek[InitState[0]] = Step[InitState[Last]]
    /\ \A s \in State : Step[Seek[s]] = Seek[Step[s]]

(* The generator goes through all states before it repeats one, and that   *)
(* takes longer than filling the unit.  (A multiplier that is 1 modulo 4   *)
(* and an odd increment give a period of 2^64: Lcg64_proofs.)              *)
ASSUME PeriodAssumption ==
    /\ Period \in Nat /\ OutDepth + Lanes * (Depth + 2) <= Period
    /\ RootAt \in [0 .. Period - 1 -> State]
    /\ \A s \in State : \E n \in 0 .. Period - 1 : RootAt[n] = s
    /\ \A m, n \in 0 .. Period - 1 : RootAt[m] = RootAt[n] => m = n
    /\ RootAt[0] = InitState[0]
    /\ \A n \in 0 .. Period - 1 : RootAt[(n + 1) % Period] = Step[RootAt[n]]

VARIABLES state,     (* the static variable "state" of every updater       *)
          lane,      (* in0 .. in8: the links from the updaters to the merge *)
          v,         (* the buffer of the merge kernel                     *)
          pos,       (* the next access of the merge: read lane pos while  *)
                     (* pos < Lanes, then write v[pos - Lanes]             *)
          out        (* the link from the merge to the first output unit   *)

vars == <<state, lane, v, pos, out>>

-----------------------------------------------------------------------------
(* Slips an updater could make: ignore that the link is full, advance by   *)
(* one step instead of a seek, or not advance at all.                      *)
UpdateUnchecked(k) ==
    /\ lane' = [lane EXCEPT ![k] = Append(@, state[k])]
    /\ state' = [state EXCEPT ![k] = Seek[@]]
    /\ UNCHANGED <<v, pos, out>>

UpdateByStep(k) ==
    /\ CanWrite(lane[k], Depth)
    /\ lane' = [lane EXCEPT ![k] = Append(@, state[k])]
    /\ state' = [state EXCEPT ![k] = Step[@]]
    /\ UNCHANGED <<v, pos, out>>

UpdateStuck(k) ==
    /\ CanWrite(lane[k], Depth)
    /\ lane' = [lane EXCEPT ![k] = Append(@, state[k])]
    /\ UNCHANGED <<state, v, pos, out>>

(* ssrng_state_update_k: write the old state, keep the seeked one.         *)
Update(k) ==
    /\ CanWrite(lane[k], Depth)
    /\ lane' = [lane EXCEPT ![k] = Append(@, state[k])]
    /\ state' = [state EXCEPT ![k] = Seek[@]]
    /\ UNCHANGED <<v, pos, out>>

(* ssrng_state_merge reads one element of every lane, in lane order ...    *)
MergeRead ==
    /\ pos \in Lane
    /\ CanRead(lane[pos])
    /\ v' = [v EXCEPT ![pos] = Head(lane[pos])]
    /\ lane' = [lane EXCEPT ![pos] = Tail(@)]
    /\ pos' = pos + 1
    /\ UNCHANGED <<state, out>>

(* A slip: the loop of writes ends one element early.                      *)
MergeWriteShort ==
    /\ pos >= Lanes
    /\ CanWrite(out, OutDepth)
    /\ out' = Append(out, v[pos - Lanes])
    /\ IF pos + 1 >= Lanes + Last
       THEN pos' = 0 /\ v' = [k \in Lane |-> NoVal]
       ELSE pos' = pos + 1 /\ UNCHANGED v
    /\ UNCHANGED <<state, lane>>

(* ... and then writes them in the same order.  The buffer is local to the *)
(* loop body: the next iteration starts with a fresh one.                  *)
MergeWrite ==
    /\ pos >= Lanes
    /\ CanWrite(out, OutDepth)
    /\ out' = Append(out, v[pos - Lanes])
    /\ IF pos = Lanes + Last
       THEN pos' = 0 /\ v' = [k \in Lane |-> NoVal]
       ELSE pos' = pos + 1 /\ UNCHANGED v
    /\ UNCHANGED <<state, lane>>

(* The first output unit reads a root state.                               *)
Consume ==
    /\ CanRead(out)
    /\ out' = Tail(out)
    /\ UNCHANGED <<state, lane, v, pos>>

Init ==
    /\ state = InitState
    /\ lane = [k \in Lane |-> <<>>]
    /\ v = [k \in Lane |-> NoVal]
    /\ pos = 0
    /\ out = <<>>

Next ==
    \/ \E k \in Lane : Update(k)
    \/ MergeRead
    \/ MergeWrite
    \/ Consume

(* The kernels are free running and the output unit keeps reading: each of *)
(* them takes a step that stays possible.                                  *)
Fairness ==
    /\ \A k \in Lane : WF_vars(Update(k))
    /\ WF_vars(MergeRead)
    /\ WF_vars(MergeWrite)
    /\ WF_vars(Consume)

Spec == Init /\ [][Next]_vars /\ Fairness

-----------------------------------------------------------------------------
TypeOK ==
    /\ state \in [Lane -> State]
    /\ lane \in [Lane -> Seq(State)]
    /\ \A k \in Lane : Len(lane[k]) <= Depth
    /\ v \in [Lane -> State \cup {NoVal}]
    /\ \A k \in Lane : k < pos => v[k] \in State
    /\ pos \in 0 .. Lanes + Last
    /\ out \in Seq(State)
    /\ Len(out) <= OutDepth

(* The value the merge will read next from lane k: the oldest one on the   *)
(* link, or the one the updater is about to write.                         *)
Upcoming(k) == IF lane[k] = <<>> THEN state[k] ELSE Head(lane[k])

(* The contribution of lane k to the round the merge is in.                *)
Current(k) == IF k < pos THEN v[k] ELSE Upcoming(k)

(* The root state that is written next.                                    *)
NextRoot == IF pos < Lanes THEN Current(0) ELSE v[pos - Lanes]

(* Every lane carries the states of its updater a seek apart, none lost or *)
(* repeated, up to the state the updater holds.                            *)
LaneOrder ==
    \A k \in Lane :
        /\ \A i \in 1 .. Len(lane[k]) - 1 : lane[k][i + 1] = Seek[lane[k][i]]
        /\ lane[k] # <<>> => state[k] = Seek[lane[k][Len(lane[k])]]

(* The lanes that run ahead of the round are exactly one round ahead.      *)
ReadAhead == \A k \in Lane : k < pos => Upcoming(k) = Seek[v[k]]

(* However far the updaters have run ahead of each other, the round that   *)
(* the merge assembles is one contiguous piece of the root sequence, and   *)
(* the piece after it starts where this one ends.                          *)
RoundOrder ==
    /\ \A k \in 1 .. Last : Current(k) = Step[Current(k - 1)]
    /\ Seek[Current(0)] = Step[Current(Last)]

(* The output stream is a contiguous piece of the root sequence, and the   *)
(* merge continues it.                                                     *)
OutOrder ==
    /\ \A i \in 1 .. Len(out) - 1 : out[i + 1] = Step[out[i]]
    /\ out # <<>> => NextRoot = Step[out[Len(out)]]

(* The interleaving of the lanes is the sequential root sequence, wherever *)
(* the kernels of the unit happen to be (ssrng_state_merge.cpp, loops of   *)
(* reads and writes).                                                      *)
LeapfrogInv == LaneOrder /\ ReadAhead /\ RoundOrder /\ OutOrder

(* The elements of the merge buffer that were read and not yet written.    *)
Unwritten == {k \in Lane : k < pos /\ pos - Lanes <= k}

SlotsInUse == Lanes + MapThenSumSet(LAMBDA k : Len(lane[k]), Lane)
                    + Cardinality(Unwritten) + Len(out)

InFlight == {state[k] : k \in Lane} \cup {v[k] : k \in Unwritten}
                \cup (UNION {Range(lane[k]) : k \in Lane}) \cup Range(out)

(* No root state is held, queued or buffered in two places at once: two    *)
(* output streams never share a state.                                     *)
NothingTwice == Cardinality(InFlight) = SlotsInUse

(* Every state of the period is delivered over and over: neither a lane    *)
(* nor the wrap-around of the generator makes the unit skip a state for    *)
(* good, and no interleaving of the kernels locks it up.                   *)
FullPeriod == \A s \in State : []<>(out # <<>> /\ Head(out) = s)

(* The unit implements one sequential generator.                           *)
Root == INSTANCE SequentialRoot WITH next <- NextRoot, FirstState <- InitState[0]

SequentialOrder == Root!Spec

=============================================================================
