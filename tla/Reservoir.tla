----------------------------- MODULE Reservoir -----------------------------
(***************************************************************************)
(* The sampling of triangles in a stream of edges (misc/data_flow.cpp): a  *)
(* dataflow region whose loops all make Size iterations and meet only in   *)
(* small streams.  The edges are put together from two arrays and go down  *)
(* a chain of reservoir_sampling stages.  Beside them, on streams of their *)
(* own, go the root state of the generator, the decision which stage is to *)
(* start over, and the sum that the stages add to.                         *)
(*                                                                         *)
(* A root state is its position in the root sequence.  Of each, the        *)
(* kernel uses two numbers, r for the first edge and r2 for the second.    *)
(***************************************************************************)
EXTENDS Streams, Integers, FiniteSets, FiniteSetsExt

CONSTANTS E_NUM,     (* streams of each kind; a chain of E_NUM - 1 stages    *)
          Depth,     (* capacity of a stream (2 in the code)                 *)
          Size,      (* DATA_SIZE                                            *)
          Word,      (* 2^32: a word is an element of 0 .. Word - 1          *)
          Run,       (* the inputs: memory s and d, and the numbers r and r2 *)
          NoEdge     (* an uninitialised edge                                *)

Index == 0 .. Size - 1
Words == 0 .. Word - 1
Edge == [s : Words, d : Words]

ASSUME SizeAssumption ==
    /\ E_NUM \in Nat \ {0, 1} /\ {Depth, Size} \subseteq Nat \ {0}
    /\ Word \in Nat /\ Size < Word
    /\ NoEdge \notin Edge

(* No sum reaches 2^32.                                                    *)
ASSUME SumAssumption == (E_NUM - 1) * Size <= Word

ASSUME RunAssumption ==
    Run \subseteq [s : [Index -> Words], d : [Index -> Words],
                   r : [Index -> Words], r2 : [Index -> Words]]

Stage == 0 .. E_NUM - 2
Link == 0 .. E_NUM - 1
Kind == {"res", "edge", "state", "fe"}
Feed == {"s_stream", "d_stream", "primary"}
Loop == {"read_s", "read_d", "merge", "dummy", "update", "first",
         "sink_edge", "sink_state", "sink_fe", "write"}

VARIABLES run,       (* the input of this launch                             *)
          i,         (* the iteration of every loop that is not a stage's    *)
          feed,      (* the streams s_stream, d_stream and primary           *)
          q,         (* q[x][l]: the streams along the chain                 *)
          pair,      (* merge: the words it has read                         *)
          first,     (* first_edge_sampling: where it is, and its root state *)
          n, at,     (* a stage: its iteration, and its next stream access   *)
          hand,      (* what it has read in this iteration                   *)
          kept,      (* what it keeps over iterations                        *)
          output     (* the result array                                     *)

stages == <<n, at, hand, kept>>
vars == <<run, i, feed, q, pair, first, stages, output>>

-----------------------------------------------------------------------------
(* Edges.                                                                  *)

(* merge: the smaller end first.                                           *)
Ordered(s, d) == IF s > d THEN [s |-> d, d |-> s] ELSE [s |-> s, d |-> d]

Adjacent(e1, e2) == \/ e1.s = e2.s \/ e1.s = e2.d
                    \/ e1.d = e2.s \/ e1.d = e2.d

Close(e1, e2) == \/ e1.s = e2.s /\ e1.d = e2.d
                 \/ e1.d = e2.s /\ e1.s = e2.d

(* get_ms and get_md: the end that e1, e2 does not share with the other.   *)
FarEnd(e1, e2) == IF e1.s \in {e2.s, e2.d} THEN e1.d ELSE e1.s

(* A slip: the nearer end of the second edge.                              *)
MatchNear(e1, e2) == [s |-> FarEnd(e1, e2), d |-> IF e2.s \in {e1.s, e1.d} THEN e2.s ELSE e2.d]

Match(e1, e2) == [s |-> FarEnd(e1, e2), d |-> FarEnd(e2, e1)]

(* first_edge_sampling: the stage that is to start over at the counter-th  *)
(* edge; 0 also stands for "none".                                         *)
Decision(counter, r) ==
    LET sample == (counter * (r + 1)) \div Word
    IN IF sample <= E_NUM THEN sample ELSE 0

(* reservoir_sampling: the adj-th adjacent edge becomes the second edge.   *)
Chosen(adj, r2) == (adj * r2) \div Word = 0

(* A slip: the flag survives the restart.                                  *)
RestartedWithFlag(reg, e) == [reg EXCEPT !.first = e, !.adj = 0, !.second = FALSE]

(* What a stage keeps, after one more edge.                                *)
Restarted(reg, e) == [reg EXCEPT !.first = e, !.adj = 0, !.second = FALSE, !.matched = FALSE]

Counted(reg, e, r2) ==
    LET more == [reg EXCEPT !.adj = @ + 1]
    IN IF Chosen(reg.adj + 1, r2)
       THEN [more EXCEPT !.second = TRUE, !.match = Match(reg.first, e)]
       ELSE [more EXCEPT !.matched = @ \/ (reg.second /\ Close(reg.match, e))]

Updated(k, reg, e, fe, r2) ==
    IF fe = k THEN Restarted(reg, e)
    ELSE IF reg.first # NoEdge /\ Adjacent(e, reg.first) THEN Counted(reg, e, r2)
    ELSE reg

-----------------------------------------------------------------------------
(* Iterations and accesses.                                                *)
Turn(loop) == i' = [i EXCEPT ![loop] = @ + 1]

Get(x, l) == /\ CanRead(q[x][l])
             /\ q' = [q EXCEPT ![x][l] = Tail(@)]

Put(x, l, item) == /\ CanWrite(q[x][l], Depth)
                   /\ q' = [q EXCEPT ![x][l] = Append(@, item)]

(* Loops that only write: read_input, twice, rng_state_update and          *)
(* dummy_stream.                                                           *)
Feeding(loop, x, item) ==
    /\ i[loop] < Size /\ CanWrite(feed[x], Depth)
    /\ feed' = [feed EXCEPT ![x] = Append(@, item)]
    /\ Turn(loop)
    /\ UNCHANGED <<run, q, pair, first, stages, output>>

ReadInputS == Feeding("read_s", "s_stream", run.s[i["read_s"]])
ReadInputD == Feeding("read_d", "d_stream", run.d[i["read_d"]])
UpdateState == Feeding("update", "primary", i["update"])

Dummy ==
    /\ i["dummy"] < Size /\ Put("res", 0, 0)
    /\ Turn("dummy")
    /\ UNCHANGED <<run, feed, pair, first, stages, output>>

(* merge: a word of s, a word of d, and the edge of the two.               *)
MergeRead ==
    /\ i["merge"] < Size /\ Len(pair) < 2
    /\ LET x == <<"s_stream", "d_stream">>[Len(pair) + 1]
       IN /\ CanRead(feed[x])
          /\ pair' = Append(pair, Head(feed[x]))
          /\ feed' = [feed EXCEPT ![x] = Tail(@)]
    /\ UNCHANGED <<run, i, q, first, stages, output>>

MergeWrite ==
    /\ Len(pair) = 2 /\ Put("edge", 0, Ordered(pair[1], pair[2]))
    /\ pair' = <<>>
    /\ Turn("merge")
    /\ UNCHANGED <<run, feed, first, stages, output>>

(* first_edge_sampling: takes a root state, passes it on, and decides.     *)
FirstRead ==
    /\ i["first"] < Size /\ first.at = "read" /\ CanRead(feed["primary"])
    /\ first' = [at |-> "pass", state |-> Head(feed["primary"])]
    /\ feed' = [feed EXCEPT !["primary"] = Tail(@)]
    /\ UNCHANGED <<run, i, q, pair, stages, output>>

FirstPass ==
    /\ first.at = "pass" /\ Put("state", 0, first.state)
    /\ first' = [first EXCEPT !.at = "decide"]
    /\ UNCHANGED <<run, i, feed, pair, stages, output>>

FirstDecide ==
    /\ first.at = "decide"
    /\ Put("fe", 0, Decision(i["first"] + 1, run.r[first.state]))
    /\ first' = [first EXCEPT !.at = "read"]
    /\ Turn("first")
    /\ UNCHANGED <<run, feed, pair, stages, output>>

(* reservoir_sampling: the eight stream accesses of an iteration, in the   *)
(* order of the code.                                                      *)
ReadAt == [res |-> 1, edge |-> 2, state |-> 4, fe |-> 6]
WriteAt == [edge |-> 3, state |-> 5, fe |-> 7, res |-> 8]

(* A slip: the item is looked at, and stays for the next iteration.        *)
Peek(k, x) ==
    /\ n[k] < Size /\ at[k] = ReadAt[x]
    /\ CanRead(q[x][k])
    /\ hand' = [hand EXCEPT ![k][x] = Head(q[x][k])]
    /\ at' = [at EXCEPT ![k] = @ + 1]
    /\ UNCHANGED <<run, i, feed, q, pair, first, n, kept, output>>

Take(k, x) ==
    /\ n[k] < Size /\ at[k] = ReadAt[x]
    /\ Get(x, k)
    /\ hand' = [hand EXCEPT ![k][x] = Head(q[x][k])]
    /\ at' = [at EXCEPT ![k] = @ + 1]
    /\ UNCHANGED <<run, i, feed, pair, first, n, kept, output>>

(* A slip: written over a full stream.                                     *)
PassOnUnchecked(k, x) ==
    /\ x # "res" /\ at[k] = WriteAt[x]
    /\ q' = [q EXCEPT ![x][k + 1] = Append(@, hand[k][x])]
    /\ at' = [at EXCEPT ![k] = @ + 1]
    /\ UNCHANGED <<run, i, feed, pair, first, n, hand, kept, output>>

PassOn(k, x) ==
    /\ x # "res" /\ at[k] = WriteAt[x]
    /\ Put(x, k + 1, hand[k][x])
    /\ at' = [at EXCEPT ![k] = @ + 1]
    /\ UNCHANGED <<run, i, feed, pair, first, n, hand, kept, output>>

(* A slip: the flag as it was before this edge.                            *)
SampleBefore(k) ==
    /\ at[k] = WriteAt["res"]
    /\ LET reg == Updated(k, kept[k], hand[k].edge, hand[k].fe, run.r2[hand[k].state])
       IN /\ kept' = [kept EXCEPT ![k] = reg]
          /\ Put("res", k + 1, IF kept[k].matched THEN reg.adj + hand[k].res ELSE hand[k].res)
    /\ at' = [at EXCEPT ![k] = 1]
    /\ n' = [n EXCEPT ![k] = @ + 1]
    /\ UNCHANGED <<run, i, feed, pair, first, hand, output>>

Sample(k) ==
    /\ at[k] = WriteAt["res"]
    /\ LET reg == Updated(k, kept[k], hand[k].edge, hand[k].fe, run.r2[hand[k].state])
       IN /\ kept' = [kept EXCEPT ![k] = reg]
          /\ Put("res", k + 1, IF reg.matched THEN reg.adj + hand[k].res ELSE hand[k].res)
    /\ at' = [at EXCEPT ![k] = 1]
    /\ n' = [n EXCEPT ![k] = @ + 1]
    /\ UNCHANGED <<run, i, feed, pair, first, hand, output>>

(* sink_stream behind the last stage, three times, and write_result.       *)
Sink(loop, x) ==
    /\ i[loop] < Size /\ Get(x, E_NUM - 1)
    /\ Turn(loop)
    /\ UNCHANGED <<run, feed, pair, first, stages, output>>

SinkAll == Sink("sink_edge", "edge") \/ Sink("sink_state", "state") \/ Sink("sink_fe", "fe")

WriteResult ==
    /\ i["write"] < Size /\ Get("res", E_NUM - 1)
    /\ output' = [output EXCEPT ![i["write"]] = Head(q["res"][E_NUM - 1])]
    /\ Turn("write")
    /\ UNCHANGED <<run, feed, pair, first, stages>>

(* The region returns when all its loops have.                             *)
AllDone == /\ \A loop \in Loop : i[loop] = Size
           /\ \A k \in Stage : n[k] = Size

Returned == AllDone /\ UNCHANGED vars

Init ==
    /\ run \in Run
    /\ i = [loop \in Loop |-> 0]
    /\ feed = [x \in Feed |-> <<>>]
    /\ q = [x \in Kind |-> [l \in Link |-> <<>>]]
    /\ pair = <<>>
    /\ first = [at |-> "read", state |-> 0]
    /\ n = [k \in Stage |-> 0]
    /\ at = [k \in Stage |-> 1]
    /\ hand = [k \in Stage |-> [res |-> 0, edge |-> NoEdge, state |-> 0, fe |-> 0]]
    /\ kept = [k \in Stage |-> [first |-> NoEdge, adj |-> 0, second |-> FALSE,
                                match |-> NoEdge, matched |-> FALSE]]
    /\ output = [j \in Index |-> 0]

StageStep(k) == \/ \E x \in Kind : Take(k, x) \/ PassOn(k, x)
                \/ Sample(k)

Next ==
    \/ ReadInputS \/ ReadInputD \/ UpdateState \/ Dummy
    \/ MergeRead \/ MergeWrite
    \/ FirstRead \/ FirstPass \/ FirstDecide
    \/ \E k \in Stage : StageStep(k)
    \/ SinkAll \/ WriteResult
    \/ Returned

Spec == Init /\ [][Next]_vars

-----------------------------------------------------------------------------
Item == [res |-> Words, edge |-> Edge, state |-> Index, fe |-> 0 .. E_NUM]

TypeOK ==
    /\ run \in Run /\ i \in [Loop -> 0 .. Size] /\ n \in [Stage -> 0 .. Size]
    /\ \A x \in Feed : Len(feed[x]) <= Depth
    /\ \A x \in Kind, l \in Link : q[x][l] \in Seq(Item[x]) /\ Len(q[x][l]) <= Depth
    /\ pair \in Seq(Words) /\ Len(pair) <= 2
    /\ at \in [Stage -> 1 .. 8]
    /\ \A k \in Stage : kept[k].adj \in 0 .. n[k]
    /\ \A k \in Stage : kept[k].first = NoEdge => ~kept[k].second

(* The j-th edge of the input, and the j-th decision.                      *)
EdgeAt(j) == Ordered(run.s[j], run.d[j])
DecisionAt(j) == Decision(j + 1, run.r[j])

(* What goes through the streams, but for the sums.                        *)
Expected == [s_stream |-> run.s, d_stream |-> run.d,
             edge |-> [j \in Index |-> EdgeAt(j)],
             primary |-> [j \in Index |-> j], state |-> [j \in Index |-> j],
             fe |-> [j \in Index |-> DecisionAt(j)]]

Slice(items, from, to) == [j \in 1 .. to - from |-> items[from + j - 1]]

(* How many items have been written to, and read from, a stream.           *)
Fed == [s_stream |-> i["read_s"], d_stream |-> i["read_d"], primary |-> i["update"]]
Fetched == [s_stream |-> IF pair # <<>> THEN i["merge"] + 1 ELSE i["merge"],
            d_stream |-> IF Len(pair) = 2 THEN i["merge"] + 1 ELSE i["merge"],
            primary |-> IF first.at # "read" THEN i["first"] + 1 ELSE i["first"]]

Source == [res |-> i["dummy"], edge |-> i["merge"], fe |-> i["first"],
           state |-> IF first.at = "decide" THEN i["first"] + 1 ELSE i["first"]]
Drained == [res |-> i["write"], edge |-> i["sink_edge"],
            state |-> i["sink_state"], fe |-> i["sink_fe"]]

Past(k, access) == IF at[k] > access THEN n[k] + 1 ELSE n[k]
Written(x, l) == IF l = 0 THEN Source[x] ELSE Past(l - 1, WriteAt[x])
Read(x, l) == IF l = E_NUM - 1 THEN Drained[x] ELSE Past(l, ReadAt[x])

(* Each stream holds exactly the items that have been written to it and    *)
(* not yet been read, in the order of the input, and so the three things   *)
(* that a stage puts together in an iteration, which come over separate    *)
(* streams through stages that read and write them at different times, all *)
(* belong to that iteration (reservoir_sampling, merge, and                *)
(* first_edge_sampling).                                                   *)
InStep ==
    /\ \A x \in Feed : feed[x] = Slice(Expected[x], Fetched[x], Fed[x])
    /\ \A x \in Kind \ {"res"}, l \in Link :
           q[x][l] = Slice(Expected[x], Read(x, l), Written(x, l))
    /\ \A l \in Link : Len(q["res"][l]) = Written("res", l) - Read("res", l)
    /\ \A k \in Stage, x \in Kind \ {"res"} :
           at[k] > ReadAt[x] => hand[k][x] = Expected[x][n[k]]

(* What stage k is to count after edge m, said of the input as a whole:    *)
(* the edges adjacent to the first edge, the last one it was told to start *)
(* from, once a chosen one of them, no other being chosen in between, was  *)
(* followed by the edge that closes the triangle of the two.               *)
Ends(e) == {e.s, e.d}

Triangle(e1, e2, e3) ==
    /\ Cardinality({Ends(e1), Ends(e2), Ends(e3)}) = 3
    /\ Cardinality(Ends(e1) \cup Ends(e2) \cup Ends(e3)) = 3
    /\ \A e \in {e1, e2, e3} : e.s # e.d

StartsOf(k, m) == {j \in 0 .. m : DecisionAt(j) = k}

AdjacentTo(f, m) == {j \in f + 1 .. m : Ends(EdgeAt(j)) \cap Ends(EdgeAt(f)) # {}}

ChosenOf(f, m) ==
    {j \in AdjacentTo(f, m) : Cardinality(AdjacentTo(f, j)) * run.r2[j] < Word}

Closed(f, m) ==
    \E j \in ChosenOf(f, m), c \in AdjacentTo(f, m) :
        /\ j < c /\ ChosenOf(f, m) \cap (j + 1 .. c) = {}
        /\ Triangle(EdgeAt(f), EdgeAt(j), EdgeAt(c))

Estimate(k, m) ==
    IF StartsOf(k, m) = {} THEN 0
    ELSE LET f == Max(StartsOf(k, m))
         IN IF Closed(f, m) THEN Cardinality(AdjacentTo(f, m)) ELSE 0

(* What a stage keeps is what the edges it has seen call for: nothing is   *)
(* left of the first edge it had before, and only a triangle is taken for  *)
(* one (reservoir_sampling, inputs in which no edge from a node to itself  *)
(* meets two parallel edges).                                              *)
StagesExact ==
    \A k \in Stage :
        LET m == n[k] - 1
        IN IF StartsOf(k, m) = {} THEN kept[k].first = NoEdge /\ ~kept[k].matched
           ELSE LET f == Max(StartsOf(k, m))
                IN /\ kept[k].first = EdgeAt(f)
                   /\ kept[k].adj = Cardinality(AdjacentTo(f, m))
                   /\ kept[k].second <=> ChosenOf(f, m) # {}
                   /\ kept[k].matched <=> Closed(f, m)

(* Every result in memory is the sum of what the stages are to count after *)
(* that edge, and no other, whatever the loops' speeds were (data_flow;    *)
(* the same inputs as in StagesExact, which the theorems call Plain: no    *)
(* edge from a node to itself beside two parallel edges at that node).     *)
ResultExact ==
    \A j \in 0 .. i["write"] - 1 :
        output[j] = MapThenSumSet(LAMBDA k : Estimate(k, j), Stage)

(* The streams are static: what a launch leaves in them, the next launch   *)
(* would take for its own.  When the region returns they are all empty:    *)
(* a consequence of InStep (data_flow, the loops' common bound).           *)
NothingLeftBehind ==
    AllDone => /\ \A x \in Feed : feed[x] = <<>>
               /\ \A x \in Kind, l \in Link : q[x][l] = <<>>

(* Which of them can make an access now: the guards of the actions.        *)
CanFeed(loop, x) == i[loop] < Size /\ CanWrite(feed[x], Depth)

CanMerge ==
    IF Len(pair) = 2 THEN CanWrite(q["edge"][0], Depth)
    ELSE i["merge"] < Size /\ CanRead(feed[<<"s_stream", "d_stream">>[Len(pair) + 1]])

CanDecide ==
    \/ first.at = "read" /\ i["first"] < Size /\ CanRead(feed["primary"])
    \/ first.at = "pass" /\ CanWrite(q["state"][0], Depth)
    \/ first.at = "decide" /\ CanWrite(q["fe"][0], Depth)

CanStage(k) ==
    \E x \in Kind : \/ n[k] < Size /\ at[k] = ReadAt[x] /\ CanRead(q[x][k])
                    \/ at[k] = WriteAt[x] /\ CanWrite(q[x][k + 1], Depth)

CanDrain(loop, x) == i[loop] < Size /\ CanRead(q[x][E_NUM - 1])

CanAct ==
    \/ CanFeed("read_s", "s_stream") \/ CanFeed("read_d", "d_stream")
    \/ CanFeed("update", "primary")
    \/ i["dummy"] < Size /\ CanWrite(q["res"][0], Depth)
    \/ CanMerge \/ CanDecide
    \/ \E k \in Stage : CanStage(k)
    \/ CanDrain("sink_edge", "edge") \/ CanDrain("sink_state", "state")
    \/ CanDrain("sink_fe", "fe") \/ CanDrain("write", "res")

(* As small as the streams are, the loops never wait for each other in a   *)
(* circle, although edge, state, decision and sum fork at one stage and    *)
(* join at the next.  Since every step is an access that some loop makes   *)
(* once, the region then returns (data_flow, the depths of the streams).   *)
NeverStuck == AllDone \/ CanAct

=============================================================================
